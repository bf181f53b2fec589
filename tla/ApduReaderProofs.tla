--------------------------- MODULE ApduReaderProofs ---------------------------
(***************************************************************************)
(* Proofs about ApduReader, for every stream of frames, however TCP cuts    *)
(* it: induction over the numbers, what FlattenSeq computes, the types of   *)
(* the reader, and that it stays in step with the frames.                   *)
(***************************************************************************)
EXTENDS ApduReader, WellFoundedInduction, TLAPS

LEMMA Least ==
    ASSUME NEW T \in SUBSET Nat, T # {}
    PROVE  \E x \in T : \A y \in T : x <= y
  <1> DEFINE R == OpToRel(<, Nat)
  <1>1. IsWellFoundedOn(R, Nat)
    BY NatLessThanWellFounded
  <1>2. \A x, y \in Nat : y < x => <<y, x>> \in R
    BY DEF OpToRel
  <1> HIDE DEF R
  <1>3. PICK x \in T : \A y \in T : ~(<<y, x>> \in R)
    BY <1>1, WFMin
  <1>4. \A y \in T : ~(y < x)
    BY <1>2, <1>3
  <1> QED
    BY <1>3, <1>4

LEMMA SetInduction ==
    ASSUME NEW T \in SUBSET Nat, 0 \in T, \A n \in T : n + 1 \in T
    PROVE  T = Nat
  <1> SUFFICES ASSUME T # Nat PROVE FALSE
    OBVIOUS
  <1>1. PICK x \in Nat \ T : \A y \in Nat \ T : x <= y
    BY Least
  <1>2. x # 0 /\ x - 1 \in Nat
    BY <1>1
  <1>3. x - 1 \in T
    BY <1>1, <1>2
  <1> QED
    BY <1>1, <1>3

LEMMA ConcatParts ==
    ASSUME NEW S, NEW s \in Seq(S), NEW t \in Seq(S)
    PROVE  /\ Len(s) \in Nat /\ Len(t) \in Nat /\ Len(s \o t) = Len(s) + Len(t)
           /\ Len(s) <= Len(s \o t)
           /\ \A j \in 1..Len(s) : (s \o t)[j] = s[j]
           /\ \A j \in 1..Len(t) : (s \o t)[Len(s) + j] = t[j]
  OBVIOUS

\* The recursion inside FlattenSeq.
Flattening(s, f) == f = [i \in 1..Len(s) |-> IF i = 1 THEN s[i] ELSE f[i - 1] \o s[i]]

LEMMA FlatteningExists ==
    ASSUME NEW s, Len(s) \in Nat
    PROVE  \E f : Flattening(s, f)
  <1> DEFINE Upto(f, n) == f = [i \in 1..n |-> IF i = 1 THEN s[i] ELSE f[i - 1] \o s[i]]
             T == {k \in Nat : \E f : Upto(f, k)}
  <1>1. 0 \in T
    <2>1. Upto(<<>>, 0)
      OBVIOUS
    <2> QED
      BY <2>1
  <1>2. ASSUME NEW k \in T PROVE k + 1 \in T
    <2>1. PICK f : Upto(f, k)
      OBVIOUS
    <2> DEFINE g == [i \in 1..(k + 1) |-> IF i = 1 THEN s[i] ELSE f[i - 1] \o s[i]]
    <2>2. \A i \in 1..k : f[i] = IF i = 1 THEN s[i] ELSE f[i - 1] \o s[i]
      BY <2>1
    <2>3. \A i \in 1..k : g[i] = f[i]
      BY <2>2
    <2>4. g = [i \in 1..(k + 1) |-> g[i]]
          /\ \A i \in 1..(k + 1) : g[i] = IF i = 1 THEN s[i] ELSE f[i - 1] \o s[i]
      OBVIOUS
    <2> HIDE DEF g
    <2>5. \A i \in 1..(k + 1) : g[i] = IF i = 1 THEN s[i] ELSE g[i - 1] \o s[i]
      <3> SUFFICES ASSUME NEW i \in 1..(k + 1), i # 1 PROVE g[i - 1] = f[i - 1]
        BY <2>4
      <3> QED
        BY <2>3
    <2>6. Upto(g, k + 1)
      BY <2>4, <2>5
    <2>7. \E h : Upto(h, k + 1)
      BY <2>6
    <2> HIDE DEF Upto
    <2> QED
      BY <2>7
  <1>3. T = Nat
    BY <1>1, <1>2, SetInduction
  <1>4. \E f : Upto(f, Len(s))
    BY <1>3
  <1> QED
    BY <1>4 DEF Flattening

LEMMA FlattenUnfolds ==
    ASSUME NEW s, Len(s) \in Nat \ {0}
    PROVE  \E f : Flattening(s, f) /\ FlattenSeq(s) = f[Len(s)]
  <1> DEFINE f == CHOOSE f : f = [i \in 1..Len(s) |-> IF i = 1 THEN s[i] ELSE f[i - 1] \o s[i]]
  <1>1. f = [i \in 1..Len(s) |-> IF i = 1 THEN s[i] ELSE f[i - 1] \o s[i]]
    BY FlatteningExists DEF Flattening
  <1>2. FlattenSeq(s) = f[Len(s)]
    BY DEF FlattenSeq
  <1> QED
    BY <1>1, <1>2 DEF Flattening

LEMMA FlatteningStep ==
    ASSUME NEW s, NEW f, Len(s) \in Nat, Flattening(s, f)
    PROVE  \A i \in 1..Len(s) : f[i] = IF i = 1 THEN s[i] ELSE f[i - 1] \o s[i]
  BY DEF Flattening

\* It depends on the sequences up to the position only.
LEMMA FlatteningUnique ==
    ASSUME NEW s, NEW t, NEW f, NEW g, Len(s) \in Nat, Len(t) \in Nat, Len(s) <= Len(t),
           Flattening(s, f), Flattening(t, g), \A i \in 1..Len(s) : s[i] = t[i]
    PROVE  \A i \in 1..Len(s) : f[i] = g[i]
  <1> DEFINE T == {i \in Nat : i \in 1..Len(s) => f[i] = g[i]}
  <1>1. 0 \in T
    OBVIOUS
  <1>2. ASSUME NEW i \in T PROVE i + 1 \in T
    <2> SUFFICES ASSUME i + 1 \in 1..Len(s) PROVE f[i + 1] = g[i + 1]
      OBVIOUS
    <2>1. f[i + 1] = IF i + 1 = 1 THEN s[i + 1] ELSE f[i + 1 - 1] \o s[i + 1]
      BY FlatteningStep
    <2>2. g[i + 1] = IF i + 1 = 1 THEN t[i + 1] ELSE g[i + 1 - 1] \o t[i + 1]
      BY FlatteningStep
    <2> QED
      BY <2>1, <2>2
  <1>3. T = Nat
    BY <1>1, <1>2, SetInduction
  <1>4. \A i \in Nat : i \in 1..Len(s) => f[i] = g[i]
    BY <1>3
  <1> QED
    BY <1>4

LEMMA FlatteningType ==
    ASSUME NEW S, NEW s \in Seq(Seq(S)), NEW f, Flattening(s, f)
    PROVE  \A i \in 1..Len(s) : f[i] \in Seq(S)
  <1> DEFINE T == {i \in Nat : i \in 1..Len(s) => f[i] \in Seq(S)}
  <1>1. 0 \in T
    OBVIOUS
  <1>2. ASSUME NEW i \in T PROVE i + 1 \in T
    <2> SUFFICES ASSUME i + 1 \in 1..Len(s) PROVE f[i + 1] \in Seq(S)
      OBVIOUS
    <2>1. f[i + 1] = IF i + 1 = 1 THEN s[i + 1] ELSE f[i + 1 - 1] \o s[i + 1]
      BY FlatteningStep
    <2> QED
      BY <2>1
  <1>3. T = Nat
    BY <1>1, <1>2, SetInduction
  <1>4. \A i \in Nat : i \in 1..Len(s) => f[i] \in Seq(S)
    BY <1>3
  <1> QED
    BY <1>4

LEMMA FlattenEmpty == FlattenSeq(<<>>) = <<>>
  BY DEF FlattenSeq

LEMMA FlattenSingle ==
    ASSUME NEW s, Len(s) = 1
    PROVE  FlattenSeq(s) = s[1]
  <1>0. Len(s) \in Nat \ {0} /\ Len(s) \in Nat /\ 1 \in 1..Len(s)
    OBVIOUS
  <1>1. PICK f : Flattening(s, f) /\ FlattenSeq(s) = f[Len(s)]
    BY <1>0, FlattenUnfolds
  <1> QED
    BY <1>0, <1>1, FlatteningStep

LEMMA FlattenType ==
    ASSUME NEW S, NEW s \in Seq(Seq(S))
    PROVE  FlattenSeq(s) \in Seq(S)
  <1>1. CASE Len(s) = 0
    BY <1>1 DEF FlattenSeq
  <1>2. CASE Len(s) # 0
    BY <1>2, FlattenUnfolds, FlatteningType
  <1> QED
    BY <1>1, <1>2

\* One more sequence.
LEMMA FlattenLonger ==
    ASSUME NEW s, NEW t, Len(s) \in Nat \ {0}, Len(t) = Len(s) + 1,
           \A i \in 1..Len(s) : s[i] = t[i]
    PROVE  FlattenSeq(t) = FlattenSeq(s) \o t[Len(t)]
  <1>1. PICK g : Flattening(t, g) /\ FlattenSeq(t) = g[Len(t)]
    BY FlattenUnfolds
  <1>2. PICK f : Flattening(s, f) /\ FlattenSeq(s) = f[Len(s)]
    BY FlattenUnfolds
  <1>3. f[Len(s)] = g[Len(s)]
    BY <1>1, <1>2, FlatteningUnique
  <1>4. g[Len(t)] = IF Len(t) = 1 THEN t[Len(t)] ELSE g[Len(t) - 1] \o t[Len(t)]
    BY <1>1, FlatteningStep
  <1>5. Len(t) # 1 /\ Len(t) - 1 = Len(s)
    OBVIOUS
  <1> QED
    BY <1>1, <1>2, <1>3, <1>4, <1>5

LEMMA FlattenAppend ==
    ASSUME NEW S, NEW s \in Seq(Seq(S)), NEW x \in Seq(S)
    PROVE  FlattenSeq(Append(s, x)) = FlattenSeq(s) \o x
  <1> DEFINE t == Append(s, x)
  <1>1. /\ Len(t) = Len(s) + 1 /\ Len(s) \in Nat /\ t[Len(t)] = x
        /\ \A i \in 1..Len(s) : s[i] = t[i]
    OBVIOUS
  <1> HIDE DEF t
  <1>2. CASE Len(s) = 0
    <2>1. s = <<>> /\ <<>> \o x = x /\ Len(t) = 1 /\ t[1] = x
      BY <1>1, <1>2
    <2> QED
      BY <2>1, FlattenEmpty, FlattenSingle DEF t
  <1>3. CASE Len(s) # 0
    <2>1. FlattenSeq(t) = FlattenSeq(s) \o t[Len(t)]
      BY <1>1, <1>3, FlattenLonger
    <2> QED
      BY <1>1, <2>1 DEF t
  <1> QED
    BY <1>2, <1>3

\* Where each sequence starts in the flattened one, and that it is there.
Offsets(s, off) ==
    /\ off \in [0..Len(s) -> Nat]
    /\ off[0] = 0 /\ off[Len(s)] = Len(FlattenSeq(s))
    /\ \A i \in 1..Len(s) :
          /\ off[i] = off[i - 1] + Len(s[i])
          /\ off[i] <= Len(FlattenSeq(s))
          /\ \A j \in 1..Len(s[i]) : FlattenSeq(s)[off[i - 1] + j] = s[i][j]

\* What is built up to a position stays at the front.
LEMMA FlatteningGrows ==
    ASSUME NEW f, NEW n \in Nat, \A k \in 1..n : Len(f[k]) \in Nat,
           \A k \in 1..n : k + 1 \in 1..n =>
               Len(f[k]) <= Len(f[k + 1]) /\ \A j \in 1..Len(f[k]) : f[k + 1][j] = f[k][j]
    PROVE  \A i \in 1..n : Len(f[i]) <= Len(f[n]) /\ \A j \in 1..Len(f[i]) : f[n][j] = f[i][j]
  <1> SUFFICES ASSUME NEW i \in 1..n
               PROVE  Len(f[i]) <= Len(f[n]) /\ \A j \in 1..Len(f[i]) : f[n][j] = f[i][j]
    OBVIOUS
  <1> DEFINE Stays(k) == Len(f[i]) <= Len(f[k]) /\ \A j \in 1..Len(f[i]) : f[k][j] = f[i][j]
             T == {k \in Nat : k \in i..n => Stays(k)}
  <1>1. Stays(i)
    OBVIOUS
  <1>2. ASSUME NEW k \in i..n, k + 1 \in i..n, Stays(k) PROVE Stays(k + 1)
    <2>1. k \in 1..n /\ k + 1 \in 1..n /\ k \in Nat
      BY <1>2
    <2>2. Len(f[k]) \in Nat /\ Len(f[i]) \in Nat /\ Len(f[k + 1]) \in Nat
      BY <2>1
    <2> QED
      BY <1>2, <2>1, <2>2
  <1> HIDE DEF Stays
  <1>3. 0 \in T
    OBVIOUS
  <1>4. ASSUME NEW k \in T PROVE k + 1 \in T
    <2> SUFFICES ASSUME k + 1 \in i..n PROVE Stays(k + 1)
      OBVIOUS
    <2>1. k + 1 = i \/ k \in i..n
      OBVIOUS
    <2> QED
      BY <1>1, <1>2, <2>1
  <1>5. T = Nat
    BY <1>3, <1>4, SetInduction
  <1>6. n \in i..n => Stays(n)
    BY <1>5
  <1> QED
    BY <1>6 DEF Stays

LEMMA OffsetsExist ==
    ASSUME NEW S, NEW s \in Seq(Seq(S))
    PROVE  \E off : Offsets(s, off)
  <1>1. CASE Len(s) = 0
    <2>1. s = <<>> /\ FlattenSeq(s) = <<>>
      BY <1>1, FlattenEmpty
    <2> DEFINE off == [i \in 0..0 |-> 0]
    <2>2. off \in [0..0 -> Nat] /\ off[0] = 0
      OBVIOUS
    <2>3. Len(s) = 0 /\ Len(FlattenSeq(s)) = 0
      BY <2>1
    <2> HIDE DEF off
    <2>4. Offsets(s, off)
      BY <2>2, <2>3 DEF Offsets
    <2> QED
      BY <2>4
  <1>2. CASE Len(s) # 0
    <2>0. Len(s) \in Nat \ {0}
      BY <1>2
    <2>1. PICK f : Flattening(s, f) /\ FlattenSeq(s) = f[Len(s)]
      BY <2>0, FlattenUnfolds
    <2>2. \A i \in 1..Len(s) : f[i] \in Seq(S)
      BY <2>1, FlatteningType
    <2>3. f[1] = s[1]
      BY <2>0, <2>1, FlatteningStep
    <2>4. ASSUME NEW k \in 1..Len(s), k + 1 \in 1..Len(s)
          PROVE  /\ Len(f[k + 1]) = Len(f[k]) + Len(s[k + 1])
                 /\ Len(f[k]) <= Len(f[k + 1])
                 /\ \A j \in 1..Len(f[k]) : f[k + 1][j] = f[k][j]
                 /\ \A j \in 1..Len(s[k + 1]) : f[k + 1][Len(f[k]) + j] = s[k + 1][j]
      <3>1. f[k + 1] = f[k] \o s[k + 1]
        <4>1. f[k + 1] = IF k + 1 = 1 THEN s[k + 1] ELSE f[k + 1 - 1] \o s[k + 1]
          BY <2>0, <2>1, <2>4, FlatteningStep
        <4>2. k + 1 # 1 /\ k + 1 - 1 = k
          BY <2>0
        <4> QED
          BY <4>1, <4>2
      <3> DEFINE a == f[k]
                 b == s[k + 1]
      <3>2. a \in Seq(S) /\ b \in Seq(S) /\ f[k + 1] = a \o b
        BY <2>2, <2>4, <3>1
      <3> HIDE DEF a, b
      <3>3. /\ Len(a) \in Nat /\ Len(b) \in Nat /\ Len(f[k + 1]) = Len(a) + Len(b)
            /\ Len(a) <= Len(f[k + 1])
            /\ \A j \in 1..Len(a) : f[k + 1][j] = a[j]
            /\ \A j \in 1..Len(b) : f[k + 1][Len(a) + j] = b[j]
        BY <3>2, ConcatParts
      <3> QED
        BY <3>3 DEF a, b
    <2> DEFINE n == Len(s)
               e == FlattenSeq(s)
               off == [i \in 0..n |-> IF i = 0 THEN 0 ELSE Len(f[i])]
    <2>5. \A i \in 1..n : Len(f[i]) \in Nat
      BY <2>2
    <2>6. \A i \in 1..n : Len(s[i]) \in Nat
      OBVIOUS
    <2>7. n \in Nat /\ n # 0
      BY <2>0
    <2>8. \A k \in 1..n : k + 1 \in 1..n =>
              /\ Len(f[k + 1]) = Len(f[k]) + Len(s[k + 1])
              /\ Len(f[k]) <= Len(f[k + 1])
              /\ \A j \in 1..Len(f[k]) : f[k + 1][j] = f[k][j]
              /\ \A j \in 1..Len(s[k + 1]) : f[k + 1][Len(f[k]) + j] = s[k + 1][j]
      BY <2>4
    <2>12. \A i \in 1..n : Len(f[i]) <= Len(f[n]) /\ \A j \in 1..Len(f[i]) : f[n][j] = f[i][j]
      <3> HIDE DEF n
      <3>1. \A k \in 1..n : k + 1 \in 1..n =>
                Len(f[k]) <= Len(f[k + 1]) /\ \A j \in 1..Len(f[k]) : f[k + 1][j] = f[k][j]
        BY <2>8
      <3>2. n \in Nat
        BY <2>7
      <3> QED
        BY <2>5, <3>1, <3>2, FlatteningGrows
    <2>9. e = f[n]
      BY <2>1
    <2>10. /\ off \in [0..n -> Nat] /\ off[0] = 0 /\ off[n] = Len(e)
           /\ \A i \in 1..n :
                 /\ off[i] = off[i - 1] + Len(s[i])
                 /\ off[i] <= Len(e)
                 /\ \A j \in 1..Len(s[i]) : e[off[i - 1] + j] = s[i][j]
      <3> HIDE DEF n, e
      <3>1. off \in [0..n -> Nat] /\ off[0] = 0 /\ \A i \in 1..n : off[i] = Len(f[i])
        BY <2>5, <2>7
      <3> HIDE DEF off
      <3>2. off[n] = Len(e)
        BY <2>7, <2>9, <3>1
      <3>3. ASSUME NEW i \in 1..n
            PROVE  /\ off[i - 1] \in Nat
                   /\ off[i] = off[i - 1] + Len(s[i])
                   /\ \A j \in 1..Len(s[i]) : f[i][off[i - 1] + j] = s[i][j]
        <4>1. CASE i = 1
          BY <2>3, <2>6, <3>1, <4>1
        <4>2. CASE i # 1
          <5>1. PICK k \in 1..n : i = k + 1
            <6>1. i - 1 \in 1..n /\ i = (i - 1) + 1
              BY <2>7, <4>2
            <6> QED
              BY <6>1
          <5>2. off[i] = Len(f[k + 1]) /\ off[i - 1] = Len(f[k]) /\ Len(f[k]) \in Nat
            BY <2>5, <3>1, <5>1
          <5> QED
            BY <2>8, <5>1, <5>2
        <4> QED
          BY <4>1, <4>2
      <3>4. ASSUME NEW i \in 1..n
            PROVE  off[i] <= Len(e) /\ \A j \in 1..Len(s[i]) : e[off[i - 1] + j] = s[i][j]
        <4>1. Len(f[i]) <= Len(f[n]) /\ \A j \in 1..Len(f[i]) : f[n][j] = f[i][j]
          BY <2>12
        <4>2. ASSUME NEW j \in 1..Len(s[i]) PROVE e[off[i - 1] + j] = s[i][j]
          <5>1. off[i - 1] + j \in 1..Len(f[i])
            BY <2>6, <3>1, <3>3
          <5> QED
            BY <2>9, <3>3, <4>1, <5>1
        <4> QED
          BY <2>9, <3>1, <4>1, <4>2
      <3> QED
        BY <3>1, <3>2, <3>3, <3>4
    <2>11. Offsets(s, off)
      BY <2>10 DEF Offsets
    <2> QED
      BY <2>11
  <1> QED
    BY <1>1, <1>2

-----------------------------------------------------------------------------
(***************************************************************************)
(* The stream of a connection.                                              *)
(***************************************************************************)
Octet == 0..255
Encoded(m) == [i \in DOMAIN m |-> Encode(m[i])]

LEMMA EncodeParts ==
    ASSUME NEW b, b \in Seq(Octet), Len(b) \in Octet
    PROVE  /\ Encode(b) \in Seq(Octet) /\ Len(Encode(b)) = 2 + Len(b)
           /\ Encode(b)[1] = START_BYTE /\ Encode(b)[2] = Len(b)
           /\ \A j \in 1..Len(b) : Encode(b)[2 + j] = b[j]
  <1> DEFINE h == <<START_BYTE, Len(b)>>
  <1>1. START_BYTE \in Octet
    BY ReaderAssumption DEF Octet
  <1>2. h \in Seq(Octet) /\ Len(h) = 2 /\ h[1] = START_BYTE /\ h[2] = Len(b)
    BY <1>1
  <1>3. Encode(b) = h \o b
    BY DEF Encode
  <1> HIDE DEF h
  <1>4. /\ Len(Encode(b)) = Len(h) + Len(b)
        /\ \A j \in 1..Len(h) : Encode(b)[j] = h[j]
        /\ \A j \in 1..Len(b) : Encode(b)[Len(h) + j] = b[j]
    <2>1. /\ Len(h \o b) = Len(h) + Len(b)
          /\ \A j \in 1..Len(h) : (h \o b)[j] = h[j]
          /\ \A j \in 1..Len(b) : (h \o b)[Len(h) + j] = b[j]
      <3>1. PICK S : h \in Seq(S) /\ b \in Seq(S)
        BY <1>2
      <3> QED
        BY <3>1, ConcatParts
    <2> QED
      BY <1>3, <2>1
  <1>5. Encode(b) \in Seq(Octet)
    BY <1>2, <1>3
  <1> QED
    BY <1>2, <1>4, <1>5

LEMMA MessageParts ==
    ASSUME NEW m \in Messages
    PROVE  /\ m \in Seq(Seq(Octet)) /\ Len(m) \in Nat
           /\ Encoded(m) \in Seq(Seq(Octet)) /\ Len(Encoded(m)) = Len(m)
           /\ \A i \in 1..Len(m) :
                 /\ m[i] \in Seq(Octet) /\ Len(m[i]) \in MIN_LEN..MAX_LEN
                 /\ Len(m[i]) \in Octet /\ Encoded(m)[i] = Encode(m[i])
  <1>1. m \in Seq(Seq(Octet)) /\ \A i \in DOMAIN m : Len(m[i]) \in MIN_LEN..MAX_LEN
    BY ReaderAssumption DEF Octet
  <1>2. DOMAIN m = 1..Len(m) /\ Len(m) \in Nat /\ \A i \in 1..Len(m) : m[i] \in Seq(Octet)
    BY <1>1
  <1>3. \A k \in MIN_LEN..MAX_LEN : k \in Octet
    BY ReaderAssumption DEF Octet
  <1>4. \A i \in 1..Len(m) : Len(m[i]) \in Octet
    BY <1>1, <1>2, <1>3
  <1>5. \A i \in 1..Len(m) : Encode(m[i]) \in Seq(Octet)
    BY <1>2, <1>4, EncodeParts
  <1>6. /\ Encoded(m) = [i \in 1..Len(m) |-> Encode(m[i])]
        /\ \A i \in 1..Len(m) : Encoded(m)[i] = Encode(m[i])
    BY <1>2 DEF Encoded
  <1>7. Encoded(m) \in Seq(Seq(Octet)) /\ Len(Encoded(m)) = Len(m)
    BY <1>2, <1>5, <1>6
  <1> QED
    BY <1>1, <1>2, <1>4, <1>6, <1>7

\* start[i] bytes of the stream come before the frame of m[i + 1].
Starts(m, start) ==
    /\ start \in [0..Len(m) -> Nat]
    /\ start[0] = 0 /\ start[Len(m)] = Len(FlattenSeq(Encoded(m)))
    /\ \A i \in 1..Len(m) :
          /\ start[i] = start[i - 1] + 2 + Len(m[i])
          /\ start[i] <= Len(FlattenSeq(Encoded(m)))
          /\ FlattenSeq(Encoded(m))[start[i - 1] + 1] = START_BYTE
          /\ FlattenSeq(Encoded(m))[start[i - 1] + 2] = Len(m[i])
          /\ \A j \in 1..Len(m[i]) : FlattenSeq(Encoded(m))[start[i - 1] + 2 + j] = m[i][j]

LEMMA StartsExist ==
    ASSUME NEW m \in Messages
    PROVE  \E start : Starts(m, start)
  <1> DEFINE e == Encoded(m)
             all == FlattenSeq(e)
  <1>1. PICK off : Offsets(e, off)
    BY MessageParts, OffsetsExist
  <1>2. Len(e) = Len(m) /\ Len(m) \in Nat
    BY MessageParts
  <1>3. /\ off \in [0..Len(m) -> Nat] /\ off[0] = 0 /\ off[Len(m)] = Len(all)
        /\ \A i \in 1..Len(m) :
              /\ off[i] = off[i - 1] + Len(e[i]) /\ off[i] <= Len(all)
              /\ \A j \in 1..Len(e[i]) : all[off[i - 1] + j] = e[i][j]
    BY <1>1, <1>2 DEF Offsets
  <1>4. ASSUME NEW i \in 1..Len(m)
        PROVE  /\ Len(e[i]) = 2 + Len(m[i]) /\ Len(m[i]) \in Nat
               /\ e[i][1] = START_BYTE /\ e[i][2] = Len(m[i])
               /\ \A j \in 1..Len(m[i]) : e[i][2 + j] = m[i][j]
    <2>1. m[i] \in Seq(Octet) /\ Len(m[i]) \in Octet /\ e[i] = Encode(m[i])
      BY MessageParts
    <2>2. Len(m[i]) \in Nat
      BY <2>1 DEF Octet
    <2> QED
      BY <2>1, <2>2, EncodeParts
  <1> HIDE DEF e, all
  <1>5. ASSUME NEW i \in 1..Len(m)
        PROVE  /\ off[i] = off[i - 1] + 2 + Len(m[i])
               /\ off[i] <= Len(all)
               /\ all[off[i - 1] + 1] = START_BYTE
               /\ all[off[i - 1] + 2] = Len(m[i])
               /\ \A j \in 1..Len(m[i]) : all[off[i - 1] + 2 + j] = m[i][j]
    <2>1. off[i - 1] \in Nat
      BY <1>2, <1>3
    <2>2. 1 \in 1..Len(e[i]) /\ 2 \in 1..Len(e[i])
      BY <1>4
    <2>3. all[off[i - 1] + 1] = START_BYTE /\ all[off[i - 1] + 2] = Len(m[i])
      BY <1>3, <1>4, <2>2
    <2>4. ASSUME NEW j \in 1..Len(m[i]) PROVE all[off[i - 1] + 2 + j] = m[i][j]
      <3>1. PICK k \in 1..Len(e[i]) : k = 2 + j /\ e[i][k] = m[i][j]
        BY <1>4
      <3>2. all[off[i - 1] + k] = m[i][j]
        BY <1>3, <3>1
      <3>3. PICK d \in Nat : d = off[i - 1]
        BY <2>1
      <3>4. d + k = d + 2 + j
        BY <3>1
      <3>5. all[d + k] = m[i][j]
        BY <3>2, <3>3
      <3>6. all[d + 2 + j] = m[i][j]
        BY <3>4, <3>5, Zenon
      <3> QED
        BY <3>3, <3>6, Zenon
    <2>5. off[i] = off[i - 1] + 2 + Len(m[i]) /\ off[i] <= Len(all)
      <3>1. off[i] = off[i - 1] + Len(e[i]) /\ off[i] <= Len(all)
        BY <1>3
      <3>2. Len(e[i]) = 2 + Len(m[i]) /\ Len(m[i]) \in Nat
        BY <1>4
      <3>3. off[i] = off[i - 1] + (2 + Len(m[i]))
        BY <3>1, <3>2, Zenon
      <3>4. \A a, b \in Nat : a + (2 + b) = a + 2 + b
        OBVIOUS
      <3> QED
        BY <2>1, <3>1, <3>2, <3>3, <3>4, Zenon
    <2> QED
      BY <2>3, <2>4, <2>5
  <1>6. Starts(m, off)
    BY <1>3, <1>5 DEF Starts, e, all
  <1> QED
    BY <1>6

\* What the stream of a connection is made of.
start == CHOOSE f : Starts(messages, f)

LEMMA StreamType ==
    ASSUME messages \in Messages
    PROVE  stream \in Seq(Octet) /\ Len(stream) \in Nat /\ stream = FlattenSeq(Encoded(messages))
  <1>1. stream = FlattenSeq(Encoded(messages))
    BY DEF stream, Encoded
  <1> QED
    BY <1>1, MessageParts, FlattenType

LEMMA StreamParts ==
    ASSUME messages \in Messages
    PROVE  /\ Len(messages) \in Nat
           /\ \A n \in 0..Len(messages) : start[n] \in Nat
           /\ start[0] = 0 /\ start[Len(messages)] = Len(stream)
           /\ \A n \in 0..Len(messages) : n # Len(messages) =>
                 LET body == messages[n + 1] IN
                 /\ body \in Seq(Octet) /\ Len(body) \in MIN_LEN..MAX_LEN /\ Len(body) \in Nat
                 /\ start[n + 1] = start[n] + 2 + Len(body)
                 /\ start[n + 1] <= Len(stream)
                 /\ stream[start[n] + 1] = START_BYTE
                 /\ stream[start[n] + 2] = Len(body)
                 /\ \A j \in 1..Len(body) : stream[start[n] + 2 + j] = body[j]
  <1>1. Starts(messages, start)
    BY StartsExist DEF start
  <1>2. stream = FlattenSeq(Encoded(messages))
    BY StreamType
  <1>3. /\ start \in [0..Len(messages) -> Nat]
        /\ start[0] = 0 /\ start[Len(messages)] = Len(stream)
        /\ \A i \in 1..Len(messages) :
              /\ start[i] = start[i - 1] + 2 + Len(messages[i])
              /\ start[i] <= Len(stream)
              /\ stream[start[i - 1] + 1] = START_BYTE
              /\ stream[start[i - 1] + 2] = Len(messages[i])
              /\ \A j \in 1..Len(messages[i]) : stream[start[i - 1] + 2 + j] = messages[i][j]
    BY <1>1, <1>2 DEF Starts
  <1>4. Len(messages) \in Nat
    BY MessageParts
  <1> SUFFICES ASSUME NEW n \in 0..Len(messages), n # Len(messages)
               PROVE  LET body == messages[n + 1] IN
                      /\ body \in Seq(Octet) /\ Len(body) \in MIN_LEN..MAX_LEN /\ Len(body) \in Nat
                      /\ start[n + 1] = start[n] + 2 + Len(body)
                      /\ start[n + 1] <= Len(stream)
                      /\ stream[start[n] + 1] = START_BYTE
                      /\ stream[start[n] + 2] = Len(body)
                      /\ \A j \in 1..Len(body) : stream[start[n] + 2 + j] = body[j]
    BY <1>3, <1>4
  <1>5. n + 1 \in 1..Len(messages) /\ n + 1 - 1 = n
    BY <1>4
  <1>6. /\ messages[n + 1] \in Seq(Octet) /\ Len(messages[n + 1]) \in MIN_LEN..MAX_LEN
        /\ Len(messages[n + 1]) \in Octet
    BY <1>5, MessageParts
  <1>7. Len(messages[n + 1]) \in Nat
    BY <1>6 DEF Octet
  <1>8. /\ start[n + 1] = start[n + 1 - 1] + 2 + Len(messages[n + 1])
        /\ start[n + 1] <= Len(stream)
        /\ stream[start[n + 1 - 1] + 1] = START_BYTE
        /\ stream[start[n + 1 - 1] + 2] = Len(messages[n + 1])
        /\ \A j \in 1..Len(messages[n + 1]) :
              stream[start[n + 1 - 1] + 2 + j] = messages[n + 1][j]
    BY <1>3, <1>5, SMTT(40)
  <1> QED
    BY <1>5, <1>6, <1>7, <1>8

-----------------------------------------------------------------------------
(***************************************************************************)
(* The reader's types.  In a body, the length byte is still where it was    *)
(* read, and was accepted.                                                  *)
(***************************************************************************)
ReaderInv ==
    /\ messages \in Messages
    /\ arrived \in 0..Len(stream) /\ pos \in 0..arrived
    /\ fin \in BOOLEAN /\ running \in BOOLEAN /\ lost \in BOOLEAN
    /\ pc \in {"select", "header", "body", "closed"}
    /\ received \in 0..MAX_LEN /\ received <= pos
    /\ pc = "header" => received <= 2
    /\ pc = "body" => /\ stream[pos - received] \in MIN_LEN..MAX_LEN
                      /\ received <= stream[pos - received]
    /\ cause \in {"none", "peer", "timeout", "header", "stop"}
    /\ handled \in Seq(Seq(Octet))

LEMMA StreamKept ==
    ASSUME UNCHANGED messages
    PROVE  stream' = stream /\ start' = start
  BY DEF stream, start, Starts, Encoded

LEMMA ReaderStart == Init => ReaderInv
  <1> SUFFICES ASSUME Init PROVE ReaderInv
    OBVIOUS
  <1>1. messages \in Messages /\ Len(stream) \in Nat
    BY StreamType DEF Init
  <1>2. fin \in BOOLEAN /\ running \in BOOLEAN /\ lost \in BOOLEAN
    BY DEF Init
  <1>3. MAX_LEN \in Nat
    BY ReaderAssumption
  <1>4. /\ arrived = 0 /\ pos = 0 /\ pc = "select" /\ received = 0 /\ cause = "none"
        /\ handled = <<>>
    BY DEF Init
  <1> QED
    BY <1>1, <1>2, <1>3, <1>4 DEF ReaderInv

LEMMA Bounds ==
    ASSUME ReaderInv
    PROVE  /\ MIN_LEN \in Nat /\ MAX_LEN \in Nat /\ MAX_LEN >= 2
           /\ Len(stream) \in Nat /\ stream \in Seq(Octet)
           /\ arrived \in Nat /\ pos \in Nat /\ received \in Nat
           /\ pos <= arrived /\ arrived <= Len(stream) /\ received <= pos
  BY ReaderAssumption, StreamType DEF ReaderInv

LEMMA Slice ==
    ASSUME NEW S, NEW s \in Seq(S), NEW a \in Nat, NEW b \in Nat, a <= b, b <= Len(s)
    PROVE  /\ SubSeq(s, a + 1, b) \in Seq(S) /\ Len(SubSeq(s, a + 1, b)) = b - a
           /\ \A j \in 1..(b - a) : SubSeq(s, a + 1, b)[j] = s[a + j]
  OBVIOUS

LEMMA ReaderStep == ReaderInv /\ [Next]_vars => ReaderInv'
  <1> SUFFICES ASSUME ReaderInv, [Next]_vars PROVE ReaderInv'
    OBVIOUS
  <1>0. /\ MIN_LEN \in Nat /\ MAX_LEN \in Nat /\ MAX_LEN >= 2
        /\ arrived \in Int /\ pos \in Int /\ received \in Int
    BY Bounds
  <1>1. ASSUME UNCHANGED vars PROVE ReaderInv'
    BY <1>1, StreamKept DEF ReaderInv, vars
  <1>2. ASSUME Arrive \/ PeerCloses \/ Signal PROVE ReaderInv'
    <2>1. UNCHANGED <<messages, pos, pc, received, cause, lost, handled>> /\ stream' = stream
      BY <1>2, StreamKept DEF Arrive, PeerCloses, Signal
    <2>2. fin' \in BOOLEAN /\ running' \in BOOLEAN
      BY <1>2, Zenon DEF Arrive, PeerCloses, Signal, ReaderInv
    <2>3. arrived' \in arrived..Len(stream)
      BY <1>0, <1>2 DEF Arrive, PeerCloses, Signal, ReaderInv
    <2> QED
      BY <1>0, <2>1, <2>2, <2>3 DEF ReaderInv
  <1>3. ASSUME Select \/ SelectInterrupted \/ RecvEnd PROVE ReaderInv'
    <2>1. UNCHANGED <<network, pos, lost, handled>> /\ stream' = stream
      BY <1>3, StreamKept DEF Select, SelectInterrupted, RecvEnd, network
    <2>2. /\ \/ pc' \in {"select", "header"} /\ received' = 0
             \/ pc' = "closed" /\ UNCHANGED received
          /\ cause' \in {cause, "stop", "peer"}
      BY <1>3 DEF Select, SelectInterrupted, RecvEnd, Close
    <2> QED
      BY <1>0, <2>1, <2>2 DEF ReaderInv, network
  <1>4. ASSUME Recv PROVE ReaderInv'
    <2>1. /\ pc \in {"header", "body"} /\ UNCHANGED <<network, pc, cause, lost, handled>>
          /\ stream' = stream
      BY <1>4, StreamKept DEF Recv, network
    <2>2. length \in Int /\ length <= MAX_LEN /\ (pc = "header" => length = 2)
      BY <1>0, <2>1 DEF length, ReaderInv
    <2>3. PICK k \in 1..(length - received) :
              pos + k <= arrived /\ pos' = pos + k /\ received' = received + k
      BY <1>4 DEF Recv
    <2>4. pos' - received' = pos - received /\ received' <= length /\ received' <= pos'
      BY <1>0, <2>2, <2>3 DEF ReaderInv
    <2> QED
      BY <1>0, <2>1, <2>2, <2>3, <2>4 DEF ReaderInv, network, length
  <1>5. ASSUME HeaderRead PROVE ReaderInv'
    <2>1. UNCHANGED <<network, pos, lost, handled>> /\ stream' = stream
      BY <1>5, StreamKept DEF HeaderRead, network
    <2>2. \/ /\ pc' = "body" /\ received' = 0 /\ UNCHANGED cause
             /\ stream[pos] \in MIN_LEN..MAX_LEN
          \/ pc' = "closed" /\ cause' = "header" /\ UNCHANGED received
      BY <1>5 DEF HeaderRead, HeaderValid, header, Close
    <2> QED
      BY <1>0, <2>1, <2>2 DEF ReaderInv, network
  <1>6. ASSUME BodyRead PROVE ReaderInv'
    <2>1. /\ UNCHANGED <<network, pos, lost, cause>> /\ stream' = stream
          /\ pc' = "select" /\ received' = 0
          /\ handled' = Append(handled, SubSeq(stream, pos - received + 1, pos))
      BY <1>6, StreamKept DEF BodyRead, network
    <2>2. SubSeq(stream, pos - received + 1, pos) \in Seq(Octet)
      <3> DEFINE a == pos - received
      <3>1. a \in Nat /\ a <= pos /\ pos \in Nat /\ pos <= Len(stream) /\ stream \in Seq(Octet)
        BY Bounds
      <3> HIDE DEF a
      <3>2. SubSeq(stream, a + 1, pos) \in Seq(Octet)
        BY <3>1, Slice
      <3> QED
        BY <3>2 DEF a
    <2>3. handled' \in Seq(Seq(Octet))
      BY <2>1, <2>2 DEF ReaderInv
    <2> QED
      BY <1>0, <2>1, <2>3 DEF ReaderInv, network
  <1>7. ASSUME RecvTimeout PROVE ReaderInv'
    <2>1. UNCHANGED <<network, pos, handled>> /\ stream' = stream
      BY <1>7, StreamKept DEF RecvTimeout, network
    <2>2. lost' \in BOOLEAN
      BY <1>7, Zenon DEF RecvTimeout, ReaderInv
    <2>3. \/ pc' = "select" /\ received' = 0 /\ UNCHANGED cause
          \/ pc' = "closed" /\ cause' = "timeout" /\ UNCHANGED received
      BY <1>7 DEF RecvTimeout, Close
    <2> QED
      BY <1>0, <2>1, <2>2, <2>3 DEF ReaderInv, network
  <1>8. CASE Waiting \/ Terminated
    BY <1>1, <1>8 DEF Waiting, Terminated
  <1> QED
    BY <1>1, <1>2, <1>3, <1>4, <1>5, <1>6, <1>7, <1>8 DEF Next, Reader

\* Whatever bytes come, also to a reader that is out of step with the stream: it asks for
\* no more than fits into frame[], and takes no more than it asked for.
THEOREM ReaderTypeCorrect == Spec => []TypeOK
  <1>1. ReaderInv => TypeOK
    BY ReaderAssumption DEF ReaderInv, TypeOK, length
  <1> QED
    BY <1>1, ReaderStart, ReaderStep, PTL DEF Spec

-----------------------------------------------------------------------------
(***************************************************************************)
(* In step: as long as no header byte was forgotten, the reader stands      *)
(* where its frame starts in the stream, plus what it has read of it.       *)
(***************************************************************************)
HandledPrefix ==
    /\ Len(handled) <= Len(messages)
    /\ \A i \in 1..Len(handled) : handled[i] = messages[i]

InStep ==
    /\ HandledPrefix
    /\ cause # "header"
    /\ pc = "select" => pos = start[Len(handled)]
    /\ pc = "header" => pos = start[Len(handled)] + received
    /\ pc = "body" => /\ Len(handled) # Len(messages)
                      /\ pos = start[Len(handled)] + 2 + received

FramesInv == ReaderInv /\ (~lost => InStep)

LEMMA InStepStart == Init => InStep
  <1> SUFFICES ASSUME Init PROVE InStep
    OBVIOUS
  <1>1. /\ messages \in Messages /\ handled = <<>> /\ cause = "none" /\ pc = "select" /\ pos = 0
    BY DEF Init
  <1>2. Len(messages) \in Nat /\ start[0] = 0
    BY <1>1, StreamParts
  <1>3. Len(handled) = 0
    BY <1>1
  <1> QED
    BY <1>1, <1>2, <1>3 DEF InStep, HandledPrefix

\* Before the end of the stream there is a whole frame, and its header is accepted.
LEMMA FrameAhead ==
    ASSUME ReaderInv, Len(handled) <= Len(messages), pos > start[Len(handled)]
    PROVE  Len(handled) # Len(messages)
  <1>1. Len(handled) \in Nat /\ Len(messages) \in Nat
    BY MessageParts DEF ReaderInv
  <1>2. start[Len(messages)] = Len(stream)
    BY StreamParts DEF ReaderInv
  <1>3. pos <= arrived /\ arrived <= Len(stream) /\ pos \in Nat /\ arrived \in Nat /\ Len(stream) \in Nat
    BY Bounds
  <1> QED
    BY <1>1, <1>2, <1>3

LEMMA InStepStep == FramesInv /\ [Next]_vars => (~lost' => InStep')
  <1> SUFFICES ASSUME ReaderInv, ~lost => InStep, [Next]_vars, ~lost' PROVE InStep'
    BY DEF FramesInv
  <1> DEFINE n == Len(handled)
             body == messages[n + 1]
  <1>0. ~lost /\ InStep
    <2>1. CASE RecvTimeout
      BY <2>1, Zenon DEF RecvTimeout
    <2>2. CASE ~RecvTimeout
      <3>1. UNCHANGED lost
        BY <2>2 DEF Next, Reader, vars, Arrive, PeerCloses, Signal, Select, SelectInterrupted,
                    Recv, HeaderRead, BodyRead, RecvEnd, Waiting, Terminated
      <3> QED
        BY <3>1, Zenon
    <2> QED
      BY <2>1, <2>2
  <1>a. /\ messages \in Messages /\ handled \in Seq(Seq(Octet)) /\ n \in Nat /\ n <= Len(messages)
        /\ Len(messages) \in Nat /\ start[n] \in Nat
        /\ pc \in {"select", "header", "body", "closed"}
    <2>1. messages \in Messages /\ handled \in Seq(Seq(Octet)) /\ n \in Nat
          /\ pc \in {"select", "header", "body", "closed"}
      BY DEF ReaderInv
    <2>2. n <= Len(messages)
      BY <1>0 DEF InStep, HandledPrefix
    <2>3. Len(messages) \in Nat /\ \A k \in 0..Len(messages) : start[k] \in Nat
      BY <2>1, StreamParts
    <2> QED
      BY <2>1, <2>2, <2>3
  <1>b. pos \in Nat /\ received \in Nat /\ Len(stream) \in Nat /\ pos <= Len(stream)
        /\ stream \in Seq(Octet)
    BY Bounds
  <1>c. n # Len(messages) =>
            /\ body \in Seq(Octet) /\ Len(body) \in MIN_LEN..MAX_LEN /\ Len(body) \in Nat
            /\ start[n + 1] = start[n] + 2 + Len(body)
            /\ start[n + 1] <= Len(stream)
            /\ stream[start[n] + 1] = START_BYTE
            /\ stream[start[n] + 2] = Len(body)
            /\ \A j \in 1..Len(body) : stream[start[n] + 2 + j] = body[j]
    <2>1. PICK k \in 0..Len(messages) : k = n
      BY <1>a
    <2>2. k # Len(messages) =>
            LET frame == messages[k + 1] IN
            /\ frame \in Seq(Octet) /\ Len(frame) \in MIN_LEN..MAX_LEN /\ Len(frame) \in Nat
            /\ start[k + 1] = start[k] + 2 + Len(frame)
            /\ start[k + 1] <= Len(stream)
            /\ stream[start[k] + 1] = START_BYTE
            /\ stream[start[k] + 2] = Len(frame)
            /\ \A j \in 1..Len(frame) : stream[start[k] + 2 + j] = frame[j]
      BY <1>a, StreamParts, Zenon
    <2> QED
      BY <2>1, <2>2
  <1>1. ASSUME UNCHANGED <<messages, pos, pc, received, handled, cause>> PROVE InStep'
    <2>1. start' = start /\ stream' = stream
      BY <1>1, StreamKept
    <2>2. HandledPrefix' <=> HandledPrefix
      BY <1>1 DEF HandledPrefix
    <2> QED
      BY <1>0, <1>1, <2>1, <2>2, Zenon DEF InStep
  <1>2. CASE Arrive \/ PeerCloses \/ Signal \/ Waiting \/ Terminated \/ UNCHANGED vars
    BY <1>1, <1>2 DEF Arrive, PeerCloses, Signal, Waiting, Terminated, vars
  <1>3. CASE Select
    <2>1. UNCHANGED <<messages, pos, handled, cause>> /\ pc = "select"
          /\ pc' = "header" /\ received' = 0 /\ start' = start
      BY <1>3, StreamKept DEF Select, network
    <2>2. pos = start[n] /\ HandledPrefix /\ cause # "header"
      BY <1>0, <2>1 DEF InStep
    <2>3. pos = start[n] + 0
      BY <1>a, <2>2
    <2> QED
      BY <2>1, <2>2, <2>3 DEF InStep, HandledPrefix
  <1>4. CASE SelectInterrupted \/ RecvEnd
    <2>1. UNCHANGED <<messages, handled>> /\ pc' = "closed" /\ cause' \in {"stop", "peer"}
      BY <1>4 DEF SelectInterrupted, RecvEnd, network, Close
    <2> QED
      BY <1>0, <2>1 DEF InStep, HandledPrefix
  <1>5. CASE Recv
    <2>1. UNCHANGED <<messages, handled, pc, cause>> /\ pc \in {"header", "body"} /\ start' = start
      BY <1>5, StreamKept DEF Recv, network
    <2>2. length \in Int
      BY <2>1, <1>b, ReaderAssumption DEF length, ReaderInv
    <2>3. PICK k \in 1..(length - received) : pos' = pos + k /\ received' = received + k
      BY <1>5 DEF Recv
    <2>4. k \in Int
      BY <1>b, <2>2
    <2>5. HandledPrefix' /\ cause' # "header"
      BY <1>0, <2>1 DEF InStep, HandledPrefix
    <2> DEFINE q == start[n]
    <2>6. /\ pc = "header" => pos = q + received
          /\ pc = "body" => n # Len(messages) /\ pos = q + 2 + received
      BY <1>0 DEF InStep
    <2>7. /\ pc = "header" => pos' = q + received'
          /\ pc = "body" => n # Len(messages) /\ pos' = q + 2 + received'
      <3>1. q \in Nat
        BY <1>a
      <3> HIDE DEF n, q
      <3> QED
        BY <1>b, <2>3, <2>4, <2>6, <3>1
    <2> QED
      BY <2>1, <2>5, <2>7 DEF InStep
  <1>6. CASE HeaderRead
    <2>1. /\ UNCHANGED <<messages, handled, pos>> /\ pc = "header" /\ received = 2
          /\ start' = start
      BY <1>6, StreamKept DEF HeaderRead, network
    <2>2. pos = start[n] + 2 /\ HandledPrefix /\ cause # "header"
      BY <1>0, <2>1 DEF InStep
    <2>3. n # Len(messages)
      BY <1>a, <2>2, FrameAhead
    <2>4. pos - 1 = start[n] + 1
      BY <1>a, <2>2
    <2>5. header = <<START_BYTE, Len(body)>>
      BY <1>c, <2>2, <2>3, <2>4 DEF header
    <2>6. HeaderValid(header)
      BY <1>c, <2>3, <2>5 DEF HeaderValid
    <2>7. pc' = "body" /\ received' = 0 /\ UNCHANGED cause
      BY <1>6, <2>6 DEF HeaderRead
    <2>8. pos = start[n] + 2 + 0
      BY <1>a, <2>2
    <2> QED
      BY <2>1, <2>2, <2>3, <2>7, <2>8 DEF InStep, HandledPrefix
  <1>7. CASE BodyRead
    <2>1. /\ UNCHANGED <<messages, pos, cause>> /\ pc = "body" /\ received = length
          /\ pc' = "select" /\ start' = start
          /\ handled' = Append(handled, SubSeq(stream, pos - received + 1, pos))
      BY <1>7, StreamKept DEF BodyRead, network
    <2>2. n # Len(messages) /\ pos = start[n] + 2 + received /\ HandledPrefix /\ cause # "header"
      BY <1>0, <2>1 DEF InStep
    <2>3. pos - received = start[n] + 2
      BY <1>a, <1>b, <2>2
    <2>4. length = Len(body)
      BY <1>c, <2>1, <2>2, <2>3 DEF length
    <2>5. start[n + 1] = pos
      BY <1>a, <1>b, <1>c, <2>1, <2>2, <2>4
    <2> DEFINE a == pos - received
               got == SubSeq(stream, a + 1, pos)
    <2>6. a \in Nat /\ a <= pos /\ pos - a = Len(body)
      <3>1. a = start[n] + 2 /\ start[n] \in Nat /\ received = Len(body) /\ received <= pos
        BY <1>a, <2>1, <2>3, <2>4, Bounds
      <3>2. a \in Nat
        BY <3>1
      <3>3. pos - a = received /\ a <= pos
        BY <1>b
      <3> QED
        BY <3>1, <3>2, <3>3
    <2>7. /\ got \in Seq(Octet) /\ Len(got) = Len(body)
          /\ \A j \in 1..Len(body) : got[j] = stream[a + j]
      <3> HIDE DEF a
      <3>1. /\ got \in Seq(Octet) /\ Len(got) = pos - a
            /\ \A j \in 1..(pos - a) : got[j] = stream[a + j]
        BY <1>b, <2>6, Slice
      <3> QED
        BY <2>6, <3>1
    <2>8. \A j \in 1..Len(body) : got[j] = body[j]
      BY <1>c, <2>2, <2>3, <2>7
    <2>9. got = body
      <3>1. body \in Seq(Octet)
        BY <1>c, <2>2
      <3> HIDE DEF got, body
      <3> QED
        BY <2>7, <2>8, <3>1
    <2>10. handled' = Append(handled, body)
      BY <2>1, <2>9
    <2>11. Len(handled') = n + 1 /\ \A i \in 1..(n + 1) : handled'[i] = messages[i]
      <3> HIDE DEF body
      <3>1. Len(handled') = n + 1 /\ handled'[n + 1] = body /\ \A i \in 1..n : handled'[i] = handled[i]
        BY <1>a, <2>10
      <3>2. body = messages[n + 1]
        BY DEF body
      <3> QED
        BY <1>a, <2>2, <3>1, <3>2 DEF HandledPrefix
    <2>12. n + 1 <= Len(messages)
      BY <1>a, <2>2
    <2> HIDE DEF n
    <2> QED
      BY <2>1, <2>2, <2>5, <2>11, <2>12 DEF InStep, HandledPrefix
  <1>8. CASE RecvTimeout
    <2>1. /\ UNCHANGED <<messages, pos, handled>> /\ pc \in {"header", "body"} /\ start' = start
          /\ \/ /\ pc = "header" /\ pc' = "select" /\ UNCHANGED cause
                /\ lost' = (lost \/ received > 0)
             \/ pc' = "closed" /\ cause' = "timeout"
      BY <1>8, StreamKept DEF RecvTimeout, network, Close
    <2>2. CASE pc' = "closed"
      BY <1>0, <2>1, <2>2 DEF InStep, HandledPrefix
    <2>3. CASE pc' # "closed"
      <3>1. pc = "header" /\ pc' = "select" /\ UNCHANGED cause /\ ~(received > 0)
        BY <2>1, <2>3
      <3>2. received = 0
        BY <1>b, <3>1
      <3>3. pos = start[n] /\ HandledPrefix /\ cause # "header"
        BY <1>0, <1>a, <3>1, <3>2 DEF InStep
      <3> QED
        BY <2>1, <3>1, <3>3 DEF InStep, HandledPrefix
    <2> QED
      BY <2>2, <2>3
  <1> QED
    BY <1>2, <1>3, <1>4, <1>5, <1>6, <1>7, <1>8 DEF Next, Reader

LEMMA FramesInvariant == Spec => []FramesInv
  <1>1. Init => FramesInv
    BY ReaderStart, InStepStart DEF FramesInv
  <1>2. FramesInv /\ [Next]_vars => FramesInv'
    BY ReaderStep, InStepStep DEF FramesInv
  <1> QED
    BY <1>1, <1>2, PTL DEF Spec

\* What was handled is the front of what was sent.
LEMMA PrefixHandled ==
    ASSUME FramesInv, ~lost
    PROVE  /\ IsPrefix(handled, messages) /\ cause # "header"
           /\ \A i \in 1..Len(handled) : \E j \in DOMAIN messages : handled[i] = messages[j]
  <1>1. HandledPrefix /\ cause # "header"
    BY DEF FramesInv, InStep
  <1>2. /\ messages \in Seq(Seq(Octet)) /\ handled \in Seq(Seq(Octet))
        /\ Len(messages) \in Nat /\ Len(handled) \in Nat
    BY MessageParts DEF FramesInv, ReaderInv
  <1>3. DOMAIN handled = 1..Len(handled) /\ DOMAIN messages = 1..Len(messages)
    BY <1>2
  <1>4. handled = SubSeq(messages, 1, Len(handled))
    BY <1>1, <1>2 DEF HandledPrefix
  <1>5. IsPrefix(handled, messages)
    BY <1>1, <1>4 DEF IsPrefix, HandledPrefix
  <1>6. \A i \in 1..Len(handled) : i \in DOMAIN messages /\ handled[i] = messages[i]
    BY <1>1, <1>2, <1>3 DEF HandledPrefix
  <1> QED
    BY <1>1, <1>5, <1>6

\* However TCP cuts a stream of any number of frames of any lengths and contents: the
\* handler is given exactly the frames that were sent, in order, and no header is refused,
\* as long as no time out took a header byte with it.
THEOREM FramesIntact == Spec => []FramesIntactUnlessLost
  <1>1. FramesInv => FramesIntactUnlessLost
    BY PrefixHandled DEF FramesIntactUnlessLost
  <1> QED
    BY <1>1, FramesInvariant, PTL
=============================================================================
