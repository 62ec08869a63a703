----------------------------- MODULE LeftFolds ------------------------------
(***************************************************************************)
(* What a left fold over a sequence passes through.                          *)
(***************************************************************************)
EXTENDS NaturalFacts, Sequences, SequencesExt

CONSTANT Op(_, _, _)

Fold(p, base, seq) == FoldLeft(LAMBDA x, e : Op(p, x, e), base, seq)

(* The greatest of 1 to i.                                                    *)
LEMMA MaxInterval == \A i \in Nat \ {0} : Max(1 .. i) = i
<1>. SUFFICES ASSUME NEW i \in Nat \ {0} PROVE Max(1 .. i) = i
  OBVIOUS
<1>1. i \in 1 .. i /\ \A y \in 1 .. i : i >= y
  OBVIOUS
<1>2. \A x \in 1 .. i : (\A y \in 1 .. i : x >= y) => x = i
  OBVIOUS
<1>. QED BY <1>1, <1>2 DEF Max

(* The table that FoldLeft looks its result up in.                            *)
IsTable(g, p, base, seq, k) ==
  g = [s \in SUBSET (1 .. k) |->
         IF s = {} THEN base ELSE Op(p, g[s \ {Max(s)}], seq[Max(s)])]

LEMMA TableExists ==
  ASSUME NEW p, NEW base, NEW seq, NEW n \in Nat
  PROVE  \E g : IsTable(g, p, base, seq, n)
<1>. DEFINE D == {k \in Nat : \E g : IsTable(g, p, base, seq, k)}
<1>1. 0 \in D
  <2>. DEFINE g == [s \in SUBSET (1 .. 0) |-> base]
  <2>1. \A s \in SUBSET (1 .. 0) : s = {}
    OBVIOUS
  <2>2. g = [s \in SUBSET (1 .. 0) |->
         IF s = {} THEN base ELSE Op(p, g[s \ {Max(s)}], seq[Max(s)])]
    BY <2>1, Zenon
  <2>3. IsTable(g, p, base, seq, 0)
    BY <2>2 DEF IsTable
  <2>. QED BY <2>3
<1>2. ASSUME NEW k \in D PROVE k + 1 \in D
  <2>0. k \in Nat /\ k + 1 \in Nat
    OBVIOUS
  <2>1. PICK g : IsTable(g, p, base, seq, k)
    OBVIOUS
  <2>. DEFINE h == [s \in SUBSET (1 .. k + 1) |->
                      IF k + 1 \in s THEN Op(p, g[s \ {k + 1}], seq[k + 1]) ELSE g[s]]
  <2>. DEFINE next(s) == IF s = {} THEN base ELSE Op(p, h[s \ {Max(s)}], seq[Max(s)])
  <2>2. \A s \in SUBSET (1 .. k + 1) : k + 1 \notin s => s \in SUBSET (1 .. k)
    <3>. SUFFICES ASSUME NEW s \in SUBSET (1 .. k + 1), k + 1 \notin s, NEW i \in s
                  PROVE  i \in 1 .. k
      BY Zenon
    <3>1. i \in 1 .. k + 1 /\ i # k + 1
      OBVIOUS
    <3>. QED BY <3>1, <2>0
  <2>3. ASSUME NEW s \in SUBSET (1 .. k + 1) PROVE h[s] = next(s)
    <3>1. CASE k + 1 \in s
      <4>1. Max(s) = k + 1
        <5>1. \A y \in s : y \in 1 .. k + 1
          OBVIOUS
        <5>2. \A y \in s : k + 1 >= y
          BY <5>1, <2>0
        <5>3. \A x \in s : (\A y \in s : x >= y) => x = k + 1
          BY <5>1, <5>2, <3>1, <2>0
        <5>. QED BY <3>1, <5>2, <5>3 DEF Max
      <4>2. k + 1 \notin s \ {k + 1} /\ s \ {k + 1} \in SUBSET (1 .. k + 1) /\ s # {}
        BY <3>1, Zenon
      <4>3. h[s \ {k + 1}] = g[s \ {k + 1}]
        BY <4>2, Zenon
      <4>4. h[s] = Op(p, g[s \ {k + 1}], seq[k + 1])
        BY <3>1, Zenon
      <4>. HIDE DEF h
      <4>. QED BY <4>1, <4>2, <4>3, <4>4, Zenon
    <3>2. CASE k + 1 \notin s
      <4>1. s \in SUBSET (1 .. k)
        BY <3>2, <2>2
      <4>2. h[s] = g[s]
        BY <3>2, Zenon
      <4>3. g[s] = IF s = {} THEN base ELSE Op(p, g[s \ {Max(s)}], seq[Max(s)])
        BY <4>1, <2>1, Zenon DEF IsTable
      <4>4. k + 1 \notin s \ {Max(s)} /\ s \ {Max(s)} \in SUBSET (1 .. k + 1)
        BY <3>2, Zenon
      <4>5. h[s \ {Max(s)}] = g[s \ {Max(s)}]
        BY <4>4, Zenon
      <4>. HIDE DEF h
      <4>. QED BY <4>2, <4>3, <4>5, Zenon
    <3>. QED BY <3>1, <3>2
  <2>4. h = [s \in SUBSET (1 .. k + 1) |-> next(s)]
    BY <2>3, Zenon
  <2>5. IsTable(h, p, base, seq, k + 1)
    <3>. HIDE DEF h
    <3>. QED BY <2>4 DEF IsTable
  <2>. QED BY <2>0, <2>5
<1>3. D = Nat
  <2>1. D \subseteq Nat
    OBVIOUS
  <2>. HIDE DEF D
  <2>. QED BY <1>1, <1>2, <2>1, SetInduction
<1>. QED BY <1>3

IsRun(run, p, base, seq) ==
  /\ run[0] = base
  /\ Fold(p, base, seq) = run[Len(seq)]
  /\ \A i \in 1 .. Len(seq) : run[i] = Op(p, run[i - 1], seq[i])

THEOREM FoldSteps ==
  \A p, base, S : \A seq \in Seq(S) : \E run : IsRun(run, p, base, seq)
<1>. SUFFICES ASSUME NEW p, NEW base, NEW S, NEW seq \in Seq(S)
              PROVE  \E run : IsRun(run, p, base, seq)
  OBVIOUS
<1>. DEFINE n == Len(seq)
            g == CHOOSE g : IsTable(g, p, base, seq, n)
<1>0. n \in Nat /\ DOMAIN seq = 1 .. n
  OBVIOUS
<1>1. IsTable(g, p, base, seq, n)
  <2>1. \E h : IsTable(h, p, base, seq, n)
    BY <1>0, TableExists
  <2>. QED BY <2>1, Zenon
<1>2. Fold(p, base, seq) = g[1 .. n]
  BY <1>0 DEF Fold, FoldLeft, MapThenFoldSet, IsTable
<1>. DEFINE run == [i \in 0 .. n |-> g[1 .. i]]
<1>. HIDE DEF g
<1>3. run[0] = base
  <2>1. 0 \in 0 .. n /\ 1 .. 0 = {} /\ {} \in SUBSET (1 .. n)
    BY <1>0
  <2>. QED BY <2>1, <1>1 DEF IsTable
<1>4. ASSUME NEW i \in 1 .. n PROVE run[i] = Op(p, run[i - 1], seq[i])
  <2>1. i \in Nat \ {0} /\ i \in 0 .. n /\ i - 1 \in 0 .. n
    BY <1>0
  <2>2. Max(1 .. i) = i
    BY <2>1, MaxInterval
  <2>3. (1 .. i) \ {i} = 1 .. i - 1 /\ 1 .. i # {}
    <3>1. i \in 1 .. i
      BY <2>1
    <3>2. \A j : j \in (1 .. i) \ {i} <=> j \in 1 .. i - 1
      BY <2>1
    <3>3. (1 .. i) \ {i} = 1 .. i - 1
      BY <3>2, Zenon
    <3>. QED BY <3>1, <3>3
  <2>4. \A j \in 1 .. i : j \in 1 .. n
    BY <2>1, <1>0
  <2>5. 1 .. i \in SUBSET (1 .. n)
    BY <2>4, Zenon
  <2>6. g[1 .. i] = Op(p, g[1 .. i - 1], seq[i])
    BY <1>1, <2>2, <2>3, <2>5, Zenon DEF IsTable
  <2>. QED BY <2>1, <2>6
<1>5. run[n] = g[1 .. n]
  BY <1>0
<1>6. IsRun(run, p, base, seq)
  <2>. HIDE DEF run
  <2>. QED BY <1>2, <1>3, <1>4, <1>5 DEF IsRun
<1>. QED BY <1>6
=============================================================================
