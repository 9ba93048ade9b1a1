---------------------------- MODULE InspectProofs ----------------------------
(***************************************************************************)
(* The one-pass scans of the WAF, for texts of any length over any          *)
(* alphabet and any depth limit.                                            *)
(*                                                                          *)
(* What a scan computes is a recursive function of the position.  That the  *)
(* function exists and what it yields is shown by induction over positions, *)
(* stated for sets of numbers (Induct), which the provers can instantiate.  *)
(***************************************************************************)
EXTENDS Inspect, FiniteSetTheorems, SequenceTheorems, NaturalsInduction, TLAPS

-----------------------------------------------------------------------------
(* Induction up to a bound. *)
LEMMA Induct ==
  ASSUME NEW n \in Nat, NEW S, 0 \in S, \A k \in 1..n : k - 1 \in S => k \in S
  PROVE  \A k \in 0..n : k \in S
<1> DEFINE R == {ss \in Nat \X Nat : ss[1] < ss[2]}
           Bad == 0..n \ S
<1>1. Bad \in SUBSET Nat /\ \A k \in Bad : k \in 0..n /\ k \notin S
  OBVIOUS
<1>2. CASE Bad # {}
  <2>1. IsWellFoundedOn(R, Nat)
    BY NatLessThanWellFounded DEF OpToRel
  <2> HIDE DEF Bad
  <2>2. PICK m \in Bad : \A y \in Bad : <<y, m>> \notin R
    BY <1>1, <1>2, <2>1, WFMin
  <2>3. m \in 1..n /\ m - 1 \in 0..n
    BY <1>1
  <2>4. <<m - 1, m>> \in Nat \X Nat /\ <<m - 1, m>>[1] < <<m - 1, m>>[2]
    BY <2>3
  <2>5. <<m - 1, m>> \in R
    BY <2>4, Zenon
  <2>6. m - 1 \in S
    BY <2>2, <2>3, <2>5 DEF Bad
  <2> QED
    BY <1>1, <2>3, <2>6
<1> QED
  BY <1>2

(* A function that starts with v and takes F from each value to the next. *)
Unrolls(g, n, v, F) == g[0] = v /\ \A k \in 1..n : g[k] = F[k][g[k - 1]]
Unrolled(n, T, v, F) == \E g \in [0..n -> T] : Unrolls(g, n, v, F)

(* A function that is defined from its value one position earlier exists. *)
LEMMA Recursion ==
  ASSUME NEW n \in Nat, NEW T, NEW v \in T, NEW F \in [1..n -> [T -> T]]
  PROVE  Unrolled(n, T, v, F)
<1> DEFINE Fits(g, m) == g[0] = v /\ \A k \in 1..m : g[k] = F[k][g[k - 1]]
           S == {m \in 0..n : \E g \in [0..m -> T] : Fits(g, m)}
<1>1. 0 \in S
  <2> DEFINE g == [k \in 0..0 |-> v]
  <2>1. g \in [0..0 -> T] /\ Fits(g, 0) /\ 0 \in 0..n
    OBVIOUS
  <2> QED
    BY <2>1
<1>2. ASSUME NEW m \in 1..n, m - 1 \in S
      PROVE  m \in S
  <2>1. PICK g \in [0..(m - 1) -> T] : Fits(g, m - 1)
    BY <1>2
  <2> DEFINE h == [k \in 0..m |-> IF k = m THEN F[m][g[m - 1]] ELSE g[k]]
  <2>2. m \in Nat /\ m # 0 /\ m - 1 \in 0..(m - 1) /\ F[m] \in [T -> T]
    OBVIOUS
  <2>3. F[m][g[m - 1]] \in T
    BY <2>2
  <2>4. h \in [0..m -> T]
    BY <2>2, <2>3
  <2>5. h[m] = F[m][g[m - 1]] /\ \A k \in 0..(m - 1) : h[k] = g[k]
    BY <2>2
  <2> HIDE DEF h
  <2>6. Fits(h, m)
    <3>1. h[0] = v
      BY <2>1, <2>2, <2>5
    <3>2. ASSUME NEW k \in 1..m PROVE h[k] = F[k][h[k - 1]]
      <4>1. h[k - 1] = g[k - 1] /\ (k = m \/ k \in 1..(m - 1))
        BY <2>2, <2>5
      <4> QED
        BY <2>1, <2>2, <2>5, <4>1
    <3> QED
      BY <3>1, <3>2
  <2>7. m \in 0..n
    BY <2>2
  <2> HIDE DEF Fits
  <2> QED
    BY <2>4, <2>6, <2>7
<1>3. n \in S
  <2>1. \A k \in 1..n : k - 1 \in S => k \in S
    BY <1>2
  <2>2. n \in 0..n
    OBVIOUS
  <2> HIDE DEF S
  <2> QED
    BY <1>1, <2>1, <2>2, Induct
<1> QED
  BY <1>3 DEF Unrolled, Unrolls

(* The same for numbers. *)
LEMMA NatRecursion ==
  ASSUME NEW n \in Nat, NEW F \in [1..n -> [Nat -> Nat]]
  PROVE  \E g \in [0..n -> Nat] : g[0] = 0 /\ \A k \in 1..n : g[k] = F[k][g[k - 1]]
<1> DEFINE T == Nat
           v == 0
<1>0. n \in Nat /\ v \in T
  OBVIOUS
<1>1. F \in [1..n -> [T -> T]]
  OBVIOUS
<1> HIDE DEF T, v
<1>2. Unrolled(n, T, v, F)
  BY <1>0, <1>1, Recursion
<1> QED
  BY <1>2 DEF T, v, Unrolled, Unrolls

-----------------------------------------------------------------------------
(* A depth stays a number. *)
LEMMA ScanType ==
  ASSUME NEW d \in Nat, NEW ch PROVE scan(d, ch) \in Nat
BY InspectAssumption DEF scan, Deeper

(* The depths of a text, one character after the other. *)
LEMMA DepthsIs ==
  ASSUME NEW text \in Seq(Nat)
  PROVE  /\ depths(text)[0] = 0
         /\ \A k \in 0..Len(text) : depths(text)[k] \in Nat
         /\ \A k \in 1..Len(text) : depths(text)[k] = scan(depths(text)[k - 1], text[k])
<1> DEFINE n == Len(text)
           D == depths(text)
           F == [k \in 1..n |-> [d \in Nat |-> scan(d, text[k])]]
<1>0. n \in Nat
  OBVIOUS
<1>1. F \in [1..n -> [Nat -> Nat]]
  BY ScanType
<1>2. \E g \in [0..n -> Nat] : g[0] = 0 /\ \A k \in 1..n : g[k] = F[k][g[k - 1]]
  <2> HIDE DEF F, n
  <2> QED
    BY <1>0, <1>1, NatRecursion
<1>3. PICK g \in [0..n -> Nat] : g[0] = 0 /\ \A k \in 1..n : g[k] = F[k][g[k - 1]]
  BY <1>2
<1>4. \A k \in 1..n : F[k][g[k - 1]] = scan(g[k - 1], text[k])
  BY <1>0
<1>5. g = [k \in 0..n |-> IF k = 0 THEN 0 ELSE scan(g[k - 1], text[k])]
  <2> HIDE DEF n, F
  <2>1. \A k \in 0..n : k = 0 \/ k \in 1..n
    BY <1>0
  <2>2. \A k \in 0..n : g[k] = IF k = 0 THEN 0 ELSE scan(g[k - 1], text[k])
    BY <1>0, <1>3, <1>4, <2>1
  <2> QED
    BY <2>2
<1>6. D = [k \in 0..n |-> IF k = 0 THEN 0 ELSE scan(D[k - 1], text[k])]
  <2> DEFINE G == CHOOSE f : f = [k \in 0..n |-> IF k = 0 THEN 0 ELSE scan(f[k - 1], text[k])]
  <2>1. G = [k \in 0..n |-> IF k = 0 THEN 0 ELSE scan(G[k - 1], text[k])]
    BY <1>5, Zenon
  <2>2. D = G
    BY DEF depths
  <2> QED
    BY <2>1, <2>2
<1> HIDE DEF D, n
<1>7. D[0] = 0 /\ \A k \in 1..n : D[k] = scan(D[k - 1], text[k])
  BY <1>0, <1>6
<1>8. \A k \in 0..n : D[k] \in Nat
  <2> DEFINE S == {k \in 0..n : D[k] \in Nat}
  <2>1. 0 \in S
    BY <1>0, <1>7
  <2>2. \A k \in 1..n : k - 1 \in S => k \in S
    BY <1>0, <1>7, ScanType
  <2>3. \A k \in 0..n : k \in S
    <3> HIDE DEF S
    <3> QED
      BY <1>0, <2>1, <2>2, Induct
  <2> QED
    BY <2>3
<1> QED
  BY <1>7, <1>8 DEF D, n

-----------------------------------------------------------------------------
(* The texts that are reached. *)
Characters == alphabet \in Alphabets /\ input \in Seq(alphabet)

(* The texts are made of one of the alphabets. *)
LEMMA AlwaysCharacters == Spec => []Characters
<1>1. Init => Characters
  BY DEF Init, Characters
<1>2. ASSUME Characters, [Next]_vars PROVE Characters'
  BY <1>2 DEF Characters, Next, vars
<1> QED
  BY <1>1, <1>2, PTL DEF Spec

(* Characters are code points. *)
LEMMA CharactersAreNumbers == Characters => input \in Seq(Nat)
<1> SUFFICES ASSUME Characters PROVE input \in Seq(Nat)
  OBVIOUS
<1>1. alphabet \subseteq Nat /\ input \in Seq(alphabet)
  BY InspectAssumption DEF Characters
<1>2. Len(input) \in Nat /\ input \in [1..Len(input) -> alphabet]
  BY <1>1
<1>3. input \in [1..Len(input) -> Nat]
  BY <1>1, <1>2
<1> QED
  BY <1>2, <1>3, SeqDef

-----------------------------------------------------------------------------
(* Counting the characters of a stretch that is one character longer. *)
LEMMA CountStep ==
  ASSUME NEW S, NEW i \in Nat, NEW j \in Nat
  PROVE  /\ Count(S, i, j) \in Nat
         /\ j < i => Count(S, i, j) = 0
         /\ i <= j + 1 => Count(S, i, j + 1) = Count(S, i, j) + IF input[j + 1] \in S THEN 1 ELSE 0
<1> DEFINE A == {k \in i..j : input[k] \in S}
           B == {k \in i..(j + 1) : input[k] \in S}
<1>1. IsFiniteSet(i..j)
  BY FS_Interval
<1>2. IsFiniteSet(A)
  BY <1>1, FS_Subset
<1>3. Cardinality(A) \in Nat
  BY <1>2, FS_CardinalityType
<1>4. ASSUME j < i PROVE Cardinality(A) = 0
  <2>1. A = {}
    BY <1>4
  <2> QED
    BY <2>1, FS_EmptySet
<1>5. ASSUME i <= j + 1
      PROVE  Cardinality(B) = Cardinality(A) + IF input[j + 1] \in S THEN 1 ELSE 0
  <2>1. CASE input[j + 1] \in S
    <3>1. B = A \cup {j + 1} /\ j + 1 \notin A
      BY <1>5, <2>1
    <3> HIDE DEF A, B
    <3> QED
      BY <1>2, <1>3, <2>1, <3>1, FS_AddElement
  <2>2. CASE input[j + 1] \notin S
    <3>1. B = A
      BY <1>5, <2>2
    <3> QED
      BY <1>3, <2>2, <3>1
  <2> QED
    BY <2>1, <2>2
<1> QED
  BY <1>3, <1>4, <1>5 DEF Count

(* Brackets opened less brackets closed, from i to j. *)
Excess(i, j) == Count(Opening, i, j) - Count(Closing, i, j)

(* The excess of a stretch that is one character longer. *)
LEMMA ExcessStep ==
  ASSUME NEW i \in Nat, NEW j \in Nat
  PROVE  /\ Excess(i, j) \in Int
         /\ j < i => Excess(i, j) = 0
         /\ i <= j + 1 =>
              Excess(i, j + 1) =
                IF input[j + 1] \in Opening THEN Excess(i, j) + 1
                ELSE IF input[j + 1] \in Closing THEN Excess(i, j) - 1
                ELSE Excess(i, j)
<1>1. Count(Opening, i, j) \in Nat /\ Count(Closing, i, j) \in Nat
  BY CountStep
<1>2. j < i => Count(Opening, i, j) = 0 /\ Count(Closing, i, j) = 0
  BY CountStep
<1>3. ASSUME i <= j + 1
      PROVE  /\ Count(Opening, i, j + 1) =
                  Count(Opening, i, j) + IF input[j + 1] \in Opening THEN 1 ELSE 0
             /\ Count(Closing, i, j + 1) =
                  Count(Closing, i, j) + IF input[j + 1] \in Closing THEN 1 ELSE 0
  BY <1>3, CountStep
<1>4. input[j + 1] \in Opening => input[j + 1] \notin Closing
  BY DEF Opening, Closing
<1> QED
  BY <1>1, <1>2, <1>3, <1>4 DEF Excess

(***************************************************************************)
(* The scan after k characters.  While it goes on, the depth is the largest *)
(* excess of a stretch that ends at k, empty stretches included (Reaches,   *)
(* Bounds), and no stretch so far exceeds the limit; once it is over, one   *)
(* does.                                                                    *)
(***************************************************************************)
Bounds(k, d) == \A i \in 1..(k + 1) : Excess(i, k) <= d
Reaches(k, d) == \E i \in 1..(k + 1) : Excess(i, k) = d
Shallow(k) == \A i, j \in 1..k : Excess(i, j) <= MaxDepth
Deep(k) == \E i, j \in 1..k : Excess(i, j) > MaxDepth

Scanned(k, d) ==
  /\ d <= MaxDepth => Bounds(k, d) /\ Reaches(k, d) /\ Shallow(k)
  /\ d > MaxDepth => Deep(k)

(* One more character. *)
LEMMA ScanStep ==
  ASSUME NEW k \in Nat, NEW d \in Nat, Scanned(k, d)
  PROVE  Scanned(k + 1, scan(d, input[k + 1]))
<1> DEFINE ch == input[k + 1]
           e == scan(d, ch)
<1>0. MaxDepth \in Nat /\ e \in Nat
  BY InspectAssumption, ScanType
<1>1. CASE d > MaxDepth
  <2>1. e = d /\ Deep(k)
    BY <1>0, <1>1 DEF scan, Scanned
  <2>2. Deep(k + 1)
    BY <2>1 DEF Deep
  <2> QED
    BY <1>0, <1>1, <2>1, <2>2 DEF Scanned
<1>2. CASE d <= MaxDepth
  <2>0. Bounds(k, d) /\ Reaches(k, d) /\ Shallow(k) /\ e = Deeper(d, ch)
    BY <1>0, <1>2 DEF Scanned, scan
  <2>1. \A i \in 1..(k + 1) :
          /\ Excess(i, k) \in Int
          /\ Excess(i, k + 1) = IF ch \in Opening THEN Excess(i, k) + 1
                                ELSE IF ch \in Closing THEN Excess(i, k) - 1
                                ELSE Excess(i, k)
    BY ExcessStep
  <2>2. Excess(k + 2, k + 1) = 0
    BY ExcessStep
  <2>3. \A i \in 1..(k + 2) : i = k + 2 \/ i \in 1..(k + 1)
    OBVIOUS
  <2>4. ch \in Opening => ch \notin Closing
    BY DEF Opening, Closing
  <2>5. e = IF ch \in Opening THEN d + 1
            ELSE IF ch \in Closing /\ d > 0 THEN d - 1 ELSE d
    BY <2>0, <2>4 DEF Deeper
  <2> HIDE DEF ch, e
  <2>6. Bounds(k + 1, e)
    <3> SUFFICES ASSUME NEW i \in 1..(k + 2) PROVE Excess(i, k + 1) <= e
      BY DEF Bounds
    <3>1. CASE i = k + 2
      BY <1>0, <2>2, <3>1
    <3>2. CASE i \in 1..(k + 1)
      <4>1. Excess(i, k) <= d
        BY <2>0, <3>2 DEF Bounds
      <4> QED
        BY <2>1, <2>5, <3>2, <4>1
    <3> QED
      BY <2>3, <3>1, <3>2
  <2>7. PICK i \in 1..(k + 1) : Excess(i, k) = d
    BY <2>0 DEF Reaches
  <2>8. ch \in Opening => Excess(i, k + 1) = e
    BY <2>1, <2>5, <2>7
  <2>9. Reaches(k + 1, e)
    <3>1. CASE ch \in Closing /\ ch \notin Opening /\ d = 0
      <4>1. Excess(k + 2, k + 1) = e /\ k + 2 \in 1..(k + 2)
        BY <2>2, <2>5, <3>1
      <4> QED
        BY <4>1 DEF Reaches
    <3>2. CASE ~(ch \in Closing /\ ch \notin Opening /\ d = 0)
      <4>1. Excess(i, k + 1) = e /\ i \in 1..(k + 2)
        BY <2>1, <2>5, <2>7, <3>2
      <4> QED
        BY <4>1 DEF Reaches
    <3> QED
      BY <3>1, <3>2
  <2>10. ASSUME e <= MaxDepth PROVE Shallow(k + 1)
    <3> SUFFICES ASSUME NEW a \in 1..(k + 1), NEW b \in 1..(k + 1)
                 PROVE  Excess(a, b) <= MaxDepth
      BY DEF Shallow
    <3>1. CASE b = k + 1
      <4>1. Excess(a, k + 1) <= e /\ Excess(a, k + 1) \in Int
        BY <2>1, <2>6 DEF Bounds
      <4> QED
        BY <1>0, <2>10, <3>1, <4>1
    <3>2. CASE b # k + 1 /\ a # k + 1
      <4>1. a \in 1..k /\ b \in 1..k
        BY <3>2
      <4> QED
        BY <2>0, <4>1 DEF Shallow
    <3>3. CASE b # k + 1 /\ a = k + 1
      <4>1. b < a /\ a \in Nat /\ b \in Nat
        BY <3>3
      <4>2. Excess(a, b) = 0
        BY <4>1, ExcessStep
      <4> QED
        BY <1>0, <4>2
    <3> QED
      BY <3>1, <3>2, <3>3
  <2>11. ASSUME e > MaxDepth PROVE Deep(k + 1)
    <3>1. ch \in Opening
      BY <1>0, <1>2, <2>5, <2>11
    <3>2. Excess(i, k + 1) > MaxDepth /\ k + 1 \in 1..(k + 1)
      BY <1>0, <2>8, <2>11, <3>1
    <3> QED
      BY <3>2 DEF Deep
  <2> QED
    BY <2>6, <2>9, <2>10, <2>11 DEF Scanned, ch, e
<1> QED
  BY <1>0, <1>1, <1>2

(* The whole text. *)
LEMMA ScannedAll ==
  ASSUME input \in Seq(Nat) PROVE Scanned(Len(input), depths(input)[Len(input)])
<1> DEFINE n == Len(input)
           D == depths(input)
           S == {k \in 0..n : Scanned(k, D[k])}
<1>1. n \in Nat
  OBVIOUS
<1>2. /\ D[0] = 0
      /\ \A k \in 0..n : D[k] \in Nat
      /\ \A k \in 1..n : D[k] = scan(D[k - 1], input[k])
  BY DepthsIs
<1> HIDE DEF D, n
<1>3. 0 \in S
  <2>1. Excess(1, 0) = 0
    BY ExcessStep
  <2>2. \A i \in 1..(0 + 1) : i = 1
    OBVIOUS
  <2>3. Bounds(0, 0) /\ Reaches(0, 0) /\ Shallow(0)
    BY <2>1, <2>2 DEF Bounds, Reaches, Shallow
  <2>4. Scanned(0, 0)
    BY <2>3, InspectAssumption DEF Scanned
  <2> QED
    BY <1>1, <1>2, <2>4
<1>4. ASSUME NEW k \in 1..n, k - 1 \in S PROVE k \in S
  <2>1. k - 1 \in Nat /\ D[k - 1] \in Nat /\ Scanned(k - 1, D[k - 1]) /\ k \in 0..n
    BY <1>1, <1>2, <1>4
  <2>2. Scanned((k - 1) + 1, scan(D[k - 1], input[(k - 1) + 1]))
    BY <2>1, ScanStep
  <2>3. (k - 1) + 1 = k
    BY <1>1
  <2> QED
    BY <1>2, <2>1, <2>2, <2>3
<1>5. n \in S
  <2>1. \A k \in 1..n : k - 1 \in S => k \in S
    BY <1>4
  <2>2. n \in 0..n
    BY <1>1
  <2> HIDE DEF S
  <2> QED
    BY <1>1, <1>3, <2>1, <2>2, Induct
<1> QED
  BY <1>5 DEF D, n

(***************************************************************************)
(* check_json_depth refuses exactly the texts in which some stretch opens   *)
(* more than max_depth brackets beyond those it closes, whatever the text,  *)
(* its length and the limit.                                                *)
(***************************************************************************)
THEOREM JsonDepthCorrect == Spec => []JsonDepthExact
<1>1. ASSUME Characters PROVE JsonDepthExact
  <2> DEFINE n == Len(input)
             d == depths(input)[n]
  <2>1. input \in Seq(Nat)
    BY <1>1, CharactersAreNumbers
  <2>2. n \in Nat /\ Here = 1..n /\ MaxDepth \in Nat
    BY <2>1, InspectAssumption DEF Here
  <2>3. Scanned(n, d) /\ d \in Nat
    <3>1. n \in 0..n
      BY <2>2
    <3> QED
      BY <2>1, <3>1, ScannedAll, DepthsIs
  <2>4. check_json_depth(input) <=> d <= MaxDepth
    BY DEF check_json_depth
  <2> HIDE DEF n, d
  <2>5. \A i, j \in 1..n :
          Excess(i, j) <= MaxDepth <=> Count(Opening, i, j) <= Count(Closing, i, j) + MaxDepth
    <3> SUFFICES ASSUME NEW i \in 1..n, NEW j \in 1..n
                 PROVE  Excess(i, j) <= MaxDepth
                          <=> Count(Opening, i, j) <= Count(Closing, i, j) + MaxDepth
      OBVIOUS
    <3>1. Count(Opening, i, j) \in Nat /\ Count(Closing, i, j) \in Nat
      BY <2>2, CountStep
    <3> QED
      BY <2>2, <3>1 DEF Excess
  <2>6. \A i, j \in 1..n : Excess(i, j) \in Int
    BY <2>2, ExcessStep
  <2>7. d <= MaxDepth <=> \A i, j \in 1..n : Excess(i, j) <= MaxDepth
    BY <2>2, <2>3, <2>6 DEF Scanned, Shallow, Deep
  <2> QED
    BY <2>2, <2>4, <2>5, <2>7 DEF JsonDepthExact
<1> QED
  BY <1>1, AlwaysCharacters, PTL

-----------------------------------------------------------------------------
(* The bytes of a character. *)
LEMMA WidthType ==
  ASSUME NEW ch \in Nat
  PROVE  /\ width(ch) \in 1..4
         /\ ch < 128 => width(ch) = 1
         /\ ch > 2047 => width(ch) >= 3
BY DEF width

(* The bytes of a text, one character after the other. *)
LEMMA LengthsIs ==
  ASSUME NEW text \in Seq(Nat)
  PROVE  /\ lengths(text)[0] = 0
         /\ \A k \in 0..Len(text) : lengths(text)[k] \in Nat
         /\ \A k \in 1..Len(text) : lengths(text)[k] = lengths(text)[k - 1] + width(text[k])
<1> DEFINE n == Len(text)
           D == lengths(text)
           F == [k \in 1..n |-> [d \in Nat |-> d + width(text[k])]]
<1>0. n \in Nat /\ \A k \in 1..n : width(text[k]) \in Nat
  <2>1. n \in Nat /\ \A k \in 1..n : text[k] \in Nat
    OBVIOUS
  <2> QED
    BY <2>1, WidthType
<1>1. F \in [1..n -> [Nat -> Nat]]
  BY <1>0
<1>2. \E g \in [0..n -> Nat] : g[0] = 0 /\ \A k \in 1..n : g[k] = F[k][g[k - 1]]
  <2> HIDE DEF F, n
  <2> QED
    BY <1>0, <1>1, NatRecursion
<1>3. PICK g \in [0..n -> Nat] : g[0] = 0 /\ \A k \in 1..n : g[k] = F[k][g[k - 1]]
  BY <1>2
<1>4. ASSUME NEW k \in 1..n PROVE F[k][g[k - 1]] = g[k - 1] + width(text[k])
  <2>1. k - 1 \in 0..n
    BY <1>0
  <2>2. g[k - 1] \in Nat
    BY <2>1
  <2>3. F[k] = [d \in Nat |-> d + width(text[k])]
    BY Zenon
  <2> QED
    BY <2>2, <2>3
<1>5. g = [k \in 0..n |-> IF k = 0 THEN 0 ELSE g[k - 1] + width(text[k])]
  <2> HIDE DEF n, F
  <2>1. \A k \in 0..n : k = 0 \/ k \in 1..n
    BY <1>0
  <2>2. \A k \in 0..n : g[k] = IF k = 0 THEN 0 ELSE g[k - 1] + width(text[k])
    BY <1>0, <1>3, <1>4, <2>1
  <2> QED
    BY <2>2
<1>6. D = [k \in 0..n |-> IF k = 0 THEN 0 ELSE D[k - 1] + width(text[k])]
  <2> DEFINE G == CHOOSE f : f = [k \in 0..n |-> IF k = 0 THEN 0 ELSE f[k - 1] + width(text[k])]
  <2>1. G = [k \in 0..n |-> IF k = 0 THEN 0 ELSE G[k - 1] + width(text[k])]
    BY <1>5, Zenon
  <2>2. D = G
    BY DEF lengths
  <2> QED
    BY <2>1, <2>2
<1> HIDE DEF D, n
<1>7. D[0] = 0 /\ \A k \in 1..n : D[k] = D[k - 1] + width(text[k])
  BY <1>0, <1>6
<1>8. \A k \in 0..n : D[k] \in Nat
  <2> DEFINE S == {k \in 0..n : D[k] \in Nat}
  <2>1. 0 \in S
    BY <1>0, <1>7
  <2>2. \A k \in 1..n : k - 1 \in S => k \in S
    BY <1>0, <1>7
  <2>3. \A k \in 0..n : k \in S
    <3> HIDE DEF S
    <3> QED
      BY <1>0, <2>1, <2>2, Induct
  <2> QED
    BY <2>3
<1> QED
  BY <1>7, <1>8 DEF D, n

(***************************************************************************)
(* What the first k characters of a text weigh: no less than their number,  *)
(* just that in ASCII, and three times the number of the special ones if    *)
(* these are all beyond U+07FF.                                             *)
(***************************************************************************)
SpecialUpTo(text, k) == {i \in 1..k : special(text[i])}
Weighs(text, k, w) ==
  /\ w >= k
  /\ (\A i \in DOMAIN text : text[i] < 128) => w = k
  /\ (\A i \in DOMAIN text : special(text[i]) => text[i] > 2047)
       => w >= 3 * Cardinality(SpecialUpTo(text, k))

(* One character more is at most one special character more. *)
LEMMA SpecialStep ==
  ASSUME NEW text, NEW k \in Nat \ {0}
  PROVE  /\ Cardinality(SpecialUpTo(text, k - 1)) \in Nat
         /\ Cardinality(SpecialUpTo(text, k)) =
              Cardinality(SpecialUpTo(text, k - 1)) + (IF special(text[k]) THEN 1 ELSE 0)
<1> DEFINE A == SpecialUpTo(text, k - 1)
           B == SpecialUpTo(text, k)
<1>1. IsFiniteSet(A)
  <2>1. IsFiniteSet(1..(k - 1))
    BY FS_Interval
  <2> QED
    BY <2>1, FS_Subset DEF SpecialUpTo
<1>2. k \notin A /\ B = IF special(text[k]) THEN A \cup {k} ELSE A
  <2>1. \A i : i \in 1..k <=> i \in 1..(k - 1) \/ i = k
    OBVIOUS
  <2>2. k \notin 1..(k - 1)
    OBVIOUS
  <2> QED
    BY <2>1, <2>2 DEF SpecialUpTo
<1> HIDE DEF A, B
<1>3. Cardinality(A) \in Nat /\ Cardinality(A \cup {k}) = Cardinality(A) + 1
  BY <1>1, <1>2, FS_CardinalityType, FS_AddElement
<1>4. Cardinality(B) = Cardinality(A) + (IF special(text[k]) THEN 1 ELSE 0)
  <2>1. CASE special(text[k])
    BY <2>1, <1>2, <1>3
  <2>2. CASE ~special(text[k])
    BY <2>2, <1>2, <1>3
  <2> QED
    BY <2>1, <2>2
<1> QED
  BY <1>3, <1>4 DEF A, B

(* Every text weighs so, up to every character. *)
LEMMA Weight ==
  ASSUME NEW text \in Seq(Nat)
  PROVE  \A k \in 0..Len(text) : Weighs(text, k, lengths(text)[k])
<1> DEFINE n == Len(text)
           D == lengths(text)
           S == {k \in 0..n : Weighs(text, k, D[k])}
<1>1. n \in Nat /\ DOMAIN text = 1..n /\ \A k \in 1..n : text[k] \in Nat
  OBVIOUS
<1>2. /\ D[0] = 0
      /\ \A k \in 0..n : D[k] \in Nat
      /\ \A k \in 1..n : D[k] = D[k - 1] + width(text[k])
  BY LengthsIs
<1> HIDE DEF n, D
<1>3. 0 \in S
  <2>1. SpecialUpTo(text, 0) = {}
    BY DEF SpecialUpTo
  <2>2. Cardinality(SpecialUpTo(text, 0)) = 0
    BY <2>1, FS_EmptySet
  <2> QED
    BY <1>1, <1>2, <2>2 DEF Weighs
<1>4. ASSUME NEW k \in 1..n, k - 1 \in S PROVE k \in S
  <2> DEFINE w == width(text[k])
             a == Cardinality(SpecialUpTo(text, k - 1))
             b == Cardinality(SpecialUpTo(text, k))
  <2>1. /\ k \in Nat \ {0} /\ k \in 0..n /\ k - 1 \in 0..n /\ D[k - 1] \in Nat
        /\ D[k] = D[k - 1] + w /\ text[k] \in Nat /\ k \in DOMAIN text
    BY <1>1, <1>2
  <2>2. w \in Nat /\ w >= 1 /\ (text[k] < 128 => w = 1) /\ (text[k] > 2047 => w >= 3)
    <3>1. /\ w \in 1..4 /\ (text[k] < 128 => w = 1) /\ (text[k] > 2047 => w >= 3)
      BY <2>1, WidthType
    <3> HIDE DEF w
    <3> QED
      BY <3>1
  <2>3. a \in Nat /\ b = a + (IF special(text[k]) THEN 1 ELSE 0)
    BY <2>1, SpecialStep
  <2>4. Weighs(text, k - 1, D[k - 1])
    BY <1>4
  <2> HIDE DEF w, a, b
  <2>5. D[k] >= k
    BY <2>1, <2>2, <2>4 DEF Weighs
  <2>6. ASSUME \A i \in DOMAIN text : text[i] < 128 PROVE D[k] = k
    BY <2>1, <2>2, <2>4, <2>6 DEF Weighs
  <2>7. ASSUME \A i \in DOMAIN text : special(text[i]) => text[i] > 2047
        PROVE  D[k] >= 3 * b
    <3>1. D[k - 1] >= 3 * a
      BY <2>4, <2>7 DEF Weighs, a
    <3>2. special(text[k]) => w >= 3
      BY <2>1, <2>2, <2>7
    <3> QED
      BY <2>1, <2>2, <2>3, <3>1, <3>2
  <2>8. Weighs(text, k, D[k])
    BY <2>5, <2>6, <2>7 DEF Weighs, b
  <2> QED
    BY <2>1, <2>8
<1>5. \A k \in 0..n : k \in S
  <2> HIDE DEF S
  <2> QED
    BY <1>1, <1>3, <1>4, Induct
<1> QED
  BY <1>5 DEF n, D

(***************************************************************************)
(* is_high_density refuses no text in which special characters are rare,    *)
(* all ASCII texts in which they are not, and no text whose special         *)
(* characters are all beyond U+07FF, whatever the text.                     *)
(***************************************************************************)
THEOREM DensityCorrect == Spec => []DensityOfCharacters
<1>1. ASSUME Characters PROVE DensityOfCharacters
  <2> DEFINE n == Len(input)
             B == lengths(input)[n]
             Specials == {i \in Here : special(input[i])}
             c == Cardinality(Specials)
  <2>1. input \in Seq(Nat)
    BY <1>1, CharactersAreNumbers
  <2>2. n \in Nat /\ Here = 1..n /\ n \in 0..n
    BY <2>1 DEF Here
  <2>3. B \in Nat /\ Weighs(input, n, B)
    BY <2>1, <2>2, LengthsIs, Weight
  <2>4. Specials = SpecialUpTo(input, n)
    BY <2>2 DEF SpecialUpTo
  <2>5. c \in Nat
    <3>1. IsFiniteSet(1..n)
      BY <2>2, FS_Interval
    <3>2. IsFiniteSet(Specials)
      BY <2>2, <3>1, FS_Subset
    <3> QED
      BY <3>2, FS_CardinalityType
  <2>6. is_high_density(input) <=> 5 * c > 2 * B
    BY DEF is_high_density, Here
  <2>7. /\ B >= n
        /\ (\A i \in Here : input[i] < 128) => B = n
        /\ (\A i \in Specials : input[i] > 2047) => B >= 3 * c
    <3>1. (\A i \in Specials : input[i] > 2047)
            => \A i \in DOMAIN input : special(input[i]) => input[i] > 2047
      BY DEF Here
    <3>2. c = Cardinality(SpecialUpTo(input, n))
      BY <2>4
    <3> HIDE DEF n, B, Specials, c
    <3> QED
      BY <2>3, <3>1, <3>2 DEF Weighs, Here
  <2> HIDE DEF n, B, Specials, c
  <2>8. 5 * c > 2 * B => 5 * c > 2 * n
    BY <2>2, <2>3, <2>5, <2>7
  <2>9. B >= 3 * c => ~(5 * c > 2 * B)
    BY <2>3, <2>5
  <2> QED
    BY <2>6, <2>7, <2>8, <2>9 DEF DensityOfCharacters, n, Specials, c
<1> QED
  BY <1>1, AlwaysCharacters, PTL

-----------------------------------------------------------------------------
(* Induction from the end of the text to its beginning. *)
LEMMA DownInduct ==
  ASSUME NEW n \in Nat, NEW S, n + 1 \in S,
         \A i \in 1..n : (\A j \in (i + 1)..(n + 1) : j \in S) => i \in S
  PROVE  \A i \in 1..(n + 1) : i \in S
<1> DEFINE Q == {m \in 0..n : \A j \in ((n + 1) - m)..(n + 1) : j \in S}
<1>1. 0 \in Q
  OBVIOUS
<1>2. ASSUME NEW m \in 1..n, m - 1 \in Q PROVE m \in Q
  <2> DEFINE i == (n + 1) - m
  <2>1. i \in 1..n /\ i + 1 = (n + 1) - (m - 1) /\ m \in 0..n
    OBVIOUS
  <2>2. \A j \in (i + 1)..(n + 1) : j \in S
    BY <1>2, <2>1
  <2>3. i \in S
    BY <2>1, <2>2
  <2>4. \A j \in i..(n + 1) : j = i \/ j \in (i + 1)..(n + 1)
    BY <2>1
  <2> QED
    BY <2>1, <2>2, <2>3, <2>4
<1>3. n \in Q
  <2>1. \A m \in 1..n : m - 1 \in Q => m \in Q
    BY <1>2
  <2>2. n \in 0..n
    OBVIOUS
  <2> HIDE DEF Q
  <2> QED
    BY <1>1, <2>1, <2>2, Induct
<1> QED
  BY <1>3

(* A function that puts F[i] before what it yields at the later place J[i]. *)
Chains(g, n, m, F, J) == g[n + 1] = <<>> /\ \A i \in m..n : g[i] = F[i] \o g[J[i]]
Chained(n, T, F, J) == \E g \in [1..(n + 1) -> Seq(T)] : Chains(g, n, 1, F, J)

(* Such a function exists. *)
LEMMA Chain ==
  ASSUME NEW n \in Nat, NEW T, NEW F \in [1..n -> Seq(T)], NEW J \in [1..n -> Nat],
         \A i \in 1..n : J[i] \in (i + 1)..(n + 1)
  PROVE  Chained(n, T, F, J)
<1> DEFINE S == {m \in 1..(n + 1) : \E g \in [m..(n + 1) -> Seq(T)] : Chains(g, n, m, F, J)}
<1>1. n + 1 \in S
  <2> DEFINE g == [i \in (n + 1)..(n + 1) |-> <<>>]
  <2>1. g \in [(n + 1)..(n + 1) -> Seq(T)] /\ g[n + 1] = <<>> /\ n + 1 \in 1..(n + 1)
    OBVIOUS
  <2>2. \A i \in (n + 1)..n : FALSE
    OBVIOUS
  <2>3. Chains(g, n, n + 1, F, J)
    BY <2>1, <2>2 DEF Chains
  <2> QED
    BY <2>1, <2>3
<1>2. ASSUME NEW m \in 1..n, m + 1 \in S PROVE m \in S
  <2>1. PICK g \in [(m + 1)..(n + 1) -> Seq(T)] : Chains(g, n, m + 1, F, J)
    BY <1>2
  <2> DEFINE h == [i \in m..(n + 1) |-> IF i = m THEN F[m] \o g[J[m]] ELSE g[i]]
  <2>2. m \in Nat /\ n + 1 # m /\ m \in m..(n + 1) /\ n + 1 \in m..(n + 1)
        /\ J[m] \in (m + 1)..(n + 1)
    OBVIOUS
  <2>3. F[m] \in Seq(T) /\ g[J[m]] \in Seq(T)
    BY <2>2
  <2>4. F[m] \o g[J[m]] \in Seq(T)
    BY <2>3
  <2>5. \A i \in m..(n + 1) : i = m \/ i \in (m + 1)..(n + 1)
    BY <2>2
  <2>6. h \in [m..(n + 1) -> Seq(T)]
    BY <2>4, <2>5
  <2>7. h[m] = F[m] \o g[J[m]] /\ \A i \in (m + 1)..(n + 1) : h[i] = g[i]
    BY <2>2
  <2> HIDE DEF h
  <2>8. Chains(h, n, m, F, J)
    <3>1. h[n + 1] = <<>>
      <4>0. n + 1 \in (m + 1)..(n + 1)
        BY <2>2
      <4>1. n + 1 \in (m + 1)..(n + 1) /\ g[n + 1] = <<>>
        BY <2>1, <4>0 DEF Chains
      <4> QED
        BY <2>7, <4>1
    <3>2. ASSUME NEW i \in m..n PROVE h[i] = F[i] \o h[J[i]]
      <4>1. J[i] \in (m + 1)..(n + 1)
        BY <2>2
      <4>2. h[J[i]] = g[J[i]]
        BY <2>7, <4>1
      <4>3. CASE i = m
        BY <2>7, <4>2, <4>3
      <4>4. CASE i # m
        <5>1. i \in (m + 1)..n /\ i \in (m + 1)..(n + 1)
          BY <2>2, <4>4
        <5>2. g[i] = F[i] \o g[J[i]]
          BY <2>1, <5>1 DEF Chains
        <5> QED
          BY <2>7, <4>2, <5>1, <5>2
      <4> QED
        BY <4>3, <4>4
    <3> QED
      BY <3>1, <3>2 DEF Chains
  <2>9. m \in 1..(n + 1)
    BY <2>2
  <2> QED
    BY <2>6, <2>8, <2>9
<1>3. 1 \in S
  <2>1. ASSUME NEW i \in 1..n, \A j \in (i + 1)..(n + 1) : j \in S PROVE i \in S
    <3>1. i + 1 \in (i + 1)..(n + 1)
      OBVIOUS
    <3> HIDE DEF S
    <3> QED
      BY <1>2, <2>1, <3>1
  <2>2. 1 \in 1..(n + 1)
    OBVIOUS
  <2> HIDE DEF S
  <2> QED
    BY <1>1, <2>1, <2>2, DownInduct
<1> QED
  BY <1>3 DEF Chained

-----------------------------------------------------------------------------
(* What the characters from position i on contribute, and where to go on. *)
Piece(text, i) == IF text[i] # Percent THEN <<text[i]>> ELSE decode(taken(text, i))
Onward(text, i) == IF text[i] # Percent THEN i + 1 ELSE i + 1 + Len(taken(text, i))

(* A digit is a number below 16, or 16. *)
LEMMA DigitType ==
  ASSUME NEW ch \in Nat PROVE Digit(ch) \in 0..16
BY DEF Digit

(* An escape takes the next two characters as far as there are any. *)
LEMMA TakenIs ==
  ASSUME NEW text \in Seq(Nat), NEW i \in 1..Len(text)
  PROVE  /\ taken(text, i) \in Seq(Nat)
         /\ Len(taken(text, i)) = IF i + 2 <= Len(text) THEN 2 ELSE Len(text) - i
         /\ \A k \in 1..Len(taken(text, i)) : taken(text, i)[k] = text[i + k]
<1> DEFINE n == Len(text)
           m == i + 1
           e == IF i + 2 <= n THEN i + 2 ELSE n
<1>1. n \in Nat /\ m \in Int /\ e \in Int /\ e <= n /\ m >= 1
  OBVIOUS
<1>2. \A k \in m..e : text[k] \in Nat
  BY <1>1
<1>3. taken(text, i) = SubSeq(text, m, e)
  BY DEF taken
<1>5. /\ taken(text, i) \in Seq(Nat)
      /\ Len(taken(text, i)) = IF m <= e THEN (e - m) + 1 ELSE 0
      /\ \A k \in 1..((e - m) + 1) : taken(text, i)[k] = text[(m + k) - 1]
  <2> HIDE DEF m, e, n
  <2>1. /\ SubSeq(text, m, e) \in Seq(Nat)
        /\ Len(SubSeq(text, m, e)) = IF m <= e THEN (e - m) + 1 ELSE 0
        /\ \A k \in 1..((e - m) + 1) : SubSeq(text, m, e)[k] = text[(m + k) - 1]
    BY <1>1, <1>2, SubSeqProperties
  <2> QED
    BY <1>3, <2>1
<1>6. Len(taken(text, i)) = IF i + 2 <= n THEN 2 ELSE n - i
  <2>1. n \in Nat /\ i \in Nat /\ i <= n /\ m = i + 1
    BY <1>1
  <2>2. i + 2 <= n => e = i + 2
    OBVIOUS
  <2>3. ~(i + 2 <= n) => e = n
    OBVIOUS
  <2> HIDE DEF n, m, e
  <2>4. (IF m <= e THEN (e - m) + 1 ELSE 0) = IF i + 2 <= n THEN 2 ELSE n - i
    BY <2>1, <2>2, <2>3
  <2> QED
    BY <1>5, <2>4
<1>7. ASSUME NEW k \in 1..Len(taken(text, i)) PROVE taken(text, i)[k] = text[i + k]
  <2>1. k \in 1..((e - m) + 1) /\ (m + k) - 1 = i + k
    BY <1>5
  <2> QED
    BY <1>5, <2>1
<1> QED
  BY <1>5, <1>6, <1>7

(* Two characters after an optional sign. *)
LEMMA UnsignedIs ==
  ASSUME NEW hex \in Seq(Nat), Len(hex) <= 2
  PROVE  /\ Unsigned(hex) \in Seq(Nat) /\ Len(Unsigned(hex)) \in 0..2
         /\ (hex # <<>> /\ hex[1] = Plus) =>
              /\ Len(Unsigned(hex)) = Len(hex) - 1
              /\ Len(hex) = 2 => Unsigned(hex)[1] = hex[2]
         /\ ~(hex # <<>> /\ hex[1] = Plus) => Unsigned(hex) = hex
<1>0. Len(hex) \in 0..2 /\ (hex # <<>> <=> Len(hex) # 0)
  <2>1. Len(hex) \in Nat
    OBVIOUS
  <2>2. hex = <<>> <=> Len(hex) = 0
    BY EmptySeq
  <2>3. Len(hex) \in 0..2
    <3> DEFINE l == Len(hex)
    <3>1. l \in Nat /\ l <= 2
      BY <2>1
    <3> HIDE DEF l
    <3>2. l \in 0..2
      BY <3>1
    <3> QED
      BY <3>2 DEF l
  <2> QED
    BY <2>2, <2>3, Zenon
<1>1. CASE hex # <<>> /\ hex[1] = Plus
  <2>1. Tail(hex) \in Seq(Nat) /\ Len(Tail(hex)) = Len(hex) - 1
    BY <1>1, HeadTailProperties
  <2>2. \A i \in 1..Len(Tail(hex)) : Tail(hex)[i] = hex[i + 1]
    BY <1>1, HeadTailProperties
  <2>3. Len(hex) = 2 => Tail(hex)[1] = hex[2]
    <3>1. Len(hex) = 2 => 1 \in 1..Len(Tail(hex)) /\ 1 + 1 = 2
      BY <2>1
    <3> QED
      BY <2>2, <3>1
  <2>4. Len(Tail(hex)) \in 0..2
    BY <1>0, <1>1, <2>1
  <2>5. Unsigned(hex) = Tail(hex)
    BY <1>1 DEF Unsigned
  <2> QED
    BY <1>1, <2>1, <2>3, <2>4, <2>5
<1>2. CASE ~(hex # <<>> /\ hex[1] = Plus)
  <2>1. Unsigned(hex) = hex
    BY <1>2 DEF Unsigned
  <2> QED
    BY <1>0, <1>2, <2>1
<1> QED
  BY <1>1, <1>2

(* What an escape becomes is a text. *)
LEMMA DecodeType ==
  ASSUME NEW hex \in Seq(Nat), Len(hex) <= 2 PROVE decode(hex) \in Seq(Nat)
<1> DEFINE u == Unsigned(hex)
<1>1. u \in Seq(Nat) /\ Len(u) \in 0..2
  BY UnsignedIs
<1>2. ASSUME Parses(hex) PROVE from_str_radix(hex) \in Nat
  <2>1. Len(u) \in 1..2
    BY <1>1, <1>2 DEF Parses
  <2>2. u[1] \in Nat /\ (Len(u) = 2 => u[2] \in Nat)
    BY <1>1, <2>1
  <2>3. Digit(u[1]) \in Nat /\ (Len(u) = 2 => Digit(u[2]) \in Nat)
    <3> HIDE DEF u
    <3>1. Digit(u[1]) \in 0..16 /\ (Len(u) = 2 => Digit(u[2]) \in 0..16)
      BY <2>2, DigitType
    <3> QED
      BY <3>1
  <2>4. from_str_radix(hex) = IF Len(u) = 1 THEN Digit(u[1]) ELSE 16 * Digit(u[1]) + Digit(u[2])
    BY DEF from_str_radix
  <2> HIDE DEF u
  <2> QED
    BY <2>1, <2>3, <2>4
<1>3. Parses(hex) => <<from_str_radix(hex)>> \in Seq(Nat)
  BY <1>2
<1>4. <<Percent>> \o hex \in Seq(Nat)
  <2>1. <<Percent>> \in Seq(Nat)
    BY DEF Percent
  <2> QED
    BY <2>1, ConcatProperties
<1> QED
  BY <1>3, <1>4 DEF decode

(* A piece is a text, and the scan goes on after it, within the text. *)
LEMMA PieceType ==
  ASSUME NEW text \in Seq(Nat), NEW i \in 1..Len(text)
  PROVE  Piece(text, i) \in Seq(Nat) /\ Onward(text, i) \in (i + 1)..(Len(text) + 1)
<1>1. text[i] \in Nat /\ Len(text) \in Nat
  OBVIOUS
<1>2. taken(text, i) \in Seq(Nat) /\ Len(taken(text, i)) = IF i + 2 <= Len(text) THEN 2 ELSE Len(text) - i
  BY TakenIs
<1>3. Len(taken(text, i)) <= 2
  BY <1>1, <1>2
<1>4. decode(taken(text, i)) \in Seq(Nat)
  BY <1>2, <1>3, DecodeType
<1>5. <<text[i]>> \in Seq(Nat)
  BY <1>1
<1>6. Onward(text, i) \in (i + 1)..(Len(text) + 1)
  <2> DEFINE n == Len(text)
             l == Len(taken(text, i))
  <2>1. n \in Nat /\ i \in 1..n /\ l = IF i + 2 <= n THEN 2 ELSE n - i
    BY <1>1, <1>2
  <2>2. Onward(text, i) = IF text[i] # Percent THEN i + 1 ELSE i + 1 + l
    BY DEF Onward
  <2> HIDE DEF n, l
  <2>3. Onward(text, i) \in (i + 1)..(n + 1)
    BY <2>1, <2>2
  <2> QED
    BY <2>3 DEF n
<1> QED
  BY <1>4, <1>5, <1>6 DEF Piece

(* The decoded text, from the end to the beginning. *)
LEMMA DecodedIs ==
  ASSUME NEW text \in Seq(Nat)
  PROVE  /\ decoded(text)[Len(text) + 1] = <<>>
         /\ \A i \in 1..(Len(text) + 1) : decoded(text)[i] \in Seq(Nat)
         /\ \A i \in 1..Len(text) :
              decoded(text)[i] = Piece(text, i) \o decoded(text)[Onward(text, i)]
<1> DEFINE n == Len(text)
           T == Nat
           D == decoded(text)
           F == [i \in 1..n |-> Piece(text, i)]
           J == [i \in 1..n |-> Onward(text, i)]
           Then(f, i) == IF i > n THEN <<>> ELSE Piece(text, i) \o f[Onward(text, i)]
<1>0. n \in Nat
  OBVIOUS
<1>1. F \in [1..n -> Seq(T)]
  BY PieceType
<1>2. J \in [1..n -> Nat] /\ \A i \in 1..n : J[i] \in (i + 1)..(n + 1)
  <2>1. \A i \in 1..n : Onward(text, i) \in (i + 1)..(n + 1)
    BY PieceType
  <2>2. \A i \in 1..n : Onward(text, i) \in Nat
    BY <1>0, <2>1
  <2> QED
    BY <2>1, <2>2
<1>3. Chained(n, T, F, J)
  <2> HIDE DEF n, T, F, J
  <2> QED
    BY <1>0, <1>1, <1>2, Chain
<1>4. PICK g \in [1..(n + 1) -> Seq(T)] : Chains(g, n, 1, F, J)
  BY <1>3 DEF Chained
<1>5. g = [i \in 1..(n + 1) |-> Then(g, i)]
  <2>1. ASSUME NEW i \in 1..(n + 1) PROVE g[i] = Then(g, i)
    <3>1. CASE i > n
      <4>1. i = n + 1
        BY <1>0, <3>1
      <4> QED
        BY <1>4, <3>1, <4>1 DEF Chains
    <3>2. CASE ~(i > n)
      <4>1. i \in 1..n
        BY <1>0, <3>2
      <4>2. F[i] = Piece(text, i) /\ J[i] = Onward(text, i)
        BY <4>1
      <4>3. g[i] = F[i] \o g[J[i]]
        BY <1>4, <4>1 DEF Chains
      <4> QED
        BY <3>2, <4>2, <4>3
    <3> QED
      BY <3>1, <3>2
  <2> HIDE DEF n, T, F, J, Then
  <2> QED
    BY <2>1
<1>6. D = [i \in 1..(n + 1) |-> Then(D, i)]
  <2> DEFINE G == CHOOSE f : f = [i \in 1..(n + 1) |-> Then(f, i)]
  <2>1. G = [i \in 1..(n + 1) |-> Then(G, i)]
    <3> HIDE DEF Then
    <3> QED
      BY <1>5, Zenon
  <2>2. D = G
    BY DEF decoded, Piece, Onward
  <2> QED
    BY <2>1, <2>2
<1> HIDE DEF D
<1>7. D[n + 1] = <<>>
  BY <1>0, <1>6
<1>8. ASSUME NEW i \in 1..n PROVE D[i] = Piece(text, i) \o D[Onward(text, i)]
  <2>1. i \in 1..(n + 1) /\ ~(i > n)
    BY <1>0
  <2>2. D[i] = Then(D, i)
    <3> HIDE DEF Then
    <3> QED
      BY <1>6, <2>1
  <2> QED
    BY <2>1, <2>2
<1> DEFINE S == {i \in 1..(n + 1) : D[i] \in Seq(T)}
<1>9. n + 1 \in S
  <2>1. n + 1 \in 1..(n + 1) /\ <<>> \in Seq(T)
    BY <1>0
  <2> HIDE DEF n, T
  <2> QED
    BY <1>7, <2>1
<1>10. ASSUME NEW i \in 1..n, \A j \in (i + 1)..(n + 1) : j \in S PROVE i \in S
  <2>1. Piece(text, i) \in Seq(T) /\ Onward(text, i) \in (i + 1)..(n + 1)
    BY PieceType
  <2>2. D[Onward(text, i)] \in Seq(T)
    BY <1>10, <2>1
  <2>3. Piece(text, i) \o D[Onward(text, i)] \in Seq(T)
    BY <2>1, <2>2, ConcatProperties
  <2>4. i \in 1..(n + 1)
    BY <1>0
  <2> QED
    BY <1>8, <2>3, <2>4
<1>11. \A i \in 1..(n + 1) : i \in S
  <2> HIDE DEF S, n
  <2> QED
    BY <1>0, <1>9, <1>10, DownInduct
<1> QED
  BY <1>7, <1>8, <1>11 DEF D

-----------------------------------------------------------------------------
(* What parses after a percent sign is decodable. *)
LEMMA ParsesDecodable ==
  ASSUME input \in Seq(Nat), NEW i \in 1..Len(input), Parses(taken(input, i))
  PROVE  Decodable(i)
<1> DEFINE n == Len(input)
           hex == taken(input, i)
           u == Unsigned(hex)
<1>1. n \in Nat /\ Here = 1..n
  BY DEF Here
<1>2. /\ hex \in Seq(Nat)
      /\ Len(hex) = IF i + 2 <= n THEN 2 ELSE n - i
      /\ \A k \in 1..Len(hex) : hex[k] = input[i + k]
  BY TakenIs
<1>3. Len(hex) \in 0..2 /\ Len(hex) <= 2 /\ i + Len(hex) <= n
  <2> HIDE DEF n, hex
  <2> QED
    BY <1>1, <1>2 DEF n
<1>4. /\ u \in Seq(Nat) /\ Len(u) \in 0..2
      /\ (hex # <<>> /\ hex[1] = Plus) =>
           Len(u) = Len(hex) - 1 /\ (Len(hex) = 2 => u[1] = hex[2])
      /\ ~(hex # <<>> /\ hex[1] = Plus) => u = hex
  <2> HIDE DEF hex
  <2> QED
    BY <1>2, <1>3, UnsignedIs
<1>5. u # <<>> /\ \A k \in 1..Len(u) : Digit(u[k]) < 16
  <2>1. u # <<>> /\ \A ch \in ToSet(u) : Digit(ch) < 16
    BY DEF Parses
  <2>2. \A k \in 1..Len(u) : u[k] \in ToSet(u)
    BY <1>4 DEF ToSet
  <2> QED
    BY <2>1, <2>2
<1>6. Len(u) \in 1..2
  <2>1. Len(u) # 0
    BY <1>4, <1>5, EmptySeq
  <2> QED
    BY <1>4, <2>1
<1> HIDE DEF u, hex, n
<1>7. CASE hex # <<>> /\ hex[1] = Plus
  <2>1. Len(hex) = 2 /\ u[1] = hex[2]
    BY <1>3, <1>4, <1>6, <1>7
  <2>2. hex[1] = input[i + 1] /\ hex[2] = input[i + 2]
    <3>1. 1 \in 1..Len(hex) /\ 2 \in 1..Len(hex)
      BY <2>1
    <3> QED
      BY <1>2, <3>1
  <2>3. i + 1 \in 1..n /\ i + 2 \in 1..n
    BY <1>1, <1>3, <2>1 DEF n
  <2>4. Digit(input[i + 2]) < 16
    BY <1>5, <1>6, <2>1, <2>2
  <2> QED
    BY <1>1, <1>7, <2>2, <2>3, <2>4 DEF Decodable, Hex
<1>8. CASE ~(hex # <<>> /\ hex[1] = Plus)
  <2>1. Len(hex) \in 1..2 /\ \A k \in 1..Len(hex) : Digit(input[i + k]) < 16
    BY <1>2, <1>4, <1>5, <1>6, <1>8
  <2>2. i + 1 \in 1..n /\ Digit(input[i + 1]) < 16
    <3> DEFINE l == Len(hex)
    <3>1. l \in 1..2 /\ i + l <= n /\ i \in Nat \ {0}
      BY <1>3, <2>1 DEF n
    <3> HIDE DEF l
    <3>2. 1 \in 1..l /\ i + 1 \in 1..n
      BY <1>1, <3>1
    <3> QED
      BY <2>1, <3>2 DEF l
  <2>3. i + 2 \in 1..n => Digit(input[i + 2]) < 16
    <3>1. i + 2 \in 1..n => Len(hex) = 2
      BY <1>1, <1>2
    <3> QED
      BY <2>1, <3>1
  <2> QED
    BY <1>1, <2>2, <2>3 DEF Decodable, Hex
<1> QED
  BY <1>7, <1>8

(* A piece that is no escape is left as it is. *)
LEMMA PieceKept ==
  ASSUME input \in Seq(Nat), NEW i \in 1..Len(input),
         input[i] = Percent => ~Parses(taken(input, i))
  PROVE  Piece(input, i) = SubSeq(input, i, Onward(input, i) - 1)
<1> DEFINE n == Len(input)
           e == Onward(input, i) - 1
<1>1. n \in Nat /\ e \in i..n /\ i \in Int
  <2>1. Onward(input, i) \in (i + 1)..(n + 1)
    BY PieceType
  <2>2. n \in Nat
    OBVIOUS
  <2> QED
    BY <2>1, <2>2
<1>2. SubSeq(input, i, e) = <<input[i]>> \o SubSeq(input, i + 1, e)
  <2> HIDE DEF e
  <2> QED
    BY <1>1, SubSeqRecursiveFirst
<1>3. CASE input[i] # Percent
  <2>1. e = i /\ i + 1 \in Int /\ i < i + 1
    BY <1>1, <1>3 DEF Onward
  <2>2. SubSeq(input, i + 1, i) = <<>>
    BY <1>1, <2>1, SubSeqEmpty
  <2>3. <<input[i]>> \in Seq(Nat)
    OBVIOUS
  <2>4. <<input[i]>> \o <<>> = <<input[i]>>
    BY <2>3, ConcatEmptySeq
  <2> QED
    BY <1>2, <1>3, <2>1, <2>2, <2>4 DEF Piece
<1>4. CASE input[i] = Percent
  <2>1. Piece(input, i) = <<Percent>> \o taken(input, i)
    BY <1>4 DEF Piece, decode
  <2>2. e = IF i + 2 <= n THEN i + 2 ELSE n
    <3>1. Len(taken(input, i)) = IF i + 2 <= n THEN 2 ELSE n - i
      BY TakenIs
    <3>2. e = (i + 1 + Len(taken(input, i))) - 1
      BY <1>4 DEF Onward
    <3> HIDE DEF e, n
    <3> QED
      BY <1>1, <3>1, <3>2
  <2>3. taken(input, i) = SubSeq(input, i + 1, e)
    BY <2>2 DEF taken
  <2> QED
    BY <1>2, <1>4, <2>1, <2>3
<1> QED
  BY <1>3, <1>4

(***************************************************************************)
(* normalize_url leaves a text alone in which no percent sign begins        *)
(* anything that parses, whatever its length and wherever it is cut off.    *)
(***************************************************************************)
THEOREM GarbageAlwaysKept == Spec => []GarbageKept
<1>1. ASSUME input \in Seq(Nat), \A i \in Here : input[i] = Percent => ~Decodable(i)
      PROVE  normalize_url(input) = input
  <2> DEFINE n == Len(input)
             D == decoded(input)
             S == {i \in 1..(n + 1) : D[i] = SubSeq(input, i, n)}
  <2>1. n \in Nat /\ Here = 1..n
    BY <1>1 DEF Here
  <2>2. /\ D[n + 1] = <<>>
        /\ \A i \in 1..n : D[i] = Piece(input, i) \o D[Onward(input, i)]
    BY <1>1, DecodedIs
  <2>3. n + 1 \in S
    <3>1. n + 1 \in Int /\ n \in Int /\ n < n + 1 /\ n + 1 \in 1..(n + 1)
      BY <2>1
    <3>2. SubSeq(input, n + 1, n) = <<>>
      <4> HIDE DEF n
      <4> QED
        BY <3>1, SubSeqEmpty
    <3> QED
      BY <2>2, <3>1, <3>2
  <2>4. ASSUME NEW i \in 1..n, \A j \in (i + 1)..(n + 1) : j \in S PROVE i \in S
    <3> DEFINE o == Onward(input, i)
               k == o - 1
    <3>1. o \in (i + 1)..(n + 1)
      BY <1>1, PieceType
    <3>2. i \in 1..(n + 1) /\ k \in (i - 1)..n /\ n \in k..n /\ k + 1 = o
      BY <2>1, <3>1
    <3>3. D[o] = SubSeq(input, o, n)
      BY <2>4, <3>1
    <3>4. Piece(input, i) = SubSeq(input, i, k)
      BY <1>1, <2>1, ParsesDecodable, PieceKept
    <3>5. SubSeq(input, i, k) \o SubSeq(input, k + 1, n) = SubSeq(input, i, n)
      <4> HIDE DEF k, o
      <4> QED
        BY <1>1, <3>2, ConcatAdjacentSubSeq
    <3> HIDE DEF o
    <3> QED
      BY <2>2, <3>2, <3>3, <3>4, <3>5 DEF o
  <2>5. 1 \in S
    <3>1. 1 \in 1..(n + 1)
      BY <2>1
    <3> HIDE DEF S, n
    <3> QED
      BY <2>1, <2>3, <2>4, <3>1, DownInduct
  <2>6. SubSeq(input, 1, n) = input
    BY <1>1, SubSeqFull
  <2> QED
    BY <2>5, <2>6 DEF normalize_url
<1>2. Characters => GarbageKept
  BY <1>1, CharactersAreNumbers DEF GarbageKept
<1> QED
  BY <1>2, AlwaysCharacters, PTL

-----------------------------------------------------------------------------
(* What a proper escape becomes, or the character that is none. *)
Value(i) ==
  IF input[i] = Percent THEN 16 * Digit(input[i + 1]) + Digit(input[i + 2]) ELSE input[i]

ProperEscapes == \A i \in Here : input[i] = Percent => Escape(i)

(* The positions from i on that yield a character of their own. *)
HeadsFrom(i) == Heads \cap i..Len(input)
UpTo(i, h) == HeadsFrom(i) \cap 1..h

(* A percent sign and a plus sign are no digits. *)
LEMMA NoDigits == Digit(Percent) = 16 /\ Digit(Plus) = 16
BY DEF Digit, Percent, Plus

(* A head yields one character. *)
LEMMA PieceValue ==
  ASSUME input \in Seq(Nat), ProperEscapes, NEW i \in 1..Len(input)
  PROVE  /\ Piece(input, i) = <<Value(i)>>
         /\ Onward(input, i) = IF input[i] = Percent THEN i + 3 ELSE i + 1
<1> DEFINE n == Len(input)
           hex == taken(input, i)
<1>1. n \in Nat /\ Here = 1..n
  BY DEF Here
<1>2. CASE input[i] # Percent
  BY <1>2 DEF Piece, Onward, Value
<1>3. CASE input[i] = Percent
  <2>1. /\ i + 1 \in 1..n /\ Digit(input[i + 1]) < 16
        /\ i + 2 \in 1..n /\ Digit(input[i + 2]) < 16
    BY <1>1, <1>3 DEF ProperEscapes, Escape, Hex
  <2>2. /\ hex \in Seq(Nat)
        /\ Len(hex) = IF i + 2 <= n THEN 2 ELSE n - i
        /\ \A k \in 1..Len(hex) : hex[k] = input[i + k]
    BY TakenIs
  <2>3. Len(hex) = 2
    BY <1>1, <2>1, <2>2
  <2>4. hex[1] = input[i + 1] /\ hex[2] = input[i + 2]
    <3>1. 1 \in 1..2 /\ 2 \in 1..2
      OBVIOUS
    <3> QED
      BY <2>2, <2>3, <3>1
  <2> HIDE DEF hex
  <2>5. hex[1] # Plus
    BY <2>1, <2>4, NoDigits
  <2>6. Unsigned(hex) = hex
    BY <2>5 DEF Unsigned
  <2>7. Parses(hex)
    <3>1. hex # <<>>
      <4>1. Len(<<>>) = 0 /\ 0 # 2
        OBVIOUS
      <4> QED
        BY <2>3, <4>1, Zenon
    <3>2. \A ch \in ToSet(hex) : ch = hex[1] \/ ch = hex[2]
      <4>1. DOMAIN hex = 1..2
        BY <2>2, <2>3
      <4>2. \A k \in 1..2 : k = 1 \/ k = 2
        OBVIOUS
      <4> QED
        BY <4>1, <4>2 DEF ToSet
    <3> QED
      BY <2>1, <2>4, <2>6, <3>1, <3>2 DEF Parses
  <2>8. from_str_radix(hex) = 16 * Digit(hex[1]) + Digit(hex[2])
    <3>1. from_str_radix(hex) =
            IF Len(hex) = 1 THEN Digit(hex[1]) ELSE 16 * Digit(hex[1]) + Digit(hex[2])
      BY <2>6, Zenon DEF from_str_radix
    <3>2. Len(hex) # 1
      BY <2>3
    <3> QED
      BY <3>1, <3>2, Zenon
  <2>9. decode(hex) = <<Value(i)>>
    BY <1>3, <2>4, <2>7, <2>8 DEF decode, Value
  <2>10. Piece(input, i) = decode(hex) /\ Onward(input, i) = i + 1 + Len(hex)
    BY <1>3 DEF Piece, Onward, hex
  <2> QED
    BY <1>3, <2>3, <2>9, <2>10
<1> QED
  BY <1>2, <1>3

(* From a head on: the head, and the heads after what it takes. *)
LEMMA HeadsStep ==
  ASSUME input \in Seq(Nat), ProperEscapes, NEW i \in Heads
  PROVE  LET o == Onward(input, i) IN
         /\ o \in Heads \/ o = Len(input) + 1
         /\ HeadsFrom(i) = {i} \cup HeadsFrom(o)
         /\ i < o
<1> DEFINE n == Len(input)
           o == Onward(input, i)
<1>1. n \in Nat /\ Here = 1..n /\ i \in 1..n /\ \A k \in {i - 1, i - 2} \cap Here : input[k] # Percent
  BY DEF Here, Heads
<1>2. o = IF input[i] = Percent THEN i + 3 ELSE i + 1
  BY <1>1, PieceValue
<1>3. o \in (i + 1)..(n + 1)
  BY <1>1, PieceType
<1> HIDE DEF o, n
<1>4. CASE input[i] # Percent
  <2>1. o = i + 1
    BY <1>2, <1>4
  <2>2. o \in 1..n => o \in Heads
    <3> SUFFICES ASSUME o \in 1..n, NEW k \in {o - 1, o - 2} \cap Here PROVE input[k] # Percent
      BY <1>1 DEF Heads
    <3>1. k = i \/ k \in {i - 1, i - 2} \cap Here
      BY <1>1, <2>1
    <3> QED
      BY <1>1, <1>4, <3>1
  <2>3. \A k \in i..n : k = i \/ k \in o..n
    BY <1>1, <2>1
  <2>4. HeadsFrom(i) = {i} \cup HeadsFrom(o)
    BY <1>1, <2>1, <2>3 DEF HeadsFrom, n
  <2>5. o \in 1..n \/ o = n + 1
    BY <1>1, <1>3
  <2> QED
    BY <1>1, <2>1, <2>2, <2>4, <2>5 DEF o, n
<1>5. CASE input[i] = Percent
  <2>1. o = i + 3
    BY <1>2, <1>5
  <2>2. /\ i + 1 \in 1..n /\ Digit(input[i + 1]) < 16
        /\ i + 2 \in 1..n /\ Digit(input[i + 2]) < 16
    BY <1>1, <1>5 DEF ProperEscapes, Escape, Hex
  <2>3. input[i + 1] # Percent /\ input[i + 2] # Percent
    BY <2>2, NoDigits
  <2>4. o \in 1..n => o \in Heads
    <3> SUFFICES ASSUME o \in 1..n, NEW k \in {o - 1, o - 2} \cap Here PROVE input[k] # Percent
      BY <1>1 DEF Heads
    <3>1. k = i + 2 \/ k = i + 1
      BY <1>1, <2>1
    <3> QED
      BY <2>3, <3>1
  <2>5. i + 1 \notin Heads /\ i + 2 \notin Heads
    <3>1. i \in {(i + 1) - 1, (i + 1) - 2} \cap Here /\ i \in {(i + 2) - 1, (i + 2) - 2} \cap Here
      BY <1>1
    <3> QED
      BY <1>5, <3>1 DEF Heads
  <2>6. \A k \in i..n : k = i \/ k = i + 1 \/ k = i + 2 \/ k \in o..n
    BY <1>1, <2>1
  <2>7. HeadsFrom(i) = {i} \cup HeadsFrom(o)
    <3>1. \A k \in o..n : k \in i..n
      BY <1>1, <2>1
    <3>2. i \in i..n
      BY <1>1
    <3> QED
      BY <2>5, <2>6, <3>1, <3>2 DEF HeadsFrom, n
  <2>8. o \in 1..n \/ o = n + 1
    BY <1>1, <1>3
  <2>9. i < o
    BY <1>1, <2>1
  <2> QED
    BY <2>4, <2>7, <2>8, <2>9 DEF o, n
<1> QED
  BY <1>4, <1>5

(* Counting heads. *)
LEMMA HeadsCount ==
  ASSUME input \in Seq(Nat), NEW i, NEW h
  PROVE  /\ IsFiniteSet(HeadsFrom(i)) /\ Cardinality(HeadsFrom(i)) \in Nat
         /\ IsFiniteSet(UpTo(i, h)) /\ Cardinality(UpTo(i, h)) \in Nat
         /\ Cardinality(UpTo(i, h)) <= Cardinality(HeadsFrom(i))
<1>1. IsFiniteSet(1..Len(input))
  BY FS_Interval
<1>2. Heads \subseteq 1..Len(input)
  BY DEF Heads, Here
<1>3. IsFiniteSet(HeadsFrom(i))
  <2>1. HeadsFrom(i) \subseteq 1..Len(input)
    BY <1>2 DEF HeadsFrom
  <2> QED
    BY <1>1, <2>1, FS_Subset
<1>4. UpTo(i, h) \subseteq HeadsFrom(i)
  BY DEF UpTo
<1>5. IsFiniteSet(UpTo(i, h)) /\ Cardinality(UpTo(i, h)) <= Cardinality(HeadsFrom(i))
  BY <1>3, <1>4, FS_Subset
<1> QED
  BY <1>3, <1>5, FS_CardinalityType

(***************************************************************************)
(* What has been decoded from a head on: one character for each head, in    *)
(* the order of the heads.                                                  *)
(***************************************************************************)
DecodedFrom(out, i) ==
  /\ Len(out) = Cardinality(HeadsFrom(i))
  /\ \A h \in HeadsFrom(i) : out[Cardinality(UpTo(i, h))] = Value(h)

(* One more head in front. *)
LEMMA DecodeStep ==
  ASSUME input \in Seq(Nat), ProperEscapes, NEW i \in Heads, NEW rest \in Seq(Nat),
         DecodedFrom(rest, Onward(input, i)), Value(i) \in Nat
  PROVE  DecodedFrom(<<Value(i)>> \o rest, i)
<1> DEFINE o == Onward(input, i)
           v == <<Value(i)>>
           out == v \o rest
           R == HeadsFrom(o)
<1>1. HeadsFrom(i) = R \cup {i} /\ i < o /\ i \in 1..Len(input) /\ o \in Nat
  <2>1. i \in 1..Len(input)
    BY DEF Heads, Here
  <2>2. Onward(input, i) \in (i + 1)..(Len(input) + 1)
    BY <2>1, PieceType
  <2> QED
    BY <2>1, <2>2, HeadsStep
<1>2. \A h \in R : h \in Nat /\ o <= h
  BY <1>1 DEF HeadsFrom
<1>3. i \notin R
  BY <1>1, <1>2
<1>4. IsFiniteSet(R) /\ Cardinality(R) \in Nat /\ Len(rest) = Cardinality(R)
  BY HeadsCount DEF DecodedFrom
<1>5. Cardinality(HeadsFrom(i)) = Cardinality(R) + 1
  <2> HIDE DEF R
  <2> QED
    BY <1>1, <1>3, <1>4, FS_AddElement
<1>6. v \in Seq(Nat) /\ Len(v) = 1 /\ v[1] = Value(i)
  OBVIOUS
<1>7. Len(out) = Cardinality(R) + 1
      /\ out[1] = Value(i)
      /\ \A c \in 1..Cardinality(R) : out[c + 1] = rest[c]
  <2> HIDE DEF v, R
  <2>1. /\ Len(v \o rest) = Len(v) + Len(rest)
        /\ \A k \in 1..(Len(v) + Len(rest)) :
             (v \o rest)[k] = IF k <= Len(v) THEN v[k] ELSE rest[k - Len(v)]
    BY <1>6, ConcatProperties
  <2>2. Len(v) + Len(rest) = Cardinality(R) + 1
    BY <1>4, <1>6
  <2>3. (v \o rest)[1] = v[1]
    <3>1. 1 \in 1..(Len(v) + Len(rest)) /\ 1 <= Len(v)
      BY <1>4, <1>6
    <3> QED
      BY <2>1, <3>1
  <2>4. ASSUME NEW c \in 1..Cardinality(R) PROVE (v \o rest)[c + 1] = rest[c]
    <3>1. c + 1 \in 1..(Len(v) + Len(rest)) /\ ~(c + 1 <= Len(v)) /\ (c + 1) - Len(v) = c
      BY <1>4, <1>6
    <3> QED
      BY <2>1, <3>1
  <2> QED
    BY <1>6, <2>1, <2>2, <2>3, <2>4
<1> HIDE DEF out, R, o
<1>8. ASSUME NEW h \in HeadsFrom(i) PROVE out[Cardinality(UpTo(i, h))] = Value(h)
  <2>1. CASE h = i
    <3>1. UpTo(i, i) = {i}
      BY <1>1, <1>2 DEF UpTo
    <3>2. Cardinality(UpTo(i, i)) = 1
      BY <3>1, FS_Singleton
    <3> QED
      BY <1>7, <2>1, <3>2
  <2>2. CASE h \in R
    <3> DEFINE c == Cardinality(UpTo(o, h))
    <3>1. UpTo(i, h) = UpTo(o, h) \cup {i} /\ i \notin UpTo(o, h) /\ h \in UpTo(o, h)
      BY <1>1, <1>2, <1>3, <2>2 DEF UpTo, R
    <3>2. IsFiniteSet(UpTo(o, h)) /\ c \in Nat /\ c <= Cardinality(R)
      BY HeadsCount DEF R
    <3>3. Cardinality(UpTo(i, h)) = c + 1
      <4> DEFINE A == UpTo(o, h)
      <4>1. IsFiniteSet(A) /\ i \notin A /\ UpTo(i, h) = A \cup {i}
        BY <3>1, <3>2
      <4> HIDE DEF A
      <4>2. Cardinality(UpTo(i, h)) = Cardinality(A) + 1
        BY <4>1, FS_AddElement
      <4> QED
        BY <4>2 DEF A
    <3>4. c # 0
      BY <3>1, <3>2, FS_EmptySet
    <3>5. c \in 1..Cardinality(R)
      <4> HIDE DEF c
      <4> QED
        BY <1>4, <3>2, <3>4
    <3>6. rest[c] = Value(h)
      BY <2>2 DEF DecodedFrom, R, o
    <3> HIDE DEF c
    <3> QED
      BY <1>7, <3>3, <3>5, <3>6
  <2> QED
    BY <1>1, <2>1, <2>2
<1> QED
  BY <1>5, <1>7, <1>8 DEF DecodedFrom, out

(***************************************************************************)
(* normalize_url decodes a text whose percent signs all begin proper        *)
(* escapes as RFC 3986 says, whatever its length.                           *)
(***************************************************************************)
THEOREM DecodeCorrect == Spec => []DecodeExact
<1>1. ASSUME input \in Seq(Nat), ProperEscapes
      PROVE  DecodedFrom(normalize_url(input), 1)
  <2> DEFINE n == Len(input)
             D == decoded(input)
             S == {i \in 1..(n + 1) : (i \in Heads \/ i = n + 1) => DecodedFrom(D[i], i)}
  <2>1. n \in Nat /\ Here = 1..n
    BY <1>1 DEF Here
  <2>2. /\ D[n + 1] = <<>>
        /\ \A i \in 1..(n + 1) : D[i] \in Seq(Nat)
        /\ \A i \in 1..n : D[i] = Piece(input, i) \o D[Onward(input, i)]
    BY <1>1, DecodedIs
  <2>3. n + 1 \in S
    <3>1. HeadsFrom(n + 1) = {}
      BY <2>1 DEF HeadsFrom
    <3>2. Cardinality(HeadsFrom(n + 1)) = 0 /\ Len(<<>>) = 0
      BY <3>1, FS_EmptySet
    <3>3. DecodedFrom(<<>>, n + 1)
      BY <3>1, <3>2 DEF DecodedFrom
    <3> QED
      BY <2>1, <2>2, <3>3
  <2>4. ASSUME NEW i \in 1..n, \A j \in (i + 1)..(n + 1) : j \in S PROVE i \in S
    <3> DEFINE o == Onward(input, i)
    <3> SUFFICES ASSUME i \in Heads PROVE DecodedFrom(D[i], i)
      BY <2>1
    <3>1. o \in (i + 1)..(n + 1) /\ (o \in Heads \/ o = n + 1)
      BY <1>1, PieceType, HeadsStep
    <3>2. DecodedFrom(D[o], o)
      BY <2>4, <3>1
    <3>3. D[o] \in Seq(Nat)
      BY <2>1, <2>2, <3>1
    <3>4. Piece(input, i) = <<Value(i)>>
      BY <1>1, PieceValue
    <3>5. Value(i) \in Nat
      <4>1. <<Value(i)>> \in Seq(Nat)
        BY <1>1, <3>4, PieceType
      <4> QED
        BY <4>1
    <3>6. D[i] = <<Value(i)>> \o D[o]
      BY <2>2, <3>4
    <3> HIDE DEF D
    <3> QED
      BY <1>1, <3>2, <3>3, <3>5, <3>6, DecodeStep
  <2>5. 1 \in S
    <3>1. 1 \in 1..(n + 1)
      BY <2>1
    <3> HIDE DEF S, n
    <3> QED
      BY <2>1, <2>3, <2>4, <3>1, DownInduct
  <2>6. 1 \in Heads \/ 1 = n + 1
    BY <2>1 DEF Heads
  <2> QED
    BY <2>5, <2>6 DEF normalize_url
<1>2. ASSUME input \in Seq(Nat)
      PROVE  HeadsFrom(1) = Heads /\ \A h : UpTo(1, h) = Heads \cap 1..h
  BY <1>2 DEF HeadsFrom, UpTo, Heads, Here
<1>3. ASSUME input \in Seq(Nat) PROVE DecodeExact
  <2> SUFFICES ASSUME ProperEscapes
               PROVE  LET out == normalize_url(input) IN
                      /\ Len(out) = Cardinality(Heads)
                      /\ \A i \in Heads : out[Cardinality(Heads \cap 1..i)] = Value(i)
    BY DEF DecodeExact, ProperEscapes, Value
  <2>1. DecodedFrom(normalize_url(input), 1)
    BY <1>1, <1>3
  <2> QED
    BY <1>2, <1>3, <2>1 DEF DecodedFrom
<1>4. Characters => DecodeExact
  BY <1>3, CharactersAreNumbers
<1> QED
  BY <1>4, AlwaysCharacters, PTL

-----------------------------------------------------------------------------
(* The lists of pieces: there is always a last one. *)
Pieces == {p \in Seq(Seq(Nat)) : Len(p) > 0}

(* What a character does to the pieces. *)
LEMMA CutType ==
  ASSUME NEW p \in Pieces, NEW ch \in Nat, NEW sep
  PROVE  /\ cut(p, ch, sep) \in Pieces
         /\ ch = sep =>
              /\ Len(cut(p, ch, sep)) = Len(p) + 1
              /\ cut(p, ch, sep)[Len(p) + 1] = <<>>
              /\ \A q \in 1..Len(p) : cut(p, ch, sep)[q] = p[q]
         /\ ch # sep =>
              /\ Len(cut(p, ch, sep)) = Len(p)
              /\ cut(p, ch, sep)[Len(p)] = Append(p[Len(p)], ch)
              /\ \A q \in 1..(Len(p) - 1) : cut(p, ch, sep)[q] = p[q]
<1> DEFINE T == Seq(Nat)
           m == Len(p)
           c == cut(p, ch, sep)
           last == Append(p[m], ch)
<1>1. p \in Seq(T) /\ m \in Nat /\ m > 0
  BY DEF Pieces
<1>2. <<>> \in T /\ p[m] \in T
  BY <1>1
<1>3. last \in T
  BY <1>2
<1>4. CASE ch = sep
  <2>1. c = Append(p, <<>>)
    BY <1>4 DEF cut
  <2> HIDE DEF T, m, c
  <2>2. /\ Append(p, <<>>) \in Seq(T) /\ Len(Append(p, <<>>)) = m + 1
        /\ Append(p, <<>>)[m + 1] = <<>>
        /\ \A q \in 1..m : Append(p, <<>>)[q] = p[q]
    BY <1>1, <1>2, AppendProperties DEF m
  <2>3. m + 1 > 0
    BY <1>1
  <2> QED
    BY <1>4, <2>1, <2>2, <2>3 DEF Pieces, T, m, c
<1>5. CASE ch # sep
  <2>1. c = [p EXCEPT ![m] = last]
    BY <1>5 DEF cut
  <2>2. m \in 1..m
    BY <1>1
  <2> HIDE DEF T, m, c, last
  <2>3. /\ [p EXCEPT ![m] = last] \in Seq(T) /\ Len([p EXCEPT ![m] = last]) = m
        /\ \A q \in 1..m : [p EXCEPT ![m] = last][q] = IF q = m THEN last ELSE p[q]
    BY <1>1, <1>3, <2>2, ExceptSeq DEF m
  <2>4. \A q \in 1..(m - 1) : q \in 1..m /\ q # m
    BY <1>1
  <2>5. c \in Seq(T) /\ Len(c) = m /\ c[m] = last /\ \A q \in 1..(m - 1) : c[q] = p[q]
    BY <2>1, <2>2, <2>3, <2>4
  <2> QED
    BY <1>1, <1>5, <2>5 DEF Pieces, T, m, c, last
<1> QED
  BY <1>4, <1>5

(* The pieces of a text, one character after the other. *)
LEMMA CutsIs ==
  ASSUME NEW text \in Seq(Nat), NEW sep
  PROVE  /\ cuts(text, sep)[0] = << <<>> >>
         /\ \A k \in 0..Len(text) : cuts(text, sep)[k] \in Pieces
         /\ \A k \in 1..Len(text) : cuts(text, sep)[k] = cut(cuts(text, sep)[k - 1], text[k], sep)
<1> DEFINE n == Len(text)
           D == cuts(text, sep)
           v == << <<>> >>
           F == [k \in 1..n |-> [p \in Pieces |-> cut(p, text[k], sep)]]
<1>0. n \in Nat /\ \A k \in 1..n : text[k] \in Nat
  OBVIOUS
<1>1. v \in Pieces
  <2>1. <<>> \in Seq(Nat)
    OBVIOUS
  <2>2. v \in Seq(Seq(Nat)) /\ Len(v) = 1
    BY <2>1
  <2> QED
    BY <2>2 DEF Pieces
<1>2. F \in [1..n -> [Pieces -> Pieces]]
  <2>1. ASSUME NEW k \in 1..n PROVE [p \in Pieces |-> cut(p, text[k], sep)] \in [Pieces -> Pieces]
    BY <1>0, CutType
  <2> QED
    BY <2>1
<1>3. Unrolled(n, Pieces, v, F)
  <2> HIDE DEF n, v, F
  <2> QED
    BY <1>0, <1>1, <1>2, Recursion
<1>4. PICK g \in [0..n -> Pieces] : Unrolls(g, n, v, F)
  BY <1>3 DEF Unrolled
<1>5. g = [k \in 0..n |-> IF k = 0 THEN v ELSE cut(g[k - 1], text[k], sep)]
  <2>1. ASSUME NEW k \in 1..n PROVE g[k] = cut(g[k - 1], text[k], sep)
    <3>1. k - 1 \in 0..n
      BY <1>0
    <3>2. g[k - 1] \in Pieces
      BY <3>1
    <3>3. F[k] = [p \in Pieces |-> cut(p, text[k], sep)]
      BY Zenon
    <3>4. F[k][g[k - 1]] = cut(g[k - 1], text[k], sep)
      BY <3>2, <3>3
    <3> HIDE DEF F, n
    <3> QED
      BY <1>4, <3>4 DEF Unrolls
  <2>2. \A k \in 0..n : k = 0 \/ k \in 1..n
    BY <1>0
  <2> HIDE DEF n, F, v
  <2>3. \A k \in 0..n : g[k] = IF k = 0 THEN v ELSE cut(g[k - 1], text[k], sep)
    BY <1>4, <2>1, <2>2 DEF Unrolls
  <2> QED
    BY <2>3
<1>6. D = [k \in 0..n |-> IF k = 0 THEN v ELSE cut(D[k - 1], text[k], sep)]
  <2> DEFINE G == CHOOSE f : f = [k \in 0..n |-> IF k = 0 THEN v ELSE cut(f[k - 1], text[k], sep)]
  <2>1. G = [k \in 0..n |-> IF k = 0 THEN v ELSE cut(G[k - 1], text[k], sep)]
    BY <1>5, Zenon
  <2>2. D = G
    BY DEF cuts
  <2> QED
    BY <2>1, <2>2
<1> HIDE DEF D, n, v
<1>7. D[0] = v /\ \A k \in 1..n : D[k] = cut(D[k - 1], text[k], sep)
  BY <1>0, <1>6
<1>8. \A k \in 0..n : D[k] \in Pieces
  <2> DEFINE S == {k \in 0..n : D[k] \in Pieces}
  <2>1. 0 \in S
    BY <1>0, <1>1, <1>7
  <2>2. ASSUME NEW k \in 1..n, k - 1 \in S PROVE k \in S
    <3>1. k \in 0..n /\ D[k - 1] \in Pieces
      BY <1>0, <2>2
    <3> QED
      BY <1>0, <1>7, <3>1, CutType
  <2>3. \A k \in 0..n : k \in S
    <3> HIDE DEF S
    <3> QED
      BY <1>0, <2>1, <2>2, Induct
  <2> QED
    BY <2>3
<1> QED
  BY <1>7, <1>8 DEF D, n, v

(***************************************************************************)
(* Where the pieces of the first k characters begin (B) and end (E): they   *)
(* hold no separator, one follows each but the last and precedes each but   *)
(* the first, and no beginning is missing or taken twice.                   *)
(***************************************************************************)
PieceAt(text, sep, b, e, piece) ==
  /\ b <= e + 1 /\ piece = SubSeq(text, b, e)
  /\ \A j \in b..e : text[j] # sep
  /\ b = 1 \/ text[b - 1] = sep

Layout(text, sep, k, p, B, E) ==
  /\ B \in [1..Len(p) -> 1..(k + 1)] /\ E \in [1..Len(p) -> 0..k]
  /\ B[1] = 1 /\ E[Len(p)] = k
  /\ \A q \in 1..Len(p) : PieceAt(text, sep, B[q], E[q], p[q])
  /\ \A q \in 1..(Len(p) - 1) : E[q] < k /\ text[E[q] + 1] = sep
  /\ \A q, r \in 1..Len(p) : B[q] = B[r] => q = r
  /\ \A i \in 1..(k + 1) : (i = 1 \/ text[i - 1] = sep) => \E q \in 1..Len(p) : B[q] = i

LaidOut(text, sep, k, p) == \E B, E : Layout(text, sep, k, p, B, E)

(* A separator ends a piece and begins another. *)
LEMMA LayoutCut ==
  ASSUME NEW text \in Seq(Nat), NEW sep, NEW k \in 1..Len(text), NEW p \in Pieces,
         LaidOut(text, sep, k - 1, p), text[k] = sep
  PROVE  LaidOut(text, sep, k, cut(p, text[k], sep))
<1> DEFINE m == Len(p)
           c == cut(p, text[k], sep)
<1>1. PICK B, E : Layout(text, sep, k - 1, p, B, E)
  BY DEF LaidOut
<1>2. m \in Nat \ {0} /\ k \in Nat \ {0} /\ text[k] \in Nat /\ (k - 1) + 1 = k
  BY DEF Pieces
<1>3. Len(c) = m + 1 /\ c[m + 1] = <<>> /\ \A q \in 1..m : c[q] = p[q]
  BY <1>2, CutType
<1> DEFINE B2 == [q \in 1..(m + 1) |-> IF q = m + 1 THEN k + 1 ELSE B[q]]
           E2 == [q \in 1..(m + 1) |-> IF q = m + 1 THEN k ELSE E[q]]
<1>4. /\ B \in [1..m -> 1..k] /\ E \in [1..m -> 0..(k - 1)]
      /\ B[1] = 1 /\ E[m] = k - 1
      /\ \A q \in 1..m : PieceAt(text, sep, B[q], E[q], p[q])
      /\ \A q \in 1..(m - 1) : E[q] < k - 1 /\ text[E[q] + 1] = sep
      /\ \A q, r \in 1..m : B[q] = B[r] => q = r
      /\ \A i \in 1..k : (i = 1 \/ text[i - 1] = sep) => \E q \in 1..m : B[q] = i
  BY <1>1, <1>2 DEF Layout
<1> HIDE DEF m, c
<1>5. \A q \in 1..(m + 1) : q = m + 1 \/ q \in 1..m
  BY <1>2
<1>6. \A q \in 1..m : q \in 1..(m + 1) /\ q # m + 1
  BY <1>2
<1>7. /\ B2[m + 1] = k + 1 /\ E2[m + 1] = k
      /\ \A q \in 1..m : B2[q] = B[q] /\ E2[q] = E[q]
  <2>1. m + 1 \in 1..(m + 1)
    BY <1>2
  <2> QED
    BY <1>6, <2>1
<1>8. \A q \in 1..m : B[q] \in 1..k /\ E[q] \in 0..(k - 1)
  BY <1>4
<1>9. B2 \in [1..(m + 1) -> 1..(k + 1)]
  <2>1. k + 1 \in 1..(k + 1) /\ \A q \in 1..m : B[q] \in 1..(k + 1)
    BY <1>2, <1>8
  <2> QED
    BY <1>5, <2>1
<1>10. E2 \in [1..(m + 1) -> 0..k]
  <2>1. k \in 0..k /\ \A q \in 1..m : E[q] \in 0..k
    BY <1>2, <1>8
  <2> QED
    BY <1>5, <2>1
<1> HIDE DEF B2, E2
<1>11. B2[1] = 1 /\ E2[m + 1] = k
  BY <1>2, <1>4, <1>7
<1>12. ASSUME NEW q \in 1..(m + 1) PROVE PieceAt(text, sep, B2[q], E2[q], c[q])
  <2>1. CASE q \in 1..m
    BY <1>3, <1>4, <1>7, <2>1
  <2>2. CASE q = m + 1
    <3>1. k + 1 \in Int /\ k \in Int /\ k < k + 1
      BY <1>2
    <3>2. SubSeq(text, k + 1, k) = <<>>
      BY <3>1, SubSeqEmpty
    <3>3. (k + 1) - 1 = k /\ k + 1 <= k + 1 /\ \A j \in (k + 1)..k : FALSE
      BY <1>2
    <3>4. PieceAt(text, sep, k + 1, k, <<>>)
      BY <3>2, <3>3 DEF PieceAt
    <3> QED
      BY <1>3, <1>7, <2>2, <3>4
  <2> QED
    BY <1>5, <2>1, <2>2
<1>13. ASSUME NEW q \in 1..m PROVE E2[q] < k /\ text[E2[q] + 1] = sep
  <2>1. CASE q = m
    <3>1. E2[q] = k - 1
      BY <1>4, <1>7, <2>1
    <3> QED
      BY <1>2, <3>1
  <2>2. CASE q # m
    <3>1. q \in 1..(m - 1)
      BY <1>2, <2>2
    <3>2. E2[q] = E[q] /\ E[q] \in 0..(k - 1)
      BY <1>7, <1>8
    <3>3. text[E[q] + 1] = sep
      BY <1>4, <3>1
    <3>4. E[q] < k
      BY <1>2, <3>2
    <3> QED
      BY <3>2, <3>3, <3>4
  <2> QED
    BY <2>1, <2>2
<1>14. ASSUME NEW q \in 1..(m + 1), NEW r \in 1..(m + 1), B2[q] = B2[r] PROVE q = r
  <2>1. \A s \in 1..m : B2[s] # k + 1
    BY <1>2, <1>7, <1>8
  <2> QED
    BY <1>4, <1>5, <1>7, <1>14, <2>1
<1>15. ASSUME NEW i \in 1..(k + 1), i = 1 \/ text[i - 1] = sep
       PROVE  \E q \in 1..(m + 1) : B2[q] = i
  <2>1. CASE i = k + 1
    <3>1. m + 1 \in 1..(m + 1)
      BY <1>2
    <3> QED
      BY <1>7, <2>1, <3>1
  <2>2. CASE i # k + 1
    <3>1. i \in 1..k
      BY <1>2, <2>2
    <3>2. PICK q \in 1..m : B[q] = i
      BY <1>4, <1>15, <3>1
    <3> QED
      BY <1>6, <1>7, <3>2
  <2> QED
    BY <2>1, <2>2
<1>16. (m + 1) - 1 = m
  BY <1>2
<1>17. Layout(text, sep, k, c, B2, E2)
  BY <1>3, <1>9, <1>10, <1>11, <1>12, <1>13, <1>14, <1>15, <1>16 DEF Layout
<1> QED
  BY <1>17 DEF LaidOut, c

(* Any other character belongs to the last piece. *)
LEMMA LayoutGrow ==
  ASSUME NEW text \in Seq(Nat), NEW sep, NEW k \in 1..Len(text), NEW p \in Pieces,
         LaidOut(text, sep, k - 1, p), text[k] # sep
  PROVE  LaidOut(text, sep, k, cut(p, text[k], sep))
<1> DEFINE m == Len(p)
           c == cut(p, text[k], sep)
<1>1. PICK B, E : Layout(text, sep, k - 1, p, B, E)
  BY DEF LaidOut
<1>2. m \in Nat \ {0} /\ k \in Nat \ {0} /\ text[k] \in Nat /\ (k - 1) + 1 = k
  BY DEF Pieces
<1>3. Len(c) = m /\ c[m] = Append(p[m], text[k]) /\ \A q \in 1..(m - 1) : c[q] = p[q]
  BY <1>2, CutType
<1> DEFINE E2 == [q \in 1..m |-> IF q = m THEN k ELSE E[q]]
<1>4. /\ B \in [1..m -> 1..k] /\ E \in [1..m -> 0..(k - 1)]
      /\ B[1] = 1 /\ E[m] = k - 1
      /\ \A q \in 1..m : PieceAt(text, sep, B[q], E[q], p[q])
      /\ \A q \in 1..(m - 1) : E[q] < k - 1 /\ text[E[q] + 1] = sep
      /\ \A q, r \in 1..m : B[q] = B[r] => q = r
      /\ \A i \in 1..k : (i = 1 \/ text[i - 1] = sep) => \E q \in 1..m : B[q] = i
  BY <1>1, <1>2 DEF Layout
<1> HIDE DEF m, c
<1>5. \A q \in 1..m : q = m \/ q \in 1..(m - 1)
  BY <1>2
<1>6. m \in 1..m /\ \A q \in 1..(m - 1) : q \in 1..m /\ q # m
  BY <1>2
<1>7. E2[m] = k /\ \A q \in 1..(m - 1) : E2[q] = E[q]
  BY <1>6
<1>8. \A q \in 1..m : B[q] \in 1..k /\ E[q] \in 0..(k - 1)
  BY <1>4
<1>9. B \in [1..m -> 1..(k + 1)]
  <2>1. \A q \in 1..m : B[q] \in 1..(k + 1)
    BY <1>2, <1>8
  <2> QED
    BY <1>4, <2>1
<1>10. E2 \in [1..m -> 0..k]
  <2>1. k \in 0..k /\ \A q \in 1..m : E[q] \in 0..k
    BY <1>2, <1>8
  <2> QED
    BY <2>1
<1> HIDE DEF E2
<1>11. ASSUME NEW q \in 1..m PROVE PieceAt(text, sep, B[q], E2[q], c[q])
  <2>1. CASE q \in 1..(m - 1)
    BY <1>3, <1>4, <1>6, <1>7, <2>1
  <2>2. CASE q = m
    <3> DEFINE b == B[m]
    <3>1. b \in 1..k /\ b \in 1..Len(text) /\ k \in b..Len(text)
      BY <1>2, <1>6, <1>8
    <3>2. PieceAt(text, sep, b, k - 1, p[m])
      BY <1>4, <1>6
    <3> HIDE DEF b
    <3>3. SubSeq(text, b, k) = SubSeq(text, b, k - 1) \o <<text[k]>>
      BY <3>1, SubSeqRecursiveSecond
    <3>4. Append(p[m], text[k]) = SubSeq(text, b, k)
      <4>1. p[m] \in Seq(Nat) /\ p[m] = SubSeq(text, b, k - 1)
        <5>1. p \in Seq(Seq(Nat)) /\ Len(p) > 0
          BY DEF Pieces
        <5>2. p[Len(p)] \in Seq(Nat)
          BY <5>1
        <5> QED
          BY <3>2, <5>2 DEF PieceAt, m
      <4>2. Append(p[m], text[k]) = p[m] \o <<text[k]>>
        BY <1>2, <4>1, AppendIsConcat
      <4> QED
        BY <3>3, <4>1, <4>2
    <3>5. \A j \in b..k : j = k \/ j \in b..(k - 1)
      BY <1>2, <3>1
    <3>6. b <= k + 1
      BY <1>2, <3>1
    <3>7. PieceAt(text, sep, b, k, SubSeq(text, b, k))
      BY <3>2, <3>5, <3>6 DEF PieceAt
    <3> QED
      BY <1>3, <1>7, <2>2, <3>4, <3>7 DEF b
  <2> QED
    BY <1>5, <2>1, <2>2
<1>12. ASSUME NEW q \in 1..(m - 1) PROVE E2[q] < k /\ text[E2[q] + 1] = sep
  <2>1. E2[q] = E[q] /\ E[q] \in 0..(k - 1)
    BY <1>6, <1>7, <1>8
  <2>2. text[E[q] + 1] = sep
    BY <1>4
  <2>3. E[q] < k
    BY <1>2, <2>1
  <2> QED
    BY <2>1, <2>2, <2>3
<1>13. ASSUME NEW i \in 1..(k + 1), i = 1 \/ text[i - 1] = sep
       PROVE  \E q \in 1..m : B[q] = i
  <2>1. i # k + 1
    BY <1>2, <1>13
  <2>2. i \in 1..k
    BY <1>2, <2>1
  <2> QED
    BY <1>4, <1>13, <2>2
<1>14. Layout(text, sep, k, c, B, E2)
  BY <1>3, <1>4, <1>7, <1>9, <1>10, <1>11, <1>12, <1>13 DEF Layout
<1> QED
  BY <1>14 DEF LaidOut, c

(* The pieces of the whole text. *)
LEMMA SplitLayout ==
  ASSUME NEW text \in Seq(Nat), NEW sep
  PROVE  split(text, sep) \in Pieces /\ LaidOut(text, sep, Len(text), split(text, sep))
<1> DEFINE n == Len(text)
           D == cuts(text, sep)
           S == {k \in 0..n : LaidOut(text, sep, k, D[k])}
<1>1. n \in Nat /\ n \in 0..n
  OBVIOUS
<1>2. /\ D[0] = << <<>> >>
      /\ \A k \in 0..n : D[k] \in Pieces
      /\ \A k \in 1..n : D[k] = cut(D[k - 1], text[k], sep)
  BY CutsIs
<1> HIDE DEF D
<1>3. 0 \in S
  <2> DEFINE p == << <<>> >>
             B == [q \in 1..1 |-> 1]
             E == [q \in 1..1 |-> 0]
  <2>1. Len(p) = 1 /\ p[1] = <<>> /\ \A q \in 1..1 : q = 1
    OBVIOUS
  <2>2. B \in [1..1 -> 1..(0 + 1)] /\ E \in [1..1 -> 0..0] /\ B[1] = 1 /\ E[1] = 0
    OBVIOUS
  <2> HIDE DEF p, B, E
  <2>3. SubSeq(text, 1, 0) = <<>>
    BY SubSeqEmpty
  <2>4. 1 <= 0 + 1 /\ (\A j \in 1..0 : FALSE) /\ (\A q \in 1..(1 - 1) : FALSE) /\ (\A i \in 1..(0 + 1) : i = 1)
        /\ 1 \in 1..1
    OBVIOUS
  <2>5. PieceAt(text, sep, 1, 0, <<>>)
    BY <2>3, <2>4 DEF PieceAt
  <2>6. Layout(text, sep, 0, p, B, E)
    BY <2>1, <2>2, <2>4, <2>5 DEF Layout
  <2> QED
    BY <1>1, <1>2, <2>6 DEF LaidOut, p
<1>4. ASSUME NEW k \in 1..n, k - 1 \in S PROVE k \in S
  <2>1. k - 1 \in 0..n /\ k \in 0..n
    BY <1>1
  <2>2. D[k - 1] \in Pieces /\ LaidOut(text, sep, k - 1, D[k - 1])
    BY <1>2, <1>4, <2>1
  <2>3. LaidOut(text, sep, k, cut(D[k - 1], text[k], sep))
    BY <2>2, LayoutCut, LayoutGrow
  <2> QED
    BY <1>2, <2>1, <2>3
<1>5. n \in S
  <2> HIDE DEF S
  <2> QED
    BY <1>1, <1>3, <1>4, Induct
<1> QED
  BY <1>1, <1>2, <1>5 DEF split, D

-----------------------------------------------------------------------------
(* A stretch of a text. *)
LEMMA StretchIs ==
  ASSUME NEW text \in Seq(Nat), NEW b \in 1..(Len(text) + 1), NEW e \in (b - 1)..Len(text)
  PROVE  /\ SubSeq(text, b, e) \in Seq(Nat)
         /\ Len(SubSeq(text, b, e)) = (e - b) + 1
         /\ \A j \in 1..((e - b) + 1) : SubSeq(text, b, e)[j] = text[(b + j) - 1]
<1>1. b \in Int /\ e \in Int /\ Len(text) \in Nat
  OBVIOUS
<1>2. \A i \in b..e : text[i] \in Nat
  BY <1>1
<1>3. /\ SubSeq(text, b, e) \in Seq(Nat)
      /\ Len(SubSeq(text, b, e)) = IF b <= e THEN (e - b) + 1 ELSE 0
      /\ \A j \in 1..((e - b) + 1) : SubSeq(text, b, e)[j] = text[(b + j) - 1]
  BY <1>1, <1>2, SubSeqProperties
<1>4. b <= e \/ (e - b) + 1 = 0
  BY <1>1
<1> QED
  BY <1>3, <1>4

(* The key of a pair reaches up to the first equals sign. *)
LEMMA KeyIs ==
  ASSUME NEW pair \in Seq(Nat)
  PROVE  \E f \in 0..Len(pair) :
           /\ key(pair) = SubSeq(pair, 1, f)
           /\ \A j \in 1..f : pair[j] # Equals
           /\ f < Len(pair) => pair[f + 1] = Equals
<1> DEFINE p == split(pair, Equals)
           n == Len(pair)
           m == Len(p)
<1>1. p \in Pieces /\ LaidOut(pair, Equals, n, p)
  BY SplitLayout
<1>2. PICK B, E : Layout(pair, Equals, n, p, B, E)
  BY <1>1 DEF LaidOut
<1>3. m \in Nat \ {0} /\ 1 \in 1..m
  BY <1>1 DEF Pieces
<1> HIDE DEF p
<1>4. /\ B[1] = 1 /\ E[1] \in 0..n /\ PieceAt(pair, Equals, B[1], E[1], p[1]) /\ E[m] = n
  BY <1>2, <1>3 DEF Layout
<1>5. E[1] < n => pair[E[1] + 1] = Equals
  <2>1. CASE m = 1
    <3>1. E[1] = n /\ n \in Nat
      BY <1>4, <2>1
    <3> QED
      BY <3>1
  <2>2. CASE m # 1
    <3> HIDE DEF m
    <3>1. 1 \in 1..(m - 1)
      BY <1>3, <2>2
    <3> QED
      BY <1>2, <3>1 DEF Layout, m
  <2> QED
    BY <2>1, <2>2
<1>6. key(pair) = p[1]
  BY DEF key, p
<1> QED
  BY <1>4, <1>5, <1>6 DEF PieceAt

(* Where the key that begins at b ends. *)
LEMMA KeyAtIs ==
  ASSUME input \in Seq(Nat), NEW b \in 1..Len(input), NEW z \in (b - 1)..Len(input),
         \A j \in b..z : input[j] \notin {And, Equals},
         z < Len(input) => input[z + 1] \in {And, Equals}
  PROVE  KeyAt(b) = SubSeq(input, b, z)
<1> DEFINE n == Len(input)
           Free == {j \in Here : \A k \in 1..j : k < b \/ input[k] \notin {And, Equals}}
<1>1. n \in Nat /\ Here = 1..n /\ z \in 0..n
  BY DEF Here
<1>2. Free = 1..z
  <2>1. ASSUME NEW j \in 1..z PROVE j \in Free
    <3>1. \A k \in 1..j : k < b \/ k \in b..z
      BY <1>1
    <3>2. j \in Here
      BY <1>1
    <3> QED
      BY <3>1, <3>2
  <2>2. ASSUME NEW j \in Free PROVE j \in 1..z
    <3>1. j \in 1..n
      BY <1>1
    <3>2. CASE j > z
      <4>1. z < n /\ z + 1 \in 1..j /\ ~(z + 1 < b)
        BY <1>1, <3>1, <3>2
      <4> QED
        BY <4>1
    <3> QED
      BY <1>1, <3>1, <3>2
  <2> QED
    BY <2>1, <2>2
<1>3. Cardinality(1..z) = z
  <2>1. 1 \in Int /\ z \in Int /\ z >= 0
    BY <1>1
  <2>2. Cardinality(1..z) = IF 1 > z THEN 0 ELSE (z - 1) + 1
    BY <2>1, FS_Interval
  <2> QED
    BY <2>1, <2>2
<1>4. KeyAt(b) = SubSeq(input, b, Cardinality(Free))
  BY DEF KeyAt
<1> QED
  BY <1>2, <1>3, <1>4

(* The key of the pair from b to e. *)
LEMMA PairKey ==
  ASSUME input \in Seq(Nat), NEW b \in 1..Len(input), NEW e \in 0..Len(input), NEW pair,
         PieceAt(input, And, b, e, pair), e < Len(input) => input[e + 1] = And
  PROVE  key(pair) = KeyAt(b)
<1> DEFINE n == Len(input)
<1>1. n \in Nat /\ b \in 1..(n + 1) /\ e \in (b - 1)..n /\ pair = SubSeq(input, b, e)
  BY DEF PieceAt
<1>2. pair \in Seq(Nat) /\ Len(pair) = (e - b) + 1
      /\ \A j \in 1..((e - b) + 1) : pair[j] = input[(b + j) - 1]
  BY <1>1, StretchIs
<1>3. PICK f \in 0..Len(pair) : /\ key(pair) = SubSeq(pair, 1, f)
                                /\ \A j \in 1..f : pair[j] # Equals
                                /\ f < Len(pair) => pair[f + 1] = Equals
  BY <1>2, KeyIs
<1> DEFINE z == (b + f) - 1
<1>4. f \in 0..((e - b) + 1) /\ f \in Nat /\ b \in Nat /\ e \in Nat
  BY <1>1, <1>2, <1>3
<1>5. z \in (b - 1)..n /\ z <= e /\ (z - b) + 1 = f /\ z + 1 = b + f
  BY <1>1, <1>4
<1>6. ASSUME NEW j \in b..z PROVE input[j] \notin {And, Equals}
  <2>1. j \in b..e /\ (j - b) + 1 \in 1..f /\ (j - b) + 1 \in 1..((e - b) + 1)
        /\ (b + ((j - b) + 1)) - 1 = j
    BY <1>1, <1>4, <1>5
  <2>2. input[j] # And
    BY <2>1 DEF PieceAt
  <2>3. pair[(j - b) + 1] = input[j] /\ pair[(j - b) + 1] # Equals
    BY <1>2, <1>3, <2>1
  <2> QED
    BY <2>2, <2>3
<1>7. ASSUME z < n PROVE input[z + 1] \in {And, Equals}
  <2>1. CASE f < Len(pair)
    <3>1. f + 1 \in 1..((e - b) + 1) /\ (b + (f + 1)) - 1 = z + 1
      BY <1>2, <1>4, <1>5, <2>1
    <3>2. pair[f + 1] = input[z + 1]
      BY <1>2, <3>1
    <3> QED
      BY <1>3, <2>1, <3>2
  <2>2. CASE ~(f < Len(pair))
    <3>1. z = e
      BY <1>2, <1>4, <1>5, <2>2
    <3> QED
      BY <1>7, <3>1
  <2> QED
    BY <2>1, <2>2
<1>8. KeyAt(b) = SubSeq(input, b, z)
  <2> HIDE DEF z
  <2> QED
    BY <1>5, <1>6, <1>7, KeyAtIs
<1>9. /\ SubSeq(input, b, z) \in Seq(Nat) /\ Len(SubSeq(input, b, z)) = f
      /\ \A j \in 1..f : SubSeq(input, b, z)[j] = input[(b + j) - 1]
  <2> HIDE DEF z
  <2> QED
    BY <1>1, <1>5, StretchIs
<1>10. /\ SubSeq(pair, 1, f) \in Seq(Nat) /\ Len(SubSeq(pair, 1, f)) = f
       /\ \A j \in 1..f : SubSeq(pair, 1, f)[j] = pair[j]
  <2>1. 1 \in 1..(Len(pair) + 1) /\ f \in (1 - 1)..Len(pair) /\ (f - 1) + 1 = f
    BY <1>2, <1>4
  <2>2. /\ SubSeq(pair, 1, f) \in Seq(Nat)
        /\ Len(SubSeq(pair, 1, f)) = (f - 1) + 1
        /\ \A j \in 1..((f - 1) + 1) : SubSeq(pair, 1, f)[j] = pair[(1 + j) - 1]
    BY <1>2, <2>1, StretchIs
  <2>3. \A j \in 1..f : (1 + j) - 1 = j
    OBVIOUS
  <2> QED
    BY <2>1, <2>2, <2>3
<1>11. \A j \in 1..f : pair[j] = input[(b + j) - 1]
  <2>1. \A j \in 1..f : j \in 1..((e - b) + 1)
    BY <1>4
  <2> QED
    BY <1>2, <2>1
<1>12. SubSeq(pair, 1, f) = SubSeq(input, b, z)
  <2> DEFINE s == SubSeq(pair, 1, f)
             t == SubSeq(input, b, z)
  <2>1. s \in Seq(Nat) /\ t \in Seq(Nat) /\ Len(s) = Len(t) /\ \A j \in 1..Len(s) : s[j] = t[j]
    BY <1>9, <1>10, <1>11
  <2> HIDE DEF s, t
  <2>2. s = t
    BY <2>1, SeqEqual
  <2> QED
    BY <2>2 DEF s, t
<1> QED
  BY <1>3, <1>8, <1>12

-----------------------------------------------------------------------------
(* The keys seen after k pairs. *)
LEMMA SeenIs ==
  ASSUME NEW pairs \in Pieces
  PROVE  \A k \in 0..Len(pairs) :
           seen_keys(pairs)[k] = {key(pairs[j]) : j \in 1..k} \ {<<>>}
<1> DEFINE n == Len(pairs)
           D == seen_keys(pairs)
           add(k) == {key(pairs[k])} \ {<<>>}
           T == SUBSET {key(pairs[j]) : j \in 1..n}
           F == [k \in 1..n |-> [s \in T |-> s \cup add(k)]]
<1>0. n \in Nat
  BY DEF Pieces
<1>1. {} \in T
  OBVIOUS
<1>2. F \in [1..n -> [T -> T]]
  <2>1. ASSUME NEW k \in 1..n PROVE [s \in T |-> s \cup add(k)] \in [T -> T]
    OBVIOUS
  <2> QED
    BY <2>1
<1>3. Unrolled(n, T, {}, F)
  <2> HIDE DEF n, T, F
  <2> QED
    BY <1>0, <1>1, <1>2, Recursion
<1>4. PICK g \in [0..n -> T] : Unrolls(g, n, {}, F)
  BY <1>3 DEF Unrolled
<1>5. g = [k \in 0..n |-> IF k = 0 THEN {} ELSE g[k - 1] \cup add(k)]
  <2>1. ASSUME NEW k \in 1..n PROVE g[k] = g[k - 1] \cup add(k)
    <3>1. k - 1 \in 0..n
      BY <1>0
    <3> HIDE DEF n, T, add
    <3>2. g[k - 1] \in T
      BY <3>1
    <3>3. F[k] = [s \in T |-> s \cup add(k)]
      BY Zenon
    <3>4. F[k][g[k - 1]] = g[k - 1] \cup add(k)
      BY <3>2, <3>3
    <3> HIDE DEF F
    <3> QED
      BY <1>4, <3>4 DEF Unrolls
  <2>2. \A k \in 0..n : k = 0 \/ k \in 1..n
    BY <1>0
  <2> HIDE DEF n, F, T, add
  <2>3. \A k \in 0..n : g[k] = IF k = 0 THEN {} ELSE g[k - 1] \cup add(k)
    BY <1>4, <2>1, <2>2 DEF Unrolls
  <2> QED
    BY <2>3
<1>6. D = [k \in 0..n |-> IF k = 0 THEN {} ELSE D[k - 1] \cup add(k)]
  <2> DEFINE G == CHOOSE f : f = [k \in 0..n |-> IF k = 0 THEN {} ELSE f[k - 1] \cup add(k)]
  <2>1. G = [k \in 0..n |-> IF k = 0 THEN {} ELSE G[k - 1] \cup add(k)]
    BY <1>5, Zenon
  <2>2. D = G
    BY DEF seen_keys
  <2> QED
    BY <2>1, <2>2
<1> HIDE DEF D, n
<1>7. D[0] = {} /\ \A k \in 1..n : D[k] = D[k - 1] \cup add(k)
  BY <1>0, <1>6
<1> DEFINE K(k) == {key(pairs[j]) : j \in 1..k} \ {<<>>}
           S == {k \in 0..n : D[k] = K(k)}
<1>8. 0 \in S
  <2>1. K(0) = {}
    OBVIOUS
  <2> QED
    BY <1>0, <1>7, <2>1
<1>9. ASSUME NEW k \in 1..n, k - 1 \in S PROVE k \in S
  <2>1. k \in 0..n /\ \A j \in 1..k : j = k \/ j \in 1..(k - 1)
    BY <1>0
  <2>2. k \in 1..k /\ \A j \in 1..(k - 1) : j \in 1..k
    BY <1>0
  <2>3. K(k) = K(k - 1) \cup add(k)
    BY <2>1, <2>2
  <2>4. D[k - 1] = K(k - 1)
    BY <1>9
  <2> HIDE DEF K, add
  <2> QED
    BY <1>7, <2>1, <2>3, <2>4
<1>10. \A k \in 0..n : k \in S
  <2> HIDE DEF S
  <2> QED
    BY <1>0, <1>8, <1>9, Induct
<1> QED
  BY <1>10 DEF D, n

(***************************************************************************)
(* has_parameter_pollution is true exactly of the texts in which two pairs  *)
(* share a key that is not empty, whatever the text.                        *)
(***************************************************************************)
THEOREM PollutionCorrect == Spec => []PollutionExact
<1>1. ASSUME input \in Seq(Nat) PROVE PollutionExact
  <2> DEFINE n == Len(input)
             p == split(input, And)
             m == Len(p)
  <2>1. n \in Nat /\ Here = 1..n
    BY <1>1 DEF Here
  <2>2. p \in Pieces /\ LaidOut(input, And, n, p)
    BY <1>1, SplitLayout
  <2>3. PICK B, E : Layout(input, And, n, p, B, E)
    BY <2>2 DEF LaidOut
  <2>4. m \in Nat \ {0} /\ DOMAIN p = 1..m
    BY <2>2 DEF Pieces
  <2>5. has_parameter_pollution(input) <=>
          \E q, r \in 1..m : q # r /\ key(p[q]) # <<>> /\ key(p[q]) = key(p[r])
    <3>1. \A k \in 0..m : seen_keys(p)[k] = {key(p[j]) : j \in 1..k} \ {<<>>}
      BY <2>2, SeenIs
    <3>2. has_parameter_pollution(input) <=> \E k \in 1..m : key(p[k]) \in seen_keys(p)[k - 1]
      BY <2>4 DEF has_parameter_pollution
    <3> HIDE DEF p, m
    <3>3. \A k \in 1..m : k - 1 \in 0..m /\ \A j \in 1..(k - 1) : j \in 1..m /\ j # k
      BY <2>4
    <3>4. \A q, r \in 1..m : q # r => q \in 1..(r - 1) \/ r \in 1..(q - 1)
      BY <2>4
    <3>5. \A k \in 1..m : key(p[k]) \in seen_keys(p)[k - 1]
            <=> key(p[k]) # <<>> /\ \E j \in 1..(k - 1) : key(p[j]) = key(p[k])
      BY <3>1, <3>3
    <3>6. has_parameter_pollution(input) <=>
            \E k \in 1..m : key(p[k]) # <<>> /\ \E j \in 1..(k - 1) : key(p[j]) = key(p[k])
      BY <3>2, <3>5
    <3> QED
      BY <3>3, <3>4, <3>6
  <2> HIDE DEF p, m, n
  <2>6. /\ B \in [1..m -> 1..(n + 1)] /\ E \in [1..m -> 0..n] /\ E[m] = n
        /\ \A q \in 1..m : PieceAt(input, And, B[q], E[q], p[q])
        /\ \A q \in 1..(m - 1) : E[q] < n /\ input[E[q] + 1] = And
        /\ \A q, r \in 1..m : B[q] = B[r] => q = r
        /\ \A i \in 1..(n + 1) : (i = 1 \/ input[i - 1] = And) => \E q \in 1..m : B[q] = i
    BY <2>3 DEF Layout, m
  <2>7. ASSUME NEW q \in 1..m, B[q] \in 1..n PROVE key(p[q]) = KeyAt(B[q]) /\ B[q] \in PairStarts
    <3> DEFINE b == B[q]
               e == E[q]
    <3>1. b \in 1..n /\ e \in 0..n /\ PieceAt(input, And, b, e, p[q])
      BY <2>6, <2>7
    <3>2. e < n => input[e + 1] = And
      <4>1. CASE q = m
        BY <2>1, <2>6, <4>1
      <4>2. CASE q # m
        <5>1. q \in 1..(m - 1)
          BY <2>4, <4>2
        <5> QED
          BY <2>6, <5>1
      <4> QED
        BY <4>1, <4>2
    <3> HIDE DEF b, e
    <3>3. key(p[q]) = KeyAt(b)
      BY <1>1, <3>1, <3>2, PairKey DEF n
    <3>4. b \in PairStarts
      BY <2>1, <3>1 DEF PairStarts, PieceAt
    <3> QED
      BY <3>3, <3>4 DEF b
  <2>8. ASSUME NEW q \in 1..m, key(p[q]) # <<>> PROVE B[q] \in 1..n
    <3>1. B[q] \in 1..(n + 1)
      BY <2>6
    <3>2. CASE B[q] = n + 1
      <4>1. E[q] \in 0..n /\ PieceAt(input, And, n + 1, E[q], p[q])
        BY <2>6, <3>2
      <4>2. n + 1 \in Int /\ E[q] \in Int /\ E[q] < n + 1
        BY <2>1, <4>1
      <4>3. p[q] = <<>>
        BY <4>1, <4>2, SubSeqEmpty DEF PieceAt
      <4>4. <<>> \in Seq(Nat) /\ Len(<<>>) = 0 /\ \A f \in 0..0 : f = 0
        OBVIOUS
      <4>5. key(<<>>) = SubSeq(<<>>, 1, 0)
        BY <4>4, KeyIs
      <4>6. SubSeq(<<>>, 1, 0) = <<>>
        BY SubSeqEmpty
      <4> QED
        BY <2>8, <4>3, <4>5, <4>6
    <3> QED
      BY <2>1, <3>1, <3>2
  <2>9. ASSUME NEW i \in PairStarts PROVE \E q \in 1..m : B[q] = i
    <3>1. i \in 1..(n + 1) /\ (i = 1 \/ input[i - 1] = And)
      BY <2>1 DEF PairStarts
    <3> QED
      BY <2>6, <3>1
  <2>10. (\E q, r \in 1..m : q # r /\ key(p[q]) # <<>> /\ key(p[q]) = key(p[r])) <=>
           \E i, j \in PairStarts : i # j /\ KeyAt(i) # <<>> /\ KeyAt(i) = KeyAt(j)
    <3>1. ASSUME NEW q \in 1..m, NEW r \in 1..m, q # r, key(p[q]) # <<>>, key(p[q]) = key(p[r])
          PROVE  \E i, j \in PairStarts : i # j /\ KeyAt(i) # <<>> /\ KeyAt(i) = KeyAt(j)
      <4>1. B[q] \in 1..n /\ B[r] \in 1..n /\ B[q] # B[r]
        BY <2>6, <2>8, <3>1
      <4> QED
        BY <2>7, <3>1, <4>1
    <3>2. ASSUME NEW i \in PairStarts, NEW j \in PairStarts, i # j, KeyAt(i) # <<>>, KeyAt(i) = KeyAt(j)
          PROVE  \E q, r \in 1..m : q # r /\ key(p[q]) # <<>> /\ key(p[q]) = key(p[r])
      <4>1. i \in 1..n /\ j \in 1..n
        BY <2>1 DEF PairStarts
      <4>2. PICK q \in 1..m : B[q] = i
        BY <2>9
      <4>3. PICK r \in 1..m : B[r] = j
        BY <2>9
      <4>4. key(p[q]) = KeyAt(i) /\ key(p[r]) = KeyAt(j)
        BY <2>7, <4>1, <4>2, <4>3
      <4> QED
        BY <3>2, <4>2, <4>3, <4>4
    <3> QED
      BY <3>1, <3>2
  <2>11. (\E i, j \in PairStarts : i # j /\ KeyAt(i) # <<>> /\ KeyAt(i) = KeyAt(j)) <=>
           \E i, j \in PairStarts : i < j /\ KeyAt(i) # <<>> /\ KeyAt(i) = KeyAt(j)
    <3>1. \A i, j \in PairStarts : i # j <=> (i < j \/ j < i)
      <4>1. PairStarts \subseteq Nat
        BY <2>1 DEF PairStarts
      <4> QED
        BY <4>1
    <3> QED
      BY <3>1
  <2> QED
    BY <2>5, <2>10, <2>11 DEF PollutionExact
<1>2. Characters => PollutionExact
  BY <1>1, CharactersAreNumbers
<1> QED
  BY <1>2, AlwaysCharacters, PTL
=============================================================================
