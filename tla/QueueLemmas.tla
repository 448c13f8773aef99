------------------------------ MODULE QueueLemmas ------------------------------
(***************************************************************************)
(* What adding to a queue and taking from it do to its entries, and what a *)
(* fold over a sequence is: the end of a run, a function that gives the    *)
(* result after each element.                                              *)
(***************************************************************************)
EXTENDS Integers, Sequences, FiniteSetsExt, SequencesExt, SequenceTheorems,
        WellFoundedInduction, TLAPS

\* Adding to a queue.
LEMMA EnqueueAdds ==
  ASSUME NEW S, NEW q \in Seq(S), NEW c \in S
  PROVE  /\ Append(q, c) \in Seq(S)
         /\ Len(Append(q, c)) = Len(q) + 1
         /\ Len(q) \in Nat
         /\ \A i \in 1 .. Len(q) : Append(q, c)[i] = q[i]
         /\ Append(q, c)[Len(q) + 1] = c
  BY AppendProperties, LenProperties

\* Taking from a queue.
LEMMA TailShifts ==
  ASSUME NEW S, NEW q \in Seq(S), q # <<>>
  PROVE  /\ Head(q) \in S /\ Head(q) = q[1]
         /\ Tail(q) \in Seq(S)
         /\ Len(q) \in Nat \ {0}
         /\ Len(Tail(q)) = Len(q) - 1
         /\ \A i \in 1 .. Len(q) - 1 : Tail(q)[i] = q[i + 1]
  BY HeadTailProperties, LenProperties, EmptySeq

\* Sending several messages at once adds them in their order.
LEMMA SendsOne ==
  ASSUME NEW S, NEW q \in Seq(S), NEW c \in S
  PROVE  q \o <<c>> = Append(q, c)
  BY AppendIsConcat

LEMMA SendsTwo ==
  ASSUME NEW S, NEW q \in Seq(S), NEW c \in S, NEW d \in S
  PROVE  q \o <<c, d>> = Append(Append(q, c), d)
<1>1. /\ <<c>> \in Seq(S) /\ <<d>> \in Seq(S) /\ <<c, d>> = <<c>> \o <<d>>
  <2>1. <<c>> \in Seq(S) /\ <<d>> \in Seq(S)
    OBVIOUS
  <2>2. <<c, d>> = Append(<<c>>, d)
    OBVIOUS
  <2> QED BY <2>1, <2>2, AppendIsConcat
<1>2. q \o <<c, d>> = (q \o <<c>>) \o <<d>>
  BY <1>1, ConcatAssociative
<1>3. Append(q, c) \in Seq(S)
  BY EnqueueAdds
<1> QED BY <1>2, <1>3, AppendIsConcat

\* One queue behind another: an entry moves from the head of the second to a
\* hand between them, and from the hand to the end of the first.
LEMMA HandTakes ==
  ASSUME NEW S, NEW w \in Seq(S), NEW q \in Seq(S), q # <<>>
  PROVE  w \o <<Head(q)>> \o Tail(q) = w \o <<>> \o q
<1>1. Head(q) \in S /\ Tail(q) \in Seq(S) /\ <<Head(q)>> \in Seq(S)
  BY TailShifts
<1>2. <<Head(q)>> \o Tail(q) = q
  BY <1>1, HeadTailProperties, TailShifts
<1>3. w \o <<Head(q)>> \o Tail(q) = w \o (<<Head(q)>> \o Tail(q))
  BY <1>1, ConcatAssociative
<1> QED BY <1>2, <1>3, ConcatEmptySeq

LEMMA HandGives ==
  ASSUME NEW S, NEW w \in Seq(S), NEW q \in Seq(S), NEW c \in S
  PROVE  Append(w, c) \o <<>> \o q = w \o <<c>> \o q
<1>1. Append(w, c) \in Seq(S) /\ Append(w, c) = w \o <<c>>
  BY EnqueueAdds, SendsOne
<1> QED BY <1>1, ConcatEmptySeq

\* What is added behind the second is added behind both.
LEMMA AddsBehind ==
  ASSUME NEW S, NEW w \in Seq(S), NEW q \in Seq(S), NEW c \in S
  PROVE  w \o Append(q, c) = Append(w \o q, c)
<1>1. w \o q \in Seq(S) /\ <<c>> \in Seq(S)
  BY ConcatProperties
<1>2. Append(q, c) = q \o <<c>> /\ Append(w \o q, c) = (w \o q) \o <<c>>
  BY <1>1, SendsOne
<1>3. (w \o q) \o <<c>> = w \o (q \o <<c>>)
  BY <1>1, ConcatAssociative
<1> QED BY <1>2, <1>3

\* A count goes on with the next number.
LEMMA CountGoesOn ==
  ASSUME NEW n \in Nat
  PROVE  Append([i \in 1 .. n |-> i], n + 1) = [i \in 1 .. n + 1 |-> i]
  OBVIOUS

-----------------------------------------------------------------------------
\* Folds.

\* A set with 0 that is closed under successors holds every number.
LEMMA SetInduction ==
  ASSUME NEW G, 0 \in G, \A n \in Nat : n \in G => n + 1 \in G
  PROVE  \A n \in Nat : n \in G
<1> DEFINE R == OpToRel(<, Nat)
<1> DEFINE B == Nat \ G
<1>1. SUFFICES ASSUME B # {} PROVE FALSE
  OBVIOUS
<1>2. IsWellFoundedOn(R, Nat)
  BY NatLessThanWellFounded
<1>3. \E x \in B : \A y \in B : ~(<<y, x>> \in R)
  <2> HIDE DEF R
  <2>1. B \subseteq Nat
    OBVIOUS
  <2> HIDE DEF B
  <2>2. QED BY <1>1, <1>2, <2>1, WFMin
<1>4. PICK x \in B : \A y \in B : ~(<<y, x>> \in R)
  BY <1>3
<1>5. x \in Nat /\ x - 1 \in Nat
  OBVIOUS
<1>6. <<x - 1, x>> \in R
  BY <1>5 DEF OpToRel
<1>7. x - 1 \in G
  BY <1>4, <1>5, <1>6
<1>8. QED
  BY <1>5, <1>7

\* The maximum of a set is its upper bound in it, and a set of numbers up to
\* n has one.
LEMMA MaxIs ==
  ASSUME NEW s, NEW m \in s, s \subseteq Nat, \A x \in s : m >= x
  PROVE  Max(s) = m
<1>1. \A x, y \in Nat : x >= y /\ y >= x => x = y
  OBVIOUS
<1> QED
  BY <1>1 DEF Max

\* A set of numbers from 1 to n that is not empty has a greatest one.
LEMMA MaxIn ==
  ASSUME NEW n \in Nat, NEW s \in SUBSET (1 .. n), s # {}
  PROVE  Max(s) \in s
<1> DEFINE G == {m \in Nat : \A t \in SUBSET (1 .. m) : t # {} => \E x \in t : \A y \in t : x >= y}
<1>1. 0 \in G
  <2>1. 1 .. 0 = {}
    OBVIOUS
  <2> QED
    BY <2>1
<1>2. ASSUME NEW m \in Nat, m \in G PROVE m + 1 \in G
  <2> SUFFICES ASSUME NEW t \in SUBSET (1 .. m + 1), t # {}
               PROVE  \E x \in t : \A y \in t : x >= y
    OBVIOUS
  <2>1. CASE m + 1 \in t
    <3>1. \A y \in t : m + 1 >= y
      OBVIOUS
    <3> QED
      BY <2>1, <3>1
  <2>2. CASE m + 1 \notin t
    <3>1. t \in SUBSET (1 .. m)
      <4>1. \A y \in 1 .. m + 1 : y # m + 1 => y \in 1 .. m
        OBVIOUS
      <4> QED
        BY <2>2, <4>1
    <3> QED
      BY <1>2, <3>1
  <2> QED
    BY <2>1, <2>2
<1>3. n \in G
  <2> HIDE DEF G
  <2> QED
    BY <1>1, <1>2, SetInduction
<1>4. \E x \in s : \A y \in s : x >= y
  BY <1>3
<1> QED
  BY <1>4 DEF Max

\* What a fold iterates: over the subsets s of 1 .. m, the greatest element
\* last, step[k] being what element k does to a value of A.
Iterates(g, m, A, b, step) ==
  /\ g \in [SUBSET (1 .. m) -> A]
  /\ \A s \in SUBSET (1 .. m) :
       g[s] = IF s = {} THEN b ELSE step[Max(s)][g[s \ {Max(s)}]]

\* There is such a function: one for 1 .. m extends to 1 .. m + 1.
LEMMA IterExists ==
  ASSUME NEW n \in Nat, NEW A, NEW b \in A, NEW step \in [1 .. n -> [A -> A]]
  PROVE  \E g : Iterates(g, n, A, b, step)
<1> DEFINE Q(m, g) == Iterates(g, m, A, b, step)
<1> USE DEF Iterates
<1> DEFINE G == {m \in Nat : m =< n => \E g : Q(m, g)}
<1>1. 0 \in G
  <2> DEFINE g == [s \in SUBSET (1 .. 0) |-> b]
  <2>1. \A s \in SUBSET (1 .. 0) : s = {}
    OBVIOUS
  <2>2. Q(0, g)
    BY <2>1
  <2> QED
    <3> HIDE DEF Q, g, Iterates
    <3> QED
      BY <2>2
<1>2. ASSUME NEW m \in Nat, m \in G PROVE m + 1 \in G
  <2>1. SUFFICES ASSUME m + 1 =< n PROVE \E g : Q(m + 1, g)
    <3> HIDE DEF Q, Iterates
    <3> QED
      OBVIOUS
  <2>2. PICK g : Q(m, g)
    <3> HIDE DEF Q, Iterates
    <3> QED
      BY <1>2, <2>1
  <2> DEFINE h == [s \in SUBSET (1 .. m + 1) |->
                     IF m + 1 \in s THEN step[m + 1][g[s \ {m + 1}]] ELSE g[s]]
  <2>3. m + 1 \in 1 .. n /\ step[m + 1] \in [A -> A]
    BY <2>1
  <2>4. ASSUME NEW s \in SUBSET (1 .. m + 1)
        PROVE  /\ m + 1 \in s => Max(s) = m + 1 /\ s \ {m + 1} \in SUBSET (1 .. m)
               /\ m + 1 \notin s => s \in SUBSET (1 .. m)
    <3>1. \A x \in s : x \in Nat /\ m + 1 >= x /\ (x # m + 1 => x \in 1 .. m)
      OBVIOUS
    <3>2. s \subseteq Nat
      BY <3>1
    <3>3. CASE m + 1 \in s
      <4>1. Max(s) = m + 1
        BY <3>1, <3>2, <3>3, MaxIs
      <4> QED
        BY <4>1, <3>1, <3>3
    <3>4. CASE m + 1 \notin s
      BY <3>1, <3>4
    <3> QED
      BY <3>3, <3>4
  <2>5. h \in [SUBSET (1 .. m + 1) -> A]
    <3> SUFFICES ASSUME NEW s \in SUBSET (1 .. m + 1)
                 PROVE  (IF m + 1 \in s THEN step[m + 1][g[s \ {m + 1}]] ELSE g[s]) \in A
      OBVIOUS
    <3> QED
      BY <2>2, <2>3, <2>4
  <2>6. ASSUME NEW s \in SUBSET (1 .. m + 1)
        PROVE  h[s] = IF s = {} THEN b ELSE step[Max(s)][h[s \ {Max(s)}]]
    <3>1. CASE m + 1 \in s
      <4>1. s \ {m + 1} \in SUBSET (1 .. m + 1) /\ m + 1 \notin s \ {m + 1}
        OBVIOUS
      <4>2. h[s \ {m + 1}] = g[s \ {m + 1}]
        BY <4>1
      <4>3. h[s] = step[m + 1][g[s \ {m + 1}]]
        BY <3>1
      <4> HIDE DEF h
      <4> QED
        BY <3>1, <4>2, <4>3, <2>4
    <3>2. CASE m + 1 \notin s
      <4>1. s \in SUBSET (1 .. m)
        BY <3>2, <2>4
      <4>2. g[s] = IF s = {} THEN b ELSE step[Max(s)][g[s \ {Max(s)}]]
        BY <4>1, <2>2
      <4>3. s \ {Max(s)} \in SUBSET (1 .. m + 1) /\ m + 1 \notin s \ {Max(s)}
        BY <3>2
      <4>4. h[s] = g[s] /\ h[s \ {Max(s)}] = g[s \ {Max(s)}]
        BY <3>2, <4>3
      <4> HIDE DEF h
      <4> QED
        BY <4>2, <4>4
    <3> QED
      BY <3>1, <3>2
  <2>7. Q(m + 1, h)
    <3> HIDE DEF h
    <3> QED
      BY <2>5, <2>6
  <2> QED
    BY <2>7
<1>3. n \in G
  <2> HIDE DEF G
  <2> QED
    BY <1>1, <1>2, SetInduction
<1>4. \E g : Q(n, g)
  <2> HIDE DEF Q, Iterates
  <2> QED
    BY <1>3
<1> QED
  BY <1>4

\* What holds for the empty set and is passed on by the greatest element holds
\* for every subset.
LEMMA IterTyped ==
  ASSUME NEW n \in Nat, NEW A, NEW h, h[{}] \in A,
         \A s \in SUBSET (1 .. n) : s # {} /\ h[s \ {Max(s)}] \in A => h[s] \in A
  PROVE  \A s \in SUBSET (1 .. n) : h[s] \in A
<1> DEFINE G == {m \in Nat : m =< n => \A s \in SUBSET (1 .. m) : h[s] \in A}
<1>1. 0 \in G
  <2>1. \A s \in SUBSET (1 .. 0) : s = {}
    OBVIOUS
  <2> QED
    BY <2>1
<1>2. ASSUME NEW m \in Nat, m \in G PROVE m + 1 \in G
  <2> SUFFICES ASSUME m + 1 =< n, NEW s \in SUBSET (1 .. m + 1) PROVE h[s] \in A
    OBVIOUS
  <2>1. \A t \in SUBSET (1 .. m) : h[t] \in A
    BY <1>2
  <2>2. \A x \in s : x \in Nat /\ m + 1 >= x /\ (x # m + 1 => x \in 1 .. m)
    OBVIOUS
  <2>3. s \in SUBSET (1 .. n) /\ s \subseteq Nat
    BY <2>2
  <2>4. CASE m + 1 \in s
    <3>1. Max(s) = m + 1
      BY <2>2, <2>3, <2>4, MaxIs
    <3>2. s \ {m + 1} \in SUBSET (1 .. m)
      BY <2>2
    <3>3. h[s \ {Max(s)}] \in A
      BY <2>1, <3>1, <3>2
    <3> QED
      BY <2>3, <2>4, <3>3
  <2>5. CASE m + 1 \notin s
    <3>1. s \in SUBSET (1 .. m)
      BY <2>2, <2>5
    <3> QED
      BY <2>1, <3>1
  <2> QED
    BY <2>4, <2>5
<1>3. n \in G
  <2> HIDE DEF G
  <2> QED
    BY <1>1, <1>2, SetInduction
<1> QED
  BY <1>3

\* Along the sets 1 .. k it is the loop over the elements.
FoldRun(r, n, A, b, step) ==
  /\ r \in [0 .. n -> A] /\ r[0] = b
  /\ \A k \in 1 .. n : r[k] = step[k][r[k - 1]]

\* The results over the first elements are a run.
LEMMA IterRuns ==
  ASSUME NEW n \in Nat, NEW A, NEW b, NEW step, NEW h, Iterates(h, n, A, b, step)
  PROVE  FoldRun([k \in 0 .. n |-> h[1 .. k]], n, A, b, step)
<1> DEFINE r == [k \in 0 .. n |-> h[1 .. k]]
<1>1. \A k \in 0 .. n : 1 .. k \in SUBSET (1 .. n)
  OBVIOUS
<1>2. r \in [0 .. n -> A]
  BY <1>1 DEF Iterates
<1>3. r[0] = b
  <2>1. 1 .. 0 = {} /\ {} \in SUBSET (1 .. n) /\ 0 \in 0 .. n
    OBVIOUS
  <2>2. h[{}] = b
    BY <2>1 DEF Iterates
  <2> QED
    BY <2>1, <2>2
<1>4. ASSUME NEW k \in 1 .. n PROVE r[k] = step[k][r[k - 1]]
  <2>1. (1 .. k) \ {k} = 1 .. k - 1 /\ k - 1 \in 0 .. n /\ k \in 0 .. n /\ 1 .. k # {}
    OBVIOUS
  <2>2. Max(1 .. k) = k
    <3>1. k \in 1 .. k /\ 1 .. k \subseteq Nat /\ \A x \in 1 .. k : k >= x
      OBVIOUS
    <3> QED
      BY <3>1, MaxIs
  <2>3. h[1 .. k] = step[k][h[1 .. k - 1]]
    BY <1>1, <2>1, <2>2 DEF Iterates
  <2> QED
    BY <2>1, <2>3
<1> HIDE DEF r
<1>5. FoldRun(r, n, A, b, step)
  BY <1>2, <1>3, <1>4 DEF FoldRun
<1> QED
  BY <1>5 DEF r

\* The iteration that MapThenFoldSet chooses does what a fold's operator does,
\* so it runs through the elements.
Chosen(h, n, A, b, step) ==
  /\ h = [s \in SUBSET (1 .. n) |-> h[s]]
  /\ h[{}] = b
  /\ \A s \in SUBSET (1 .. n) : s # {} /\ h[s \ {Max(s)}] \in A
       => h[s] = step[Max(s)][h[s \ {Max(s)}]]

\* Every value of the chosen iteration lies in A, so it is one that runs.
LEMMA IterChosen ==
  ASSUME NEW n \in Nat, NEW A, NEW b \in A, NEW step \in [1 .. n -> [A -> A]], NEW h,
         Chosen(h, n, A, b, step)
  PROVE  \E r : FoldRun(r, n, A, b, step) /\ h[1 .. n] = r[n]
<1>1. \A s \in SUBSET (1 .. n) : s # {} => Max(s) \in 1 .. n
  BY MaxIn
<1>2. \A s \in SUBSET (1 .. n) : h[s] \in A
  <2>1. ASSUME NEW s \in SUBSET (1 .. n), s # {}, h[s \ {Max(s)}] \in A PROVE h[s] \in A
    <3>1. step[Max(s)] \in [A -> A]
      BY <1>1, <2>1
    <3>2. step[Max(s)][h[s \ {Max(s)}]] \in A
      BY <2>1, <3>1
    <3> QED
      BY <2>1, <3>2 DEF Chosen
  <2>2. h[{}] \in A
    BY DEF Chosen
  <2> QED
    BY <2>1, <2>2, IterTyped
<1>3. \A s \in SUBSET (1 .. n) : s \ {Max(s)} \in SUBSET (1 .. n)
  OBVIOUS
<1>4. Iterates(h, n, A, b, step)
  <2>1. h \in [SUBSET (1 .. n) -> A]
    BY <1>2 DEF Chosen
  <2>2. ASSUME NEW s \in SUBSET (1 .. n)
        PROVE  h[s] = IF s = {} THEN b ELSE step[Max(s)][h[s \ {Max(s)}]]
    BY <1>2, <1>3 DEF Chosen
  <2> QED
    BY <2>1, <2>2 DEF Iterates
<1> DEFINE r == [k \in 0 .. n |-> h[1 .. k]]
<1>5. FoldRun(r, n, A, b, step)
  BY <1>4, IterRuns
<1>6. h[1 .. n] = r[n]
  OBVIOUS
<1> HIDE DEF r
<1> QED
  BY <1>5, <1>6

Summed(b, seq) == FoldLeft(+, b, seq)

\* sum().
LEMMA FoldSum ==
  ASSUME NEW n \in Nat, NEW A, NEW b \in A, NEW seq, DOMAIN seq = 1 .. n,
         \A k \in 1 .. n, s \in A : s + seq[k] \in A
  PROVE  \E r : /\ FoldRun(r, n, A, b, [k \in 1 .. n |-> [s \in A |-> s + seq[k]]])
               /\ Summed(b, seq) = r[n]
<1> DEFINE step == [k \in 1 .. n |-> [s \in A |-> s + seq[k]]]
<1> DEFINE F(g) == [s \in SUBSET (1 .. n) |->
                      IF s = {} THEN b ELSE g[s \ {Max(s)}] + seq[Max(s)]]
<1>1. step \in [1 .. n -> [A -> A]]
  OBVIOUS
<1>2. \A s \in SUBSET (1 .. n) : s # {} => Max(s) \in 1 .. n
  BY MaxIn
<1>3. \E g : g = F(g)
  <2>1. PICK g : Iterates(g, n, A, b, step)
    <3> HIDE DEF step
    <3> QED
      BY <1>1, IterExists
  <2>2. \A s \in SUBSET (1 .. n) : s \ {Max(s)} \in SUBSET (1 .. n)
    OBVIOUS
  <2>3. ASSUME NEW s \in SUBSET (1 .. n), s # {}
        PROVE  step[Max(s)][g[s \ {Max(s)}]] = g[s \ {Max(s)}] + seq[Max(s)]
    <3>1. Max(s) \in 1 .. n /\ g[s \ {Max(s)}] \in A
      BY <1>2, <2>1, <2>2, <2>3 DEF Iterates
    <3> QED
      BY <3>1
  <2>4. g = [s \in SUBSET (1 .. n) |-> g[s]]
    BY <2>1 DEF Iterates
  <2>5. \A s \in SUBSET (1 .. n) :
          g[s] = IF s = {} THEN b ELSE g[s \ {Max(s)}] + seq[Max(s)]
    <3> HIDE DEF step
    <3> QED
      BY <2>1, <2>3 DEF Iterates
  <2> QED
    BY <2>4, <2>5
<1> DEFINE h == CHOOSE g : g = F(g)
<1>4. h = F(h)
  <2> HIDE DEF F
  <2> QED
    BY <1>3
<1>5. Summed(b, seq) = h[1 .. n]
  BY DEF Summed, FoldLeft, MapThenFoldSet
<1> HIDE DEF h
<1>6. h = [s \in SUBSET (1 .. n) |-> h[s]] /\ h[{}] = b
  BY <1>4
<1>7. ASSUME NEW s \in SUBSET (1 .. n), s # {}, h[s \ {Max(s)}] \in A
      PROVE  h[s] = step[Max(s)][h[s \ {Max(s)}]]
  <2>1. h[s] = h[s \ {Max(s)}] + seq[Max(s)]
    BY <1>4, <1>7
  <2> QED
    BY <1>2, <1>7, <2>1
<1>8. Chosen(h, n, A, b, step)
  <2> HIDE DEF step, F
  <2> QED
    BY <1>6, <1>7 DEF Chosen
<1>9. \E r : FoldRun(r, n, A, b, step) /\ h[1 .. n] = r[n]
  <2> HIDE DEF step, F
  <2> QED
    BY <1>1, <1>8, IterChosen
<1> QED
  BY <1>5, <1>9

SumRun(r, k, ds) ==
  /\ r \in [0 .. k -> Int] /\ r[0] = 0
  /\ \A j \in 1 .. k : r[j] = r[j - 1] + ds[j]

\* A sum is the end of its running totals.
LEMMA SumRuns ==
  ASSUME NEW k \in Nat, NEW ds, DOMAIN ds = 1 .. k, \A j \in 1 .. k : ds[j] \in Int
  PROVE  \E r : SumRun(r, k, ds) /\ Summed(0, ds) = r[k]
<1>1. \A j \in 1 .. k, s \in Int : s + ds[j] \in Int
  OBVIOUS
<1>2. PICK r : /\ FoldRun(r, k, Int, 0, [j \in 1 .. k |-> [s \in Int |-> s + ds[j]]])
               /\ Summed(0, ds) = r[k]
  BY <1>1, 0 \in Int, FoldSum
<1>3. r \in [0 .. k -> Int] /\ r[0] = 0
  BY <1>2 DEF FoldRun
<1>4. ASSUME NEW j \in 1 .. k PROVE r[j] = r[j - 1] + ds[j]
  <2>1. j - 1 \in 0 .. k
    OBVIOUS
  <2>2. r[j - 1] \in Int
    BY <1>3, <2>1
  <2>3. r[j] = [s \in Int |-> s + ds[j]][r[j - 1]]
    BY <1>2 DEF FoldRun
  <2> QED
    BY <2>2, <2>3
<1> QED
  BY <1>2, <1>3, <1>4 DEF SumRun

Agree(r, q, k) == r[k] = q[k]

\* Running totals agree as far as the sequences do.
LEMMA SumSame ==
  ASSUME NEW k \in Nat, NEW m \in Nat, k =< m, NEW ds, NEW es,
         \A j \in 1 .. k : ds[j] = es[j],
         NEW r, SumRun(r, k, ds), NEW q, SumRun(q, m, es)
  PROVE  Agree(r, q, k)
<1> DEFINE G == {j \in Nat : j =< k => r[j] = q[j]}
<1>1. 0 \in G
  BY DEF SumRun
<1>2. ASSUME NEW j \in Nat, j \in G PROVE j + 1 \in G
  <2> SUFFICES ASSUME j + 1 =< k PROVE r[j + 1] = q[j + 1]
    OBVIOUS
  <2>1. j + 1 \in 1 .. k /\ j + 1 \in 1 .. m /\ (j + 1) - 1 = j
    OBVIOUS
  <2>2. r[j + 1] = r[j] + ds[j + 1] /\ q[j + 1] = q[j] + es[j + 1]
    BY <2>1 DEF SumRun
  <2> QED
    BY <1>2, <2>1, <2>2
<1>3. k \in G
  <2> HIDE DEF G
  <2> QED
    BY <1>1, <1>2, SetInduction
<1> QED
  BY <1>3 DEF Agree

=============================================================================
