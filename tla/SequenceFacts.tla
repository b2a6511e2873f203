---------------------------- MODULE SequenceFacts ----------------------------
(***************************************************************************)
(* Facts about natural numbers and sequences that the proofs of several    *)
(* components cite.  Induction is stated over a set of numbers instead of  *)
(* a predicate, so that a proof instantiates it with a set of its own.     *)
(***************************************************************************)
EXTENDS Integers, Sequences, SequencesExt, WellFoundedInduction, SequenceTheorems, TLAPS

\* A set of natural numbers has a least element.
LEMMA LeastNat ==
    ASSUME NEW T \in SUBSET Nat, T # {}
    PROVE  \E n \in T : \A m \in T : n <= m
<1> DEFINE R == {ss \in Nat \X Nat : ss[1] < ss[2]}
<1>1. IsWellFoundedOn(R, Nat)
    BY NatLessThanWellFounded DEF OpToRel
<1>2. ASSUME NEW x \in Nat, NEW y \in Nat, y < x PROVE <<y, x>> \in R
    BY <1>2
<1> HIDE DEF R
<1>3. PICK x \in T : \A y \in T : ~ (<<y, x>> \in R)
    BY <1>1, WFMin
<1>4. ASSUME NEW y \in T PROVE x <= y
    <2>1. ~(y < x)
        BY <1>2, <1>3
    <2> QED BY <2>1
<1> QED BY <1>4

\* Induction: a set of numbers that has 0 and the successors of what it has
\* up to n has everything up to n.
LEMMA InductionUpTo ==
    ASSUME NEW n \in Nat, NEW P,
           0 \in P,
           \A i \in 0..(n - 1) : i \in P => i + 1 \in P
    PROVE  \A i \in 0..n : i \in P
<1> DEFINE T == {i \in 0..n : i \notin P}
<1> SUFFICES ASSUME T # {} PROVE FALSE
    OBVIOUS
<1>1. T \in SUBSET Nat
    OBVIOUS
<1> HIDE DEF T
<1>2. PICK k \in T : \A m \in T : k <= m
    BY <1>1, LeastNat
<1>3. k \in 1..n /\ k \notin P
    BY DEF T
<1>4. k - 1 \in 0..(n - 1) /\ k - 1 \notin T
    BY <1>2, <1>3
<1>5. k - 1 \in P
    BY <1>4 DEF T
<1>6. (k - 1) + 1 \in P
    BY <1>4, <1>5
<1> QED BY <1>3, <1>6
\* A recursive function on 0..n has a solution, with the values it should have,
\* when each value comes from the one before: b first, then G's.
Recurs(f, n, b, G) == \A i \in 0..n : f[i] = IF i = 0 THEN b ELSE G[<<f[i - 1], i>>]

LEMMA RecursionSolved ==
    ASSUME NEW n \in Nat, NEW X, NEW b \in X, NEW G \in [X \X (1..n) -> X]
    PROVE  \E f \in [0..n -> X] : Recurs(f, n, b, G)
<1> DEFINE Solves(g, k) == \A i \in 0..k : g[i] = IF i = 0 THEN b ELSE G[<<g[i - 1], i>>]
           P == {k \in 0..n : \E g \in [0..k -> X] : Solves(g, k)}
<1>1. 0 \in P
    <2> DEFINE h == [i \in 0..0 |-> b]
    <2>1. h \in [0..0 -> X] /\ Solves(h, 0)
        OBVIOUS
    <2> HIDE DEF Solves, h
    <2> QED BY <2>1
<1>2. ASSUME NEW k \in 0..(n - 1), k \in P PROVE k + 1 \in P
    <2>1. PICK g \in [0..k -> X] : Solves(g, k)
        BY <1>2
    <2> DEFINE e == G[<<g[k], k + 1>>]
               h == [i \in 0..(k + 1) |-> IF i = k + 1 THEN e ELSE g[i]]
    <2>2. e \in X
        OBVIOUS
    <2>3. h \in [0..(k + 1) -> X]
        <3> HIDE DEF e
        <3> QED BY <2>2
    <2>4. ASSUME NEW i \in 0..(k + 1) PROVE h[i] = IF i = 0 THEN b ELSE G[<<h[i - 1], i>>]
        <3>1. CASE i = k + 1
            <4>1. h[i] = e /\ h[i - 1] = g[k] /\ i # 0
                BY <3>1
            <4> QED BY <3>1, <4>1
        <3>2. CASE i # k + 1
            <4>1. i \in 0..k /\ (i # 0 => i - 1 \in 0..k)
                BY <3>2
            <4>2. h[i] = g[i] /\ (i # 0 => h[i - 1] = g[i - 1])
                BY <3>2, <4>1
            <4> QED BY <2>1, <4>1, <4>2
        <3> QED BY <3>1, <3>2
    <2>5. Solves(h, k + 1)
        <3> HIDE DEF h
        <3> QED BY <2>4
    <2>6. k + 1 \in 0..n
        OBVIOUS
    <2> HIDE DEF h, Solves
    <2> QED BY <2>3, <2>5, <2>6
<1>3. n \in P
    <2> HIDE DEF P
    <2> QED BY <1>1, <1>2, InductionUpTo
<1> QED BY <1>3 DEF Recurs
\* Induction from n down: a set of numbers that has a number whenever it has
\* all larger ones has everything from 1 to n.
LEMMA InductionDownFrom ==
    ASSUME NEW n \in Nat, NEW P,
           \A i \in 1..n : (\A j \in (i + 1)..n : j \in P) => i \in P
    PROVE  \A i \in 1..n : i \in P
<1> DEFINE T == {k \in 0..(n - 1) : n - k \notin P}
<1>1. CASE T = {}
    <2>1. \A i \in 1..n : n - i \in 0..(n - 1) /\ n - (n - i) = i
        OBVIOUS
    <2> QED BY <1>1, <2>1
<1>2. CASE T # {}
    <2>1. T \in SUBSET Nat
        OBVIOUS
    <2>2. PICK k \in T : \A m \in T : k <= m
        <3> HIDE DEF T
        <3> QED BY <1>2, <2>1, LeastNat
    <2>3. n - k \in 1..n /\ n - k \notin P
        BY <2>2
    <2>4. ASSUME NEW j \in ((n - k) + 1)..n PROVE j \in P
        <3>1. n - j \in 0..(n - 1) /\ n - (n - j) = j /\ ~(k <= n - j)
            BY <2>2
        <3>2. n - j \notin T
            BY <2>2, <3>1
        <3> QED BY <3>1, <3>2
    <2> QED BY <2>3, <2>4
<1> QED BY <1>1, <1>2

\* A scan: at each position it takes something or nothing and jumps to a later
\* position, or stops (0).  The recursion has a solution.
Scans(f, n, take, jump) ==
    \A i \in 1..n : f[i] = IF jump[i] = 0 THEN <<>>
                           ELSE IF take[i] = <<>> THEN f[jump[i]] ELSE take[i] \o f[jump[i]]

LEMMA ScanSolved ==
    ASSUME NEW n \in Nat, NEW take, NEW jump \in [1..n -> Nat],
           \A i \in 1..n : jump[i] = 0 \/ jump[i] \in (i + 1)..n
    PROVE  \E f : f = [i \in 1..n |-> f[i]] /\ Scans(f, n, take, jump)
<1> DEFINE Next(g, i) == IF jump[i] = 0 THEN <<>>
                         ELSE IF take[i] = <<>> THEN g[jump[i]] ELSE take[i] \o g[jump[i]]
           Solves(g, k) == \A i \in 1..n : i > n - k => g[i] = Next(g, i)
           P == {k \in 0..n : \E g : g = [i \in 1..n |-> g[i]] /\ Solves(g, k)}
<1>1. 0 \in P
    <2> DEFINE h == [i \in 1..n |-> <<>>]
    <2>1. h = [i \in 1..n |-> h[i]]
        OBVIOUS
    <2>2. Solves(h, 0)
        <3> HIDE DEF Next, h
        <3>1. \A i \in 1..n : ~(i > n - 0)
            OBVIOUS
        <3> QED BY <3>1
    <2> HIDE DEF Solves, h
    <2> QED BY <2>1, <2>2
<1>2. ASSUME NEW k \in 0..(n - 1), k \in P PROVE k + 1 \in P
    <2>1. PICK g : g = [i \in 1..n |-> g[i]] /\ Solves(g, k)
        BY <1>2
    <2> DEFINE h == [i \in 1..n |-> IF i = n - k THEN Next(g, i) ELSE g[i]]
    <2>2. h = [i \in 1..n |-> h[i]]
        <3> HIDE DEF Next
        <3> QED OBVIOUS
    <2>3. ASSUME NEW i \in 1..n, i >= n - k PROVE Next(h, i) = Next(g, i)
        <3>1. CASE jump[i] = 0
            BY <3>1
        <3>2. CASE jump[i] # 0
            <4>1. jump[i] \in 1..n /\ jump[i] # n - k
                BY <2>3, <3>2
            <4>2. h[jump[i]] = g[jump[i]]
                BY <4>1
            <4> HIDE DEF h
            <4> QED BY <3>2, <4>2
        <3> QED BY <3>1, <3>2
    <2>4. ASSUME NEW i \in 1..n, i > n - (k + 1) PROVE h[i] = Next(h, i)
        <3>1. Next(h, i) = Next(g, i)
            BY <2>3, <2>4
        <3>2. CASE i = n - k
            <4>1. h[i] = Next(g, i)
                BY <3>2
            <4> QED BY <3>1, <4>1
        <3>3. CASE i # n - k
            <4>1. h[i] = g[i]
                BY <3>3
            <4>2. g[i] = Next(g, i)
                <5> HIDE DEF Next, h
                <5>1. i > n - k
                    BY <2>4, <3>3
                <5> QED BY <2>1, <5>1
            <4> QED BY <3>1, <4>1, <4>2
        <3> QED BY <3>2, <3>3
    <2>5. Solves(h, k + 1)
        <3> HIDE DEF h, Next
        <3> QED BY <2>4
    <2>6. k + 1 \in 0..n
        OBVIOUS
    <2> HIDE DEF h, Solves
    <2> QED BY <2>2, <2>5, <2>6
<1>3. n \in P
    <2> HIDE DEF P
    <2>1. \A k \in 0..(n - 1) : k \in P => k + 1 \in P
        BY <1>2
    <2>2. \A k \in 0..n : k \in P
        BY <1>1, <2>1, InductionUpTo
    <2> QED BY <2>2
<1>4. PICK g : g = [i \in 1..n |-> g[i]] /\ Solves(g, n)
    BY <1>3
<1>5. \A i \in 1..n : i > n - n
    OBVIOUS
<1> QED BY <1>4, <1>5 DEF Scans
-----------------------------------------------------------------------------
(***************************************************************************)
(* FlattenSeq.  The community module defines it with a recursive function; *)
(* that this function exists is the first thing to show.                   *)
(***************************************************************************)
Flat(ss) == CHOOSE f : f = [i \in 1..Len(ss) |-> IF i = 1 THEN ss[i] ELSE f[i - 1] \o ss[i]]

\* FlattenSeq is its recursive function, and the empty sequence has its own case.
LEMMA FlattenIsFlat ==
    ASSUME NEW S, NEW ss \in Seq(Seq(S))
    PROVE  FlattenSeq(ss) = IF ss = <<>> THEN <<>> ELSE Flat(ss)[Len(ss)]
BY DEF FlattenSeq, Flat

\* The recursion of FlattenSeq has a solution, and the solution is typed.
LEMMA FlatExists ==
    ASSUME NEW S, NEW ss \in Seq(Seq(S))
    PROVE  /\ Flat(ss) \in [1..Len(ss) -> Seq(S)]
           /\ \A i \in 1..Len(ss) : Flat(ss)[i] = IF i = 1 THEN ss[i] ELSE Flat(ss)[i - 1] \o ss[i]
<1> DEFINE n == Len(ss)
           Solves(g, k) == \A i \in 1..k : g[i] = IF i = 1 THEN ss[i] ELSE g[i - 1] \o ss[i]
           P == {k \in 0..n : \E g \in [1..k -> Seq(S)] : Solves(g, k)}
<1>1. n \in Nat
    OBVIOUS
<1>2. 0 \in P
    <2>1. [i \in 1..0 |-> <<>>] \in [1..0 -> Seq(S)] /\ Solves([i \in 1..0 |-> <<>>], 0)
        OBVIOUS
    <2>2. 0 \in 0..n
        BY <1>1
    <2> HIDE DEF Solves
    <2> QED BY <2>1, <2>2
<1>3. ASSUME NEW k \in 0..(n - 1), k \in P PROVE k + 1 \in P
    <2>1. PICK g \in [1..k -> Seq(S)] : Solves(g, k)
        BY <1>3
    <2> DEFINE e == IF k = 0 THEN ss[1] ELSE g[k] \o ss[k + 1]
               h == [i \in 1..(k + 1) |-> IF i = k + 1 THEN e ELSE g[i]]
    <2>2. ss[k + 1] \in Seq(S)
        OBVIOUS
    <2>3. e \in Seq(S)
        BY <2>2
    <2>4. h \in [1..(k + 1) -> Seq(S)]
        <3> HIDE DEF e
        <3> QED BY <2>3
    <2>5. Solves(h, k + 1)
        <3> SUFFICES ASSUME NEW i \in 1..(k + 1)
                     PROVE  h[i] = IF i = 1 THEN ss[i] ELSE h[i - 1] \o ss[i]
            OBVIOUS
        <3>1. CASE i = k + 1
            <4>1. h[i] = e
                BY <3>1
            <4>2. k # 0 => h[i - 1] = g[k]
                BY <3>1
            <4> QED BY <3>1, <4>1, <4>2
        <3>2. CASE i # k + 1
            <4>1. i \in 1..k /\ (i # 1 => i - 1 \in 1..k)
                BY <3>2
            <4>2. h[i] = g[i] /\ (i # 1 => h[i - 1] = g[i - 1])
                BY <3>2, <4>1
            <4> QED BY <2>1, <4>1, <4>2
        <3> QED BY <3>1, <3>2
    <2>6. k + 1 \in 0..n
        BY <1>1
    <2> HIDE DEF h, Solves
    <2> QED BY <2>4, <2>5, <2>6
<1>4. n \in P
    <2> HIDE DEF P, n
    <2>1. \A i \in 0..(n - 1) : i \in P => i + 1 \in P
        BY <1>3
    <2>2. \A i \in 0..n : i \in P
        BY <1>1, <1>2, <2>1, InductionUpTo
    <2> QED BY <1>1, <2>2
<1>5. PICK g \in [1..n -> Seq(S)] : Solves(g, n)
    BY <1>4
<1>6. g = [i \in 1..n |-> IF i = 1 THEN ss[i] ELSE g[i - 1] \o ss[i]]
    BY <1>5
<1>7. Flat(ss) = [i \in 1..n |-> IF i = 1 THEN ss[i] ELSE Flat(ss)[i - 1] \o ss[i]]
    BY <1>6 DEF Flat
<1> HIDE DEF n
<1>8. \A i \in 1..n : Flat(ss)[i] = IF i = 1 THEN ss[i] ELSE Flat(ss)[i - 1] \o ss[i]
    BY <1>7
<1>9. Flat(ss) = g
    <2> DEFINE Q == {i \in 0..n : i = 0 \/ Flat(ss)[i] = g[i]}
    <2>1. 0 \in Q
        BY <1>1
    <2>2. ASSUME NEW i \in 0..(n - 1), i \in Q PROVE i + 1 \in Q
        <3>1. i + 1 \in 1..n
            BY <1>1
        <3>2. /\ Flat(ss)[i + 1] = IF i + 1 = 1 THEN ss[i + 1] ELSE Flat(ss)[(i + 1) - 1] \o ss[i + 1]
              /\ g[i + 1] = IF i + 1 = 1 THEN ss[i + 1] ELSE g[(i + 1) - 1] \o ss[i + 1]
            BY <1>5, <1>8, <3>1
        <3>3. (i + 1) - 1 = i /\ (i + 1 # 1 => Flat(ss)[i] = g[i])
            BY <2>2
        <3>4. Flat(ss)[i + 1] = g[i + 1]
            BY <3>2, <3>3
        <3>5. i + 1 \in 0..n
            BY <3>1
        <3> QED BY <3>4, <3>5
    <2>3. \A i \in 0..n : i \in Q
        <3> HIDE DEF Q
        <3>1. \A i \in 0..(n - 1) : i \in Q => i + 1 \in Q
            BY <2>2
        <3> QED BY <1>1, <2>1, <3>1, InductionUpTo
    <2>4. ASSUME NEW i \in 1..n PROVE Flat(ss)[i] = g[i]
        <3>1. i \in 0..n /\ i # 0
            BY <1>1
        <3>2. i \in Q
            <4> HIDE DEF Q
            <4> QED BY <2>3, <3>1
        <3> QED BY <3>1, <3>2
    <2>5. \E f : Flat(ss) = [i \in 1..n |-> f[i]]
        <3> DEFINE f == [i \in 1..n |-> IF i = 1 THEN ss[i] ELSE Flat(ss)[i - 1] \o ss[i]]
        <3>1. f = [i \in 1..n |-> f[i]]
            OBVIOUS
        <3> HIDE DEF f
        <3> QED BY <1>7, <3>1
    <2> QED BY <2>4, <2>5
<1> QED BY <1>5, <1>9 DEF n

\* Nothing to join.
LEMMA FlattenEmpty == FlattenSeq(<<>>) = <<>>
BY DEF FlattenSeq

\* One more sequence at the end.
LEMMA FlattenAppend ==
    ASSUME NEW S, NEW ss \in Seq(Seq(S)), NEW x \in Seq(S)
    PROVE  /\ FlattenSeq(ss) \in Seq(S)
           /\ FlattenSeq(Append(ss, x)) = FlattenSeq(ss) \o x
<1> DEFINE n == Len(ss)
           tt == Append(ss, x)
<1>1. n \in Nat /\ tt \in Seq(Seq(S)) /\ Len(tt) = n + 1 /\ tt # <<>>
      /\ tt[n + 1] = x /\ \A i \in 1..n : tt[i] = ss[i]
    BY AppendProperties
<1>2. ss = <<>> <=> n = 0
    OBVIOUS
<1> HIDE DEF tt
<1>3. /\ Flat(ss) \in [1..n -> Seq(S)]
      /\ \A i \in 1..n : Flat(ss)[i] = IF i = 1 THEN ss[i] ELSE Flat(ss)[i - 1] \o ss[i]
    BY FlatExists
<1>4. \A i \in 1..(n + 1) : Flat(tt)[i] = IF i = 1 THEN tt[i] ELSE Flat(tt)[i - 1] \o tt[i]
    BY <1>1, FlatExists
<1>5. FlattenSeq(ss) = IF n = 0 THEN <<>> ELSE Flat(ss)[n]
    BY <1>2, FlattenIsFlat
<1>6. FlattenSeq(tt) = Flat(tt)[n + 1]
    BY <1>1, FlattenIsFlat
<1> HIDE DEF n
<1>7. FlattenSeq(ss) \in Seq(S)
    BY <1>1, <1>3, <1>5
<1>8. \A i \in 1..n : Flat(tt)[i] = Flat(ss)[i]
    <2> DEFINE Q == {i \in 0..n : i = 0 \/ Flat(tt)[i] = Flat(ss)[i]}
    <2>1. 0 \in Q
        BY <1>1
    <2>2. ASSUME NEW i \in 0..(n - 1), i \in Q PROVE i + 1 \in Q
        <3>1. i + 1 \in 1..n /\ i + 1 \in 1..(n + 1) /\ i + 1 \in 0..n
            BY <1>1
        <3>2. /\ Flat(ss)[i + 1] = IF i + 1 = 1 THEN ss[i + 1] ELSE Flat(ss)[(i + 1) - 1] \o ss[i + 1]
              /\ Flat(tt)[i + 1] = IF i + 1 = 1 THEN tt[i + 1] ELSE Flat(tt)[(i + 1) - 1] \o tt[i + 1]
            BY <1>3, <1>4, <3>1
        <3>3. (i + 1) - 1 = i /\ (i + 1 # 1 => Flat(tt)[i] = Flat(ss)[i])
            BY <2>2
        <3>4. tt[i + 1] = ss[i + 1]
            BY <1>1, <3>1
        <3>5. Flat(tt)[i + 1] = Flat(ss)[i + 1]
            BY <3>2, <3>3, <3>4
        <3> QED BY <3>1, <3>5
    <2>3. \A i \in 0..n : i \in Q
        <3> HIDE DEF Q
        <3>1. \A i \in 0..(n - 1) : i \in Q => i + 1 \in Q
            BY <2>2
        <3> QED BY <1>1, <2>1, <3>1, InductionUpTo
    <2> QED BY <1>1, <2>3
<1>9. FlattenSeq(tt) = FlattenSeq(ss) \o x
    <2>1. n + 1 \in 1..(n + 1) /\ (n + 1) - 1 = n /\ (n + 1 = 1 <=> n = 0)
        BY <1>1
    <2>2. Flat(tt)[n + 1] = IF n = 0 THEN x ELSE Flat(tt)[n] \o x
        BY <1>1, <1>4, <2>1
    <2>3. n # 0 => Flat(tt)[n] = Flat(ss)[n]
        BY <1>1, <1>8
    <2>4. <<>> \o x = x
        OBVIOUS
    <2> QED BY <1>5, <1>6, <2>2, <2>3, <2>4
<1> QED BY <1>7, <1>9 DEF tt

\* The prefixes of a sequence: one element more is an Append.
LEMMA PrefixAppend ==
    ASSUME NEW S, NEW s \in Seq(S), NEW i \in 0..(Len(s) - 1)
    PROVE  /\ SubSeq(s, 1, i) \in Seq(S)
           /\ s[i + 1] \in S
           /\ SubSeq(s, 1, i + 1) = Append(SubSeq(s, 1, i), s[i + 1])
OBVIOUS

\* What a concatenation has is what its two parts have.
LEMMA ConcatHas ==
    ASSUME NEW S, NEW s \in Seq(S), NEW t \in Seq(S)
    PROVE  ToSet(s \o t) = ToSet(s) \cup ToSet(t)
<1>1. Range(s \o t) = Range(s) \cup Range(t)
    BY RangeConcatenation
<1>2. Range(s) = ToSet(s) /\ Range(t) = ToSet(t) /\ Range(s \o t) = ToSet(s \o t)
    BY DEF Range, ToSet
<1> QED BY <1>1, <1>2

\* A sequence has its head and what its tail has.
LEMMA HeadTailHas ==
    ASSUME NEW S, NEW s \in Seq(S), s # <<>>
    PROVE  ToSet(s) = {Head(s)} \cup ToSet(Tail(s))
<1>1. /\ Len(s) \in Nat \ {0} /\ DOMAIN s = 1..Len(s) /\ Head(s) = s[1]
      /\ Tail(s) \in Seq(S) /\ DOMAIN Tail(s) = 1..(Len(s) - 1)
    OBVIOUS
<1>2. \A i \in 1..(Len(s) - 1) : Tail(s)[i] = s[i + 1]
    BY <1>1, HeadTailProperties
<1>3. ASSUME NEW x \in ToSet(s) PROVE x = Head(s) \/ x \in ToSet(Tail(s))
    <2>1. PICK i \in 1..Len(s) : x = s[i]
        BY <1>1 DEF ToSet
    <2>2. i # 1 => i - 1 \in 1..(Len(s) - 1) /\ Tail(s)[i - 1] = x
        BY <1>1, <1>2, <2>1
    <2> QED BY <1>1, <2>1, <2>2 DEF ToSet
<1>4. Head(s) \in ToSet(s) /\ \A x \in ToSet(Tail(s)) : x \in ToSet(s)
    BY <1>1, <1>2 DEF ToSet
<1> QED BY <1>3, <1>4

\* An element at the end of a concatenation is one at the end of its second part.
LEMMA ConcatAppend ==
    ASSUME NEW S, NEW s \in Seq(S), NEW t \in Seq(S), NEW x \in S
    PROVE  s \o Append(t, x) = Append(s \o t, x)
<1>1. <<x>> \in Seq(S) /\ s \o t \in Seq(S)
    OBVIOUS
<1>2. Append(t, x) = t \o <<x>> /\ Append(s \o t, x) = (s \o t) \o <<x>>
    BY <1>1, AppendIsConcat
<1>3. (s \o t) \o <<x>> = s \o (t \o <<x>>)
    BY <1>1, ConcatAssociative
<1> QED BY <1>2, <1>3

\* Joining, then joining the rest, is joining everything.
LEMMA FlattenConcat ==
    ASSUME NEW S, NEW ss \in Seq(Seq(S)), NEW tt \in Seq(Seq(S))
    PROVE  FlattenSeq(ss \o tt) = FlattenSeq(ss) \o FlattenSeq(tt)
<1> DEFINE n == Len(tt)
           At(i) == SubSeq(tt, 1, i)
           P == {i \in 0..n : FlattenSeq(ss \o At(i)) = FlattenSeq(ss) \o FlattenSeq(At(i))}
<1>1. n \in Nat /\ At(n) = tt
    OBVIOUS
<1>2. FlattenSeq(ss) \in Seq(S)
    BY FlattenAppend, EmptySeq
<1>3. 0 \in P
    <2>1. At(0) = <<>> /\ ss \o <<>> = ss
        OBVIOUS
    <2>2. FlattenSeq(ss) \o <<>> = FlattenSeq(ss)
        BY <1>2
    <2>3. 0 \in 0..n
        BY <1>1
    <2> HIDE DEF At, n
    <2>4. FlattenSeq(ss \o At(0)) = FlattenSeq(ss) \o FlattenSeq(At(0))
        BY <2>1, <2>2, FlattenEmpty
    <2> QED BY <2>3, <2>4
<1>4. ASSUME NEW i \in 0..(n - 1), i \in P PROVE i + 1 \in P
    <2>1. At(i) \in Seq(Seq(S)) /\ tt[i + 1] \in Seq(S) /\ At(i + 1) = Append(At(i), tt[i + 1])
        BY PrefixAppend
    <2> HIDE DEF At
    <2>2. ss \o At(i) \in Seq(Seq(S)) /\ ss \o At(i + 1) = Append(ss \o At(i), tt[i + 1])
        <3>1. ss \o At(i) \in Seq(Seq(S))
            BY <2>1
        <3>2. ss \o Append(At(i), tt[i + 1]) = Append(ss \o At(i), tt[i + 1])
            <4> DEFINE U == Seq(S)
            <4>1. ss \in Seq(U) /\ At(i) \in Seq(U) /\ tt[i + 1] \in U
                BY <2>1
            <4> HIDE DEF U
            <4> QED BY <4>1, ConcatAppend
        <3> QED BY <2>1, <3>1, <3>2
    <2>3. FlattenSeq(ss \o At(i + 1)) = FlattenSeq(ss \o At(i)) \o tt[i + 1]
        BY <2>1, <2>2, FlattenAppend
    <2>4. FlattenSeq(At(i)) \in Seq(S) /\ FlattenSeq(At(i + 1)) = FlattenSeq(At(i)) \o tt[i + 1]
        BY <2>1, FlattenAppend
    <2> HIDE DEF n
    <2>5. (FlattenSeq(ss) \o FlattenSeq(At(i))) \o tt[i + 1] = FlattenSeq(ss) \o (FlattenSeq(At(i)) \o tt[i + 1])
        <3> DEFINE a == FlattenSeq(ss)
                   b == FlattenSeq(At(i))
                   c == tt[i + 1]
        <3>1. a \in Seq(S) /\ b \in Seq(S) /\ c \in Seq(S)
            BY <1>2, <2>1, <2>4
        <3> HIDE DEF a, b, c
        <3>2. (a \o b) \o c = a \o (b \o c)
            BY <3>1, ConcatAssociative
        <3> QED BY <3>2 DEF a, b, c
    <2>6. i + 1 \in 0..n /\ FlattenSeq(ss \o At(i)) = FlattenSeq(ss) \o FlattenSeq(At(i))
        BY <1>1, <1>4
    <2>7. FlattenSeq(ss \o At(i + 1)) = FlattenSeq(ss) \o FlattenSeq(At(i + 1))
        BY <2>3, <2>4, <2>5, <2>6
    <2> QED BY <2>6, <2>7
<1>5. \A i \in 0..n : i \in P
    <2> HIDE DEF P, n
    <2>1. \A i \in 0..(n - 1) : i \in P => i + 1 \in P
        BY <1>4
    <2> QED BY <1>1, <1>3, <2>1, InductionUpTo
<1>6. n \in P
    <2> HIDE DEF P, n
    <2> QED BY <1>1, <1>5
<1> QED BY <1>1, <1>6

\* What a joined sequence has is what its parts have.
LEMMA FlattenHas ==
    ASSUME NEW S, NEW ss \in Seq(Seq(S))
    PROVE  /\ FlattenSeq(ss) \in Seq(S)
           /\ ToSet(FlattenSeq(ss)) = UNION {ToSet(ss[j]) : j \in DOMAIN ss}
<1> DEFINE n == Len(ss)
           At(i) == SubSeq(ss, 1, i)
           P == {i \in 0..n : ToSet(FlattenSeq(At(i))) = UNION {ToSet(ss[j]) : j \in 1..i}}
<1>1. n \in Nat /\ At(n) = ss /\ DOMAIN ss = 1..n
    OBVIOUS
<1>2. FlattenSeq(ss) \in Seq(S)
    BY FlattenAppend, EmptySeq
<1>3. 0 \in P
    <2>1. At(0) = <<>> /\ ToSet(<<>>) = {} /\ 1..0 = {} /\ 0 \in 0..n
        BY <1>1 DEF ToSet
    <2> QED BY <2>1, FlattenEmpty
<1>4. ASSUME NEW i \in 0..(n - 1), i \in P PROVE i + 1 \in P
    <2>1. At(i) \in Seq(Seq(S)) /\ ss[i + 1] \in Seq(S) /\ At(i + 1) = Append(At(i), ss[i + 1])
        BY PrefixAppend
    <2> HIDE DEF At
    <2>2. FlattenSeq(At(i)) \in Seq(S) /\ FlattenSeq(At(i + 1)) = FlattenSeq(At(i)) \o ss[i + 1]
        BY <2>1, FlattenAppend
    <2>3. ToSet(FlattenSeq(At(i + 1))) = ToSet(FlattenSeq(At(i))) \cup ToSet(ss[i + 1])
        <3> DEFINE a == FlattenSeq(At(i))
                   b == ss[i + 1]
        <3>1. a \in Seq(S) /\ b \in Seq(S)
            BY <2>1, <2>2
        <3> HIDE DEF a, b
        <3>2. ToSet(a \o b) = ToSet(a) \cup ToSet(b)
            BY <3>1, ConcatHas
        <3> QED BY <2>2, <3>2 DEF a, b
    <2>4. i + 1 \in 0..n /\ ToSet(FlattenSeq(At(i))) = UNION {ToSet(ss[j]) : j \in 1..i}
        BY <1>1, <1>4
    <2>5. 1..(i + 1) = (1..i) \cup {i + 1}
        BY <1>1
    <2> HIDE DEF n
    <2>6. UNION {ToSet(ss[j]) : j \in 1..(i + 1)} = (UNION {ToSet(ss[j]) : j \in 1..i}) \cup ToSet(ss[i + 1])
        BY <2>5
    <2>7. i + 1 \in 0..n /\ ToSet(FlattenSeq(At(i + 1))) = UNION {ToSet(ss[j]) : j \in 1..(i + 1)}
        BY <2>3, <2>4, <2>6
    <2> QED BY <2>7
<1>5. \A i \in 0..n : i \in P
    <2> HIDE DEF P, n
    <2>1. \A i \in 0..(n - 1) : i \in P => i + 1 \in P
        BY <1>4
    <2> QED BY <1>1, <1>3, <2>1, InductionUpTo
<1>6. n \in P
    <2> HIDE DEF P, n
    <2> QED BY <1>1, <1>5
<1>7. ToSet(FlattenSeq(At(n))) = UNION {ToSet(ss[j]) : j \in 1..n}
    BY <1>6
<1> HIDE DEF n, At
<1> QED BY <1>1, <1>2, <1>7

\* And in the same order: before an element of a part come all the elements
\* of the parts before that one.
LEMMA FlattenOrder ==
    ASSUME NEW S, NEW ss \in Seq(Seq(S))
    PROVE  \A k \in 1..Len(FlattenSeq(ss)) : \E i \in 1..Len(ss) :
               /\ FlattenSeq(ss)[k] \in ToSet(ss[i])
               /\ \A j \in 1..(i - 1) : \A x \in ToSet(ss[j]) : \E m \in 1..(k - 1) : FlattenSeq(ss)[m] = x
<1> DEFINE n == Len(ss)
           At(p) == SubSeq(ss, 1, p)
           InOrder(t, p) == \A k \in 1..Len(t) : \E i \in 1..p :
               /\ t[k] \in ToSet(ss[i])
               /\ \A j \in 1..(i - 1) : \A x \in ToSet(ss[j]) : \E m \in 1..(k - 1) : t[m] = x
           P == {p \in 0..n : InOrder(FlattenSeq(At(p)), p)}
<1>1. n \in Nat /\ At(n) = ss /\ DOMAIN ss = 1..n
    OBVIOUS
<1>2. 0 \in P
    <2>1. At(0) = <<>> /\ Len(<<>>) = 0 /\ 0 \in 0..n
        BY <1>1
    <2>2. InOrder(<<>>, 0)
        BY <2>1
    <2> HIDE DEF InOrder, At
    <2> QED BY <2>1, <2>2, FlattenEmpty
<1>3. ASSUME NEW p \in 0..(n - 1), p \in P PROVE p + 1 \in P
    <2>1. At(p) \in Seq(Seq(S)) /\ ss[p + 1] \in Seq(S) /\ At(p + 1) = Append(At(p), ss[p + 1])
        BY PrefixAppend
    <2>2. /\ p + 1 \in 0..n /\ InOrder(FlattenSeq(At(p)), p)
          /\ DOMAIN At(p) = 1..p /\ \A j \in 1..p : At(p)[j] = ss[j]
        BY <1>1, <1>3
    <2> HIDE DEF At
    <2> DEFINE s == FlattenSeq(At(p))
               t == ss[p + 1]
    <2>3. s \in Seq(S) /\ FlattenSeq(At(p + 1)) = s \o t /\ \A j \in 1..p : \A x \in ToSet(ss[j]) : x \in ToSet(s)
        <3>1. s \in Seq(S) /\ FlattenSeq(At(p + 1)) = s \o t
            BY <2>1, FlattenAppend
        <3>2. ToSet(s) = UNION {ToSet(At(p)[j]) : j \in DOMAIN At(p)}
            BY <2>1, FlattenHas
        <3> HIDE DEF s, t
        <3>3. \A j \in 1..p : \A x \in ToSet(ss[j]) : x \in ToSet(s)
            BY <2>2, <3>2
        <3> QED BY <3>1, <3>3
    <2>4. InOrder(s, p) /\ t \in Seq(S)
        BY <2>1, <2>2
    <2>5. p \in Nat
        BY <1>1, <1>3
    <2> HIDE DEF s, n
    <2>6. InOrder(s \o t, p + 1)
        <3> SUFFICES ASSUME NEW k \in 1..Len(s \o t)
                     PROVE  \E i \in 1..(p + 1) :
                                /\ (s \o t)[k] \in ToSet(ss[i])
                                /\ \A j \in 1..(i - 1) : \A x \in ToSet(ss[j]) : \E m \in 1..(k - 1) : (s \o t)[m] = x
            OBVIOUS
        <3>1. /\ Len(s) \in Nat /\ Len(t) \in Nat /\ k \in 1..(Len(s) + Len(t))
              /\ DOMAIN s = 1..Len(s) /\ DOMAIN t = 1..Len(t)
              /\ \A m \in 1..Len(s) : (s \o t)[m] = s[m]
              /\ k > Len(s) => k - Len(s) \in 1..Len(t) /\ (s \o t)[k] = t[k - Len(s)]
            BY <2>3, <2>4
        <3>2. CASE k \in 1..Len(s)
            <4>1. PICK i \in 1..p :
                      /\ s[k] \in ToSet(ss[i])
                      /\ \A j \in 1..(i - 1) : \A x \in ToSet(ss[j]) : \E m \in 1..(k - 1) : s[m] = x
                BY <2>4, <3>2
            <4>2. i \in 1..(p + 1) /\ (s \o t)[k] \in ToSet(ss[i]) /\ \A m \in 1..(k - 1) : (s \o t)[m] = s[m]
                BY <3>1, <3>2, <4>1
            <4>3. \A j \in 1..(i - 1) : \A x \in ToSet(ss[j]) : \E m \in 1..(k - 1) : (s \o t)[m] = x
                BY <4>1, <4>2
            <4> QED BY <4>2, <4>3
        <3>3. CASE k > Len(s)
            <4>1. p + 1 \in 1..(p + 1) /\ (p + 1) - 1 = p
                BY <2>5
            <4>3. (s \o t)[k] \in ToSet(ss[p + 1])
                BY <3>1, <3>3 DEF ToSet
            <4>2. ASSUME NEW j \in 1..p, NEW x \in ToSet(ss[j]) PROVE \E m \in 1..(k - 1) : (s \o t)[m] = x
                <5>1. PICK m \in 1..Len(s) : s[m] = x
                    BY <2>3, <3>1 DEF ToSet
                <5>2. m \in 1..(k - 1) /\ (s \o t)[m] = x
                    BY <3>1, <3>3, <5>1
                <5> QED BY <5>2
            <4> HIDE DEF t
            <4> QED BY <4>1, <4>2, <4>3
        <3>4. k \in 1..Len(s) \/ k > Len(s)
            BY <3>1
        <3> HIDE DEF t
        <3> QED BY <3>2, <3>3, <3>4
    <2> HIDE DEF InOrder
    <2> QED BY <2>2, <2>3, <2>6
<1>4. \A p \in 0..n : p \in P
    <2> HIDE DEF P, n
    <2>1. \A p \in 0..(n - 1) : p \in P => p + 1 \in P
        BY <1>3
    <2> QED BY <1>1, <1>2, <2>1, InductionUpTo
<1>5. InOrder(FlattenSeq(At(n)), n)
    <2> HIDE DEF InOrder, At
    <2> QED BY <1>1, <1>4
<1> QED BY <1>1, <1>5

\* The same for the sequence that a function makes of each position.
LEMMA FlattenMap ==
    ASSUME NEW S, NEW n \in Nat, NEW g \in [1..n -> Seq(S)]
    PROVE  /\ FlattenSeq(g) \in Seq(S)
           /\ \A x : x \in ToSet(FlattenSeq(g)) <=> \E i \in 1..n : x \in ToSet(g[i])
<1>1. g \in Seq(Seq(S)) /\ DOMAIN g = 1..n
    OBVIOUS
<1>2. ToSet(FlattenSeq(g)) = UNION {ToSet(g[i]) : i \in 1..n}
    BY <1>1, FlattenHas
<1> QED BY <1>1, <1>2, FlattenHas

\* Keeping the first of each element keeps the elements.
LEMMA FirstsHave ==
    ASSUME NEW S, NEW s \in Seq(S)
    PROVE  LET g == [i \in DOMAIN s |-> IF \E j \in 1..(i - 1) : s[j] = s[i] THEN <<>> ELSE <<s[i]>>]
           IN FlattenSeq(g) \in Seq(S) /\ ToSet(FlattenSeq(g)) = ToSet(s)
<1> DEFINE n == Len(s)
           g == [i \in DOMAIN s |-> IF \E j \in 1..(i - 1) : s[j] = s[i] THEN <<>> ELSE <<s[i]>>]
<1>1. n \in Nat /\ DOMAIN s = 1..n /\ \A i \in 1..n : s[i] \in S
    OBVIOUS
<1>2. g \in [1..n -> Seq(S)]
    <2>1. \A i \in 1..n : <<s[i]>> \in Seq(S) /\ <<>> \in Seq(S)
        BY <1>1
    <2> QED BY <1>1, <2>1
<1>3. \A i \in 1..n : ToSet(g[i]) = IF \E j \in 1..(i - 1) : s[j] = s[i] THEN {} ELSE {s[i]}
    <2>1. ToSet(<<>>) = {} /\ \A x : ToSet(<<x>>) = {x}
        BY DEF ToSet
    <2> QED BY <1>1, <2>1
<1> HIDE DEF g
<1>4. FlattenSeq(g) \in Seq(S) /\ \A x : x \in ToSet(FlattenSeq(g)) <=> \E i \in 1..n : x \in ToSet(g[i])
    BY <1>1, <1>2, FlattenMap
<1>5. ASSUME NEW x \in ToSet(s) PROVE \E i \in 1..n : x \in ToSet(g[i])
    <2> DEFINE T == {i \in 1..n : s[i] = x}
    <2>1. T # {} /\ T \in SUBSET Nat
        BY <1>1 DEF ToSet
    <2> HIDE DEF T
    <2>2. PICK i \in T : \A j \in T : i <= j
        BY <2>1, LeastNat
    <2>3. i \in 1..n /\ s[i] = x
        BY <2>2 DEF T
    <2>4. ~ \E j \in 1..(i - 1) : s[j] = s[i]
        <3> SUFFICES ASSUME NEW j \in 1..(i - 1), s[j] = s[i] PROVE FALSE
            OBVIOUS
        <3>1. j \in 1..n /\ ~(i <= j)
            BY <1>1, <2>3
        <3>2. j \in T
            BY <2>3, <3>1 DEF T
        <3> QED BY <2>2, <3>1, <3>2
    <2>5. ToSet(g[i]) = {x}
        BY <1>3, <2>3, <2>4
    <2> QED BY <2>3, <2>5
<1>6. ASSUME NEW i \in 1..n, NEW x \in ToSet(g[i]) PROVE x \in ToSet(s)
    BY <1>1, <1>3, <1>6 DEF ToSet
<1>7. ToSet(FlattenSeq(g)) = ToSet(s)
    BY <1>4, <1>5, <1>6
<1> QED BY <1>4, <1>7 DEF g
-----------------------------------------------------------------------------
(***************************************************************************)
(* A sequence taken apart at its first element, and recursion and          *)
(* induction along that: what a scan from left to right needs.             *)
(***************************************************************************)
\* An element in front of a sequence.
LEMMA ConsFacts ==
    ASSUME NEW S, NEW c \in S, NEW r \in Seq(S)
    PROVE  /\ Cons(c, r) \in Seq(S)
           /\ Cons(c, r) # <<>>
           /\ Len(r) \in Nat /\ Len(Cons(c, r)) = Len(r) + 1
           /\ Cons(c, r)[1] = c
           /\ \A i \in 1..Len(r) : Cons(c, r)[i + 1] = r[i]
<1>1. <<c>> \in Seq(S) /\ Len(<<c>>) = 1 /\ <<c>>[1] = c /\ Len(r) \in Nat
    OBVIOUS
<1> DEFINE o == <<c>>
<1>2. /\ o \o r \in Seq(S) /\ Len(o \o r) = 1 + Len(r)
      /\ \A i \in 1..(1 + Len(r)) : (o \o r)[i] = IF i <= 1 THEN o[i] ELSE r[i - 1]
    BY <1>1, ConcatProperties
<1> HIDE DEF o
<1>3. (o \o r)[1] = o[1] /\ \A i \in 1..Len(r) : (o \o r)[i + 1] = r[i]
    <2>1. \A i \in 1..Len(r) : i + 1 \in 1..(1 + Len(r)) /\ ~(i + 1 <= 1) /\ (i + 1) - 1 = i
        BY <1>1
    <2>2. 1 \in 1..(1 + Len(r))
        BY <1>1
    <2> QED BY <1>2, <2>1, <2>2
<1>4. o \o r # <<>>
    <2>1. Len(o \o r) # 0
        BY <1>1, <1>2
    <2> QED BY <2>1
<1> QED BY <1>1, <1>2, <1>3, <1>4 DEF Cons, o

\* Every other sequence is made like that, in one way.
LEMMA ConsExists ==
    ASSUME NEW S, NEW s \in Seq(S), s # <<>>
    PROVE  \E c \in S, r \in Seq(S) : s = Cons(c, r)
<1>1. Head(s) \in S /\ Tail(s) \in Seq(S) /\ Len(Tail(s)) = Len(s) - 1
      /\ \A i \in 1..Len(Tail(s)) : Tail(s)[i] = s[i + 1]
    BY HeadTailProperties
<1> DEFINE c == Head(s)
           r == Tail(s)
           t == Cons(c, r)
<1>2. s[1] = c /\ Len(s) \in Nat
    OBVIOUS
<1>6. /\ c \in S /\ r \in Seq(S) /\ Len(r) = Len(s) - 1 /\ \A i \in 1..Len(r) : r[i] = s[i + 1]
    BY <1>1
<1> HIDE DEF c, r
<1>3. /\ t \in Seq(S) /\ Len(t) = Len(r) + 1 /\ t[1] = c
      /\ \A i \in 1..Len(r) : t[i + 1] = r[i]
    BY <1>6, ConsFacts
<1>4. Len(t) = Len(s)
    BY <1>6, <1>2, <1>3
<1>5. ASSUME NEW i \in 1..Len(s) PROVE s[i] = t[i]
    <2>1. CASE i = 1
        BY <1>2, <1>3, <2>1
    <2>2. CASE i # 1
        <3>1. i - 1 \in 1..Len(r) /\ (i - 1) + 1 = i
            BY <1>6, <1>2, <2>2
        <3> QED BY <1>6, <1>3, <3>1
    <2> QED BY <2>1, <2>2
<1> HIDE DEF t
<1>7. s = t
    BY <1>3, <1>4, <1>5, SeqEqual
<1> QED BY <1>6, <1>7 DEF t

\* Equal sequences have equal first elements and equal rests.
LEMMA ConsSame ==
    ASSUME NEW S, NEW c \in S, NEW d \in S, NEW r \in Seq(S), NEW t \in Seq(S), Cons(c, r) = Cons(d, t)
    PROVE  c = d /\ r = t
<1>1. c = d /\ Len(r) = Len(t) /\ Len(r) \in Nat
    <2>1. /\ Cons(c, r)[1] = c /\ Len(Cons(c, r)) = Len(r) + 1 /\ Len(r) \in Nat
          /\ Cons(d, t)[1] = d /\ Len(Cons(d, t)) = Len(t) + 1 /\ Len(t) \in Nat
        BY ConsFacts
    <2> QED BY <2>1
<1>2. /\ \A i \in 1..Len(r) : Cons(c, r)[i + 1] = r[i]
      /\ \A i \in 1..Len(t) : Cons(d, t)[i + 1] = t[i]
    <2> DEFINE Has(e, u) == \A i \in 1..Len(u) : Cons(e, u)[i + 1] = u[i]
    <2>1. \A e \in S, u \in Seq(S) : Has(e, u)
        BY ConsFacts
    <2>2. Has(c, r) /\ Has(d, t)
        <3> HIDE DEF Has
        <3> QED BY <2>1
    <2> QED BY <2>2
<1>4. \A i \in 1..Len(r) : r[i] = t[i]
    BY <1>1, <1>2
<1> QED BY <1>1, <1>4, SeqEqual

\* Induction along that.
LEMMA LengthInduction ==
    ASSUME NEW S, NEW P,
           \A s \in Seq(S) : (\A r \in Seq(S) : Len(r) < Len(s) => r \in P) => s \in P
    PROVE  \A s \in Seq(S) : s \in P
<1> DEFINE T == {n \in Nat : \E s \in Seq(S) : Len(s) = n /\ s \notin P}
<1> SUFFICES ASSUME T # {} PROVE FALSE
    <2>1. \A s \in Seq(S) : Len(s) \in Nat
        OBVIOUS
    <2> QED BY <2>1
<1>1. T \in SUBSET Nat
    OBVIOUS
<1> HIDE DEF T
<1>2. PICK n \in T : \A m \in T : n <= m
    BY <1>1, LeastNat
<1>3. PICK s \in Seq(S) : Len(s) = n /\ s \notin P
    BY <1>2 DEF T
<1>4. ASSUME NEW r \in Seq(S), Len(r) < Len(s) PROVE r \in P
    <2>1. Len(r) \in Nat /\ n \in Nat /\ ~(n <= Len(r))
        BY <1>1, <1>3, <1>4
    <2>2. Len(r) \notin T
        BY <1>2, <2>1
    <2> QED BY <2>1, <2>2 DEF T
<1> QED BY <1>3, <1>4

\* What holds of the empty sequence, and of one with an element more, holds
\* of all.
LEMMA ConsInduction ==
    ASSUME NEW S, NEW P, <<>> \in P,
           \A c \in S, r \in Seq(S) : r \in P => Cons(c, r) \in P
    PROVE  \A s \in Seq(S) : s \in P
<1>1. ASSUME NEW s \in Seq(S), \A r \in Seq(S) : Len(r) < Len(s) => r \in P PROVE s \in P
    <2>1. CASE s = <<>>
        BY <2>1
    <2>2. CASE s # <<>>
        <3>1. PICK c \in S, r \in Seq(S) : s = Cons(c, r)
            BY <2>2, ConsExists
        <3>2. Len(r) \in Nat /\ Len(s) = Len(r) + 1
            BY <3>1, ConsFacts
        <3>3. r \in P
            BY <1>1, <3>2
        <3> QED BY <3>1, <3>3
    <2> QED BY <2>1, <2>2
<1>2. \A s \in Seq(S) : (\A r \in Seq(S) : Len(r) < Len(s) => r \in P) => s \in P
    BY <1>1
<1> HIDE DEF Cons
<1> QED BY <1>2, LengthInduction

\* What follows a sequence follows its rest.
LEMMA ConsConcat ==
    ASSUME NEW S, NEW c \in S, NEW r \in Seq(S), NEW t \in Seq(S)
    PROVE  Cons(c, r) \o t = Cons(c, r \o t)
<1>1. <<c>> \in Seq(S)
    OBVIOUS
<1>2. (<<c>> \o r) \o t = <<c>> \o (r \o t)
    BY <1>1, ConcatAssociative
<1> QED BY <1>2 DEF Cons

\* A scan: what it makes of a sequence comes from the first two elements and
\* from what it makes of the rest without the first and without both.
ScanStep(f, s, i, one, two) ==
    IF i = Len(s) THEN one[s[i]] ELSE two[<<s[i], s[i + 1], f[i + 1], f[i + 2]>>]
BackScan(f, s, b, one, two) ==
    /\ f[Len(s) + 1] = b
    /\ \A i \in 1..Len(s) : f[i] = ScanStep(f, s, i, one, two)

\* Without its first value it is the scan of the rest.
ScanRest(f, r) == [i \in 1..(Len(r) + 1) |-> f[i + 1]]
ScanFirst(f, c, r, one, two) == f[1] = IF r = <<>> THEN one[c] ELSE two[<<c, r[1], f[2], f[3]>>]

\* The values after the first scan the rest; the first comes from them.
LEMMA BackScanTail ==
    ASSUME NEW S, NEW c \in S, NEW r \in Seq(S), NEW b, NEW one, NEW two,
           NEW f, BackScan(f, Cons(c, r), b, one, two)
    PROVE  /\ BackScan(ScanRest(f, r), r, b, one, two)
           /\ ScanFirst(f, c, r, one, two)
<1> DEFINE s == Cons(c, r)
           n == Len(r)
           h == [i \in 1..(n + 1) |-> f[i + 1]]
<1>1. n \in Nat /\ Len(s) = n + 1 /\ s[1] = c /\ \A i \in 1..n : s[i + 1] = r[i]
    BY ConsFacts
<1>2. r = <<>> <=> n = 0
    OBVIOUS
<1>3. \A i \in 1..(n + 1) : h[i] = f[i + 1]
    OBVIOUS
<1> HIDE DEF s, h, n
<1>4. f[(n + 1) + 1] = b
    BY <1>1 DEF ScanStep, BackScan, s
<1>5. \A i \in 1..(n + 1) : f[i] = IF i = n + 1 THEN one[s[i]] ELSE two[<<s[i], s[i + 1], f[i + 1], f[i + 2]>>]
    BY <1>1 DEF ScanStep, BackScan, s
<1>6. h[n + 1] = b
    BY <1>1, <1>3, <1>4
<1>7. ASSUME NEW i \in 1..n PROVE h[i] = IF i = n THEN one[r[i]] ELSE two[<<r[i], r[i + 1], h[i + 1], h[i + 2]>>]
    <2>1. i + 1 \in 1..(n + 1) /\ (i + 1 = n + 1 <=> i = n) /\ (i + 1) + 1 = i + 2 /\ (i + 1) + 2 = (i + 2) + 1
        BY <1>1
    <2>2. h[i] = f[i + 1] /\ s[i + 1] = r[i]
        BY <1>1, <1>3
    <2>3. f[i + 1] = IF i + 1 = n + 1 THEN one[s[i + 1]]
                     ELSE two[<<s[i + 1], s[(i + 1) + 1], f[(i + 1) + 1], f[(i + 1) + 2]>>]
        BY <1>5, <2>1
    <2>4. CASE i = n
        BY <2>1, <2>2, <2>3, <2>4
    <2>5. CASE i # n
        <3>1. i + 1 \in 1..n /\ i + 1 \in 1..(n + 1) /\ i + 2 \in 1..(n + 1)
            BY <1>1, <2>5
        <3>2. h[i + 1] = f[(i + 1) + 1] /\ h[i + 2] = f[(i + 2) + 1] /\ s[(i + 1) + 1] = r[i + 1]
            BY <1>1, <1>3, <3>1
        <3> QED BY <2>1, <2>2, <2>3, <2>5, <3>2
    <2> QED BY <2>4, <2>5
<1>8. BackScan(h, r, b, one, two)
    BY <1>6, <1>7 DEF ScanStep, BackScan, n
<1>9. f[1] = IF r = <<>> THEN one[c] ELSE two[<<c, r[1], f[2], f[3]>>]
    <2>1. 1 \in 1..(n + 1) /\ (1 = n + 1 <=> n = 0) /\ 1 + 1 = 2 /\ 1 + 2 = 3
        BY <1>1
    <2>2. n # 0 => s[1 + 1] = r[1]
        BY <1>1
    <2> QED BY <1>1, <1>2, <1>5, <2>1, <2>2
<1> QED BY <1>8, <1>9 DEF h, n, ScanRest, ScanFirst

\* There is a scan of every sequence, and only one.
LEMMA BackScanExists ==
    ASSUME NEW S, NEW X, NEW b \in X, NEW one \in [S -> X], NEW two \in [S \X S \X X \X X -> X],
           NEW s \in Seq(S)
    PROVE  \E f \in [1..(Len(s) + 1) -> X] : BackScan(f, s, b, one, two)
<1> DEFINE P == {r \in Seq(S) : \E f \in [1..(Len(r) + 1) -> X] : BackScan(f, r, b, one, two)}
<1>1. <<>> \in P
    <2> DEFINE f == [i \in 1..1 |-> b]
    <2>1. Len(<<>>) = 0 /\ 0 + 1 = 1 /\ <<>> \in Seq(S)
        OBVIOUS
    <2>2. f \in [1..1 -> X] /\ f[1] = b
        OBVIOUS
    <2> HIDE DEF f
    <2>3. BackScan(f, <<>>, b, one, two)
        BY <2>1, <2>2 DEF ScanStep, BackScan
    <2> QED BY <2>1, <2>2, <2>3
<1>2. ASSUME NEW c \in S, NEW r \in Seq(S), r \in P PROVE Cons(c, r) \in P
    <2> DEFINE n == Len(r)
               s0 == Cons(c, r)
    <2>1. PICK f \in [1..(n + 1) -> X] : BackScan(f, r, b, one, two)
        BY <1>2
    <2>2. /\ n \in Nat /\ s0 \in Seq(S) /\ Len(s0) = n + 1 /\ s0[1] = c
          /\ \A i \in 1..n : s0[i + 1] = r[i] /\ r[i] \in S
        <3>1. \A i \in 1..n : r[i] \in S
            OBVIOUS
        <3> QED BY <3>1, ConsFacts
    <2> HIDE DEF s0, n
    <2>3. /\ f[n + 1] = b
          /\ \A i \in 1..n : f[i] = IF i = n THEN one[r[i]] ELSE two[<<r[i], r[i + 1], f[i + 1], f[i + 2]>>]
        BY <2>1 DEF ScanStep, BackScan, n
    <2> DEFINE e == IF n = 0 THEN one[c] ELSE two[<<c, r[1], f[1], f[2]>>]
               h == [i \in 1..((n + 1) + 1) |-> IF i = 1 THEN e ELSE f[i - 1]]
    <2>4. e \in X
        <3>1. n # 0 => 1 \in 1..n /\ 1 \in 1..(n + 1) /\ 2 \in 1..(n + 1)
            BY <2>2
        <3>2. n # 0 => r[1] \in S /\ f[1] \in X /\ f[2] \in X
            BY <2>1, <2>2, <3>1
        <3>3. n # 0 => <<c, r[1], f[1], f[2]>> \in S \X S \X X \X X
            BY <3>2
        <3>4. n # 0 => two[<<c, r[1], f[1], f[2]>>] \in X
            BY <3>3
        <3> QED BY <3>4
    <2> HIDE DEF e
    <2>5. h \in [1..((n + 1) + 1) -> X]
        <3>1. \A i \in 1..((n + 1) + 1) : i # 1 => i - 1 \in 1..(n + 1)
            BY <2>2
        <3> QED BY <2>1, <2>4, <3>1
    <2>6. h[1] = e /\ \A i \in 1..(n + 1) : h[i + 1] = f[i]
        <3>1. \A i \in 1..(n + 1) : i + 1 \in 1..((n + 1) + 1) /\ i + 1 # 1 /\ (i + 1) - 1 = i
            BY <2>2
        <3>2. 1 \in 1..((n + 1) + 1)
            BY <2>2
        <3> QED BY <3>1, <3>2
    <2> HIDE DEF h
    <2>7. ASSUME NEW i \in 1..(n + 1)
          PROVE h[i] = IF i = n + 1 THEN one[s0[i]] ELSE two[<<s0[i], s0[i + 1], h[i + 1], h[i + 2]>>]
        <3>1. CASE i = 1
            <4>1. n # 0 => s0[2] = r[1] /\ h[2] = f[1] /\ h[3] = f[2]
                <5>1. n # 0 => 1 \in 1..n /\ 1 \in 1..(n + 1) /\ 2 \in 1..(n + 1) /\ 1 + 1 = 2 /\ 2 + 1 = 3
                    BY <2>2
                <5> QED BY <2>2, <2>6, <5>1
            <4>2. (i = n + 1 <=> n = 0) /\ s0[i] = c /\ i + 1 = 2 /\ i + 2 = 3 /\ h[i] = e
                BY <2>2, <2>6, <3>1
            <4>3. CASE n = 0
                BY <4>2, <4>3 DEF e
            <4>4. CASE n # 0
                <5>1. e = two[<<c, r[1], f[1], f[2]>>]
                    BY <4>4 DEF e
                <5> HIDE DEF e
                <5> QED BY <4>1, <4>2, <4>4, <5>1
            <4> QED BY <4>3, <4>4
        <3>2. CASE i # 1
            <4>1. /\ i - 1 \in 1..n /\ (i - 1) + 1 = i /\ (i = n + 1 <=> i - 1 = n)
                  /\ (i - 1) + 2 = i + 1 /\ ((i - 1) + 1) + 1 = i + 1
                BY <2>2, <3>2
            <4>2. h[i] = f[i - 1] /\ s0[i] = r[i - 1]
                <5>1. i - 1 \in 1..(n + 1)
                    BY <2>2, <4>1
                <5> QED BY <2>2, <2>6, <4>1, <5>1
            <4>3. i # n + 1 => s0[i + 1] = r[i] /\ h[i + 1] = f[i] /\ h[i + 2] = f[i + 1]
                <5>1. i # n + 1 => i \in 1..n /\ i + 1 \in 1..(n + 1) /\ i + 2 = (i + 1) + 1
                    BY <2>2
                <5> QED BY <2>2, <2>6, <5>1
            <4>4. f[i - 1] = IF i - 1 = n THEN one[r[i - 1]]
                             ELSE two[<<r[i - 1], r[(i - 1) + 1], f[(i - 1) + 1], f[(i - 1) + 2]>>]
                BY <2>3, <4>1
            <4> QED BY <4>1, <4>2, <4>3, <4>4
        <3> QED BY <3>1, <3>2
    <2>8. h[(n + 1) + 1] = b
        <3>1. n + 1 \in 1..(n + 1)
            BY <2>2
        <3> QED BY <2>3, <2>6, <3>1
    <2>9. BackScan(h, s0, b, one, two)
        BY <2>2, <2>7, <2>8 DEF ScanStep, BackScan
    <2> QED BY <2>2, <2>5, <2>9 DEF s0
<1>3. \A r \in Seq(S) : r \in P
    <2> HIDE DEF P, Cons
    <2>1. \A c \in S, r \in Seq(S) : r \in P => Cons(c, r) \in P
        BY <1>2
    <2> QED BY <1>1, <2>1, ConsInduction
<1> QED BY <1>3

\* Two scans of a sequence agree everywhere.
LEMMA BackScanUnique ==
    ASSUME NEW S, NEW b, NEW one, NEW two, NEW s \in Seq(S)
    PROVE  \A f, g : BackScan(f, s, b, one, two) /\ BackScan(g, s, b, one, two)
                      => \A i \in 1..(Len(s) + 1) : f[i] = g[i]
<1> DEFINE Same(r) == \A f, g : BackScan(f, r, b, one, two) /\ BackScan(g, r, b, one, two)
                                 => \A i \in 1..(Len(r) + 1) : f[i] = g[i]
           P == {r \in Seq(S) : Same(r)}
<1>1. <<>> \in P
    <2>1. Len(<<>>) = 0 /\ 1..(0 + 1) = {1} /\ 0 + 1 = 1 /\ <<>> \in Seq(S)
        OBVIOUS
    <2> QED BY <2>1 DEF ScanStep, BackScan
<1>2. ASSUME NEW c \in S, NEW r \in Seq(S), r \in P PROVE Cons(c, r) \in P
    <2>1. Cons(c, r) \in Seq(S) /\ Len(r) \in Nat /\ Len(Cons(c, r)) = Len(r) + 1
        BY ConsFacts
    <2>2. ASSUME NEW f, NEW g, BackScan(f, Cons(c, r), b, one, two), BackScan(g, Cons(c, r), b, one, two),
                 NEW i \in 1..(Len(Cons(c, r)) + 1)
          PROVE  f[i] = g[i]
        <3> DEFINE n == Len(r)
                   h == ScanRest(f, r)
                   k == ScanRest(g, r)
        <3>9. BackScan(h, r, b, one, two) /\ ScanFirst(f, c, r, one, two)
            BY <2>2, BackScanTail
        <3>10. BackScan(k, r, b, one, two) /\ ScanFirst(g, c, r, one, two)
            BY <2>2, BackScanTail
        <3>1. /\ BackScan(h, r, b, one, two) /\ BackScan(k, r, b, one, two)
              /\ f[1] = IF r = <<>> THEN one[c] ELSE two[<<c, r[1], f[2], f[3]>>]
              /\ g[1] = IF r = <<>> THEN one[c] ELSE two[<<c, r[1], g[2], g[3]>>]
            BY <3>9, <3>10 DEF ScanFirst
        <3>2. \A j \in 1..(n + 1) : h[j] = k[j]
            <4> HIDE DEF h, k
            <4> QED BY <1>2, <3>1
        <3>3. \A j \in 1..(n + 1) : f[j + 1] = g[j + 1]
            BY <3>2 DEF ScanRest
        <3>4. r = <<>> <=> n = 0
            OBVIOUS
        <3> HIDE DEF n, h, k
        <3>5. n # 0 => 1 \in 1..(n + 1) /\ 2 \in 1..(n + 1) /\ 1 + 1 = 2 /\ 2 + 1 = 3
            BY <2>1 DEF n
        <3>6. n # 0 => f[2] = g[2] /\ f[3] = g[3]
            BY <3>3, <3>5
        <3>7. f[1] = g[1]
            <4>1. CASE r = <<>>
                BY <3>1, <4>1
            <4>2. CASE r # <<>>
                <5>1. f[2] = g[2] /\ f[3] = g[3]
                    BY <3>4, <3>6, <4>2
                <5> QED BY <3>1, <4>2, <5>1
            <4> QED BY <4>1, <4>2
        <3>8. i # 1 => i - 1 \in 1..(n + 1) /\ (i - 1) + 1 = i
            BY <2>1 DEF n
        <3> QED BY <3>3, <3>7, <3>8
    <2> HIDE DEF Cons
    <2>3. Same(Cons(c, r))
        BY <2>2
    <2> HIDE DEF Same
    <2> QED BY <2>1, <2>3
<1>3. \A r \in Seq(S) : r \in P
    <2> HIDE DEF P, Cons
    <2>1. \A c \in S, r \in Seq(S) : r \in P => Cons(c, r) \in P
        BY <1>2
    <2> QED BY <1>1, <2>1, ConsInduction
<1> QED BY <1>3

\* What the scan makes of a sequence.
Scanned(s, b, one, two) ==
    (CHOOSE f : BackScan(f, s, b, one, two))[1]

\* Its value, from the first element or two.
ScanRules(S, X, b, one, two) ==
    /\ Scanned(<<>>, b, one, two) = b
    /\ \A s \in Seq(S) : Scanned(s, b, one, two) \in X
    /\ \A s \in Seq(S) : \A f : BackScan(f, s, b, one, two) => f[1] = Scanned(s, b, one, two)
    /\ \A c \in S : Scanned(Cons(c, <<>>), b, one, two) = one[c]
    /\ \A c \in S, d \in S, r \in Seq(S) :
          Scanned(Cons(c, Cons(d, r)), b, one, two)
              = two[<<c, d, Scanned(Cons(d, r), b, one, two), Scanned(r, b, one, two)>>]

\* Every scan goes by these rules.
LEMMA ScannedValue ==
    ASSUME NEW S, NEW X, NEW b \in X, NEW one \in [S -> X], NEW two \in [S \X S \X X \X X -> X]
    PROVE  ScanRules(S, X, b, one, two)
<1> DEFINE F(s) == CHOOSE f : BackScan(f, s, b, one, two)
           V(s) == Scanned(s, b, one, two)
<1>1. ASSUME NEW s \in Seq(S) PROVE BackScan(F(s), s, b, one, two) /\ V(s) \in X
    <2>1. PICK f \in [1..(Len(s) + 1) -> X] : BackScan(f, s, b, one, two)
        BY BackScanExists
    <2>2. BackScan(F(s), s, b, one, two)
        BY <2>1
    <2>3. 1 \in 1..(Len(s) + 1)
        OBVIOUS
    <2>4. F(s)[1] = f[1]
        <3> HIDE DEF F
        <3> QED BY <2>1, <2>2, <2>3, BackScanUnique
    <2>5. V(s) = F(s)[1]
        BY DEF Scanned
    <2> HIDE DEF F, V
    <2> QED BY <2>1, <2>2, <2>3, <2>4, <2>5
<1>2. \A s \in Seq(S) : V(s) = F(s)[1]
    BY DEF Scanned
<1>3. ASSUME NEW s \in Seq(S), NEW f, BackScan(f, s, b, one, two) PROVE f[1] = V(s)
    <2>1. BackScan(F(s), s, b, one, two) /\ 1 \in 1..(Len(s) + 1)
        BY <1>1
    <2> HIDE DEF F, V
    <2>2. f[1] = F(s)[1]
        BY <1>3, <2>1, BackScanUnique
    <2> QED BY <1>2, <2>2
<1> HIDE DEF F, V
<1>4. ASSUME NEW c \in S, NEW r \in Seq(S)
      PROVE  \E g : /\ V(Cons(c, r)) = IF r = <<>> THEN one[c] ELSE two[<<c, r[1], g[1], g[2]>>]
                    /\ BackScan(g, r, b, one, two)
    <2> DEFINE f == F(Cons(c, r))
               g == ScanRest(f, r)
    <2>1. Cons(c, r) \in Seq(S)
        BY ConsFacts
    <2>2. BackScan(f, Cons(c, r), b, one, two) /\ V(Cons(c, r)) = f[1]
        BY <1>1, <1>2, <2>1
    <2> HIDE DEF f
    <2>3. BackScan(g, r, b, one, two) /\ ScanFirst(f, c, r, one, two)
        BY <2>2, BackScanTail
    <2>4. r # <<>> => g[1] = f[2] /\ g[2] = f[3]
        <3>1. r # <<>> => 1 \in 1..(Len(r) + 1) /\ 2 \in 1..(Len(r) + 1)
            OBVIOUS
        <3> QED BY <3>1 DEF ScanRest
    <2> HIDE DEF g
    <2> QED BY <2>2, <2>3, <2>4 DEF ScanFirst
<1>5. ASSUME NEW c \in S PROVE V(Cons(c, <<>>)) = one[c]
    <2>1. <<>> \in Seq(S)
        OBVIOUS
    <2> QED BY <1>4, <2>1
<1>6. ASSUME NEW c \in S, NEW d \in S, NEW r \in Seq(S)
      PROVE  V(Cons(c, Cons(d, r))) = two[<<c, d, V(Cons(d, r)), V(r)>>]
    <2> DEFINE s == Cons(d, r)
    <2>1. s \in Seq(S) /\ s # <<>> /\ s[1] = d
        BY ConsFacts
    <2>2. PICK g : /\ V(Cons(c, s)) = IF s = <<>> THEN one[c] ELSE two[<<c, s[1], g[1], g[2]>>]
                   /\ BackScan(g, s, b, one, two)
        <3> HIDE DEF s
        <3> QED BY <1>4, <2>1
    <2>3. g[1] = V(s)
        <3> HIDE DEF s
        <3> QED BY <1>3, <2>1, <2>2
    <2> DEFINE h == ScanRest(g, r)
    <2>4. BackScan(h, r, b, one, two)
        BY <2>2, BackScanTail
    <2>5. h[1] = V(r)
        <3> HIDE DEF h
        <3> QED BY <1>3, <2>4
    <2>6. h[1] = g[2]
        <3>1. 1 \in 1..(Len(r) + 1) /\ 1 + 1 = 2
            OBVIOUS
        <3> QED BY <3>1 DEF ScanRest
    <2> HIDE DEF h
    <2> QED BY <2>1, <2>2, <2>3, <2>5, <2>6
<1>7. V(<<>>) = b
    <2>1. <<>> \in Seq(S) /\ Len(<<>>) = 0 /\ 0 + 1 = 1
        OBVIOUS
    <2>2. BackScan(F(<<>>), <<>>, b, one, two) /\ V(<<>>) = F(<<>>)[1]
        BY <1>1, <1>2, <2>1
    <2> QED BY <2>1, <2>2 DEF ScanStep, BackScan
<1> QED BY <1>1, <1>3, <1>5, <1>6, <1>7 DEF V, ScanRules

\* A function that goes by these rules wherever what it goes by is typed is
\* the scan: by induction from the end everything is.
Scanning(f, s, X, b, one, two) ==
    /\ f[Len(s) + 1] = b
    /\ \A i \in 1..Len(s) : f[i + 1] \in X /\ (i # Len(s) => f[i + 2] \in X)
            => f[i] = ScanStep(f, s, i, one, two)

\* Such a function is the scan.
LEMMA ScanningScans ==
    ASSUME NEW S, NEW X, NEW b \in X, NEW one \in [S -> X], NEW two \in [S \X S \X X \X X -> X],
           NEW s \in Seq(S), NEW f, Scanning(f, s, X, b, one, two)
    PROVE  BackScan(f, s, b, one, two)
<1> DEFINE n == Len(s)
           P == {i \in 1..(n + 1) : f[i] \in X}
<1>1. n \in Nat /\ \A i \in 1..n : s[i] \in S
    OBVIOUS
<1> HIDE DEF n
<1>2. f[n + 1] = b
    BY DEF ScanStep, Scanning, n
<1>3. ASSUME NEW i \in 1..n, f[i + 1] \in X, i # n => f[i + 2] \in X
      PROVE  /\ f[i] = IF i = n THEN one[s[i]] ELSE two[<<s[i], s[i + 1], f[i + 1], f[i + 2]>>]
             /\ f[i] \in X
    <2>1. f[i] = IF i = n THEN one[s[i]] ELSE two[<<s[i], s[i + 1], f[i + 1], f[i + 2]>>]
        BY <1>3 DEF ScanStep, Scanning, n
    <2>2. CASE i = n
        BY <1>1, <2>1, <2>2
    <2>3. CASE i # n
        <3>1. i + 1 \in 1..n
            BY <1>1, <2>3
        <3>2. <<s[i], s[i + 1], f[i + 1], f[i + 2]>> \in S \X S \X X \X X
            BY <1>1, <1>3, <2>3, <3>1
        <3>3. two[<<s[i], s[i + 1], f[i + 1], f[i + 2]>>] \in X
            BY <3>2
        <3> QED BY <2>1, <2>3, <3>3
    <2> QED BY <2>1, <2>2, <2>3
<1>4. ASSUME NEW i \in 1..(n + 1), \A j \in (i + 1)..(n + 1) : j \in P PROVE i \in P
    <2>1. CASE i = n + 1
        BY <1>2, <2>1
    <2>2. CASE i # n + 1
        <3>1. i \in 1..n /\ i + 1 \in (i + 1)..(n + 1) /\ (i # n => i + 2 \in (i + 1)..(n + 1))
            BY <1>1, <2>2
        <3>2. f[i + 1] \in X /\ (i # n => f[i + 2] \in X)
            BY <1>4, <3>1
        <3> QED BY <1>3, <3>1, <3>2
    <2> QED BY <2>1, <2>2
<1>5. \A i \in 1..(n + 1) : i \in P
    <2> HIDE DEF P
    <2>1. n + 1 \in Nat
        BY <1>1
    <2>2. \A i \in 1..(n + 1) : (\A j \in (i + 1)..(n + 1) : j \in P) => i \in P
        BY <1>4
    <2> QED BY <2>1, <2>2, InductionDownFrom
<1>6. ASSUME NEW i \in 1..n
      PROVE f[i] = IF i = n THEN one[s[i]] ELSE two[<<s[i], s[i + 1], f[i + 1], f[i + 2]>>]
    <2>1. i + 1 \in 1..(n + 1) /\ (i # n => i + 2 \in 1..(n + 1))
        BY <1>1
    <2>2. f[i + 1] \in X /\ (i # n => f[i + 2] \in X)
        BY <1>5, <2>1
    <2> QED BY <1>3, <2>2
<1> QED BY <1>2, <1>6 DEF ScanStep, BackScan, n
=============================================================================
