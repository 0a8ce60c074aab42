--------------------------- MODULE BindingsProofs ---------------------------
(***************************************************************************)
(* The order of the types is sound, for any types, functions and worlds;   *)
(* the symbols name what the modules define, where each world has its      *)
(* module and no two worlds share a function of their own; and the modules *)
(* are complete, where the worlds share no type that has a class.          *)
(***************************************************************************)
EXTENDS Bindings, SequenceTheorems, FiniteSetTheorems, WellFoundedInduction, TLAPS

-----------------------------------------------------------------------------
(* Sequences of calls.                                                     *)

IsSeq(s) == \E S : s \in Seq(S)

LEMMA OneSet ==
  ASSUME NEW s, NEW t, IsSeq(s), IsSeq(t)
  PROVE  \E S : s \in Seq(S) /\ t \in Seq(S)
<1>1. PICK A : s \in Seq(A)
  BY DEF IsSeq
<1>2. PICK B : t \in Seq(B)
  BY DEF IsSeq
<1>3. A \subseteq A \cup B /\ B \subseteq A \cup B
  OBVIOUS
<1>4. s \in Seq(A \cup B)
  BY <1>1, <1>3, SeqMonotonic
<1>5. t \in Seq(A \cup B)
  BY <1>2, <1>3, SeqMonotonic
<1> QED BY <1>4, <1>5

LEMMA SeqIs ==
  ASSUME NEW s, IsSeq(s)
  PROVE  Len(s) \in Nat /\ DOMAIN s = 1..Len(s) /\ (s # <<>> => Len(s) > 0 /\ Head(s) = s[1])
<1>1. PICK S : s \in Seq(S)
  BY DEF IsSeq
<1>2. Len(s) \in Nat /\ DOMAIN s = 1..Len(s)
  BY <1>1, LenProperties
<1>3. s # <<>> => Len(s) > 0
  BY <1>1, <1>2, EmptySeq
<1> QED BY <1>2, <1>3

LEMMA EmptyIsSeq == IsSeq(<<>>) /\ Len(<<>>) = 0
BY EmptySeq DEF IsSeq

LEMMA OneIsSeq ==
  ASSUME NEW x
  PROVE  IsSeq(<<x>>) /\ Len(<<x>>) = 1 /\ <<x>>[1] = x
<1>1. <<x>> \in Seq({x})
  OBVIOUS
<1> QED BY <1>1 DEF IsSeq

LEMMA MadeIsSeq ==
  ASSUME NEW n \in Nat, NEW f, f = [i \in 1..n |-> f[i]]
  PROVE  IsSeq(f) /\ Len(f) = n
<1> DEFINE S == {f[i] : i \in 1..n}
<1>1. f \in [1..n -> S]
  OBVIOUS
<1>2. f \in Seq(S)
  BY <1>1, SeqDef
<1>3. Len(f) \in Nat /\ DOMAIN f = 1..Len(f) /\ DOMAIN f = 1..n
  BY <1>1, <1>2, LenProperties
<1>4. Len(f) = n
  <2> HIDE DEF S
  <2>1. n \in 1..n \/ n = 0
    OBVIOUS
  <2>2. Len(f) \in 1..Len(f) \/ Len(f) = 0
    BY <1>3
  <2> QED BY <1>3, <2>1, <2>2
<1> QED BY <1>2, <1>4 DEF IsSeq

LEMMA Joined ==
  ASSUME NEW s, NEW t, IsSeq(s), IsSeq(t)
  PROVE  /\ IsSeq(s \o t)
         /\ Len(s \o t) = Len(s) + Len(t)
         /\ \A i \in 1..(Len(s) + Len(t)) :
              (s \o t)[i] = IF i <= Len(s) THEN s[i] ELSE t[i - Len(s)]
<1>1. PICK S : s \in Seq(S) /\ t \in Seq(S)
  BY OneSet
<1>2. s \o t \in Seq(S)
  BY <1>1, ConcatProperties
<1>3. /\ Len(s \o t) = Len(s) + Len(t)
      /\ \A i \in 1..(Len(s) + Len(t)) :
           (s \o t)[i] = IF i <= Len(s) THEN s[i] ELSE t[i - Len(s)]
  BY <1>1, ConcatProperties
<1> QED BY <1>2, <1>3 DEF IsSeq

\* The calls that p makes instead of the first of s, and those of the rest of s.
Replaces(q, s, p) == IsSeq(s) /\ IsSeq(p) /\ s # <<>> /\ q = p \o Tail(s)

LEMMA Replaced ==
  ASSUME NEW s, NEW p, NEW q, Replaces(q, s, p)
  PROVE  /\ IsSeq(q) /\ Len(q) = Len(s) + Len(p) - 1
         /\ \A i \in 1..Len(p) : i \in 1..Len(q) /\ q[i] = p[i]
         /\ \A i \in 2..Len(s) : i + Len(p) - 1 \in 1..Len(q) /\ q[i + Len(p) - 1] = s[i]
         /\ \A k \in 1..Len(q) : k \in 1..Len(p) \/ \E i \in 2..Len(s) : k = i + Len(p) - 1
<1> USE DEF Replaces
<1>1. PICK S : s \in Seq(S) /\ p \in Seq(S)
  BY OneSet
<1>2. /\ Tail(s) \in Seq(S) /\ Len(Tail(s)) = Len(s) - 1
      /\ \A i \in 1..Len(Tail(s)) : Tail(s)[i] = s[i + 1]
  BY <1>1, HeadTailProperties
<1>3. IsSeq(Tail(s)) /\ Len(s) \in Nat /\ Len(p) \in Nat /\ Len(s) > 0
  BY <1>2, SeqIs DEF IsSeq
<1>4. /\ IsSeq(q) /\ Len(q) = Len(p) + Len(Tail(s))
      /\ \A i \in 1..(Len(p) + Len(Tail(s))) : q[i] = IF i <= Len(p) THEN p[i] ELSE Tail(s)[i - Len(p)]
  BY <1>3, Joined
<1>5. Len(q) = Len(s) + Len(p) - 1
  BY <1>2, <1>3, <1>4
<1>6. \A i \in 1..Len(p) : i \in 1..Len(q) /\ q[i] = p[i]
  BY <1>2, <1>3, <1>4, <1>5
<1>7. ASSUME NEW i \in 2..Len(s)
      PROVE  i + Len(p) - 1 \in 1..Len(q) /\ q[i + Len(p) - 1] = s[i]
  <2>1. i + Len(p) - 1 \in 1..Len(q) /\ ~(i + Len(p) - 1 <= Len(p))
    BY <1>3, <1>5
  <2>2. (i + Len(p) - 1) - Len(p) = i - 1 /\ i - 1 \in 1..Len(Tail(s)) /\ (i - 1) + 1 = i
    BY <1>2, <1>3
  <2>3. q[i + Len(p) - 1] = Tail(s)[i - 1]
    BY <1>2, <1>3, <1>4, <2>1, <2>2
  <2> QED BY <1>2, <2>1, <2>2, <2>3
<1>8. ASSUME NEW k \in 1..Len(q)
      PROVE  k \in 1..Len(p) \/ \E i \in 2..Len(s) : k = i + Len(p) - 1
  <2>1. CASE k <= Len(p)
    BY <1>3, <2>1
  <2>2. CASE ~(k <= Len(p))
    <3>1. k - Len(p) + 1 \in 2..Len(s) /\ k = (k - Len(p) + 1) + Len(p) - 1
      BY <1>3, <1>5, <2>2
    <3> QED BY <3>1
  <2> QED BY <2>1, <2>2
<1> QED BY <1>4, <1>5, <1>6, <1>7, <1>8

\* A call that makes no others.
LEMMA Returned ==
  ASSUME NEW s, IsSeq(s), s # <<>>
  PROVE  <<>> \o Tail(s) = Tail(s)
<1>1. PICK S : s \in Seq(S)
  BY DEF IsSeq
<1>2. Tail(s) \in Seq(S)
  BY <1>1
<1> QED BY <1>2, ConcatEmptySeq

-----------------------------------------------------------------------------
(* What types lead to.                                                     *)

LEMMA Least ==
  ASSUME NEW S \in SUBSET Nat, S # {} PROVE \E x \in S : \A y \in S : x <= y
<1>1. PICK x \in S : \A y \in S : ~(<<y, x>> \in OpToRel(<, Nat))
  BY NatLessThanWellFounded, WFMin, Zenon
<1>2. \A y \in S : ~(y < x)
  <2> SUFFICES ASSUME NEW y \in S, y < x PROVE FALSE
    OBVIOUS
  <2>1. <<y, x>> \in {ss \in Nat \X Nat : ss[1] < ss[2]}
    OBVIOUS
  <2> QED BY <1>1, <2>1, Zenon DEF OpToRel
<1> QED BY <1>2

LEMMA AllNumbers ==
  ASSUME NEW S, S \subseteq Nat, 0 \in S, \A n \in S : n + 1 \in S
  PROVE  S = Nat
<1> SUFFICES ASSUME Nat \ S # {} PROVE FALSE
  OBVIOUS
<1>1. PICK x \in Nat \ S : \A y \in Nat \ S : x <= y
  BY Least
<1>2. x - 1 \in Nat /\ x - 1 \notin Nat \ S
  BY <1>1
<1>3. (x - 1) + 1 \in S
  BY <1>2
<1> QED BY <1>1, <1>3

\* The levels of Closure exist, as a function on all numbers.
Grown(next, S) == S \cup UNION {next[t] : t \in S}
Counts(ts, next, n, f) == f[0] = ts /\ \A k \in 1..n : f[k] = Grown(next, f[k - 1])

LEMMA CountsExtends ==
  ASSUME NEW ts, NEW next, NEW n \in Nat, NEW f, Counts(ts, next, n, f)
  PROVE  \E g : Counts(ts, next, n + 1, g)
<1> DEFINE g == [k \in 0..(n + 1) |-> IF k = n + 1 THEN Grown(next, f[n]) ELSE f[k]]
<1>1. g[0] = ts
  BY DEF Counts
<1>2. ASSUME NEW k \in 1..(n + 1) PROVE g[k] = Grown(next, g[k - 1])
  <2>1. CASE k = n + 1
    <3>1. g[k] = Grown(next, f[n]) /\ k - 1 = n /\ g[n] = f[n]
      BY <2>1
    <3> QED BY <3>1
  <2>2. CASE k # n + 1
    <3>1. k \in 1..n /\ g[k] = f[k] /\ g[k - 1] = f[k - 1]
      BY <2>2
    <3> QED BY <3>1 DEF Counts
  <2> QED BY <2>1, <2>2
<1>3. Counts(ts, next, n + 1, g)
  BY <1>1, <1>2 DEF Counts
<1> QED BY <1>3

LEMMA CountsExist ==
  ASSUME NEW ts, NEW next PROVE \A n \in Nat : \E f : Counts(ts, next, n, f)
<1> DEFINE S == {n \in Nat : \E f : Counts(ts, next, n, f)}
<1>1. 0 \in S
  <2>1. Counts(ts, next, 0, [k \in {0} |-> ts])
    BY DEF Counts
  <2> QED BY <2>1
<1>2. \A n \in S : n + 1 \in S
  BY CountsExtends
<1>3. S = Nat
  <2> HIDE DEF S
  <2>1. S \subseteq Nat
    BY DEF S
  <2> QED BY <1>1, <1>2, <2>1, AllNumbers
<1> QED BY <1>3

LEMMA CountsAgree ==
  ASSUME NEW ts, NEW next, NEW n \in Nat, NEW f, NEW m \in Nat, NEW g,
         Counts(ts, next, n, f), Counts(ts, next, m, g)
  PROVE  \A k \in 0..n : k <= m => f[k] = g[k]
<1> DEFINE S == {k \in Nat : k <= n /\ k <= m => f[k] = g[k]}
<1>1. 0 \in S
  BY DEF Counts
<1>2. ASSUME NEW k \in S PROVE k + 1 \in S
  <2> SUFFICES ASSUME k + 1 <= n, k + 1 <= m PROVE f[k + 1] = g[k + 1]
    OBVIOUS
  <2>1. f[k] = g[k] /\ k + 1 \in 1..n /\ k + 1 \in 1..m /\ (k + 1) - 1 = k
    OBVIOUS
  <2>2. f[k + 1] = Grown(next, f[(k + 1) - 1]) /\ g[k + 1] = Grown(next, g[(k + 1) - 1])
    BY <2>1 DEF Counts
  <2> QED BY <2>1, <2>2
<1>3. S = Nat
  <2> HIDE DEF S
  <2>1. S \subseteq Nat
    BY DEF S
  <2> QED BY <1>1, <1>2, <2>1, AllNumbers
<1> QED BY <1>3

Levels(ts, next) ==
  [n \in Nat |-> (CHOOSE f : Counts(ts, next, n, f))[n]]

LEMMA LevelsCount ==
  ASSUME NEW ts, NEW next
  PROVE  /\ Levels(ts, next) = [n \in Nat |-> Levels(ts, next)[n]]
         /\ \A n \in Nat : Levels(ts, next)[n] = IF n = 0 THEN ts ELSE Grown(next, Levels(ts, next)[n - 1])
<1> DEFINE chosen(n) == CHOOSE f : Counts(ts, next, n, f)
<1>1. \A n \in Nat : Counts(ts, next, n, chosen(n))
  BY CountsExist
<1>2. \A n \in Nat : Levels(ts, next)[n] = chosen(n)[n]
  BY DEF Levels
<1> HIDE DEF chosen
<1>3. chosen(0)[0] = ts
  BY <1>1 DEF Counts
<1>4. ASSUME NEW n \in Nat, n # 0
      PROVE  chosen(n)[n] = Grown(next, Levels(ts, next)[n - 1])
  <2>1. n - 1 \in Nat /\ n \in 1..n
    BY <1>4
  <2>2. chosen(n)[n] = Grown(next, chosen(n)[n - 1])
    BY <1>1, <2>1 DEF Counts
  <2>3. \A k \in 0..n : k <= n - 1 => chosen(n)[k] = chosen(n - 1)[k]
    BY <1>1, <2>1, CountsAgree
  <2>4. chosen(n)[n - 1] = chosen(n - 1)[n - 1]
    BY <2>1, <2>3
  <2> QED BY <1>2, <2>1, <2>2, <2>4
<1>5. \A n \in Nat : Levels(ts, next)[n] = IF n = 0 THEN ts ELSE Grown(next, Levels(ts, next)[n - 1])
  BY <1>2, <1>3, <1>4
<1>6. Levels(ts, next) = [n \in Nat |-> Levels(ts, next)[n]]
  BY DEF Levels
<1> HIDE DEF Levels
<1> QED BY <1>5, <1>6

\* Any such function has as its value for the number of types the closure.
IsLevels(ts, next, f) ==
  f = [n \in Nat |-> IF n = 0 THEN ts ELSE LET before == f[n - 1] IN before \cup UNION {next[t] : t \in before}]

LEMMA ClosureIsLevel ==
  ASSUME NEW ts, NEW next
  PROVE  \E f : /\ Closure(ts, next) = f[Cardinality(Types)]
                /\ f[0] = ts
                /\ \A n \in Nat : f[n + 1] = Grown(next, f[n])
<1>1. IsLevels(ts, next, Levels(ts, next))
  <2>1. ASSUME NEW n \in Nat
        PROVE  Levels(ts, next)[n] =
                 IF n = 0 THEN ts
                 ELSE LET before == Levels(ts, next)[n - 1] IN before \cup UNION {next[t] : t \in before}
    <3>1. Grown(next, Levels(ts, next)[n - 1]) =
            LET before == Levels(ts, next)[n - 1] IN before \cup UNION {next[t] : t \in before}
      BY Zenon DEF Grown
    <3>2. Levels(ts, next)[n] = IF n = 0 THEN ts ELSE Grown(next, Levels(ts, next)[n - 1])
      BY LevelsCount
    <3> QED BY <3>1, <3>2, Zenon
  <2>2. Levels(ts, next) = [n \in Nat |-> IF n = 0 THEN ts
          ELSE LET before == Levels(ts, next)[n - 1] IN before \cup UNION {next[t] : t \in before}]
    BY <2>1, LevelsCount
  <2> QED BY <2>2, Zenon DEF IsLevels
<1> DEFINE f == CHOOSE f : IsLevels(ts, next, f)
<1>2. IsLevels(ts, next, f)
  BY <1>1
<1>3. Closure(ts, next) = f[Cardinality(Types)]
  BY DEF Closure, IsLevels
<1> HIDE DEF f
<1>4. f[0] = ts
  BY <1>2 DEF IsLevels
<1>5. ASSUME NEW n \in Nat PROVE f[n + 1] = Grown(next, f[n])
  <2>1. n + 1 \in Nat /\ n + 1 # 0 /\ (n + 1) - 1 = n
    OBVIOUS
  <2>2. f[n + 1] = IF n + 1 = 0 THEN ts
                   ELSE LET before == f[(n + 1) - 1] IN before \cup UNION {next[t] : t \in before}
    BY <1>2, <2>1 DEF IsLevels
  <2> QED BY <2>1, <2>2 DEF Grown
<1> QED BY <1>3, <1>4, <1>5

LEMMA ClosureIs ==
  ASSUME NEW ts \in SUBSET Types, NEW next \in [Types -> SUBSET Types]
  PROVE  /\ ts \subseteq Closure(ts, next) /\ Closure(ts, next) \subseteq Types
         /\ \A t \in Closure(ts, next) : next[t] \subseteq Closure(ts, next)
         /\ \A S : ts \subseteq S /\ (\A t \in S \cap Types : next[t] \subseteq S) => Closure(ts, next) \subseteq S
<1>1. PICK f : /\ Closure(ts, next) = f[Cardinality(Types)]
               /\ f[0] = ts
               /\ \A n \in Nat : f[n + 1] = Grown(next, f[n])
  BY ClosureIsLevel
<1>2. Cardinality(Types) \in Nat
  BY TypesAssumption, FS_CardinalityType
<1> DEFINE N == Cardinality(Types)
<1>3. \A n \in Nat : f[n] \subseteq f[n + 1]
  BY <1>1 DEF Grown
<1>4. ASSUME NEW S, ts \subseteq S, \A t \in S \cap Types : next[t] \subseteq S, S \subseteq Types
      PROVE  \A n \in Nat : f[n] \subseteq S
  <2> DEFINE Q == {n \in Nat : f[n] \subseteq S}
  <2>1. 0 \in Q
    BY <1>1, <1>4
  <2>2. ASSUME NEW n \in Q PROVE n + 1 \in Q
    BY <1>1, <1>4, <2>2 DEF Grown
  <2>3. Q = Nat
    <3> HIDE DEF Q
    <3>1. Q \subseteq Nat
      BY DEF Q
    <3> QED BY <2>1, <2>2, <3>1, AllNumbers
  <2> QED BY <2>3
<1>5. \A n \in Nat : f[n] \subseteq Types
  <2>1. \A t \in Types \cap Types : next[t] \subseteq Types
    OBVIOUS
  <2> QED BY <1>4, <2>1
<1>6. ts \subseteq f[N]
  <2> DEFINE Q == {n \in Nat : ts \subseteq f[n]}
  <2>1. 0 \in Q
    BY <1>1
  <2>2. \A n \in Q : n + 1 \in Q
    BY <1>3
  <2>3. Q = Nat
    <3> HIDE DEF Q
    <3>1. Q \subseteq Nat
      BY DEF Q
    <3> QED BY <2>1, <2>2, <3>1, AllNumbers
  <2> QED BY <1>2, <2>3
<1>7. \A n \in Nat : IsFiniteSet(f[n]) /\ Cardinality(f[n]) \in Nat /\ Cardinality(f[n]) <= N
  BY <1>5, TypesAssumption, FS_Subset, FS_CardinalityType
<1>8. ASSUME NEW n \in Nat, f[n + 1] # f[n]
      PROVE  Cardinality(f[n + 1]) > Cardinality(f[n])
  <2>1. f[n] \subseteq f[n + 1] /\ n + 1 \in Nat
    BY <1>3
  <2>2. /\ Cardinality(f[n]) <= Cardinality(f[n + 1])
        /\ Cardinality(f[n]) = Cardinality(f[n + 1]) => f[n] = f[n + 1]
    BY <1>7, <2>1, FS_Subset
  <2> QED BY <1>7, <1>8, <2>1, <2>2
<1>9. \A n \in Nat : f[n + 1] = f[n] \/ Cardinality(f[n + 1]) > n
  <2> DEFINE Q == {n \in Nat : f[n + 1] = f[n] \/ Cardinality(f[n + 1]) > n}
  <2>1. 0 \in Q
    <3>1. f[0 + 1] = f[0] \/ Cardinality(f[0 + 1]) > Cardinality(f[0])
      BY <1>8
    <3>2. 0 \in Nat /\ 0 + 1 \in Nat
      OBVIOUS
    <3> QED BY <1>7, <3>1, <3>2
  <2>2. ASSUME NEW n \in Q PROVE n + 1 \in Q
    <3>1. n \in Nat /\ n + 1 \in Nat /\ (n + 1) + 1 \in Nat
      OBVIOUS
    <3>2. CASE f[n + 1] = f[n]
      <4>1. f[(n + 1) + 1] = Grown(next, f[n + 1]) /\ f[n + 1] = Grown(next, f[n])
        BY <1>1, <3>1
      <4> QED BY <3>1, <3>2, <4>1
    <3>3. CASE Cardinality(f[n + 1]) > n
      <4>1. f[(n + 1) + 1] = f[n + 1] \/ Cardinality(f[(n + 1) + 1]) > Cardinality(f[n + 1])
        BY <1>8, <3>1
      <4>2. Cardinality(f[n + 1]) \in Nat /\ Cardinality(f[(n + 1) + 1]) \in Nat
        BY <1>7, <3>1
      <4> QED BY <3>1, <3>3, <4>1, <4>2
    <3> QED BY <3>2, <3>3
  <2>3. Q = Nat
    <3> HIDE DEF Q
    <3>1. Q \subseteq Nat
      BY DEF Q
    <3> QED BY <2>1, <2>2, <3>1, AllNumbers
  <2> QED BY <2>3
<1>10. f[N + 1] = f[N]
  <2>1. N + 1 \in Nat
    BY <1>2
  <2>2. Cardinality(f[N + 1]) \in Nat /\ Cardinality(f[N + 1]) <= N
    BY <1>7, <2>1
  <2> QED BY <1>2, <1>9, <2>2
<1>11. \A t \in f[N] : next[t] \subseteq f[N]
  <2>1. f[N + 1] = Grown(next, f[N])
    BY <1>1, <1>2
  <2> QED BY <1>10, <2>1 DEF Grown
<1>12. ASSUME NEW S, ts \subseteq S, \A t \in S \cap Types : next[t] \subseteq S
       PROVE  f[N] \subseteq S
  <2>1. /\ ts \subseteq S \cap Types /\ S \cap Types \subseteq Types
        /\ \A t \in (S \cap Types) \cap Types : next[t] \subseteq S \cap Types
    BY <1>12
  <2>2. f[N] \subseteq S \cap Types
    BY <1>2, <1>4, <2>1
  <2> QED BY <2>2
<1> QED BY <1>1, <1>2, <1>5, <1>6, <1>11, <1>12

-----------------------------------------------------------------------------
(* What the calls that remain will do, and what they rely on: a function   *)
(* of an interface on the visit of its resource, the end of a type on what *)
(* it mentions.                                                            *)

Gives(c) ==
  CASE c.do = "visit" -> {<<c.type, c.dir>>}
    [] c.do \in {"sort", "sorted"} -> {c.type}
    [] c.do = "method" -> IF IsMethod(c.func, c.type, c.dir) THEN Range(c.func.func.parts) ELSE {}
    [] OTHER -> {}
Wants(M, c) ==
  CASE c.do = "function" -> IF c.func.func.res = NoType THEN {} ELSE {<<c.func.func.res, c.func.dir>>}
    [] c.do = "sorted" -> M[c.type]
    [] OTHER -> {}

GivenBy(s, n) == UNION {Gives(s[i]) : i \in 1..n}

\* Each call has what it relies on from what is done or from a call before it.
Covered(M, s, R) == \A k \in 1..Len(s) : Wants(M, s[k]) \subseteq R \cup GivenBy(s, k - 1)

\* What is sorted before a type ends is what this type leads to.
Lineage(M, s) ==
  \A k \in 1..Len(s) : s[k].do = "sorted" => GivenBy(s, k - 1) \subseteq Closure(M[s[k].type], M)

LEMMA ReplacedGives ==
  ASSUME NEW s, NEW p, NEW q, Replaces(q, s, p)
  PROVE  /\ \A k \in 1..Len(p) : GivenBy(q, k - 1) = GivenBy(p, k - 1)
         /\ \A i \in 2..Len(s) :
              /\ GivenBy(q, i + Len(p) - 2) \subseteq GivenBy(p, Len(p)) \cup GivenBy(s, i - 1)
              /\ GivenBy(s, i - 1) \subseteq Gives(s[1]) \cup GivenBy(q, i + Len(p) - 2)
              /\ GivenBy(p, Len(p)) \subseteq GivenBy(q, i + Len(p) - 2)
         /\ GivenBy(s, Len(s)) \subseteq Gives(s[1]) \cup GivenBy(q, Len(q))
         /\ GivenBy(p, Len(p)) \subseteq GivenBy(q, Len(q))
<1>1. /\ IsSeq(q) /\ Len(q) = Len(s) + Len(p) - 1
      /\ \A i \in 1..Len(p) : i \in 1..Len(q) /\ q[i] = p[i]
      /\ \A i \in 2..Len(s) : i + Len(p) - 1 \in 1..Len(q) /\ q[i + Len(p) - 1] = s[i]
      /\ \A k \in 1..Len(q) : k \in 1..Len(p) \/ \E i \in 2..Len(s) : k = i + Len(p) - 1
  BY Replaced
<1>2. Len(s) \in Nat /\ Len(p) \in Nat /\ Len(s) > 0 /\ Len(q) \in Nat
  BY <1>1, SeqIs DEF Replaces
<1> DEFINE n == Len(s)
           m == Len(p)
<1>3. ASSUME NEW k \in 1..m PROVE GivenBy(q, k - 1) = GivenBy(p, k - 1)
  <2>1. \A i \in 1..(k - 1) : q[i] = p[i]
    BY <1>1, <1>2
  <2> QED BY <2>1 DEF GivenBy
<1>4. ASSUME NEW i \in 2..(n + 1)
      PROVE  /\ GivenBy(q, i + m - 2) \subseteq GivenBy(p, m) \cup GivenBy(s, i - 1)
             /\ GivenBy(s, i - 1) \subseteq Gives(s[1]) \cup GivenBy(q, i + m - 2)
             /\ GivenBy(p, m) \subseteq GivenBy(q, i + m - 2)
  <2>1. ASSUME NEW k \in 1..(i + m - 2), NEW x \in Gives(q[k])
        PROVE  x \in GivenBy(p, m) \cup GivenBy(s, i - 1)
    <3>1. k \in 1..Len(q)
      BY <1>1, <1>2
    <3>2. CASE k \in 1..m
      BY <1>1, <3>2 DEF GivenBy
    <3>3. CASE k \notin 1..m
      <4>1. PICK j \in 2..n : k = j + m - 1
        BY <1>1, <3>1, <3>3
      <4>2. j \in 1..(i - 1) /\ q[k] = s[j]
        BY <1>1, <1>2, <4>1
      <4> QED BY <4>2 DEF GivenBy
    <3> QED BY <3>2, <3>3
  <2>2. ASSUME NEW j \in 1..(i - 1), NEW x \in Gives(s[j]), j # 1
        PROVE  x \in GivenBy(q, i + m - 2)
    <3>1. j \in 2..n /\ j + m - 1 \in 1..(i + m - 2) /\ q[j + m - 1] = s[j]
      BY <1>1, <1>2, <2>2
    <3> QED BY <3>1 DEF GivenBy
  <2>3. \A k \in 1..m : k \in 1..(i + m - 2) /\ q[k] = p[k]
    BY <1>1, <1>2
  <2>4. GivenBy(p, m) \subseteq GivenBy(q, i + m - 2)
    BY <2>3 DEF GivenBy
  <2>5. GivenBy(q, i + m - 2) \subseteq GivenBy(p, m) \cup GivenBy(s, i - 1)
    <3> SUFFICES ASSUME NEW x \in GivenBy(q, i + m - 2) PROVE x \in GivenBy(p, m) \cup GivenBy(s, i - 1)
      OBVIOUS
    <3>1. PICK k \in 1..(i + m - 2) : x \in Gives(q[k])
      BY DEF GivenBy
    <3> QED BY <2>1, <3>1
  <2>6. GivenBy(s, i - 1) \subseteq Gives(s[1]) \cup GivenBy(q, i + m - 2)
    <3> SUFFICES ASSUME NEW x \in GivenBy(s, i - 1) PROVE x \in Gives(s[1]) \cup GivenBy(q, i + m - 2)
      OBVIOUS
    <3>1. PICK j \in 1..(i - 1) : x \in Gives(s[j])
      BY DEF GivenBy
    <3> QED BY <2>2, <3>1
  <2> QED BY <2>4, <2>5, <2>6
<1>5. /\ GivenBy(s, n) \subseteq Gives(s[1]) \cup GivenBy(q, Len(q))
      /\ GivenBy(p, m) \subseteq GivenBy(q, Len(q))
  <2>1. n + 1 \in 2..(n + 1) /\ (n + 1) - 1 = n /\ (n + 1) + m - 2 = Len(q)
    BY <1>1, <1>2
  <2> QED BY <1>4, <2>1
<1>6. 2..n \subseteq 2..(n + 1)
  BY <1>2
<1> QED BY <1>3, <1>4, <1>5, <1>6

LEMMA ReplacedCovers ==
  ASSUME NEW M, NEW s, NEW p, NEW q, NEW R, NEW R2, Replaces(q, s, p),
         Covered(M, s, R), Covered(M, p, R2), R \subseteq R2,
         Gives(s[1]) \subseteq R2 \cup GivenBy(p, Len(p))
  PROVE  Covered(M, q, R2)
<1>1. /\ IsSeq(q) /\ Len(q) = Len(s) + Len(p) - 1
      /\ \A i \in 1..Len(p) : i \in 1..Len(q) /\ q[i] = p[i]
      /\ \A i \in 2..Len(s) : i + Len(p) - 1 \in 1..Len(q) /\ q[i + Len(p) - 1] = s[i]
      /\ \A k \in 1..Len(q) : k \in 1..Len(p) \/ \E i \in 2..Len(s) : k = i + Len(p) - 1
  BY Replaced
<1>2. /\ \A k \in 1..Len(p) : GivenBy(q, k - 1) = GivenBy(p, k - 1)
      /\ \A i \in 2..Len(s) :
           /\ GivenBy(s, i - 1) \subseteq Gives(s[1]) \cup GivenBy(q, i + Len(p) - 2)
           /\ GivenBy(p, Len(p)) \subseteq GivenBy(q, i + Len(p) - 2)
  BY ReplacedGives
<1>3. Len(s) \in Nat /\ Len(p) \in Nat
  BY SeqIs DEF Replaces
<1> SUFFICES ASSUME NEW k \in 1..Len(q) PROVE Wants(M, q[k]) \subseteq R2 \cup GivenBy(q, k - 1)
  BY DEF Covered
<1>4. CASE k \in 1..Len(p)
  <2>1. Wants(M, p[k]) \subseteq R2 \cup GivenBy(p, k - 1)
    BY <1>4 DEF Covered
  <2> QED BY <1>1, <1>2, <1>4, <2>1
<1>5. CASE k \notin 1..Len(p)
  <2>1. PICK i \in 2..Len(s) : k = i + Len(p) - 1
    BY <1>1, <1>5
  <2>2. i \in 1..Len(s) /\ k - 1 = i + Len(p) - 2
    BY <1>3, <2>1
  <2>3. Wants(M, s[i]) \subseteq R \cup GivenBy(s, i - 1)
    BY <2>2 DEF Covered
  <2>4. q[k] = s[i]
    BY <1>1, <2>1
  <2> QED BY <1>2, <2>2, <2>3, <2>4
<1> QED BY <1>4, <1>5

\* Calls that rely on nothing, and then those that rely on them.
LEMMA JoinedCovers ==
  ASSUME NEW M, NEW s, NEW t, NEW R, IsSeq(s), IsSeq(t),
         \A k \in 1..Len(s) : Wants(M, s[k]) = {},
         \A k \in 1..Len(t) : Wants(M, t[k]) \subseteq R \cup GivenBy(s, Len(s))
  PROVE  Covered(M, s \o t, R)
<1> DEFINE q == s \o t
<1>1. /\ Len(q) = Len(s) + Len(t)
      /\ \A i \in 1..(Len(s) + Len(t)) : q[i] = IF i <= Len(s) THEN s[i] ELSE t[i - Len(s)]
  BY Joined
<1>2. Len(s) \in Nat /\ Len(t) \in Nat
  BY SeqIs
<1> HIDE DEF q
<1> SUFFICES ASSUME NEW k \in 1..Len(q) PROVE Wants(M, q[k]) \subseteq R \cup GivenBy(q, k - 1)
  BY DEF Covered, q
<1>3. CASE k <= Len(s)
  <2>1. k \in 1..Len(s) /\ q[k] = s[k]
    BY <1>1, <1>2, <1>3
  <2> QED BY <2>1
<1>4. CASE ~(k <= Len(s))
  <2>1. k - Len(s) \in 1..Len(t) /\ q[k] = t[k - Len(s)]
    BY <1>1, <1>2, <1>4
  <2>2. \A i \in 1..Len(s) : i \in 1..(k - 1) /\ q[i] = s[i]
    BY <1>1, <1>2, <1>4
  <2>3. GivenBy(s, Len(s)) \subseteq GivenBy(q, k - 1)
    BY <2>2 DEF GivenBy
  <2> QED BY <2>1, <2>3
<1> QED BY <1>3, <1>4

LEMMA JoinedGives ==
  ASSUME NEW s, NEW t, IsSeq(s), IsSeq(t)
  PROVE  GivenBy(s \o t, Len(s \o t)) = GivenBy(s, Len(s)) \cup GivenBy(t, Len(t))
<1> DEFINE q == s \o t
<1>1. /\ Len(q) = Len(s) + Len(t)
      /\ \A i \in 1..(Len(s) + Len(t)) : q[i] = IF i <= Len(s) THEN s[i] ELSE t[i - Len(s)]
  BY Joined
<1>2. Len(s) \in Nat /\ Len(t) \in Nat
  BY SeqIs
<1> HIDE DEF q
<1>3. \A i \in 1..Len(s) : i \in 1..Len(q) /\ q[i] = s[i]
  BY <1>1, <1>2
<1>4. \A i \in 1..Len(t) : i + Len(s) \in 1..Len(q) /\ q[i + Len(s)] = t[i]
  BY <1>1, <1>2
<1>5. \A k \in 1..Len(q) : (\E i \in 1..Len(s) : q[k] = s[i]) \/ \E i \in 1..Len(t) : q[k] = t[i]
  <2> SUFFICES ASSUME NEW k \in 1..Len(q)
               PROVE  (\E i \in 1..Len(s) : q[k] = s[i]) \/ \E i \in 1..Len(t) : q[k] = t[i]
    OBVIOUS
  <2>1. CASE k <= Len(s)
    BY <1>1, <1>2, <2>1
  <2>2. CASE ~(k <= Len(s))
    <3>1. k - Len(s) \in 1..Len(t) /\ q[k] = t[k - Len(s)]
      BY <1>1, <1>2, <2>2
    <3> QED BY <3>1
  <2> QED BY <2>1, <2>2
<1>6. GivenBy(q, Len(q)) = GivenBy(s, Len(s)) \cup GivenBy(t, Len(t))
  <2>1. ASSUME NEW x \in GivenBy(q, Len(q)) PROVE x \in GivenBy(s, Len(s)) \cup GivenBy(t, Len(t))
    <3>1. PICK k \in 1..Len(q) : x \in Gives(q[k])
      BY <2>1 DEF GivenBy
    <3> QED BY <1>5, <3>1 DEF GivenBy
  <2>2. ASSUME NEW x \in GivenBy(s, Len(s)) PROVE x \in GivenBy(q, Len(q))
    <3>1. PICK k \in 1..Len(s) : x \in Gives(s[k])
      BY <2>2 DEF GivenBy
    <3> QED BY <1>3, <3>1 DEF GivenBy
  <2>3. ASSUME NEW x \in GivenBy(t, Len(t)) PROVE x \in GivenBy(q, Len(q))
    <3>1. PICK k \in 1..Len(t) : x \in Gives(t[k])
      BY <2>3 DEF GivenBy
    <3> QED BY <1>4, <3>1 DEF GivenBy
  <2> QED BY <2>1, <2>2, <2>3
<1> QED BY <1>6 DEF q

LEMMA ReplacedLineage ==
  ASSUME NEW M \in [Types -> SUBSET Types], NEW s, NEW p, NEW q, Replaces(q, s, p),
         Lineage(M, s), Lineage(M, p),
         \A k \in 1..Len(s) : s[k].do = "sorted" => s[k].type \in Types,
         GivenBy(p, Len(p)) \subseteq Gives(s[1]) \cup UNION {M[t] : t \in Gives(s[1]) \cap Types}
  PROVE  Lineage(M, q)
<1>1. /\ IsSeq(q) /\ Len(q) = Len(s) + Len(p) - 1
      /\ \A i \in 1..Len(p) : i \in 1..Len(q) /\ q[i] = p[i]
      /\ \A i \in 2..Len(s) : i + Len(p) - 1 \in 1..Len(q) /\ q[i + Len(p) - 1] = s[i]
      /\ \A k \in 1..Len(q) : k \in 1..Len(p) \/ \E i \in 2..Len(s) : k = i + Len(p) - 1
  BY Replaced
<1>2. /\ \A k \in 1..Len(p) : GivenBy(q, k - 1) = GivenBy(p, k - 1)
      /\ \A i \in 2..Len(s) : GivenBy(q, i + Len(p) - 2) \subseteq GivenBy(p, Len(p)) \cup GivenBy(s, i - 1)
  BY ReplacedGives
<1>3. Len(s) \in Nat /\ Len(p) \in Nat
  BY SeqIs DEF Replaces
<1> SUFFICES ASSUME NEW k \in 1..Len(q), q[k].do = "sorted"
             PROVE  GivenBy(q, k - 1) \subseteq Closure(M[q[k].type], M)
  BY DEF Lineage
<1>4. CASE k \in 1..Len(p)
  <2>1. GivenBy(p, k - 1) \subseteq Closure(M[p[k].type], M)
    BY <1>1, <1>4 DEF Lineage
  <2> QED BY <1>1, <1>2, <1>4, <2>1
<1>5. CASE k \notin 1..Len(p)
  <2>1. PICK i \in 2..Len(s) : k = i + Len(p) - 1
    BY <1>1, <1>5
  <2>2. i \in 1..Len(s) /\ k - 1 = i + Len(p) - 2 /\ 1 \in 1..(i - 1)
    BY <1>3, <2>1
  <2>3. q[k] = s[i]
    BY <1>1, <2>1
  <2> DEFINE C == Closure(M[s[i].type], M)
  <2>4. M[s[i].type] \in SUBSET Types
    BY <2>2, <2>3
  <2>5. C \subseteq Types /\ \A t \in C : M[t] \subseteq C
    BY <2>4, ClosureIs
  <2>6. GivenBy(s, i - 1) \subseteq C
    BY <2>2, <2>3 DEF Lineage
  <2>7. Gives(s[1]) \subseteq C
    BY <2>2, <2>6 DEF GivenBy
  <2> HIDE DEF C
  <2>8. GivenBy(p, Len(p)) \subseteq C
    BY <2>5, <2>7
  <2>9. GivenBy(q, k - 1) \subseteq C
    BY <1>2, <2>2, <2>6, <2>8
  <2> QED BY <2>3, <2>9 DEF C
<1> QED BY <1>4, <1>5

LEMMA EndLineage ==
  ASSUME NEW M \in [Types -> SUBSET Types], NEW s, NEW t \in Types, IsSeq(s),
         \A k \in 1..Len(s) : s[k].do # "sorted", GivenBy(s, Len(s)) \subseteq M[t]
  PROVE  Lineage(M, s \o <<[do |-> "sorted", type |-> t]>>)
<1> DEFINE e == [do |-> "sorted", type |-> t]
           q == s \o <<e>>
<1>0. IsSeq(<<e>>) /\ Len(<<e>>) = 1 /\ <<e>>[1] = e
  <2> HIDE DEF e
  <2> QED BY OneIsSeq
<1>1. /\ Len(q) = Len(s) + 1
      /\ \A i \in 1..(Len(s) + 1) : q[i] = IF i <= Len(s) THEN s[i] ELSE <<e>>[i - Len(s)]
  <2> HIDE DEF e
  <2> QED BY <1>0, Joined
<1>2. Len(s) \in Nat
  BY SeqIs
<1>3. e.do = "sorted" /\ e.type = t
  OBVIOUS
<1> HIDE DEF e
<1>4. \A i \in 1..Len(s) : q[i] = s[i]
  BY <1>1, <1>2
<1>5. q[Len(s) + 1] = e
  BY <1>0, <1>1, <1>2
<1> HIDE DEF q
<1>6. GivenBy(q, Len(s)) = GivenBy(s, Len(s))
  BY <1>4 DEF GivenBy
<1>7. M[t] \subseteq Closure(M[t], M)
  <2>1. M[t] \in SUBSET Types
    OBVIOUS
  <2> QED BY <2>1, ClosureIs
<1>8. ASSUME NEW k \in 1..Len(q), q[k].do = "sorted"
      PROVE  GivenBy(q, k - 1) \subseteq Closure(M[q[k].type], M)
  <2>1. k = Len(s) + 1
    <3>1. k \in 1..Len(s) \/ k = Len(s) + 1
      BY <1>1, <1>2
    <3> QED BY <1>4, <1>8, <3>1
  <2>2. k - 1 = Len(s) /\ q[k].type = t
    BY <1>2, <1>3, <1>5, <2>1
  <2> QED BY <1>6, <1>7, <2>2
<1> QED BY <1>8 DEF Lineage, q, e

\* The types that are done with, or entered, with all that they need.
ReadyIn(I, N, D) == {p \in Types : Closure({p}, I) \ N \subseteq D}

LEMMA ReadyCloses ==
  ASSUME NEW I \in [Types -> SUBSET Types], NEW N, NEW D
  PROVE  /\ \A x \in ReadyIn(I, N, D) : I[x] \subseteq ReadyIn(I, N, D) /\ (x \notin N => x \in D)
         /\ \A ts \in SUBSET ReadyIn(I, N, D) : Closure(ts, I) \subseteq ReadyIn(I, N, D)
<1>1. ASSUME NEW x \in ReadyIn(I, N, D)
      PROVE  I[x] \subseteq ReadyIn(I, N, D) /\ (x \notin N => x \in D)
  <2>1. x \in Types /\ {x} \in SUBSET Types /\ Closure({x}, I) \ N \subseteq D
    BY DEF ReadyIn
  <2>2. /\ x \in Closure({x}, I)
        /\ \A t \in Closure({x}, I) : I[t] \subseteq Closure({x}, I)
    BY <2>1, ClosureIs
  <2>3. ASSUME NEW y \in I[x] PROVE y \in ReadyIn(I, N, D)
    <3>1. y \in Types /\ {y} \in SUBSET Types /\ y \in Closure({x}, I)
      BY <2>1, <2>2
    <3>2. Closure({y}, I) \subseteq Closure({x}, I)
      <4> DEFINE C == Closure({x}, I)
      <4>1. {y} \subseteq C /\ \A t \in C \cap Types : I[t] \subseteq C
        BY <2>2, <3>1
      <4> HIDE DEF C
      <4>2. Closure({y}, I) \subseteq C
        BY <3>1, <4>1, ClosureIs
      <4> QED BY <4>2 DEF C
    <3> QED BY <2>1, <3>1, <3>2 DEF ReadyIn
  <2> QED BY <2>1, <2>2, <2>3
<1>2. ASSUME NEW ts \in SUBSET ReadyIn(I, N, D)
      PROVE  Closure(ts, I) \subseteq ReadyIn(I, N, D)
  <2> DEFINE S == ReadyIn(I, N, D)
  <2>1. ts \in SUBSET Types
    BY DEF ReadyIn
  <2>2. ts \subseteq S /\ \A t \in S \cap Types : I[t] \subseteq S
    BY <1>1
  <2> HIDE DEF S
  <2>3. Closure(ts, I) \subseteq S
    BY <2>1, <2>2, ClosureIs
  <2> QED BY <2>3 DEF S
<1> QED BY <1>1, <1>2

LEMMA ReadyMore ==
  ASSUME NEW I \in [Types -> SUBSET Types], NEW N, NEW D, NEW D2, D \subseteq D2
  PROVE  /\ ReadyIn(I, N, D) \subseteq ReadyIn(I, N, D2)
         /\ \A t \in Types : I[t] \subseteq ReadyIn(I, N, D) /\ (t \notin N => t \in D2) => t \in ReadyIn(I, N, D2)
<1>1. ReadyIn(I, N, D) \subseteq ReadyIn(I, N, D2)
  BY DEF ReadyIn
<1>2. ASSUME NEW t \in Types, I[t] \subseteq ReadyIn(I, N, D), t \notin N => t \in D2
      PROVE  t \in ReadyIn(I, N, D2)
  <2> DEFINE S == ReadyIn(I, N, D) \cup {t}
  <2>1. \A x \in ReadyIn(I, N, D) : I[x] \subseteq ReadyIn(I, N, D) /\ (x \notin N => x \in D)
    BY ReadyCloses
  <2>2. {t} \subseteq S /\ \A x \in S \cap Types : I[x] \subseteq S
    BY <1>2, <2>1
  <2>3. S \ N \subseteq D2
    BY <1>2, <2>1
  <2> HIDE DEF S
  <2>4. {t} \in SUBSET Types
    OBVIOUS
  <2>5. Closure({t}, I) \subseteq S
    BY <2>2, <2>4, ClosureIs
  <2> QED BY <2>3, <2>5 DEF ReadyIn
<1> QED BY <1>1, <1>2

-----------------------------------------------------------------------------
(* Types.                                                                  *)

Dirs == {"import", "export"}
Where(dir) == IF dir = "import" THEN "remote" ELSE "local"
AllWorlds == Worlds \cup {Union}

IsFunc(f) == f.dir \in Dirs /\ f.item \in Items /\ f.func \in Range(wit.items[f.item].funcs)

VisitCall(c) ==
  \/ c.do = "item" /\ c.item \in Items /\ c.dir \in Dirs /\ c.world \in Worlds
  \/ c.do = "function" /\ IsFunc(c.func) /\ c.world \in Worlds
  \/ c.do = "visit" /\ c.type \in Types /\ c.dir \in Dirs \cup {"none"} /\ c.world \in Worlds
  \/ c.do = "visited" /\ c.type \in Types

SortCall(c) ==
  \/ c.do \in {"sort", "sorted"} /\ c.type \in Types
  \/ c.do = "method" /\ IsFunc(c.func) /\ c.type \in Types /\ Kind(c.type) = "resource"

CallsOK(s) ==
  /\ IsSeq(s)
  /\ stage = "visit" => \A k \in 1..Len(s) : VisitCall(s[k])
  /\ stage = "sort" => \A k \in 1..Len(s) : SortCall(s[k])

FunctionsOK == IsSeq(functions) /\ \A k \in 1..Len(functions) : IsFunc(functions[k])

TypeOK ==
  /\ wit \in Wits /\ CallsOK(calls) /\ (stage = "visit" => todo \in Seq(Worlds))
  /\ types \in Seq(Types) /\ FunctionsOK
  /\ order \in [sorted : Seq(Types), entered : SUBSET Types]
  /\ info \in [Types -> SUBSET {"remote", "local"}]
  /\ worldTypes \in [AllWorlds -> SUBSET Types]

LEMMA WitIs ==
  ASSUME TypeOK
  PROVE  /\ \A t \in Types : Kind(t) \in Kinds /\ Parts(t) \in Seq(Types)
         /\ \A i \in Items : /\ wit.items[i].types \in Seq(Types)
                             /\ wit.items[i].funcs \in Seq(Range(wit.items[i].funcs))
                             /\ \A f \in Range(wit.items[i].funcs) :
                                  /\ f.parts \in Seq(Types)
                                  /\ f.res # NoType => /\ wit.items[i].interface
                                                       /\ f.res \in Range(wit.items[i].types)
                                                       /\ Kind(f.res) = "resource"
         /\ \A v \in Worlds : wit.worlds[v].import \in Seq(Items) /\ wit.worlds[v].export \in Seq(Items)
         /\ wit.all \in Seq(Worlds)
<1>1. IsWit(wit)
  BY WitsAssumption DEF TypeOK
<1> QED BY <1>1, Zenon DEF IsWit, Kind, Parts

LEMMA FuncIs ==
  ASSUME TypeOK, NEW f, IsFunc(f)
  PROVE  /\ f.func.parts \in Seq(Types) /\ Range(f.func.parts) \subseteq Types
         /\ f.func.res # NoType => /\ wit.items[f.item].interface
                                   /\ f.func.res \in Range(wit.items[f.item].types)
                                   /\ f.func.res \in Types /\ Kind(f.func.res) = "resource"
<1>1. f.item \in Items /\ f.func \in Range(wit.items[f.item].funcs)
  BY DEF IsFunc
<1>2. f.func.parts \in Seq(Types) /\ wit.items[f.item].types \in Seq(Types)
  BY <1>1, WitIs
<1>3. Range(f.func.parts) \subseteq Types /\ Range(wit.items[f.item].types) \subseteq Types
  BY <1>2 DEF Range
<1>4. f.func.res # NoType => /\ wit.items[f.item].interface
                             /\ f.func.res \in Range(wit.items[f.item].types)
                             /\ Kind(f.func.res) = "resource"
  BY <1>1, WitIs
<1> QED BY <1>2, <1>3, <1>4

\* The calls that are made together.
LEMMA MadeFrom ==
  ASSUME NEW ts, NEW s, IsSeq(ts), s = [n \in DOMAIN ts |-> s[n]]
  PROVE  IsSeq(s) /\ Len(s) = Len(ts) /\ 1..Len(s) = DOMAIN ts
<1>1. Len(ts) \in Nat /\ DOMAIN ts = 1..Len(ts)
  BY SeqIs
<1> QED BY <1>1, MadeIsSeq

\* A call for an item, and one for a type.
ItemIn(s, dir, i) == \E k \in 1..Len(s) : s[k].do = "item" /\ s[k].dir = dir /\ s[k].item = i
TypeIn(s, t, dir) == \E k \in 1..Len(s) : s[k].do = "visit" /\ s[k].dir = dir /\ s[k].type = t

LEMMA TypesAreVisited ==
  ASSUME NEW ts \in Seq(Types), NEW dir, NEW v
  PROVE  LET s == VisitTypes(ts, dir, v)
         IN  /\ IsSeq(s)
             /\ \A k \in 1..Len(s) : /\ s[k].do = "visit" /\ s[k].dir = dir /\ s[k].world = v
                                     /\ s[k].type \in Range(ts) /\ s[k].type \in Types
             /\ \A t \in Range(ts) : TypeIn(s, t, dir)
             /\ GivenBy(s, Len(s)) = {<<t, dir>> : t \in Range(ts)}
<1> DEFINE s == VisitTypes(ts, dir, v)
<1>1. IsSeq(ts)
  BY DEF IsSeq
<1>2. s = [n \in DOMAIN ts |-> [do |-> "visit", type |-> ts[n], dir |-> dir, world |-> v]]
  BY DEF VisitTypes
<1>3. IsSeq(s) /\ Len(s) = Len(ts) /\ 1..Len(s) = DOMAIN ts
  <2>1. s = [n \in DOMAIN ts |-> s[n]]
    BY <1>2
  <2> HIDE DEF s
  <2> QED BY <1>1, <2>1, MadeFrom
<1>4. \A k \in 1..Len(s) : /\ s[k].do = "visit" /\ s[k].dir = dir /\ s[k].world = v
                           /\ s[k].type = ts[k] /\ s[k].type \in Types
  <2> HIDE DEF s
  <2> QED BY <1>2, <1>3
<1> HIDE DEF s
<1>5. \A k \in 1..Len(s) : Gives(s[k]) = {<<ts[k], dir>>}
  BY <1>4 DEF Gives
<1>6. GivenBy(s, Len(s)) = {<<t, dir>> : t \in Range(ts)}
  BY <1>3, <1>5 DEF GivenBy, Range
<1>7. \A k \in 1..Len(s) : s[k].type \in Range(ts)
  BY <1>3, <1>4 DEF Range
<1>8. \A t \in Range(ts) : TypeIn(s, t, dir)
  BY <1>3, <1>4 DEF Range, TypeIn
<1> QED BY <1>3, <1>4, <1>6, <1>7, <1>8 DEF s

LEMMA TypesAreSorted ==
  ASSUME NEW ts \in Seq(Types)
  PROVE  LET s == SortTypes(ts)
         IN  /\ IsSeq(s)
             /\ \A k \in 1..Len(s) : s[k].do = "sort" /\ s[k].type \in Types
             /\ GivenBy(s, Len(s)) = Range(ts)
<1> DEFINE s == SortTypes(ts)
<1>1. IsSeq(ts)
  BY DEF IsSeq
<1>2. s = [n \in DOMAIN ts |-> [do |-> "sort", type |-> ts[n]]]
  BY DEF SortTypes
<1>3. IsSeq(s) /\ Len(s) = Len(ts) /\ 1..Len(s) = DOMAIN ts
  <2>1. s = [n \in DOMAIN ts |-> s[n]]
    BY <1>2
  <2> HIDE DEF s
  <2> QED BY <1>1, <2>1, MadeFrom
<1>4. \A k \in 1..Len(s) : s[k].do = "sort" /\ s[k].type = ts[k] /\ s[k].type \in Types
  <2> HIDE DEF s
  <2> QED BY <1>2, <1>3
<1> HIDE DEF s
<1>5. \A k \in 1..Len(s) : Gives(s[k]) = {ts[k]}
  BY <1>4 DEF Gives
<1>6. GivenBy(s, Len(s)) = {ts[k] : k \in 1..Len(s)}
  BY <1>5 DEF GivenBy
<1>7. GivenBy(s, Len(s)) = Range(ts)
  BY <1>3, <1>6 DEF Range
<1> QED BY <1>3, <1>4, <1>7 DEF s

\* What replaces the first call keeps the calls well formed.
LEMMA ReplacedCalls ==
  ASSUME NEW s, NEW p, NEW q, Replaces(q, s, p), CallsOK(s), CallsOK(p)
  PROVE  CallsOK(q)
<1>1. /\ IsSeq(q)
      /\ \A i \in 1..Len(p) : q[i] = p[i]
      /\ \A i \in 2..Len(s) : q[i + Len(p) - 1] = s[i]
      /\ \A k \in 1..Len(q) : k \in 1..Len(p) \/ \E i \in 2..Len(s) : k = i + Len(p) - 1
  BY Replaced
<1>2. 2..Len(s) \subseteq 1..Len(s)
  BY SeqIs DEF Replaces
<1> QED BY <1>1, <1>2 DEF CallsOK

LEMMA JoinedCalls ==
  ASSUME NEW s, NEW t, CallsOK(s), CallsOK(t)
  PROVE  CallsOK(s \o t)
<1> DEFINE q == s \o t
<1>1. /\ IsSeq(q) /\ Len(q) = Len(s) + Len(t)
      /\ \A i \in 1..(Len(s) + Len(t)) : q[i] = IF i <= Len(s) THEN s[i] ELSE t[i - Len(s)]
  BY Joined DEF CallsOK
<1>2. Len(s) \in Nat /\ Len(t) \in Nat
  BY SeqIs DEF CallsOK
<1> HIDE DEF q
<1>3. \A k \in 1..Len(q) : (\E i \in 1..Len(s) : q[k] = s[i]) \/ \E i \in 1..Len(t) : q[k] = t[i]
  <2> SUFFICES ASSUME NEW k \in 1..Len(q)
               PROVE  (\E i \in 1..Len(s) : q[k] = s[i]) \/ \E i \in 1..Len(t) : q[k] = t[i]
    OBVIOUS
  <2>1. CASE k <= Len(s)
    BY <1>1, <1>2, <2>1
  <2>2. CASE ~(k <= Len(s))
    <3>1. k - Len(s) \in 1..Len(t) /\ q[k] = t[k - Len(s)]
      BY <1>1, <1>2, <2>2
    <3> QED BY <3>1
  <2> QED BY <2>1, <2>2
<1>4. CallsOK(q)
  BY <1>1, <1>3 DEF CallsOK
<1> QED BY <1>4 DEF q

LEMMA OneCall ==
  ASSUME NEW c, stage = "visit" => VisitCall(c), stage = "sort" => SortCall(c)
  PROVE  CallsOK(<<c>>)
<1>1. IsSeq(<<c>>) /\ Len(<<c>>) = 1 /\ <<c>>[1] = c
  BY OneIsSeq
<1> DEFINE s == <<c>>
<1> HIDE DEF s
<1>2. \A k \in 1..Len(s) : s[k] = c
  BY <1>1 DEF s
<1>3. CallsOK(s)
  BY <1>1, <1>2 DEF CallsOK, s
<1> QED BY <1>3 DEF s

LEMMA NoCalls == CallsOK(<<>>) /\ GivenBy(<<>>, Len(<<>>)) = {} /\ \A M, R : Covered(M, <<>>, R) /\ Lineage(M, <<>>)
BY EmptyIsSeq DEF CallsOK, GivenBy, Covered, Lineage

LEMMA FirstCall ==
  ASSUME CallsOK(calls), calls # <<>>
  PROVE  /\ IsSeq(calls) /\ Len(calls) \in Nat /\ 1 \in 1..Len(calls) /\ Head(calls) = calls[1]
         /\ stage = "visit" => VisitCall(calls[1])
         /\ stage = "sort" => SortCall(calls[1])
<1>1. IsSeq(calls) /\ Len(calls) \in Nat /\ Len(calls) > 0 /\ Head(calls) = calls[1]
  BY SeqIs DEF CallsOK
<1> QED BY <1>1 DEF CallsOK

LEMMA CallsStay ==
  ASSUME CallsOK(calls'), UNCHANGED <<wit, stage>>
  PROVE  CallsOK(calls)'
BY DEF CallsOK, VisitCall, SortCall, IsFunc, Kind

LEMMA FunctionsStay ==
  ASSUME FunctionsOK, UNCHANGED <<wit, functions>>
  PROVE  FunctionsOK'
BY DEF FunctionsOK, IsFunc

LEMMA ItemsAreCalls ==
  ASSUME TypeOK, stage = "visit", NEW v \in Worlds, NEW dir \in Dirs
  PROVE  LET s == VisitItems(v, dir)
         IN  /\ CallsOK(s) /\ \A M, k : k \in 1..Len(s) => Wants(M, s[k]) = {}
             /\ \A k \in 1..Len(s) : /\ s[k].do = "item" /\ s[k].dir = dir /\ s[k].world = v
                                     /\ s[k].item \in Range(wit.worlds[v][dir])
             /\ \A i \in Range(wit.worlds[v][dir]) : ItemIn(s, dir, i)
<1> DEFINE items == wit.worlds[v][dir]
           s == VisitItems(v, dir)
<1>1. items \in Seq(Items)
  BY WitIs DEF Dirs
<1>2. s = [n \in DOMAIN items |-> [do |-> "item", item |-> items[n], dir |-> dir, world |-> v]]
  BY DEF VisitItems
<1>3. IsSeq(s) /\ Len(s) = Len(items) /\ 1..Len(s) = DOMAIN items
  <2>1. IsSeq(items) /\ s = [n \in DOMAIN items |-> s[n]]
    BY <1>1, <1>2 DEF IsSeq
  <2> HIDE DEF items, s
  <2> QED BY <2>1, MadeFrom
<1>4. \A k \in 1..Len(s) : /\ s[k].do = "item" /\ s[k].item \in Items /\ s[k].dir = dir /\ s[k].world = v
                           /\ s[k].item = items[k]
  <2> HIDE DEF items, s
  <2> QED BY <1>1, <1>2, <1>3
<1> HIDE DEF s
<1>5. CallsOK(s)
  BY <1>3, <1>4 DEF CallsOK, VisitCall
<1>6. \A M, k : k \in 1..Len(s) => Wants(M, s[k]) = {}
  BY <1>4 DEF Wants
<1>7. \A k \in 1..Len(s) : s[k].item \in Range(items)
  BY <1>3, <1>4 DEF Range
<1>8. \A i \in Range(items) : ItemIn(s, dir, i)
  BY <1>3, <1>4 DEF Range, ItemIn
<1> QED BY <1>4, <1>5, <1>6, <1>7, <1>8 DEF s

LEMMA FunctionsAreCalls ==
  ASSUME TypeOK, stage = "visit", NEW i \in Items, NEW v \in Worlds, NEW dir \in Dirs
  PROVE  LET s == VisitFunctions(i, dir, v)
         IN  /\ CallsOK(s)
             /\ \A k \in 1..Len(s) :
                  /\ s[k].do = "function" /\ s[k].world = v
                  /\ s[k].func.dir = dir /\ s[k].func.item = i /\ IsFunc(s[k].func)
<1> DEFINE funcs == wit.items[i].funcs
           s == VisitFunctions(i, dir, v)
<1>1. funcs \in Seq(Range(funcs))
  BY WitIs
<1>2. s = [n \in DOMAIN funcs |->
             [do |-> "function", func |-> [dir |-> dir, item |-> i, func |-> funcs[n]], world |-> v]]
  BY DEF VisitFunctions
<1>3. IsSeq(s) /\ Len(s) = Len(funcs) /\ 1..Len(s) = DOMAIN funcs
  <2>1. IsSeq(funcs) /\ s = [n \in DOMAIN funcs |-> s[n]]
    BY <1>1, <1>2 DEF IsSeq
  <2> HIDE DEF funcs, s
  <2> QED BY <2>1, MadeFrom
<1>4. \A k \in 1..Len(s) : /\ s[k].do = "function" /\ s[k].world = v
                           /\ s[k].func.dir = dir /\ s[k].func.item = i /\ s[k].func.func = funcs[k]
  <2> HIDE DEF funcs, s
  <2> QED BY <1>2, <1>3
<1>5. \A k \in 1..Len(s) : funcs[k] \in Range(funcs)
  BY <1>3 DEF Range
<1> HIDE DEF s
<1>6. \A k \in 1..Len(s) : IsFunc(s[k].func)
  BY <1>4, <1>5 DEF IsFunc
<1>7. CallsOK(s)
  BY <1>3, <1>4, <1>6 DEF CallsOK, VisitCall
<1> QED BY <1>4, <1>6, <1>7 DEF s

LEMMA MethodsAreCalls ==
  ASSUME TypeOK, stage = "sort", NEW t \in Types, Kind(t) = "resource", NEW dir, NEW where
  PROVE  LET s == SortMethods(t, dir, where)
         IN  /\ CallsOK(s)
             /\ \A k \in 1..Len(s) : s[k].do = "method"
             /\ GivenBy(s, Len(s)) = UNION {Range(f.func.parts) : f \in Methods(t, dir, where)}
<1> DEFINE s == SortMethods(t, dir, where)
<1>1. CASE where \notin info[t]
  <2>1. s = <<>> /\ Methods(t, dir, where) = {}
    BY <1>1 DEF SortMethods, Methods
  <2>2. Len(s) = 0
    BY <2>1
  <2> HIDE DEF s
  <2> QED BY <2>1, <2>2, NoCalls DEF s
<1>2. CASE where \in info[t]
  <2>1. s = [n \in DOMAIN functions |-> [do |-> "method", func |-> functions[n], type |-> t, dir |-> dir]]
    BY <1>2 DEF SortMethods
  <2>2. IsSeq(s) /\ Len(s) = Len(functions) /\ 1..Len(s) = DOMAIN functions
    <3>1. IsSeq(functions) /\ s = [n \in DOMAIN functions |-> s[n]]
      BY <2>1 DEF TypeOK, FunctionsOK
    <3> HIDE DEF s
    <3> QED BY <3>1, MadeFrom
  <2>3. \A k \in 1..Len(s) : /\ s[k].do = "method" /\ s[k].type = t /\ s[k].dir = dir
                             /\ s[k].func = functions[k]
    <3> HIDE DEF s
    <3> QED BY <2>1, <2>2
  <2>4. \A k \in 1..Len(s) : IsFunc(functions[k])
    BY <2>2 DEF TypeOK, FunctionsOK
  <2> HIDE DEF s
  <2>5. CallsOK(s)
    BY <2>2, <2>3, <2>4 DEF CallsOK, SortCall
  <2>6. \A k \in 1..Len(s) :
          Gives(s[k]) = IF IsMethod(functions[k], t, dir) THEN Range(functions[k].func.parts) ELSE {}
    BY <2>3 DEF Gives
  <2>7. Range(functions) = {functions[k] : k \in 1..Len(s)}
    BY <2>2 DEF Range
  <2>8. Methods(t, dir, where) = {f \in Range(functions) : IsMethod(f, t, dir)}
    BY <1>2 DEF Methods
  <2>9. GivenBy(s, Len(s)) = UNION {Range(f.func.parts) : f \in Methods(t, dir, where)}
    BY <2>6, <2>7, <2>8 DEF GivenBy
  <2> QED BY <2>3, <2>5, <2>9 DEF s
<1> QED BY <1>1, <1>2

-----------------------------------------------------------------------------
(* Each step keeps the types.                                              *)

LEMMA RestReplaces ==
  ASSUME CallsOK(calls), calls # <<>>
  PROVE  Replaces(Tail(calls), calls, <<>>) /\ CallsOK(Tail(calls))
<1>1. IsSeq(calls)
  BY DEF CallsOK
<1>2. Replaces(Tail(calls), calls, <<>>)
  BY <1>1, Returned, EmptyIsSeq DEF Replaces
<1> QED BY <1>2, NoCalls, ReplacedCalls

LEMMA Inserted ==
  ASSUME NEW s \in Seq(Types), NEW t \in Types
  PROVE  /\ Declare(s, t) \in Seq(Types) /\ Range(s) \subseteq Range(Declare(s, t))
         /\ ~HasNoClass(t) => t \in Range(Declare(s, t))
         /\ \/ Declare(s, t) = s
            \/ /\ ~HasNoClass(t) /\ Len(Declare(s, t)) = Len(s) + 1 /\ Declare(s, t)[Len(s) + 1] = t
               /\ \A n \in 1..Len(s) : Declare(s, t)[n] = s[n]
<1>1. CASE HasNoClass(t)
  BY <1>1 DEF Declare
<1>2. CASE ~HasNoClass(t) /\ Contains(s, t)
  <2>1. Declare(s, t) = s
    BY <1>2 DEF Declare, Insert
  <2>2. t \in Range(s)
    BY <1>2 DEF Contains, Range
  <2> QED BY <2>1, <2>2
<1>3. CASE ~HasNoClass(t) /\ ~Contains(s, t)
  <2> DEFINE q == Append(s, t)
  <2>1. Declare(s, t) = q
    BY <1>3 DEF Declare, Insert
  <2>2. q \in Seq(Types) /\ Len(q) = Len(s) + 1 /\ q[Len(s) + 1] = t /\ \A n \in 1..Len(s) : q[n] = s[n]
    OBVIOUS
  <2>3. DOMAIN s = 1..Len(s) /\ DOMAIN q = 1..(Len(s) + 1) /\ Len(s) \in Nat
    BY <2>2
  <2> HIDE DEF q
  <2>4. t \in Range(q) /\ Range(s) \subseteq Range(q)
    BY <2>2, <2>3 DEF Range
  <2> QED BY <1>3, <2>1, <2>2, <2>4
<1> QED BY <1>1, <1>2, <1>3

-----------------------------------------------------------------------------
(* The invariant.                                                          *)

\* The resources that are known to be implemented on a side.
Told ==
  {x \in Types \X (Dirs \cup {"none"}) : Kind(x[1]) = "resource" /\ x[2] \in Dirs => Where(x[2]) \in info[x[1]]}

\* The side of each method is known when it is sorted.
FunctionsTold ==
  \A k \in 1..Len(functions) :
    functions[k].func.res # NoType => <<functions[k].func.res, functions[k].dir>> \in Told

\* What a world mentions is, or will be, one of the types.
Visiting ==
  /\ Covered(<<>>, calls, Told)
  /\ order.sorted = <<>> /\ order.entered = {}
  /\ \A v \in AllWorlds : \A t \in worldTypes[v] : ~HasNoClass(t) =>
       t \in Range(types) \/ \E k \in 1..Len(calls) : calls[k] = [do |-> "visited", type |-> t]

Plain == {t \in Types : HasNoClass(t)}
Ready == ReadyIn(Inside, Plain, Range(order.sorted) \cup order.entered)

\* What t needs comes before it, or leads to it through its methods.
NeededBefore(s, n, u) ==
  (\E m \in 1..(n - 1) : s[m] = u) \/ (Kind(u) = "resource" /\ s[n] \in Reach(u))
Sound(s) == \A n \in 1..Len(s) : \A u \in Needs(s[n]) : NeededBefore(s, n, u)

\* A resource that is entered and not yet sorted is on the way to what is being
\* sorted.
Sorting ==
  /\ \A v \in AllWorlds : \A t \in worldTypes[v] : ~HasNoClass(t) => t \in Range(types)
  /\ \A t \in Range(types) : ~HasNoClass(t) => t \in Range(order.sorted) \cup GivenBy(calls, Len(calls))
  /\ Covered(Mentions, calls, Ready)
  /\ Lineage(Mentions, calls)
  /\ \A t \in order.entered : /\ Kind(t) = "resource"
                              /\ \/ t \in Range(order.sorted)
                                 \/ \E k \in 1..Len(calls) : calls[k] = [do |-> "sorted", type |-> t]
  /\ Sound(order.sorted)

Inv ==
  /\ TypeOK /\ FunctionsTold
  /\ stage = "visit" => Visiting
  /\ stage = "sort" => Sorting
  /\ OrderIsSound

LEMMA ToldIs ==
  /\ \A t \in Types, d \in Dirs \cup {"none"} :
       <<t, d>> \in Told <=> (Kind(t) = "resource" /\ d \in Dirs => Where(d) \in info[t])
  /\ \A x \in Told : \E t \in Types, d \in Dirs \cup {"none"} :
       x = <<t, d>> /\ (Kind(t) = "resource" /\ d \in Dirs => Where(d) \in info[t])
BY DEF Told

\* A call that remains after a step.
LEMMA ReplacedKeeps ==
  ASSUME NEW s, NEW p, NEW q, Replaces(q, s, p)
  PROVE  /\ \A k \in 1..Len(s) : k # 1 => \E j \in 1..Len(q) : q[j] = s[k]
         /\ \A k \in 1..Len(p) : \E j \in 1..Len(q) : q[j] = p[k]
<1>1. /\ \A i \in 1..Len(p) : i \in 1..Len(q) /\ q[i] = p[i]
      /\ \A i \in 2..Len(s) : i + Len(p) - 1 \in 1..Len(q) /\ q[i + Len(p) - 1] = s[i]
  BY Replaced
<1>2. \A k \in 1..Len(s) : k # 1 => k \in 2..Len(s)
  BY SeqIs DEF Replaces
<1> QED BY <1>1, <1>2

\* The last of the calls that a type makes.
LEMMA LastCall ==
  ASSUME NEW s, NEW e, IsSeq(s)
  PROVE  /\ IsSeq(s \o <<e>>) /\ Len(s) + 1 \in 1..Len(s \o <<e>>) /\ (s \o <<e>>)[Len(s) + 1] = e
         /\ \A k \in 1..Len(<<e>>) : <<e>>[k] = e
<1>1. IsSeq(<<e>>) /\ Len(<<e>>) = 1 /\ <<e>>[1] = e
  BY OneIsSeq
<1> DEFINE o == <<e>>
<1> HIDE DEF o
<1>2. IsSeq(o) /\ Len(o) = 1 /\ o[1] = e
  BY <1>1 DEF o
<1>3. /\ IsSeq(s \o o) /\ Len(s \o o) = Len(s) + Len(o)
      /\ \A i \in 1..(Len(s) + Len(o)) : (s \o o)[i] = IF i <= Len(s) THEN s[i] ELSE o[i - Len(s)]
  BY <1>2, Joined
<1>4. Len(s) \in Nat
  BY SeqIs
<1>5. Len(s) + 1 \in 1..Len(s \o o) /\ (s \o o)[Len(s) + 1] = e
  BY <1>2, <1>3, <1>4
<1>6. \A k \in 1..Len(o) : o[k] = e
  BY <1>2
<1> QED BY <1>3, <1>5, <1>6 DEF o

LEMMA InitInv == Init => Inv
<1> SUFFICES ASSUME Init PROVE Inv
  OBVIOUS
<1> USE DEF Init
<1>1. wit \in Wits /\ IsWit(wit)
  BY WitsAssumption
<1>2. todo \in Seq(Worlds)
  BY <1>1 DEF IsWit
<1>3. types \in Seq(Types) /\ <<>> \in Seq(Types)
  OBVIOUS
<1>4. FunctionsOK /\ CallsOK(calls)
  BY EmptyIsSeq DEF FunctionsOK, CallsOK
<1>5. order \in [sorted : Seq(Types), entered : SUBSET Types]
  BY <1>3
<1>6. info \in [Types -> SUBSET {"remote", "local"}] /\ worldTypes \in [AllWorlds -> SUBSET Types]
  BY DEF AllWorlds
<1>7. TypeOK
  BY <1>1, <1>2, <1>3, <1>4, <1>5, <1>6 DEF TypeOK
<1>8. Len(functions) = 0
  OBVIOUS
<1>9. FunctionsTold
  BY <1>8 DEF FunctionsTold
<1>10. Visiting
  <2>1. Covered(<<>>, calls, Told)
    BY NoCalls
  <2> QED BY <2>1 DEF Visiting, AllWorlds
<1>11. stage # "sort" /\ stage # "sorted"
  OBVIOUS
<1> QED BY <1>7, <1>9, <1>10, <1>11 DEF Inv, OrderIsSound

-----------------------------------------------------------------------------
(* Visiting keeps it.                                                      *)

LEMMA VisitWorldInv ==
  ASSUME Inv, VisitWorld
  PROVE  Inv'
<1> USE DEF VisitWorld
<1>1. TypeOK /\ Visiting /\ stage = "visit"
  BY DEF Inv
<1>2. Head(todo) \in Worlds /\ Tail(todo) \in Seq(Worlds)
  BY <1>1 DEF TypeOK
<1> DEFINE a == VisitItems(Head(todo), "import")
           b == VisitItems(Head(todo), "export")
<1>3. CallsOK(a) /\ CallsOK(b) /\ \A M : /\ \A k \in 1..Len(a) : Wants(M, a[k]) = {}
                                         /\ \A k \in 1..Len(b) : Wants(M, b[k]) = {}
  <2>1. "import" \in Dirs /\ "export" \in Dirs
    BY DEF Dirs
  <2> QED BY <1>1, <1>2, <2>1, ItemsAreCalls
<1>4. calls' = a \o b
  OBVIOUS
<1> HIDE DEF a, b
<1>5. CallsOK(a \o b) /\ Covered(<<>>, a \o b, Told)
  <2>1. CallsOK(a \o b)
    BY <1>3, JoinedCalls
  <2>2. IsSeq(a) /\ IsSeq(b)
    BY <1>3 DEF CallsOK
  <2> QED BY <1>3, <2>1, <2>2, JoinedCovers
<1>6. CallsOK(calls)'
  BY <1>4, <1>5, CallsStay
<1>7. TypeOK'
  BY <1>1, <1>2, <1>6, FunctionsStay DEF TypeOK
<1>8. Told' = Told /\ FunctionsTold'
  BY DEF Told, FunctionsTold, Inv, Kind
<1>9. Visiting'
  <2>1. Covered(<<>>, calls', Told')
    BY <1>4, <1>5, <1>8
  <2>2. Len(calls) = 0
    BY EmptyIsSeq
  <2>3. ASSUME NEW v \in AllWorlds, NEW t \in worldTypes[v], ~HasNoClass(t) PROVE t \in Range(types)
    BY <1>1, <2>2, <2>3 DEF Visiting
  <2>4. order' = order /\ order.sorted = <<>> /\ order.entered = {}
    BY <1>1 DEF Visiting
  <2> QED BY <2>1, <2>3, <2>4 DEF Visiting, HasNoClass, Kind
<1> QED BY <1>1, <1>7, <1>8, <1>9 DEF Inv, OrderIsSound

\* The types that are still to be declared, after a call that declares none.
LEMMA StillVisited ==
  ASSUME NEW p, NEW q, Replaces(q, calls, p), calls[1].do # "visited"
  PROVE  \A t : (\E k \in 1..Len(calls) : calls[k] = [do |-> "visited", type |-> t])
                   => \E k \in 1..Len(q) : q[k] = [do |-> "visited", type |-> t]
<1> SUFFICES ASSUME NEW t, \E k \in 1..Len(calls) : calls[k] = [do |-> "visited", type |-> t]
             PROVE  \E k \in 1..Len(q) : q[k] = [do |-> "visited", type |-> t]
  OBVIOUS
<1>1. PICK k \in 1..Len(calls) : calls[k] = [do |-> "visited", type |-> t]
  OBVIOUS
<1>2. k # 1
  BY <1>1
<1>3. PICK j \in 1..Len(q) : q[j] = calls[k]
  BY <1>2, ReplacedKeeps
<1> QED BY <1>1, <1>3

LEMMA VisitItemInv ==
  ASSUME Inv, VisitItem
  PROVE  Inv'
<1>1. /\ TypeOK /\ Visiting /\ FunctionsTold /\ stage = "visit" /\ calls # <<>>
      /\ UNCHANGED <<wit, stage, todo, types, order, worldTypes, info, functions>>
  BY DEF Inv, VisitItem
<1>2. PICK n : n = Head(calls)
  OBVIOUS
<1>3. /\ IsSeq(calls) /\ n = calls[1] /\ n.do = "item"
      /\ n.item \in Items /\ n.dir \in Dirs /\ n.world \in Worlds
  <2>1. n.do = "item"
    BY <1>2 DEF VisitItem
  <2> QED BY <1>1, <1>2, <2>1, FirstCall DEF TypeOK, VisitCall
<1>4. PICK item : item = wit.items[n.item]
  OBVIOUS
<1>5. PICK dir : dir = IF item.interface THEN n.dir ELSE "none"
  OBVIOUS
<1>6. PICK a : a = VisitTypes(item.types, dir, n.world)
  OBVIOUS
<1>7. PICK b : b = VisitFunctions(n.item, n.dir, n.world)
  OBVIOUS
<1>8. PICK p : /\ p = IF <<n.dir, n.item>> \in visited THEN <<>> ELSE a \o b
               /\ calls' = p \o Tail(calls)
  BY <1>2, <1>4, <1>5, <1>6, <1>7 DEF VisitItem
<1>9. item.types \in Seq(Types) /\ dir \in Dirs \cup {"none"}
  BY <1>1, <1>3, <1>4, <1>5, WitIs
<1>10. /\ IsSeq(a)
       /\ \A k \in 1..Len(a) : /\ a[k].do = "visit" /\ a[k].dir = dir /\ a[k].world = n.world
                               /\ a[k].type \in Types
       /\ GivenBy(a, Len(a)) = {<<t, dir>> : t \in Range(item.types)}
  BY <1>6, <1>9, TypesAreVisited
<1>11. CallsOK(a)
  BY <1>1, <1>3, <1>9, <1>10 DEF CallsOK, VisitCall
<1>12. /\ CallsOK(b)
       /\ \A k \in 1..Len(b) : b[k].do = "function" /\ b[k].func.dir = n.dir /\ b[k].func.item = n.item
                               /\ IsFunc(b[k].func)
  BY <1>1, <1>3, <1>7, FunctionsAreCalls
<1>13. ASSUME NEW k \in 1..Len(b)
       PROVE  Wants(<<>>, b[k]) \subseteq Told \cup GivenBy(a, Len(a))
  <2>1. PICK f : f = b[k].func
    OBVIOUS
  <2>2. b[k].do = "function" /\ f.dir = n.dir /\ f.item = n.item /\ IsFunc(f)
    BY <1>12, <2>1
  <2>3. f.func.res # NoType => item.interface /\ f.func.res \in Range(item.types)
    BY <1>1, <1>4, <2>2, FuncIs
  <2>4. Wants(<<>>, b[k]) = IF f.func.res = NoType THEN {} ELSE {<<f.func.res, f.dir>>}
    BY <2>1, <2>2 DEF Wants
  <2>5. CASE f.func.res = NoType
    BY <2>4, <2>5
  <2>6. CASE f.func.res # NoType
    <3>1. <<f.func.res, f.dir>> \in GivenBy(a, Len(a))
      BY <1>5, <1>10, <2>2, <2>3, <2>6
    <3> QED BY <2>4, <2>6, <3>1
  <2> QED BY <2>5, <2>6
<1>14. CallsOK(p) /\ Covered(<<>>, p, Told)
  <2>1. CASE <<n.dir, n.item>> \in visited
    BY <1>8, <2>1, NoCalls
  <2>2. CASE <<n.dir, n.item>> \notin visited
    <3>1. \A k \in 1..Len(a) : Wants(<<>>, a[k]) = {}
      BY <1>10 DEF Wants
    <3>2. IsSeq(a) /\ IsSeq(b)
      BY <1>11, <1>12 DEF CallsOK
    <3>3. Covered(<<>>, a \o b, Told)
      BY <1>13, <3>1, <3>2, JoinedCovers
    <3>4. CallsOK(a \o b)
      BY <1>11, <1>12, JoinedCalls
    <3> QED BY <1>8, <2>2, <3>3, <3>4
  <2> QED BY <2>1, <2>2
<1>15. Replaces(calls', calls, p)
  BY <1>1, <1>3, <1>8, <1>14 DEF Replaces, CallsOK
<1>16. CallsOK(calls)'
  <2>1. CallsOK(calls')
    BY <1>1, <1>14, <1>15, ReplacedCalls DEF TypeOK
  <2> QED BY <1>1, <2>1, CallsStay
<1>17. TypeOK'
  BY <1>1, <1>16, FunctionsStay DEF TypeOK
<1>18. Told' = Told /\ FunctionsTold'
  BY <1>1 DEF Told, FunctionsTold, Kind
<1>19. Covered(<<>>, calls', Told)
  <2>1. Gives(calls[1]) = {}
    BY <1>3 DEF Gives
  <2>2. Covered(<<>>, calls, Told)
    BY <1>1 DEF Visiting
  <2>3. Gives(calls[1]) \subseteq Told \cup GivenBy(p, Len(p))
    BY <2>1
  <2> QED BY <1>14, <1>15, <2>2, <2>3, ReplacedCovers
<1>20. Visiting'
  <2>1. calls[1].do # "visited"
    BY <1>3
  <2>2. \A t : (\E k \in 1..Len(calls) : calls[k] = [do |-> "visited", type |-> t])
                 => \E k \in 1..Len(calls') : calls'[k] = [do |-> "visited", type |-> t]
    BY <1>15, <2>1, StillVisited
  <2>3. \A v \in AllWorlds : \A t \in worldTypes[v] : ~HasNoClass(t) =>
          t \in Range(types) \/ \E k \in 1..Len(calls') : calls'[k] = [do |-> "visited", type |-> t]
    BY <1>1, <2>2 DEF Visiting
  <2>4. order.sorted = <<>> /\ order.entered = {}
    BY <1>1 DEF Visiting
  <2> QED BY <1>1, <1>18, <1>19, <2>3, <2>4 DEF Visiting, HasNoClass, Kind
<1> QED BY <1>1, <1>17, <1>18, <1>20 DEF Inv, OrderIsSound

LEMMA VisitFunctionInv ==
  ASSUME Inv, VisitFunction
  PROVE  Inv'
<1>1. /\ TypeOK /\ Visiting /\ FunctionsTold /\ stage = "visit" /\ calls # <<>>
      /\ UNCHANGED <<wit, stage, todo, types, order, worldTypes, info>>
  BY DEF Inv, VisitFunction
<1>2. PICK n : n = Head(calls) /\ n.do = "function"
  BY DEF VisitFunction
<1>3. PICK f : f = n.func
  OBVIOUS
<1>4. PICK p : /\ p = VisitTypes(f.func.parts, "none", n.world)
               /\ calls' = p \o Tail(calls) /\ functions' = Append(functions, f)
  BY <1>2, <1>3 DEF VisitFunction
<1>5. /\ IsSeq(calls) /\ 1 \in 1..Len(calls) /\ n = calls[1] /\ IsFunc(f) /\ n.world \in Worlds
  BY <1>1, <1>2, <1>3, FirstCall DEF TypeOK, VisitCall
<1>6. f.func.parts \in Seq(Types)
  BY <1>1, <1>5, FuncIs
<1>7. IsSeq(p) /\ \A k \in 1..Len(p) : /\ p[k].do = "visit" /\ p[k].dir = "none" /\ p[k].world = n.world
                                       /\ p[k].type \in Types
  BY <1>4, <1>6, TypesAreVisited
<1>8. CallsOK(p) /\ Covered(<<>>, p, Told)
  <2>1. CallsOK(p)
    BY <1>1, <1>5, <1>7 DEF CallsOK, VisitCall
  <2>2. \A k \in 1..Len(p) : Wants(<<>>, p[k]) = {}
    BY <1>7 DEF Wants
  <2> QED BY <2>1, <2>2 DEF Covered
<1>9. Replaces(calls', calls, p)
  BY <1>1, <1>4, <1>5, <1>7 DEF Replaces
<1>10. CallsOK(calls)'
  <2>1. CallsOK(calls')
    BY <1>1, <1>8, <1>9, ReplacedCalls DEF TypeOK
  <2> QED BY <1>1, <2>1, CallsStay
<1>11. /\ IsSeq(functions') /\ Len(functions') = Len(functions) + 1 /\ functions'[Len(functions) + 1] = f
       /\ \A k \in 1..Len(functions) : functions'[k] = functions[k]
  <2>1. PICK S : functions \in Seq(S)
    BY <1>1 DEF TypeOK, FunctionsOK, IsSeq
  <2>2. S \subseteq S \cup {f}
    OBVIOUS
  <2>3. functions \in Seq(S \cup {f})
    BY <2>1, <2>2, SeqMonotonic
  <2>4. functions' \in Seq(S \cup {f})
    BY <1>4, <2>3
  <2> QED BY <1>4, <2>3, <2>4 DEF IsSeq
<1>12. \A k \in 1..Len(functions') : k \in 1..Len(functions) \/ k = Len(functions) + 1
  <2>1. Len(functions) \in Nat
    BY <1>1, SeqIs DEF TypeOK, FunctionsOK
  <2> QED BY <1>11, <2>1
<1>13. FunctionsOK'
  <2>1. \A k \in 1..Len(functions') : IsFunc(functions'[k])
    BY <1>1, <1>5, <1>11, <1>12 DEF TypeOK, FunctionsOK
  <2> QED BY <1>1, <1>11, <2>1 DEF FunctionsOK, IsFunc
<1>14. TypeOK'
  BY <1>1, <1>10, <1>13 DEF TypeOK
<1>15. Told' = Told
  BY <1>1 DEF Told, Kind
<1>16. FunctionsTold'
  <2>1. f.func.res # NoType => <<f.func.res, f.dir>> \in Told
    <3>1. Wants(<<>>, calls[1]) \subseteq Told \cup GivenBy(calls, 1 - 1)
      BY <1>1, <1>5 DEF Visiting, Covered
    <3>2. GivenBy(calls, 1 - 1) = {}
      BY DEF GivenBy
    <3>3. Wants(<<>>, calls[1]) = IF f.func.res = NoType THEN {} ELSE {<<f.func.res, f.dir>>}
      BY <1>2, <1>3, <1>5 DEF Wants
    <3> QED BY <3>1, <3>2, <3>3
  <2>2. \A k \in 1..Len(functions') :
          functions'[k].func.res # NoType => <<functions'[k].func.res, functions'[k].dir>> \in Told
    BY <1>1, <1>11, <1>12, <2>1 DEF FunctionsTold
  <2> QED BY <1>15, <2>2 DEF FunctionsTold
<1>17. Covered(<<>>, calls', Told)
  <2>1. Gives(calls[1]) = {}
    BY <1>2, <1>5 DEF Gives
  <2>2. Covered(<<>>, calls, Told)
    BY <1>1 DEF Visiting
  <2>3. Gives(calls[1]) \subseteq Told \cup GivenBy(p, Len(p))
    BY <2>1
  <2> QED BY <1>8, <1>9, <2>2, <2>3, ReplacedCovers
<1>18. Visiting'
  <2>1. calls[1].do # "visited"
    BY <1>2, <1>5
  <2>2. \A t : (\E k \in 1..Len(calls) : calls[k] = [do |-> "visited", type |-> t])
                 => \E k \in 1..Len(calls') : calls'[k] = [do |-> "visited", type |-> t]
    BY <1>9, <2>1, StillVisited
  <2>3. \A v \in AllWorlds : \A t \in worldTypes[v] : ~HasNoClass(t) =>
          t \in Range(types) \/ \E k \in 1..Len(calls') : calls'[k] = [do |-> "visited", type |-> t]
    BY <1>1, <2>2 DEF Visiting
  <2>4. order.sorted = <<>> /\ order.entered = {}
    BY <1>1 DEF Visiting
  <2> QED BY <1>1, <1>15, <1>17, <2>3, <2>4 DEF Visiting, HasNoClass, Kind
<1> QED BY <1>1, <1>14, <1>16, <1>18 DEF Inv, OrderIsSound

\* A resource that is visited from a side.
LEMMA ToldMore ==
  ASSUME TypeOK, UNCHANGED wit, NEW t \in Types, NEW d \in Dirs \cup {"none"},
         info' = [info EXCEPT ![t] = IF Kind(t) # "resource" THEN @
                                        ELSE CASE d = "import" -> @ \cup {"remote"}
                                               [] d = "export" -> @ \cup {"local"}
                                               [] OTHER -> @]
  PROVE  /\ info' \in [Types -> SUBSET {"remote", "local"}]
         /\ Told \subseteq Told' /\ <<t, d>> \in Told'
<1>1. /\ info' \in [Types -> SUBSET {"remote", "local"}]
      /\ \A u \in Types : info[u] \subseteq info'[u]
      /\ Kind(t) = "resource" /\ d \in Dirs => Where(d) \in info'[t]
  <2>1. info \in [Types -> SUBSET {"remote", "local"}]
    BY DEF TypeOK
  <2>2. CASE Kind(t) # "resource"
    BY <2>1, <2>2
  <2>3. CASE Kind(t) = "resource" /\ d = "import"
    <3>1. info' = [info EXCEPT ![t] = @ \cup {"remote"}]
      BY <2>3
    <3> QED BY <2>1, <2>3, <3>1 DEF Where
  <2>4. CASE Kind(t) = "resource" /\ d = "export"
    <3>1. info' = [info EXCEPT ![t] = @ \cup {"local"}]
      BY <2>4
    <3> QED BY <2>1, <2>4, <3>1 DEF Where
  <2>5. CASE Kind(t) = "resource" /\ d \notin Dirs
    <3>1. info' = [info EXCEPT ![t] = @]
      BY <2>5 DEF Dirs
    <3> QED BY <2>1, <2>5, <3>1
  <2> QED BY <2>2, <2>3, <2>4, <2>5 DEF Dirs
<1>2. ASSUME NEW x \in Told PROVE x \in Told'
  BY <1>1 DEF Told, Kind
<1>3. <<t, d>> \in Told'
  BY <1>1 DEF Told, Kind
<1> QED BY <1>1, <1>2, <1>3

LEMMA VisitTypeInv ==
  ASSUME Inv, VisitType
  PROVE  Inv'
<1>1. /\ TypeOK /\ Visiting /\ FunctionsTold /\ stage = "visit" /\ calls # <<>>
      /\ UNCHANGED <<wit, stage, todo, types, order, functions>>
  BY DEF Inv, VisitType
<1>2. PICK n : n = Head(calls) /\ n.do = "visit"
  BY DEF VisitType
<1>3. PICK t : t = n.type
  OBVIOUS
<1>4. PICK parts : parts = IF Kind(t) = "handle" THEN <<>> ELSE Parts(t)
  OBVIOUS
<1>5. PICK dir : dir = IF Kind(t) = "alias" THEN "none" ELSE n.dir
  OBVIOUS
<1>6. PICK a : a = VisitTypes(parts, dir, n.world)
  OBVIOUS
<1>7. PICK e : e = [do |-> "visited", type |-> t]
  OBVIOUS
<1>8. PICK p : p = a \o <<e>>
  OBVIOUS
<1>9. /\ worldTypes' = [worldTypes EXCEPT ![n.world] = @ \cup {t}]
      /\ info' = [info EXCEPT ![t] = IF Kind(t) # "resource" THEN @
                                        ELSE CASE n.dir = "import" -> @ \cup {"remote"}
                                               [] n.dir = "export" -> @ \cup {"local"}
                                               [] OTHER -> @]
      /\ calls' = p \o Tail(calls)
  BY <1>2, <1>3, <1>4, <1>5, <1>6, <1>7, <1>8, Zenon DEF VisitType
<1>10. /\ IsSeq(calls) /\ 1 \in 1..Len(calls) /\ n = calls[1]
       /\ t \in Types /\ n.dir \in Dirs \cup {"none"} /\ n.world \in Worlds
  BY <1>1, <1>2, <1>3, FirstCall DEF TypeOK, VisitCall
<1>11. parts \in Seq(Types) /\ dir \in Dirs \cup {"none"}
  BY <1>1, <1>4, <1>5, <1>10, WitIs
<1>12. IsSeq(a) /\ \A k \in 1..Len(a) : /\ a[k].do = "visit" /\ a[k].dir = dir /\ a[k].world = n.world
                                        /\ a[k].type \in Types
  BY <1>6, <1>11, TypesAreVisited
<1>13. CallsOK(a)
  BY <1>1, <1>10, <1>11, <1>12 DEF CallsOK, VisitCall
<1>14. e.do = "visited" /\ e.type = t
  BY <1>7
<1>15. /\ IsSeq(p) /\ Len(a) + 1 \in 1..Len(p) /\ p[Len(a) + 1] = e
       /\ \A k \in 1..Len(<<e>>) : <<e>>[k] = e
  BY <1>8, <1>12, LastCall
<1>16. CallsOK(p)
  <2>1. CallsOK(<<e>>)
    BY <1>1, <1>10, <1>14, OneCall DEF VisitCall
  <2> QED BY <1>8, <1>13, <2>1, JoinedCalls
<1>17. \A R : Covered(<<>>, p, R)
  <2> SUFFICES ASSUME NEW R PROVE Covered(<<>>, p, R)
    OBVIOUS
  <2>1. \A k \in 1..Len(a) : Wants(<<>>, a[k]) = {}
    BY <1>12 DEF Wants
  <2>2. \A k \in 1..Len(<<e>>) : Wants(<<>>, <<e>>[k]) \subseteq R \cup GivenBy(a, Len(a))
    <3>1. Wants(<<>>, e) = {}
      BY <1>14 DEF Wants
    <3> QED BY <1>15, <3>1
  <2>3. IsSeq(<<e>>)
    BY OneIsSeq
  <2> QED BY <1>8, <1>12, <2>1, <2>2, <2>3, JoinedCovers
<1>18. Replaces(calls', calls, p)
  BY <1>1, <1>9, <1>10, <1>15 DEF Replaces
<1>19. CallsOK(calls)'
  <2>1. CallsOK(calls')
    BY <1>1, <1>16, <1>18, ReplacedCalls DEF TypeOK
  <2> QED BY <1>1, <2>1, CallsStay
<1>20. /\ info' \in [Types -> SUBSET {"remote", "local"}]
       /\ Told \subseteq Told' /\ <<t, n.dir>> \in Told'
  BY <1>1, <1>9, <1>10, ToldMore
<1>21. /\ worldTypes' \in [AllWorlds -> SUBSET Types]
       /\ \A v \in AllWorlds : worldTypes'[v] \subseteq worldTypes[v] \cup {t}
  BY <1>1, <1>9, <1>10 DEF TypeOK, AllWorlds
<1>22. TypeOK'
  BY <1>1, <1>19, <1>20, <1>21, FunctionsStay DEF TypeOK
<1>23. Told \subseteq Told' /\ <<t, n.dir>> \in Told'
  BY <1>20
<1>24. FunctionsTold'
  BY <1>1, <1>23 DEF FunctionsTold
<1>25. Covered(<<>>, calls', Told')
  <2>1. Gives(calls[1]) = {<<t, n.dir>>}
    BY <1>2, <1>3, <1>10 DEF Gives
  <2>2. Covered(<<>>, calls, Told)
    BY <1>1 DEF Visiting
  <2>3. Gives(calls[1]) \subseteq Told' \cup GivenBy(p, Len(p))
    BY <1>23, <2>1
  <2> QED BY <1>17, <1>18, <1>23, <2>2, <2>3, ReplacedCovers
<1>26. Visiting'
  <2>1. calls[1].do # "visited"
    BY <1>2, <1>10
  <2>2. \A u : (\E k \in 1..Len(calls) : calls[k] = [do |-> "visited", type |-> u])
                 => \E k \in 1..Len(calls') : calls'[k] = [do |-> "visited", type |-> u]
    BY <1>18, <2>1, StillVisited
  <2>3. \E k \in 1..Len(calls') : calls'[k] = e
    <3>1. \E k \in 1..Len(calls') : calls'[k] = p[Len(a) + 1]
      BY <1>15, <1>18, ReplacedKeeps
    <3> QED BY <1>15, <3>1
  <2>4. \A v \in AllWorlds : \A u \in worldTypes'[v] : ~HasNoClass(u) =>
          u \in Range(types) \/ \E k \in 1..Len(calls') : calls'[k] = [do |-> "visited", type |-> u]
    BY <1>1, <1>7, <1>21, <2>2, <2>3 DEF Visiting
  <2>5. order.sorted = <<>> /\ order.entered = {}
    BY <1>1 DEF Visiting
  <2> QED BY <1>1, <1>25, <2>4, <2>5 DEF Visiting, HasNoClass, Kind
<1> QED BY <1>1, <1>22, <1>24, <1>26 DEF Inv, OrderIsSound

LEMMA VisitedTypeInv ==
  ASSUME Inv, VisitedType
  PROVE  Inv'
<1>1. /\ TypeOK /\ Visiting /\ FunctionsTold /\ stage = "visit" /\ calls # <<>>
      /\ UNCHANGED <<wit, stage, todo, order, worldTypes, info, functions>>
      /\ calls' = Tail(calls)
  BY DEF Inv, VisitedType
<1>2. PICK t : t = Head(calls).type /\ Head(calls).do = "visited" /\ types' = Declare(types, t)
  BY DEF VisitedType
<1>3. /\ IsSeq(calls) /\ calls[1].do = "visited" /\ calls[1].type = t /\ t \in Types
  BY <1>1, <1>2, FirstCall DEF TypeOK, VisitCall
<1>4. /\ types' \in Seq(Types) /\ Range(types) \subseteq Range(types')
      /\ ~HasNoClass(t) => t \in Range(types')
  BY <1>1, <1>2, <1>3, Inserted DEF TypeOK
<1>5. Replaces(calls', calls, <<>>) /\ CallsOK(calls')
  BY <1>1, RestReplaces DEF TypeOK
<1>6. TypeOK'
  <2>1. CallsOK(calls)'
    BY <1>1, <1>5, CallsStay
  <2> QED BY <1>1, <1>4, <2>1, FunctionsStay DEF TypeOK
<1>7. Told' = Told /\ FunctionsTold'
  BY <1>1 DEF Told, FunctionsTold, Kind
<1>8. Covered(<<>>, calls', Told)
  <2>1. Gives(calls[1]) = {}
    BY <1>3 DEF Gives
  <2>2. Covered(<<>>, calls, Told) /\ Covered(<<>>, <<>>, Told)
    BY <1>1, NoCalls DEF Visiting
  <2>3. Gives(calls[1]) \subseteq Told \cup GivenBy(<<>>, Len(<<>>))
    BY <2>1
  <2> QED BY <1>5, <2>2, <2>3, ReplacedCovers
<1>9. ASSUME NEW v \in AllWorlds, NEW u \in worldTypes[v], ~HasNoClass(u)
      PROVE  u \in Range(types') \/ \E k \in 1..Len(calls') : calls'[k] = [do |-> "visited", type |-> u]
  <2>1. CASE u \in Range(types)
    BY <1>4, <2>1
  <2>2. CASE u \notin Range(types)
    <3>1. PICK k \in 1..Len(calls) : calls[k] = [do |-> "visited", type |-> u]
      BY <1>1, <1>9, <2>2 DEF Visiting
    <3>2. CASE k = 1
      BY <1>3, <1>4, <1>9, <3>1, <3>2
    <3>3. CASE k # 1
      <4>1. \E j \in 1..Len(calls') : calls'[j] = calls[k]
        BY <1>5, <3>3, ReplacedKeeps
      <4> QED BY <3>1, <4>1
    <3> QED BY <3>2, <3>3
  <2> QED BY <2>1, <2>2
<1>10. Visiting'
  <2>1. order.sorted = <<>> /\ order.entered = {}
    BY <1>1 DEF Visiting
  <2> QED BY <1>1, <1>7, <1>8, <1>9, <2>1 DEF Visiting, HasNoClass, Kind
<1> QED BY <1>1, <1>6, <1>7, <1>10 DEF Inv, OrderIsSound

-----------------------------------------------------------------------------
(* What is sorted inside a type is what it mentions.                       *)

LEMMA MentionsIs ==
  ASSUME TypeOK
  PROVE  /\ Mentions \in [Types -> SUBSET Types] /\ Inside \in [Types -> SUBSET Types]
         /\ \A t \in Types : Inside[t] \subseteq Mentions[t]
<1>1. ASSUME NEW t \in Types PROVE Range(Parts(t)) \subseteq Types
  <2>1. Parts(t) \in Seq(Types)
    BY WitIs
  <2> QED BY <2>1 DEF Range
<1>2. ASSUME NEW f \in Range(functions) PROVE Range(f.func.parts) \subseteq Types
  <2>1. PICK k \in 1..Len(functions) : f = functions[k]
    BY <1>2, SeqIs DEF Range, TypeOK, FunctionsOK
  <2>2. IsFunc(f)
    BY <2>1 DEF TypeOK, FunctionsOK
  <2> QED BY <2>2, FuncIs
<1>3. ASSUME NEW t \in Types
      PROVE  /\ Mentions[t] = IF Kind(t) # "resource" THEN Range(Parts(t))
                              ELSE UNION {Range(f.func.parts) : f \in {g \in Range(functions) : g.func.res = t}}
             /\ Inside[t] = IF HasNoClass(t) THEN Range(Parts(t)) ELSE {}
  BY DEF Mentions, Inside
<1>4. ASSUME NEW t \in Types
      PROVE  Mentions[t] \subseteq Types /\ Inside[t] \subseteq Types /\ Inside[t] \subseteq Mentions[t]
  <2>1. CASE Kind(t) # "resource"
    BY <1>1, <1>3, <2>1
  <2>2. CASE Kind(t) = "resource"
    <3>1. Inside[t] = {}
      BY <1>3, <2>2 DEF HasNoClass
    <3>2. Mentions[t] = UNION {Range(f.func.parts) : f \in {g \in Range(functions) : g.func.res = t}}
      BY <1>3, <2>2
    <3>3. Mentions[t] \subseteq Types
      BY <1>2, <3>2
    <3> QED BY <3>1, <3>3
  <2> QED BY <2>1, <2>2
<1>5. Mentions = [t \in Types |-> Mentions[t]] /\ Inside = [t \in Types |-> Inside[t]]
  BY DEF Mentions, Inside
<1> QED BY <1>4, <1>5

LEMMA MethodsAreMentioned ==
  ASSUME TypeOK, FunctionsTold, NEW t \in Types, Kind(t) = "resource"
  PROVE  {f \in Range(functions) : f.func.res = t}
           = Methods(t, "import", "remote") \cup Methods(t, "export", "local")
<1>1. ASSUME NEW f \in Range(functions), f.func.res = t
      PROVE  f \in Methods(t, "import", "remote") \cup Methods(t, "export", "local")
  <2>1. PICK k \in 1..Len(functions) : f = functions[k]
    BY <1>1, SeqIs DEF Range, TypeOK, FunctionsOK
  <2>2. f.dir \in Dirs
    BY <2>1 DEF TypeOK, FunctionsOK, IsFunc
  <2>3. <<t, f.dir>> \in Told
    BY <1>1, <2>1, TypesAssumption DEF FunctionsTold
  <2>4. Where(f.dir) \in info[t]
    BY <2>2, <2>3 DEF Told
  <2> QED BY <1>1, <2>2, <2>4 DEF Methods, IsMethod, Dirs, Where
<1>2. ASSUME NEW dir, NEW where, NEW f \in Methods(t, dir, where)
      PROVE  f \in Range(functions) /\ f.func.res = t
  BY <1>2 DEF Methods, IsMethod
<1> QED BY <1>1, <1>2

LEMMA SortInsideIs ==
  ASSUME TypeOK, FunctionsTold, stage = "sort", NEW t \in Types
  PROVE  LET s == SortInside(t)
         IN  /\ CallsOK(s)
             /\ \A k \in 1..Len(s) : s[k].do \in {"sort", "method"}
             /\ GivenBy(s, Len(s)) = Mentions[t]
<1>1. CASE Kind(t) # "resource"
  <2>1. Parts(t) \in Seq(Types)
    BY WitIs
  <2>2. PICK s : s = SortTypes(Parts(t))
    OBVIOUS
  <2>3. /\ IsSeq(s)
        /\ \A k \in 1..Len(s) : s[k].do = "sort" /\ s[k].type \in Types
        /\ GivenBy(s, Len(s)) = Range(Parts(t))
    BY <2>1, <2>2, TypesAreSorted
  <2>4. SortInside(t) = s /\ Mentions[t] = Range(Parts(t))
    BY <1>1, <2>2 DEF SortInside, Mentions
  <2>5. CallsOK(s)
    BY <2>3 DEF CallsOK, SortCall
  <2> QED BY <2>3, <2>4, <2>5
<1>2. CASE Kind(t) = "resource"
  <2>1. PICK a, b : a = SortMethods(t, "import", "remote") /\ b = SortMethods(t, "export", "local")
    OBVIOUS
  <2>2. /\ CallsOK(a) /\ \A k \in 1..Len(a) : a[k].do = "method"
        /\ GivenBy(a, Len(a)) = UNION {Range(f.func.parts) : f \in Methods(t, "import", "remote")}
    BY <1>2, <2>1, MethodsAreCalls
  <2>3. /\ CallsOK(b) /\ \A k \in 1..Len(b) : b[k].do = "method"
        /\ GivenBy(b, Len(b)) = UNION {Range(f.func.parts) : f \in Methods(t, "export", "local")}
    BY <1>2, <2>1, MethodsAreCalls
  <2>4. SortInside(t) = a \o b
    BY <1>2, <2>1 DEF SortInside
  <2>5. IsSeq(a) /\ IsSeq(b) /\ CallsOK(a \o b)
    BY <2>2, <2>3, JoinedCalls DEF CallsOK
  <2>6. GivenBy(a \o b, Len(a \o b)) = Mentions[t]
    <3>1. GivenBy(a \o b, Len(a \o b)) = GivenBy(a, Len(a)) \cup GivenBy(b, Len(b))
      BY <2>5, JoinedGives
    <3>2. Mentions[t] = UNION {Range(f.func.parts) : f \in {g \in Range(functions) : g.func.res = t}}
      BY <1>2 DEF Mentions
    <3>3. {g \in Range(functions) : g.func.res = t}
            = Methods(t, "import", "remote") \cup Methods(t, "export", "local")
      BY <1>2, MethodsAreMentioned
    <3> QED BY <2>2, <2>3, <3>1, <3>2, <3>3
  <2>7. \A k \in 1..Len(a \o b) : (a \o b)[k].do = "method"
    <3>1. /\ Len(a \o b) = Len(a) + Len(b)
          /\ \A i \in 1..(Len(a) + Len(b)) : (a \o b)[i] = IF i <= Len(a) THEN a[i] ELSE b[i - Len(a)]
      BY <2>5, Joined
    <3>2. Len(a) \in Nat /\ Len(b) \in Nat
      BY <2>5, SeqIs
    <3> SUFFICES ASSUME NEW k \in 1..Len(a \o b) PROVE (a \o b)[k].do = "method"
      OBVIOUS
    <3>3. CASE k <= Len(a)
      <4>1. k \in 1..Len(a) /\ (a \o b)[k] = a[k]
        BY <3>1, <3>2, <3>3
      <4> QED BY <2>2, <4>1
    <3>4. CASE ~(k <= Len(a))
      <4>1. k - Len(a) \in 1..Len(b) /\ (a \o b)[k] = b[k - Len(a)]
        BY <3>1, <3>2, <3>4
      <4> QED BY <2>3, <4>1
    <3> QED BY <3>3, <3>4
  <2> QED BY <2>4, <2>5, <2>6, <2>7
<1> QED BY <1>1, <1>2

\* To sort changes neither what types mention nor what they are.
LEMMA SortStays ==
  ASSUME UNCHANGED <<wit, functions>>
  PROVE  Mentions' = Mentions /\ Inside' = Inside /\ Plain' = Plain
BY DEF Mentions, Inside, Plain, HasNoClass, Kind, Parts

LEMMA ToldStays ==
  ASSUME UNCHANGED <<wit, functions, info>>
  PROVE  Told' = Told /\ (FunctionsTold => FunctionsTold')
BY DEF Told, FunctionsTold, Kind

-----------------------------------------------------------------------------
(* Sorting keeps it.                                                       *)

LEMMA StartSortInv ==
  ASSUME Inv, StartSort
  PROVE  Inv'
<1>1. /\ TypeOK /\ Visiting /\ FunctionsTold /\ stage = "visit" /\ calls = <<>>
      /\ UNCHANGED <<wit, types, order, worldTypes, info, functions>>
      /\ stage' = "sort" /\ calls' = SortTypes(types)
  BY DEF Inv, StartSort
<1>2. types \in Seq(Types)
  BY <1>1 DEF TypeOK
<1>3. /\ IsSeq(calls')
      /\ \A k \in 1..Len(calls') : calls'[k].do = "sort" /\ calls'[k].type \in Types
      /\ GivenBy(calls', Len(calls')) = Range(types)
  BY <1>1, <1>2, TypesAreSorted
<1>4. CallsOK(calls)'
  BY <1>1, <1>3 DEF CallsOK, SortCall
<1>5. TypeOK'
  BY <1>1, <1>4, FunctionsStay DEF TypeOK
<1>6. FunctionsTold'
  BY <1>1, ToldStays
<1>7. order'.sorted = <<>> /\ order'.entered = {}
  BY <1>1 DEF Visiting
<1>8. \A v \in AllWorlds : \A t \in worldTypes[v] : ~HasNoClass(t) => t \in Range(types)
  <2>1. Len(calls) = 0
    BY <1>1, EmptyIsSeq
  <2> QED BY <1>1, <2>1 DEF Visiting
<1>9. Covered(Mentions', calls', Ready') /\ Lineage(Mentions', calls')
  <2>1. \A M : \A k \in 1..Len(calls') : Wants(M, calls'[k]) = {}
    BY <1>3 DEF Wants
  <2>2. \A k \in 1..Len(calls') : calls'[k].do # "sorted"
    BY <1>3
  <2> QED BY <2>1, <2>2 DEF Covered, Lineage
<1>10. Sound(order.sorted)'
  <2>1. Len(order'.sorted) = 0
    BY <1>7, EmptyIsSeq
  <2> QED BY <2>1 DEF Sound
<1>11. Sorting'
  <2>1. \A v \in AllWorlds : \A t \in worldTypes'[v] : ~HasNoClass(t)' => t \in Range(types')
    BY <1>1, <1>8 DEF HasNoClass, Kind
  <2>2. \A t \in Range(types') : t \in GivenBy(calls', Len(calls'))
    BY <1>1, <1>3
  <2> QED BY <1>7, <1>9, <1>10, <2>1, <2>2 DEF Sorting
<1> QED BY <1>1, <1>5, <1>6, <1>11 DEF Inv, OrderIsSound

\* A call is replaced by calls that give the same, or by nothing once what it
\* gives is ready or sorted.
LEMMA SortStep ==
  ASSUME Inv, stage = "sort", NEW p, Replaces(calls', calls, p), CallsOK(p),
         UNCHANGED <<wit, stage, types, worldTypes, info, functions>>,
         order' \in [sorted : Seq(Types), entered : SUBSET Types],
         order.entered \subseteq order'.entered, Range(order.sorted) \subseteq Range(order'.sorted),
         Covered(Mentions, p, Ready'), Lineage(Mentions, p),
         GivenBy(p, Len(p)) \subseteq Gives(calls[1]) \cup UNION {Mentions[t] : t \in Gives(calls[1]) \cap Types},
         Gives(calls[1]) \subseteq Ready' \cup GivenBy(p, Len(p)),
         \A t \in Gives(calls[1]) : ~HasNoClass(t) => t \in Range(order'.sorted) \cup GivenBy(calls', Len(calls')),
         \A t \in order'.entered \ order.entered :
           Kind(t) = "resource" /\ \E k \in 1..Len(p) : p[k] = [do |-> "sorted", type |-> t],
         \A t \in order.entered : calls[1] = [do |-> "sorted", type |-> t] => t \in Range(order'.sorted),
         Sound(order.sorted)'
  PROVE  Inv'
<1>1. TypeOK /\ Sorting /\ FunctionsTold
  BY DEF Inv
<1>2. CallsOK(calls)'
  <2>1. CallsOK(calls')
    BY <1>1, ReplacedCalls DEF TypeOK
  <2> QED BY <2>1, CallsStay
<1>3. TypeOK'
  BY <1>1, <1>2, FunctionsStay DEF TypeOK
<1>4. FunctionsTold'
  BY <1>1, ToldStays
<1>5. Mentions' = Mentions /\ Inside' = Inside /\ Plain' = Plain
  BY SortStays
<1>6. Ready \subseteq Ready'
  <2>1. Range(order.sorted) \cup order.entered \subseteq Range(order'.sorted) \cup order'.entered
    OBVIOUS
  <2>2. Inside \in [Types -> SUBSET Types]
    BY <1>1, MentionsIs
  <2>3. ReadyIn(Inside, Plain, Range(order.sorted) \cup order.entered)
          \subseteq ReadyIn(Inside, Plain, Range(order'.sorted) \cup order'.entered)
    BY <2>1, <2>2, ReadyMore
  <2> QED BY <1>5, <2>3 DEF Ready
<1>7. Covered(Mentions', calls', Ready')
  <2>1. Covered(Mentions, calls, Ready)
    BY <1>1 DEF Sorting
  <2>2. Covered(Mentions, calls', Ready')
    BY <1>6, <2>1, ReplacedCovers
  <2> QED BY <1>5, <2>2
<1>8. Lineage(Mentions', calls')
  <2>1. Mentions \in [Types -> SUBSET Types]
    BY <1>1, MentionsIs
  <2>2. Lineage(Mentions, calls)
    BY <1>1 DEF Sorting
  <2>3. \A k \in 1..Len(calls) : calls[k].do = "sorted" => calls[k].type \in Types
    BY <1>1 DEF TypeOK, CallsOK, SortCall
  <2>4. Lineage(Mentions, calls')
    BY <2>1, <2>2, <2>3, ReplacedLineage
  <2> QED BY <1>5, <2>4
<1>9. \A v \in AllWorlds : \A t \in worldTypes'[v] : ~HasNoClass(t)' => t \in Range(types')
  BY <1>1 DEF Sorting, HasNoClass, Kind
<1>10. \A t \in Range(types') : ~HasNoClass(t)' => t \in Range(order'.sorted) \cup GivenBy(calls', Len(calls'))
  <2> SUFFICES ASSUME NEW t \in Range(types), ~HasNoClass(t)
               PROVE  t \in Range(order'.sorted) \cup GivenBy(calls', Len(calls'))
    BY DEF HasNoClass, Kind
  <2>1. t \in Range(order.sorted) \cup GivenBy(calls, Len(calls))
    BY <1>1 DEF Sorting
  <2>2. GivenBy(calls, Len(calls)) \subseteq Gives(calls[1]) \cup GivenBy(calls', Len(calls'))
    BY ReplacedGives
  <2> QED BY <2>1, <2>2
<1>11. ASSUME NEW t \in order'.entered
       PROVE  /\ Kind(t)' = "resource"
              /\ \/ t \in Range(order'.sorted)
                 \/ \E k \in 1..Len(calls') : calls'[k] = [do |-> "sorted", type |-> t]
  <2>1. Kind(t)' = Kind(t)
    BY DEF Kind
  <2>2. CASE t \notin order.entered
    <3>1. PICK k \in 1..Len(p) : p[k] = [do |-> "sorted", type |-> t]
      BY <2>2
    <3>2. \E j \in 1..Len(calls') : calls'[j] = p[k]
      BY ReplacedKeeps
    <3>3. Kind(t) = "resource"
      BY <2>2
    <3> QED BY <2>1, <3>1, <3>2, <3>3
  <2>3. CASE t \in order.entered
    <3>1. /\ Kind(t) = "resource"
          /\ \/ t \in Range(order.sorted)
             \/ \E k \in 1..Len(calls) : calls[k] = [do |-> "sorted", type |-> t]
      BY <1>1, <2>3 DEF Sorting
    <3>2. CASE t \in Range(order.sorted)
      BY <2>1, <3>1, <3>2
    <3>3. CASE t \notin Range(order.sorted)
      <4>1. PICK k \in 1..Len(calls) : calls[k] = [do |-> "sorted", type |-> t]
        BY <3>1, <3>3
      <4>2. CASE k = 1
        <5>1. calls[1] = [do |-> "sorted", type |-> t]
          BY <4>1, <4>2
        <5> QED BY <2>1, <2>3, <3>1, <5>1
      <4>3. CASE k # 1
        <5>1. \E j \in 1..Len(calls') : calls'[j] = calls[k]
          BY <4>3, ReplacedKeeps
        <5> QED BY <2>1, <3>1, <4>1, <5>1
      <4> QED BY <4>2, <4>3
    <3> QED BY <3>2, <3>3
  <2> QED BY <2>2, <2>3
<1>12. Sorting'
  BY <1>7, <1>8, <1>9, <1>10, <1>11 DEF Sorting
<1> QED BY <1>3, <1>4, <1>12 DEF Inv, OrderIsSound

\* What is sorted stays in its order.
LEMMA SoundStays ==
  ASSUME Sorting, UNCHANGED <<wit, functions>>, order'.sorted = order.sorted
  PROVE  Sound(order.sorted)'
<1>1. Mentions' = Mentions /\ Inside' = Inside
  BY SortStays
<1>2. Sound(order.sorted)
  BY DEF Sorting
<1> QED BY <1>1, <1>2 DEF Sound, NeededBefore, Needs, Reach, HasNoClass, Kind

\* A resource that is entered already.
LEMMA SortEnteredInv ==
  ASSUME Inv, stage = "sort", calls # <<>>, calls[1].do = "sort", NEW t, t = calls[1].type,
         t \in order.entered, Replaces(calls', calls, <<>>),
         UNCHANGED <<wit, stage, types, order, worldTypes, info, functions>>
  PROVE  Inv'
<1>1. TypeOK /\ Sorting /\ IsSeq(calls) /\ t \in Types /\ Kind(t) = "resource"
  <2>1. TypeOK /\ Sorting
    BY DEF Inv
  <2>2. IsSeq(calls)
    BY <2>1 DEF TypeOK, CallsOK
  <2>3. t \in Types /\ Kind(t) = "resource"
    BY <2>1 DEF TypeOK, Sorting
  <2> QED BY <2>1, <2>2, <2>3
<1>3. Gives(calls[1]) = {t}
  BY DEF Gives
<1>4. t \in Ready'
  <2>1. Mentions' = Mentions /\ Inside' = Inside /\ Plain' = Plain
    BY SortStays
  <2>2. Inside \in [Types -> SUBSET Types] /\ Inside[t] = {}
    <3>1. Inside[t] = {}
      BY <1>1 DEF Inside, HasNoClass
    <3> QED BY <1>1, <3>1, MentionsIs
  <2> DEFINE D == Range(order.sorted) \cup order.entered
  <2>3. t \in D
    OBVIOUS
  <2> HIDE DEF D
  <2>4. t \in ReadyIn(Inside, Plain, D)
    BY <1>1, <2>2, <2>3, ReadyMore
  <2>5. ReadyIn(Inside, Plain, D) = Ready
    BY DEF D, Ready
  <2>6. Ready' = Ready
    BY <2>1 DEF Ready
  <2> QED BY <2>4, <2>5, <2>6
<1>5. t \in Range(order'.sorted) \cup GivenBy(calls', Len(calls'))
  <2>1. CASE t \in Range(order.sorted)
    BY <2>1
  <2>2. CASE t \notin Range(order.sorted)
    <3>1. PICK k \in 1..Len(calls) : calls[k] = [do |-> "sorted", type |-> t]
      BY <1>1, <2>2 DEF Sorting
    <3>2. k # 1
      BY <3>1
    <3>3. \E j \in 1..Len(calls') : calls'[j] = calls[k]
      BY <3>2, ReplacedKeeps
    <3>4. PICK j \in 1..Len(calls') : calls'[j] = calls[k]
      BY <3>3
    <3>5. calls'[j].do = "sorted" /\ calls'[j].type = t
      BY <3>1, <3>4
    <3>6. t \in Gives(calls'[j])
      BY <3>5 DEF Gives
    <3> QED BY <3>6 DEF GivenBy
  <2> QED BY <2>1, <2>2
<1>6. Sound(order.sorted)'
  BY <1>1, SoundStays
<1>7. CallsOK(<<>>) /\ GivenBy(<<>>, Len(<<>>)) = {} /\ Covered(Mentions, <<>>, Ready') /\ Lineage(Mentions, <<>>)
  BY NoCalls
<1>8. order' \in [sorted : Seq(Types), entered : SUBSET Types]
  BY <1>1 DEF TypeOK
<1> QED BY <1>3, <1>4, <1>5, <1>6, <1>7, <1>8, SortStep

LEMMA SortTypeInv ==
  ASSUME Inv, SortType
  PROVE  Inv'
<1>1. /\ TypeOK /\ Sorting /\ FunctionsTold /\ stage = "sort" /\ calls # <<>>
      /\ UNCHANGED <<wit, stage, types, worldTypes, info, functions>>
  BY DEF Inv, SortType
<1>2. PICK t : t = Head(calls).type
  OBVIOUS
<1>3. /\ IsSeq(calls) /\ calls[1].do = "sort" /\ calls[1].type = t /\ t \in Types
  <2>1. Head(calls).do = "sort"
    BY DEF SortType
  <2> QED BY <1>1, <1>2, <2>1, FirstCall DEF TypeOK, SortCall
<1>4. CASE Kind(t) = "resource" /\ t \in order.entered
  <2>1. calls' = Tail(calls) /\ UNCHANGED order
    BY <1>2, <1>4 DEF SortType
  <2>2. Replaces(calls', calls, <<>>)
    BY <1>1, <2>1, RestReplaces DEF TypeOK
  <2> QED BY <1>1, <1>3, <1>4, <2>1, <2>2, SortEnteredInv
<1>5. CASE ~(Kind(t) = "resource" /\ t \in order.entered)
  <2>1. PICK a, e, p : a = SortInside(t) /\ e = [do |-> "sorted", type |-> t] /\ p = a \o <<e>>
    OBVIOUS
  <2>2. /\ calls' = p \o Tail(calls)
        /\ order' = [order EXCEPT !.entered = IF Kind(t) = "resource" THEN @ \cup {t} ELSE @]
    BY <1>2, <1>5, <2>1 DEF SortType
  <2>3. e.do = "sorted" /\ e.type = t
    BY <2>1
  <2>4. /\ order' \in [sorted : Seq(Types), entered : SUBSET Types] /\ order'.sorted = order.sorted
        /\ order'.entered = order.entered \cup (IF Kind(t) = "resource" THEN {t} ELSE {})
    <3>1. order \in [sorted : Seq(Types), entered : SUBSET Types]
      BY <1>1 DEF TypeOK
    <3> QED BY <1>3, <2>2, <3>1
  <2>5. /\ CallsOK(a) /\ IsSeq(a) /\ GivenBy(a, Len(a)) = Mentions[t]
        /\ \A k \in 1..Len(a) : a[k].do \in {"sort", "method"}
    BY <1>1, <1>3, <2>1, SortInsideIs DEF CallsOK
  <2>6. /\ IsSeq(p) /\ Len(a) + 1 \in 1..Len(p) /\ p[Len(a) + 1] = e
        /\ \A k \in 1..Len(<<e>>) : <<e>>[k] = e
    BY <2>1, <2>5, LastCall
  <2>7. CallsOK(p)
    <3>1. CallsOK(<<e>>)
      BY <1>1, <1>3, <2>3, OneCall DEF SortCall
    <3> QED BY <2>1, <2>5, <3>1, JoinedCalls
  <2>8. GivenBy(p, Len(p)) = Mentions[t] \cup {t}
    <3>1. PICK o : o = <<e>>
      OBVIOUS
    <3>2. IsSeq(o) /\ Len(o) = 1 /\ o[1] = e
      BY <3>1, OneIsSeq
    <3>3. GivenBy(o, Len(o)) = {t}
      <4>1. Gives(e) = {t}
        BY <2>3 DEF Gives
      <4>2. 1..Len(o) = {1}
        BY <3>2
      <4>3. \A k \in 1..Len(o) : o[k] = e
        BY <3>2, <4>2
      <4> QED BY <4>1, <4>2, <4>3 DEF GivenBy
    <3>4. p = a \o o
      BY <2>1, <3>1
    <3>5. GivenBy(p, Len(p)) = GivenBy(a, Len(a)) \cup GivenBy(o, Len(o))
      BY <2>5, <3>2, <3>4, JoinedGives
    <3> QED BY <2>5, <3>3, <3>5
  <2>9. Covered(Mentions, p, Ready')
    <3>1. \A k \in 1..Len(a) : Wants(Mentions, a[k]) = {}
      BY <2>5 DEF Wants
    <3>2. \A k \in 1..Len(<<e>>) : Wants(Mentions, <<e>>[k]) \subseteq Ready' \cup GivenBy(a, Len(a))
      <4>1. Wants(Mentions, e) = Mentions[t]
        BY <2>3 DEF Wants
      <4> QED BY <2>5, <2>6, <4>1
    <3>3. IsSeq(<<e>>)
      BY OneIsSeq
    <3> QED BY <2>1, <2>5, <3>1, <3>2, <3>3, JoinedCovers
  <2>10. Lineage(Mentions, p)
    <3>1. Mentions \in [Types -> SUBSET Types]
      BY <1>1, MentionsIs
    <3>2. \A k \in 1..Len(a) : a[k].do # "sorted"
      BY <2>5
    <3> QED BY <1>3, <2>1, <2>5, <3>1, <3>2, EndLineage
  <2>11. Replaces(calls', calls, p)
    BY <1>1, <1>3, <2>2, <2>6 DEF Replaces
  <2>12. Gives(calls[1]) = {t}
    BY <1>3 DEF Gives
  <2>13. Sound(order.sorted)'
    BY <1>1, <2>4, SoundStays
  <2>14. t \in GivenBy(calls', Len(calls'))
    BY <2>8, <2>11, ReplacedGives
  <2>15. \A u \in order'.entered \ order.entered :
           Kind(u) = "resource" /\ \E k \in 1..Len(p) : p[k] = [do |-> "sorted", type |-> u]
    BY <2>1, <2>4, <2>6
  <2>16. GivenBy(p, Len(p)) \subseteq Gives(calls[1]) \cup UNION {Mentions[u] : u \in Gives(calls[1]) \cap Types}
    BY <1>3, <2>8, <2>12
  <2>17. Gives(calls[1]) \subseteq Ready' \cup GivenBy(p, Len(p))
    BY <2>8, <2>12
  <2>18. \A u \in Gives(calls[1]) : ~HasNoClass(u) => u \in Range(order'.sorted) \cup GivenBy(calls', Len(calls'))
    BY <2>12, <2>14
  <2>19. order.entered \subseteq order'.entered /\ Range(order.sorted) \subseteq Range(order'.sorted)
    BY <2>4
  <2>20. \A u : calls[1] # [do |-> "sorted", type |-> u]
    BY <1>3
  <2> QED BY <1>1, <2>4, <2>7, <2>9, <2>10, <2>11, <2>13, <2>15, <2>16, <2>17, <2>18, <2>19, <2>20, SortStep
<1> QED BY <1>4, <1>5

LEMMA SortMethodInv ==
  ASSUME Inv, SortMethod
  PROVE  Inv'
<1>1. /\ TypeOK /\ Sorting /\ FunctionsTold /\ stage = "sort" /\ calls # <<>>
      /\ UNCHANGED <<wit, stage, types, order, worldTypes, info, functions>>
  BY DEF Inv, SortMethod
<1>2. PICK n : n = Head(calls) /\ n.do = "method"
  BY DEF SortMethod
<1>3. PICK p : /\ p = IF IsMethod(n.func, n.type, n.dir) THEN SortTypes(n.func.func.parts) ELSE <<>>
               /\ calls' = p \o Tail(calls)
  BY <1>2 DEF SortMethod
<1>4. IsSeq(calls) /\ n = calls[1] /\ IsFunc(n.func)
  BY <1>1, <1>2, FirstCall DEF TypeOK, SortCall
<1>5. Gives(calls[1]) = IF IsMethod(n.func, n.type, n.dir) THEN Range(n.func.func.parts) ELSE {}
  BY <1>2, <1>4 DEF Gives
<1>6. /\ CallsOK(p) /\ IsSeq(p) /\ \A k \in 1..Len(p) : p[k].do = "sort"
      /\ GivenBy(p, Len(p)) = Gives(calls[1])
  <2>1. CASE IsMethod(n.func, n.type, n.dir)
    <3>1. n.func.func.parts \in Seq(Types) /\ p = SortTypes(n.func.func.parts)
      BY <1>1, <1>3, <1>4, <2>1, FuncIs
    <3>2. /\ IsSeq(p) /\ \A k \in 1..Len(p) : p[k].do = "sort" /\ p[k].type \in Types
          /\ GivenBy(p, Len(p)) = Range(n.func.func.parts)
      BY <3>1, TypesAreSorted
    <3> QED BY <1>1, <1>5, <2>1, <3>2 DEF CallsOK, SortCall
  <2>2. CASE ~IsMethod(n.func, n.type, n.dir)
    <3>1. p = <<>> /\ Gives(calls[1]) = {}
      BY <1>3, <1>5, <2>2
    <3>2. Len(p) = 0 /\ IsSeq(p)
      BY <3>1, EmptyIsSeq
    <3>3. CallsOK(p) /\ GivenBy(p, Len(p)) = {}
      BY <3>1, NoCalls
    <3> QED BY <3>1, <3>2, <3>3
  <2> QED BY <2>1, <2>2
<1>7. Covered(Mentions, p, Ready') /\ Lineage(Mentions, p)
  <2>1. \A k \in 1..Len(p) : Wants(Mentions, p[k]) = {} /\ p[k].do # "sorted"
    BY <1>6 DEF Wants
  <2> QED BY <2>1 DEF Covered, Lineage
<1>8. Replaces(calls', calls, p)
  BY <1>1, <1>3, <1>4, <1>6 DEF Replaces
<1>9. GivenBy(p, Len(p)) \subseteq GivenBy(calls', Len(calls'))
  BY <1>8, ReplacedGives
<1>10. Sound(order.sorted)'
  BY <1>1, SoundStays
<1>11. order' \in [sorted : Seq(Types), entered : SUBSET Types]
  BY <1>1 DEF TypeOK
<1>12. \A u \in Gives(calls[1]) : u \in GivenBy(calls', Len(calls'))
  BY <1>6, <1>9
<1>13. (\A u : calls[1] # [do |-> "sorted", type |-> u]) /\ order'.entered \ order.entered = {}
  BY <1>1, <1>2, <1>4
<1>14. order.entered \subseteq order'.entered /\ Range(order.sorted) \subseteq Range(order'.sorted)
  BY <1>1
<1>15. /\ GivenBy(p, Len(p)) \subseteq Gives(calls[1]) \cup UNION {Mentions[t] : t \in Gives(calls[1]) \cap Types}
       /\ Gives(calls[1]) \subseteq Ready' \cup GivenBy(p, Len(p))
  BY <1>6
<1>16. /\ \A t \in Gives(calls[1]) : ~HasNoClass(t) => t \in Range(order'.sorted) \cup GivenBy(calls', Len(calls'))
       /\ \A t \in order'.entered \ order.entered :
            Kind(t) = "resource" /\ \E k \in 1..Len(p) : p[k] = [do |-> "sorted", type |-> t]
       /\ \A t \in order.entered : calls[1] = [do |-> "sorted", type |-> t] => t \in Range(order'.sorted)
  BY <1>12, <1>13
<1> QED BY <1>1, <1>6, <1>7, <1>8, <1>10, <1>11, <1>14, <1>15, <1>16, SortStep

\* What a type needs is sorted before it, or leads to it through its methods.
LEMMA NeededIsReady ==
  ASSUME TypeOK, Sorting, stage = "sort", calls # <<>>, calls[1].do = "sorted", NEW t, t = calls[1].type
  PROVE  /\ Mentions[t] \subseteq Ready
         /\ \A u \in Needs(t) : u \in Range(order.sorted) \/ (Kind(u) = "resource" /\ t \in Reach(u))
<1>1. IsSeq(calls) /\ Len(calls) \in Nat /\ 1 \in 1..Len(calls) /\ t \in Types
  BY FirstCall DEF TypeOK, SortCall
<1>2. /\ Mentions \in [Types -> SUBSET Types] /\ Inside \in [Types -> SUBSET Types]
      /\ \A u \in Types : Inside[u] \subseteq Mentions[u]
  BY MentionsIs
<1>3. Mentions[t] \subseteq Ready
  <2>1. Wants(Mentions, calls[1]) \subseteq Ready \cup GivenBy(calls, 1 - 1)
    BY <1>1 DEF Sorting, Covered
  <2>2. GivenBy(calls, 1 - 1) = {}
    BY DEF GivenBy
  <2>3. Wants(Mentions, calls[1]) = Mentions[t]
    BY DEF Wants
  <2> QED BY <2>1, <2>2, <2>3
<1>4. ASSUME NEW u \in Needs(t)
      PROVE  u \in Range(order.sorted) \/ (Kind(u) = "resource" /\ t \in Reach(u))
  <2>1. u \in Closure(Mentions[t], Inside) /\ ~HasNoClass(u)
    BY <1>4 DEF Needs
  <2>2. PICK D : D = Range(order.sorted) \cup order.entered
    OBVIOUS
  <2>3. u \in D
    <3>1. Ready = ReadyIn(Inside, Plain, D)
      BY <2>2 DEF Ready
    <3>2. Mentions[t] \in SUBSET ReadyIn(Inside, Plain, D)
      BY <1>3, <3>1
    <3>3. Closure(Mentions[t], Inside) \subseteq ReadyIn(Inside, Plain, D)
      BY <1>2, <3>2, ReadyCloses
    <3>4. u \in ReadyIn(Inside, Plain, D) /\ u \notin Plain
      BY <2>1, <3>3 DEF Plain
    <3> QED BY <1>2, <3>4, ReadyCloses
  <2>4. CASE u \in Range(order.sorted)
    BY <2>4
  <2>5. CASE u \notin Range(order.sorted)
    <3>1. Kind(u) = "resource" /\ \E k \in 1..Len(calls) : calls[k] = [do |-> "sorted", type |-> u]
      BY <2>2, <2>3, <2>5 DEF Sorting
    <3>2. PICK k \in 1..Len(calls) : calls[k] = [do |-> "sorted", type |-> u]
      BY <3>1
    <3>3. calls[k].do = "sorted" /\ calls[k].type = u
      BY <3>2
    <3>4. CASE k = 1
      <4>1. u = t
        BY <3>3, <3>4
      <4>2. Closure(Mentions[t], Inside) \subseteq Closure(Mentions[t], Mentions)
        <5> DEFINE C == Closure(Mentions[t], Mentions)
        <5>1. Mentions[t] \in SUBSET Types
          BY <1>1, <1>2
        <5>2. Mentions[t] \subseteq C /\ \A x \in C : Mentions[x] \subseteq C
          BY <1>2, <5>1, ClosureIs
        <5>3. \A x \in C \cap Types : Inside[x] \subseteq C
          BY <1>2, <5>2
        <5> HIDE DEF C
        <5>4. Closure(Mentions[t], Inside) \subseteq C
          BY <1>2, <5>1, <5>2, <5>3, ClosureIs
        <5> QED BY <5>4 DEF C
      <4> QED BY <2>1, <3>1, <4>1, <4>2 DEF Reach
    <3>5. CASE k # 1
      <4>1. GivenBy(calls, k - 1) \subseteq Closure(Mentions[u], Mentions)
        BY <3>3 DEF Sorting, Lineage
      <4>2. t \in Gives(calls[1])
        BY DEF Gives
      <4>3. 1 \in 1..(k - 1)
        BY <1>1, <3>5
      <4>4. t \in GivenBy(calls, k - 1)
        BY <4>2, <4>3 DEF GivenBy
      <4> QED BY <3>1, <4>1, <4>4 DEF Reach
    <3> QED BY <3>4, <3>5
  <2> QED BY <2>4, <2>5
<1> QED BY <1>3, <1>4

LEMMA SortedTypeInv ==
  ASSUME Inv, SortedType
  PROVE  Inv'
<1>1. /\ TypeOK /\ Sorting /\ FunctionsTold /\ stage = "sort" /\ calls # <<>>
      /\ UNCHANGED <<wit, stage, types, worldTypes, info, functions>>
      /\ calls' = Tail(calls)
  BY DEF Inv, SortedType
<1>2. PICK t : /\ t = Head(calls).type /\ Head(calls).do = "sorted"
               /\ order' = [order EXCEPT !.sorted = Declare(@, t)]
  BY DEF SortedType
<1>3. IsSeq(calls) /\ calls[1].do = "sorted" /\ calls[1].type = t /\ t \in Types
  BY <1>1, <1>2, FirstCall DEF TypeOK, SortCall
<1>4. PICK s : s = order.sorted
  OBVIOUS
<1>5. PICK q : q = Declare(s, t)
  OBVIOUS
<1>6. s \in Seq(Types) /\ order \in [sorted : Seq(Types), entered : SUBSET Types]
  BY <1>1, <1>4 DEF TypeOK
<1>7. /\ q \in Seq(Types) /\ Range(s) \subseteq Range(q) /\ (~HasNoClass(t) => t \in Range(q))
      /\ \/ q = s
         \/ /\ ~HasNoClass(t) /\ Len(q) = Len(s) + 1 /\ q[Len(s) + 1] = t
            /\ \A n \in 1..Len(s) : q[n] = s[n]
  BY <1>3, <1>5, <1>6, Inserted
<1>8. /\ order'.sorted = q /\ order'.entered = order.entered
      /\ order' \in [sorted : Seq(Types), entered : SUBSET Types]
  <2>1. order' = [order EXCEPT !.sorted = q]
    BY <1>2, <1>4, <1>5
  <2> QED BY <1>6, <1>7, <2>1
<1>9. Replaces(calls', calls, <<>>)
  BY <1>1, RestReplaces DEF TypeOK
<1>10. /\ Mentions[t] \subseteq Ready
       /\ \A u \in Needs(t) : u \in Range(s) \/ (Kind(u) = "resource" /\ t \in Reach(u))
  BY <1>1, <1>3, <1>4, NeededIsReady
<1>11. Mentions' = Mentions /\ Inside' = Inside /\ Plain' = Plain
  BY <1>1, SortStays
<1>12. t \in Ready'
  <2>1. Inside \in [Types -> SUBSET Types] /\ Inside[t] \subseteq Mentions[t]
    BY <1>1, <1>3, MentionsIs
  <2>2. PICK D, D2 : D = Range(s) \cup order.entered /\ D2 = Range(q) \cup order.entered
    OBVIOUS
  <2>3. D \subseteq D2 /\ (t \notin Plain => t \in D2)
    BY <1>3, <1>7, <2>2 DEF Plain
  <2>4. Ready = ReadyIn(Inside, Plain, D) /\ Ready' = ReadyIn(Inside, Plain, D2)
    BY <1>4, <1>8, <1>11, <2>2 DEF Ready
  <2>5. Inside[t] \subseteq ReadyIn(Inside, Plain, D)
    BY <1>10, <2>1, <2>4
  <2>6. t \in ReadyIn(Inside, Plain, D2)
    BY <1>3, <2>1, <2>3, <2>5, ReadyMore
  <2> QED BY <2>4, <2>6
<1>13. Sound(q)
  <2>1. Sound(s)
    BY <1>1, <1>4 DEF Sorting
  <2>2. CASE q = s
    BY <2>1, <2>2
  <2>3. CASE q # s
    <3>1. Len(q) = Len(s) + 1 /\ q[Len(s) + 1] = t /\ \A n \in 1..Len(s) : q[n] = s[n]
      BY <1>7, <2>3
    <3>2. Len(s) \in Nat
      BY <1>6
    <3> SUFFICES ASSUME NEW n \in 1..Len(q), NEW u \in Needs(q[n]) PROVE NeededBefore(q, n, u)
      BY DEF Sound
    <3>3. CASE n \in 1..Len(s)
      <4>1. q[n] = s[n] /\ \A m \in 1..(n - 1) : q[m] = s[m]
        BY <3>1, <3>2, <3>3
      <4>2. NeededBefore(s, n, u)
        BY <2>1, <3>3, <4>1 DEF Sound
      <4> QED BY <4>1, <4>2 DEF NeededBefore
    <3>4. CASE n \notin 1..Len(s)
      <4>1. n = Len(s) + 1 /\ q[n] = t /\ n - 1 = Len(s)
        BY <3>1, <3>2, <3>4
      <4>2. CASE u \in Range(s)
        <5>1. PICK m \in 1..Len(s) : s[m] = u
          BY <1>6, <4>2 DEF Range
        <5> QED BY <3>1, <4>1, <5>1 DEF NeededBefore
      <4>3. CASE u \notin Range(s)
        BY <1>10, <4>1, <4>3 DEF NeededBefore
      <4> QED BY <4>2, <4>3
    <3> QED BY <3>3, <3>4
  <2> QED BY <2>2, <2>3
<1>14. Sound(order.sorted)'
  BY <1>1, <1>8, <1>11, <1>13 DEF Sound, NeededBefore, Needs, Reach, HasNoClass, Kind
<1>15. Gives(calls[1]) = {t}
  BY <1>3 DEF Gives
<1>16. CallsOK(<<>>) /\ GivenBy(<<>>, Len(<<>>)) = {} /\ Covered(Mentions, <<>>, Ready') /\ Lineage(Mentions, <<>>)
  BY NoCalls
<1>17. ASSUME NEW u \in order.entered, calls[1] = [do |-> "sorted", type |-> u]
       PROVE  u \in Range(order'.sorted)
  <2>1. u = t
    BY <1>3, <1>17
  <2>2. Kind(u) = "resource"
    BY <1>1 DEF Sorting
  <2> QED BY <1>7, <1>8, <2>1, <2>2 DEF HasNoClass
<1>18. /\ order.entered \subseteq order'.entered /\ Range(order.sorted) \subseteq Range(order'.sorted)
       /\ order'.entered \ order.entered = {}
  BY <1>4, <1>7, <1>8
<1>19. /\ GivenBy(<<>>, Len(<<>>)) \subseteq Gives(calls[1]) \cup UNION {Mentions[u] : u \in Gives(calls[1]) \cap Types}
       /\ Gives(calls[1]) \subseteq Ready' \cup GivenBy(<<>>, Len(<<>>))
  BY <1>12, <1>15, <1>16
<1>20. /\ \A u \in Gives(calls[1]) : ~HasNoClass(u) => u \in Range(order'.sorted) \cup GivenBy(calls', Len(calls'))
       /\ \A u \in order'.entered \ order.entered :
            Kind(u) = "resource" /\ \E k \in 1..Len(<<>>) : <<>>[k] = [do |-> "sorted", type |-> u]
  BY <1>7, <1>8, <1>15, <1>18
<1> QED BY <1>1, <1>8, <1>9, <1>14, <1>16, <1>17, <1>18, <1>19, <1>20, SortStep

LEMMA FinishSortInv ==
  ASSUME Inv, FinishSort
  PROVE  Inv'
<1>1. /\ TypeOK /\ Sorting /\ FunctionsTold /\ stage = "sort" /\ calls = <<>>
      /\ UNCHANGED <<wit, calls, order, worldTypes, info, functions>>
      /\ types' = order.sorted /\ stage' = "sorted"
  BY DEF Inv, FinishSort
<1>2. PICK s : s = order.sorted
  OBVIOUS
<1>3. s \in Seq(Types)
  BY <1>1, <1>2 DEF TypeOK
<1>4. TypeOK'
  <2>1. CallsOK(calls)'
    BY <1>1 DEF CallsOK, TypeOK
  <2> QED BY <1>1, <1>2, <1>3, <2>1, FunctionsStay DEF TypeOK
<1>5. FunctionsTold'
  BY <1>1, ToldStays
<1>6. Mentions' = Mentions /\ Inside' = Inside
  BY <1>1, SortStays
<1>7. DOMAIN s = 1..Len(s) /\ Len(s) \in Nat
  BY <1>3
<1>8. ASSUME NEW v \in Worlds, NEW t \in worldTypes[v], ~HasNoClass(t)
      PROVE  Contains(s, t)
  <2>1. GivenBy(calls, Len(calls)) = {}
    BY <1>1, NoCalls
  <2>2. v \in AllWorlds
    BY DEF AllWorlds
  <2>3. t \in Range(types)
    BY <1>1, <1>8, <2>2 DEF Sorting
  <2>4. t \in Range(s)
    BY <1>1, <1>2, <1>8, <2>1, <2>3 DEF Sorting
  <2> QED BY <2>4 DEF Range, Contains
<1>9. ASSUME NEW n \in 1..Len(s), NEW u \in Needs(s[n])
      PROVE  \/ \E l, m \in DOMAIN s : l < m /\ s[l] = u /\ s[m] = s[n]
             \/ Kind(u) = "resource" /\ s[n] \in Reach(u)
  <2>1. NeededBefore(s, n, u)
    BY <1>1, <1>2 DEF Sorting, Sound
  <2>2. CASE \E m \in 1..(n - 1) : s[m] = u
    <3>1. PICK m \in 1..(n - 1) : s[m] = u
      BY <2>2
    <3>2. m \in DOMAIN s /\ n \in DOMAIN s /\ m < n
      BY <1>7
    <3> QED BY <3>1, <3>2
  <2> QED BY <2>1, <2>2 DEF NeededBefore
<1>10. OrderIsSound'
  <2>1. \A v \in Worlds, t \in Types : t \in worldTypes'[v] /\ ~HasNoClass(t)' => Contains(types', t)
    BY <1>1, <1>2, <1>8 DEF HasNoClass, Kind
  <2>2. ASSUME NEW t \in Range(s), NEW u \in Needs(t)
        PROVE  (\E l, m \in DOMAIN s : l < m /\ s[l] = u /\ s[m] = t) \/ (Kind(u) = "resource" /\ t \in Reach(u))
    <3>1. PICK n \in 1..Len(s) : t = s[n]
      BY <1>7, <2>2 DEF Range
    <3> QED BY <1>9, <2>2, <3>1
  <2> QED BY <1>1, <1>2, <1>6, <2>1, <2>2 DEF OrderIsSound, Before, Needs, Reach, HasNoClass, Kind
<1> QED BY <1>1, <1>4, <1>5, <1>10 DEF Inv

-----------------------------------------------------------------------------
(* The other steps leave it alone.                                         *)

LEMMA OtherInv ==
  ASSUME Inv, UNCHANGED <<wit, calls, types, order, worldTypes, info, functions>>,
         stage' \notin {"visit", "sort", "sorted"}
  PROVE  Inv'
<1>1. TypeOK /\ FunctionsTold
  BY DEF Inv
<1>2. CallsOK(calls)'
  BY <1>1 DEF TypeOK, CallsOK
<1>3. TypeOK'
  BY <1>1, <1>2, FunctionsStay DEF TypeOK
<1>4. FunctionsTold'
  BY <1>1, ToldStays
<1> QED BY <1>3, <1>4 DEF Inv, OrderIsSound

LEMMA RestInv ==
  ASSUME Inv, UNCHANGED vars
  PROVE  Inv'
<1>1. TypeOK'
  BY DEF Inv, TypeOK, vars, CallsOK, VisitCall, SortCall, IsFunc, FunctionsOK, Kind
<1>2. UNCHANGED <<wit, stage, todo, calls, types, order, worldTypes, info, functions>>
  BY DEF vars
<1>3. Mentions' = Mentions /\ Inside' = Inside /\ Plain' = Plain /\ Told' = Told /\ FunctionsTold'
  BY <1>2, SortStays, ToldStays DEF Inv
<1>4. Ready' = Ready
  BY <1>2, <1>3 DEF Ready
<1>5. stage = "visit" => Visiting'
  BY <1>2, <1>3 DEF Inv, Visiting, HasNoClass, Kind
<1>6. stage = "sort" => Sorting'
  <2> SUFFICES ASSUME stage = "sort" PROVE Sorting'
    OBVIOUS
  <2>1. Sorting
    BY DEF Inv
  <2>2. Sound(order.sorted)'
    BY <1>2, <2>1, SoundStays
  <2> QED BY <1>2, <1>3, <1>4, <2>1, <2>2 DEF Sorting, HasNoClass, Kind
<1>7. OrderIsSound'
  BY <1>2, <1>3 DEF Inv, OrderIsSound, Before, Needs, Reach, HasNoClass, Kind
<1> QED BY <1>1, <1>2, <1>3, <1>5, <1>6, <1>7 DEF Inv

LEMMA NextInv ==
  ASSUME Inv, [Next]_vars
  PROVE  Inv'
<1>1. CASE VisitWorld
  BY <1>1, VisitWorldInv
<1>2. CASE VisitItem
  BY <1>2, VisitItemInv
<1>3. CASE VisitFunction
  BY <1>3, VisitFunctionInv
<1>4. CASE VisitType
  BY <1>4, VisitTypeInv
<1>5. CASE VisitedType
  BY <1>5, VisitedTypeInv
<1>6. CASE StartSort
  BY <1>6, StartSortInv
<1>7. CASE SortType
  BY <1>7, SortTypeInv
<1>8. CASE SortMethod
  BY <1>8, SortMethodInv
<1>9. CASE SortedType
  BY <1>9, SortedTypeInv
<1>10. CASE FinishSort
  BY <1>10, FinishSortInv
<1>11. CASE StartModule
  BY <1>11, OtherInv DEF StartModule
<1>12. CASE GenerateType
  <2>1. UNCHANGED <<wit, calls, types, order, worldTypes, info, functions>>
    BY <1>12 DEF GenerateType
  <2>2. stage = "generate" /\ (stage' = "panic" \/ UNCHANGED stage)
    BY <1>12 DEF GenerateType
  <2> QED BY <2>1, <2>2, OtherInv
<1>13. CASE GenerateFunctions
  <2>1. UNCHANGED <<wit, calls, types, order, worldTypes, info, functions>>
    BY <1>13 DEF GenerateFunctions
  <2>2. stage = "generate" /\ stage' \in {"collect", "generate"}
    BY <1>13 DEF GenerateFunctions
  <2> QED BY <2>1, <2>2, OtherInv
<1>14. CASE CollectSymbols
  <2>1. UNCHANGED <<wit, calls, types, order, worldTypes, info, functions>>
    BY <1>14 DEF CollectSymbols
  <2>2. stage' \in {"done", "unresolved"}
    BY <1>14 DEF CollectSymbols
  <2> QED BY <2>1, <2>2, OtherInv
<1>15. CASE Resting
  BY <1>15, RestInv DEF Resting
<1>16. CASE UNCHANGED vars
  BY <1>16, RestInv
<1> QED BY <1>1, <1>2, <1>3, <1>4, <1>5, <1>6, <1>7, <1>8, <1>9, <1>10, <1>11, <1>12, <1>13, <1>14,
           <1>15, <1>16 DEF Next

-----------------------------------------------------------------------------
(* What a world has is visited, from each side.                            *)

\* A call is for something that its world has.
Belongs(w, has, c) ==
  /\ c.do \in {"item", "function", "visit"} => c.world \in Range(w.all)
  /\ c.do = "item" => c.item \in Range(w.worlds[c.world][c.dir])
  /\ c.do = "function" => <<c.func.dir, c.func.item>> \in has[c.world]
  /\ c.do = "visit" => c.type \in TypesOf(w, c.world)

Within ==
  /\ worldKeys \in [AllWorlds -> SUBSET (Dirs \X Items)]
  /\ \A v \in AllWorlds : worldKeys[v] \subseteq visited
  /\ \A v \in Worlds, dir \in Dirs, i \in Items : <<dir, i>> \in worldKeys[v] => i \in Range(wit.worlds[v][dir])
  /\ \A v \in Range(wit.all) : worldTypes[v] \subseteq TypesOf(wit, v)
  /\ \A k \in 1..Len(functions) : \E v \in Range(wit.all) :
       <<functions[k].dir, functions[k].item>> \in worldKeys[v]
  /\ stage = "visit" => Range(todo) \subseteq Range(wit.all) /\ \A k \in 1..Len(calls) : Belongs(wit, worldKeys, calls[k])

Mentioned(t) == \E v \in Range(wit.all) : t \in worldTypes[v]

Found ==
  /\ \A v \in Range(wit.all), dir \in Dirs : \A i \in Range(wit.worlds[v][dir]) :
       <<dir, i>> \in visited \/ (stage = "visit" /\ (v \in Range(todo) \/ ItemIn(calls, dir, i)))
  /\ \A dir \in Dirs, i \in Items : <<dir, i>> \in visited /\ wit.items[i].interface =>
       \A t \in Range(wit.items[i].types) :
         (<<t, dir>> \in Told /\ Mentioned(t)) \/ (stage = "visit" /\ TypeIn(calls, t, dir))

\* What a world has.
LEMMA WorldHas ==
  ASSUME TypeOK, NEW v \in Range(wit.all)
  PROVE  /\ v \in Worlds /\ v \in AllWorlds
         /\ \A dir \in Dirs : \A i \in Range(wit.worlds[v][dir]) : i \in Items /\ i \in ItemsOf(wit, v)
         /\ \A i \in ItemsOf(wit, v) : \E dir \in Dirs : i \in Range(wit.worlds[v][dir])
<1>1. v \in Worlds
  <2>1. wit.all \in Seq(Worlds)
    BY WitIs
  <2> QED BY <2>1 DEF Range
<1>2. wit.worlds[v].import \in Seq(Items) /\ wit.worlds[v].export \in Seq(Items)
  BY <1>1, WitIs
<1>3. Range(wit.worlds[v].import) \subseteq Items /\ Range(wit.worlds[v].export) \subseteq Items
  BY <1>2 DEF Range
<1> QED BY <1>1, <1>3 DEF Dirs, ItemsOf, AllWorlds

LEMMA WorldTypes ==
  ASSUME TypeOK, NEW v \in Range(wit.all)
  PROVE  /\ TypesOf(wit, v) \subseteq Types
         /\ \A i \in ItemsOf(wit, v) :
              /\ Range(wit.items[i].types) \subseteq TypesOf(wit, v)
              /\ \A f \in Range(wit.items[i].funcs) : Range(f.parts) \subseteq TypesOf(wit, v)
         /\ \A t \in TypesOf(wit, v) : Range(Parts(t)) \subseteq TypesOf(wit, v)
         /\ \A t \in TypesOf(wit, v) : Kind(t) = "resource" =>
              /\ Owner(t) \in Items /\ wit.items[Owner(t)].interface /\ t \in Range(wit.items[Owner(t)].types)
              /\ Owner(t) \in ItemsOf(wit, v)
<1>1. PICK ts : ts = UNION {Range(wit.items[i].types) \cup UNION {Range(f.parts) : f \in Range(wit.items[i].funcs)} :
                              i \in ItemsOf(wit, v)}
  OBVIOUS
<1>2. PICK next : next = [t \in Types |-> Range(Parts(t))]
  OBVIOUS
<1>3. TypesOf(wit, v) = Closure(ts, next)
  BY <1>1, <1>2, Zenon DEF TypesOf, Parts
<1>4. \A t \in Types : Parts(t) \in Seq(Types) /\ Range(Parts(t)) \subseteq Types
  <2>1. \A t \in Types : Parts(t) \in Seq(Types)
    BY WitIs
  <2> QED BY <2>1 DEF Range
<1>5. \A i \in ItemsOf(wit, v) : i \in Items
  BY WorldHas
<1>6. \A i \in Items : /\ Range(wit.items[i].types) \subseteq Types
                       /\ \A f \in Range(wit.items[i].funcs) : Range(f.parts) \subseteq Types
  <2>1. \A i \in Items : /\ wit.items[i].types \in Seq(Types)
                         /\ \A f \in Range(wit.items[i].funcs) : f.parts \in Seq(Types)
    BY WitIs
  <2> QED BY <2>1 DEF Range
<1>7. ts \subseteq Types
  BY <1>1, <1>5, <1>6
<1>8. next \in [Types -> SUBSET Types]
  BY <1>2, <1>4
<1>9. /\ ts \subseteq Closure(ts, next) /\ Closure(ts, next) \subseteq Types
      /\ \A t \in Closure(ts, next) : next[t] \subseteq Closure(ts, next)
  BY <1>7, <1>8, ClosureIs
<1>10. \A t \in TypesOf(wit, v) : Kind(t) = "resource" =>
         /\ Owner(t) \in Items /\ wit.items[Owner(t)].interface /\ t \in Range(wit.items[Owner(t)].types)
         /\ Owner(t) \in ItemsOf(wit, v)
  <2>1. IsWit(wit)
    BY WitsAssumption DEF TypeOK
  <2>2. \A t \in Types : wit.types[t].kind = "resource" =>
          /\ wit.types[t].owner \in Items /\ wit.items[wit.types[t].owner].interface
          /\ t \in Range(wit.items[wit.types[t].owner].types)
    BY <2>1, Zenon DEF IsWit
  <2>3. \A t \in TypesOf(wit, v) :
          wit.types[t].owner \in Items /\ wit.items[wit.types[t].owner].interface =>
            wit.types[t].owner \in ItemsOf(wit, v)
    BY <2>1, Zenon DEF IsWit
  <2>4. TypesOf(wit, v) \subseteq Types
    BY <1>3, <1>9
  <2> QED BY <2>2, <2>3, <2>4 DEF Kind, Owner
<1>11. \A i \in ItemsOf(wit, v) :
         /\ Range(wit.items[i].types) \subseteq ts
         /\ \A f \in Range(wit.items[i].funcs) : Range(f.parts) \subseteq ts
  BY <1>1
<1> QED BY <1>2, <1>3, <1>9, <1>10, <1>11

Joins(q, s, t) == IsSeq(s) /\ IsSeq(t) /\ q = s \o t

LEMMA JoinedHas ==
  ASSUME NEW s, NEW t, NEW q, Joins(q, s, t)
  PROVE  /\ IsSeq(q)
         /\ \A k \in 1..Len(q) : (\E i \in 1..Len(s) : q[k] = s[i]) \/ \E i \in 1..Len(t) : q[k] = t[i]
         /\ \A i \in 1..Len(s) : \E k \in 1..Len(q) : q[k] = s[i]
         /\ \A i \in 1..Len(t) : \E k \in 1..Len(q) : q[k] = t[i]
<1>2. /\ IsSeq(q) /\ Len(q) = Len(s) + Len(t)
      /\ \A i \in 1..(Len(s) + Len(t)) : q[i] = IF i <= Len(s) THEN s[i] ELSE t[i - Len(s)]
  BY Joined DEF Joins
<1>3. Len(s) \in Nat /\ Len(t) \in Nat
  BY SeqIs DEF Joins
<1>4. ASSUME NEW k \in 1..Len(q)
      PROVE  (\E i \in 1..Len(s) : q[k] = s[i]) \/ \E i \in 1..Len(t) : q[k] = t[i]
  <2>1. CASE k <= Len(s)
    BY <1>2, <1>3, <2>1
  <2>2. CASE ~(k <= Len(s))
    <3>1. k - Len(s) \in 1..Len(t) /\ q[k] = t[k - Len(s)]
      BY <1>2, <1>3, <2>2
    <3> QED BY <3>1
  <2> QED BY <2>1, <2>2
<1>5. \A i \in 1..Len(s) : i \in 1..Len(q) /\ q[i] = s[i]
  BY <1>2, <1>3
<1>6. ASSUME NEW i \in 1..Len(t)
      PROVE  i + Len(s) \in 1..Len(q) /\ q[i + Len(s)] = t[i]
  <2>1. i + Len(s) \in 1..(Len(s) + Len(t)) /\ ~(i + Len(s) <= Len(s)) /\ (i + Len(s)) - Len(s) = i
    BY <1>3
  <2> QED BY <1>2, <2>1
<1> QED BY <1>2, <1>4, <1>5, <1>6

LEMMA ReplacedHas ==
  ASSUME NEW s, NEW p, NEW q, Replaces(q, s, p)
  PROVE  \A k \in 1..Len(q) : (\E i \in 1..Len(p) : q[k] = p[i]) \/ \E i \in 1..Len(s) : q[k] = s[i]
<1>1. /\ \A i \in 1..Len(p) : i \in 1..Len(q) /\ q[i] = p[i]
      /\ \A i \in 2..Len(s) : i + Len(p) - 1 \in 1..Len(q) /\ q[i + Len(p) - 1] = s[i]
      /\ \A k \in 1..Len(q) : k \in 1..Len(p) \/ \E i \in 2..Len(s) : k = i + Len(p) - 1
  BY Replaced
<1>2. \A k \in 2..Len(s) : k \in 1..Len(s)
  BY SeqIs DEF Replaces
<1> QED BY <1>1, <1>2

\* Which calls for items and types there are after some of them return.
LEMMA ReplacedIn ==
  ASSUME NEW s, NEW p, NEW q, Replaces(q, s, p)
  PROVE  /\ \A dir, i : ItemIn(p, dir, i) => ItemIn(q, dir, i)
         /\ \A dir, t : TypeIn(p, t, dir) => TypeIn(q, t, dir)
         /\ \A dir, i : ItemIn(s, dir, i) =>
              ItemIn(q, dir, i) \/ (s[1].do = "item" /\ s[1].dir = dir /\ s[1].item = i)
         /\ \A dir, t : TypeIn(s, t, dir) =>
              TypeIn(q, t, dir) \/ (s[1].do = "visit" /\ s[1].dir = dir /\ s[1].type = t)
<1>1. /\ \A k \in 1..Len(s) : k # 1 => \E j \in 1..Len(q) : q[j] = s[k]
      /\ \A k \in 1..Len(p) : \E j \in 1..Len(q) : q[j] = p[k]
  BY ReplacedKeeps
<1> QED BY <1>1 DEF ItemIn, TypeIn

LEMMA JoinedIn ==
  ASSUME NEW s, NEW t, NEW q, Joins(q, s, t)
  PROVE  /\ \A dir, i : ItemIn(s, dir, i) \/ ItemIn(t, dir, i) => ItemIn(q, dir, i)
         /\ \A dir, u : TypeIn(s, u, dir) \/ TypeIn(t, u, dir) => TypeIn(q, u, dir)
<1>1. /\ \A i \in 1..Len(s) : \E k \in 1..Len(q) : q[k] = s[i]
      /\ \A i \in 1..Len(t) : \E k \in 1..Len(q) : q[k] = t[i]
  BY JoinedHas
<1>2. ASSUME NEW dir, NEW i, ItemIn(s, dir, i) \/ ItemIn(t, dir, i)
      PROVE  ItemIn(q, dir, i)
  BY <1>1, <1>2 DEF ItemIn
<1>3. ASSUME NEW dir, NEW u, TypeIn(s, u, dir) \/ TypeIn(t, u, dir)
      PROVE  TypeIn(q, u, dir)
  BY <1>1, <1>3 DEF TypeIn
<1> QED BY <1>2, <1>3

LEMMA NothingIn ==
  /\ \A dir, i : ~ItemIn(<<>>, dir, i)
  /\ \A dir, t : ~TypeIn(<<>>, t, dir)
BY EmptyIsSeq DEF ItemIn, TypeIn

LEMMA BelongsMore ==
  ASSUME NEW w, NEW K, NEW L, NEW c, Belongs(w, K, c), \A v \in Range(w.all) : K[v] \subseteq L[v]
  PROVE  Belongs(w, L, c)
BY DEF Belongs

LEMMA ReplacedBelong ==
  ASSUME NEW w, NEW K, NEW L, NEW s, NEW p, NEW q, Replaces(q, s, p),
         \A k \in 1..Len(s) : Belongs(w, K, s[k]), \A v \in Range(w.all) : K[v] \subseteq L[v],
         \A k \in 1..Len(p) : Belongs(w, L, p[k])
  PROVE  \A k \in 1..Len(q) : Belongs(w, L, q[k])
<1>1. \A k \in 1..Len(q) : (\E i \in 1..Len(p) : q[k] = p[i]) \/ \E i \in 1..Len(s) : q[k] = s[i]
  BY ReplacedHas
<1>2. \A k \in 1..Len(s) : Belongs(w, L, s[k])
  BY BelongsMore
<1> QED BY <1>1, <1>2

LEMMA JoinedBelong ==
  ASSUME NEW w, NEW K, NEW s, NEW t, NEW q, Joins(q, s, t),
         \A k \in 1..Len(s) : Belongs(w, K, s[k]), \A k \in 1..Len(t) : Belongs(w, K, t[k])
  PROVE  \A k \in 1..Len(q) : Belongs(w, K, q[k])
<1>1. \A k \in 1..Len(q) : (\E i \in 1..Len(s) : q[k] = s[i]) \/ \E i \in 1..Len(t) : q[k] = t[i]
  BY JoinedHas
<1> QED BY <1>1

LEMMA JoinedRange ==
  ASSUME NEW s, NEW t, NEW q, Joins(q, s, t)
  PROVE  IsSeq(q) /\ Range(s) \subseteq Range(q)
<1>1. IsSeq(q) /\ \A i \in 1..Len(s) : \E k \in 1..Len(q) : q[k] = s[i]
  BY JoinedHas
<1>2. DOMAIN s = 1..Len(s) /\ DOMAIN q = 1..Len(q)
  BY <1>1, SeqIs DEF Joins
<1> QED BY <1>1, <1>2 DEF Range

LEMMA HeadOrTail ==
  ASSUME NEW S, NEW s \in Seq(S), s # <<>>
  PROVE  /\ Head(s) \in Range(s) /\ Range(Tail(s)) \subseteq Range(s)
         /\ \A x \in Range(s) : x = Head(s) \/ x \in Range(Tail(s))
<1>1. /\ Tail(s) \in Seq(S) /\ Len(Tail(s)) = Len(s) - 1
      /\ \A i \in 1..Len(Tail(s)) : Tail(s)[i] = s[i + 1]
  BY HeadTailProperties
<1>2. Len(s) \in Nat /\ Len(s) > 0 /\ DOMAIN s = 1..Len(s) /\ Head(s) = s[1]
  BY SeqIs DEF IsSeq
<1>3. DOMAIN Tail(s) = 1..Len(Tail(s))
  BY <1>1
<1>4. \A i \in 1..Len(Tail(s)) : i + 1 \in 1..Len(s)
  BY <1>1, <1>2
<1>5. \A i \in 1..Len(s) : i = 1 \/ (i - 1 \in 1..Len(Tail(s)) /\ (i - 1) + 1 = i)
  BY <1>1, <1>2
<1>6. Head(s) \in Range(s)
  BY <1>2 DEF Range
<1>7. Range(Tail(s)) \subseteq Range(s)
  BY <1>1, <1>2, <1>3, <1>4 DEF Range
<1>8. \A x \in Range(s) : x = Head(s) \/ x \in Range(Tail(s))
  <2> SUFFICES ASSUME NEW i \in 1..Len(s), i # 1 PROVE s[i] \in Range(Tail(s))
    BY <1>2 DEF Range
  <2>1. i - 1 \in 1..Len(Tail(s)) /\ Tail(s)[i - 1] = s[i]
    BY <1>1, <1>5
  <2> QED BY <1>3, <2>1 DEF Range
<1> QED BY <1>6, <1>7, <1>8

-----------------------------------------------------------------------------
(* Visiting finds what the worlds have.                                    *)

Known == Within /\ Found

\* What a visiting step must show of the calls that it makes.
LEMMA KnownCalls ==
  ASSUME NEW p, Within, stage = "visit", Replaces(calls', calls, p), UNCHANGED <<wit, stage, todo>>,
         \A v \in Range(wit.all) : worldKeys[v] \subseteq worldKeys'[v],
         \A k \in 1..Len(p) : Belongs(wit, worldKeys', p[k])
  PROVE  stage' = "visit" => Range(todo') \subseteq Range(wit'.all)
                             /\ \A k \in 1..Len(calls') : Belongs(wit', worldKeys', calls'[k])
<1>1. Range(todo) \subseteq Range(wit.all) /\ \A k \in 1..Len(calls) : Belongs(wit, worldKeys, calls[k])
  BY DEF Within
<1>2. \A k \in 1..Len(calls') : Belongs(wit, worldKeys', calls'[k])
  BY <1>1, ReplacedBelong
<1> QED BY <1>1, <1>2

LEMMA VisitWorldKnown ==
  ASSUME Inv, Known, VisitWorld
  PROVE  Known'
<1>1. /\ TypeOK /\ Within /\ Found /\ stage = "visit" /\ calls = <<>> /\ todo \in Seq(Worlds) /\ todo # <<>>
      /\ UNCHANGED <<wit, stage, worldTypes, worldKeys, visited, info, functions>>
      /\ todo' = Tail(todo)
  BY DEF Inv, TypeOK, Known, VisitWorld
<1>2. PICK v : v = Head(todo)
  OBVIOUS
<1>3. PICK a : a = VisitItems(v, "import")
  OBVIOUS
<1>4. PICK b : b = VisitItems(v, "export")
  OBVIOUS
<1>5. calls' = a \o b
  BY <1>2, <1>3, <1>4 DEF VisitWorld
<1>6. /\ v \in Range(todo) /\ Range(todo') \subseteq Range(todo)
      /\ \A u \in Range(todo) : u = v \/ u \in Range(todo')
  BY <1>1, <1>2, HeadOrTail
<1>7. v \in Range(wit.all) /\ v \in Worlds
  BY <1>1, <1>6, WorldHas DEF Within
<1>8. /\ IsSeq(a)
      /\ \A k \in 1..Len(a) : /\ a[k].do = "item" /\ a[k].dir = "import" /\ a[k].world = v
                              /\ a[k].item \in Range(wit.worlds[v]["import"])
      /\ \A i \in Range(wit.worlds[v]["import"]) : ItemIn(a, "import", i)
  BY <1>1, <1>3, <1>7, ItemsAreCalls DEF CallsOK, Dirs
<1>9. /\ IsSeq(b)
      /\ \A k \in 1..Len(b) : /\ b[k].do = "item" /\ b[k].dir = "export" /\ b[k].world = v
                              /\ b[k].item \in Range(wit.worlds[v]["export"])
      /\ \A i \in Range(wit.worlds[v]["export"]) : ItemIn(b, "export", i)
  BY <1>1, <1>4, <1>7, ItemsAreCalls DEF CallsOK, Dirs
<1>10. Joins(calls', a, b)
  BY <1>5, <1>8, <1>9 DEF Joins
<1>11. /\ \A k \in 1..Len(a) : Belongs(wit, worldKeys, a[k])
       /\ \A k \in 1..Len(b) : Belongs(wit, worldKeys, b[k])
  BY <1>7, <1>8, <1>9 DEF Belongs
<1>12. \A k \in 1..Len(calls') : Belongs(wit, worldKeys, calls'[k])
  BY <1>10, <1>11, JoinedBelong
<1>13. Within'
  BY <1>1, <1>6, <1>12 DEF Within
<1>14. \A dir \in Dirs : \A i \in Range(wit.worlds[v][dir]) : ItemIn(calls', dir, i)
  <2>1. \A dir, i : ItemIn(a, dir, i) \/ ItemIn(b, dir, i) => ItemIn(calls', dir, i)
    BY <1>10, JoinedIn
  <2>2. \A i \in Range(wit.worlds[v]["import"]) : ItemIn(calls', "import", i)
    BY <1>8, <2>1
  <2>3. \A i \in Range(wit.worlds[v]["export"]) : ItemIn(calls', "export", i)
    BY <1>9, <2>1
  <2> QED BY <2>2, <2>3 DEF Dirs
<1>15. Told' = Told /\ \A t : Mentioned(t)' = Mentioned(t)
  BY <1>1 DEF Told, Kind, Mentioned
<1>16. /\ \A dir, i : ~ItemIn(calls, dir, i)
       /\ \A dir, t : ~TypeIn(calls, t, dir)
  BY <1>1, NothingIn
<1>17. \A u \in Range(wit.all), dir \in Dirs : \A i \in Range(wit.worlds[u][dir]) :
         <<dir, i>> \in visited \/ u \in Range(todo') \/ ItemIn(calls', dir, i)
  BY <1>1, <1>6, <1>14, <1>16 DEF Found
<1>18. \A dir \in Dirs, i \in Items : <<dir, i>> \in visited /\ wit.items[i].interface =>
         \A t \in Range(wit.items[i].types) : <<t, dir>> \in Told /\ Mentioned(t)
  BY <1>1, <1>16 DEF Found
<1>19. Found'
  BY <1>1, <1>15, <1>17, <1>18 DEF Found
<1> QED BY <1>13, <1>19 DEF Known

LEMMA VisitItemKnown ==
  ASSUME Inv, Known, VisitItem
  PROVE  Known'
<1>1. /\ TypeOK /\ Within /\ Found /\ stage = "visit" /\ calls # <<>>
      /\ UNCHANGED <<wit, stage, todo, types, order, worldTypes, info, functions>>
  BY DEF Inv, Known, VisitItem
<1>2. PICK n : n = Head(calls)
  OBVIOUS
<1>3. /\ IsSeq(calls) /\ 1 \in 1..Len(calls) /\ n = calls[1] /\ n.do = "item"
      /\ n.item \in Items /\ n.dir \in Dirs /\ n.world \in Worlds
  <2>1. n.do = "item"
    BY <1>2 DEF VisitItem
  <2> QED BY <1>1, <1>2, <2>1, FirstCall DEF TypeOK, VisitCall
<1>4. PICK item : item = wit.items[n.item]
  OBVIOUS
<1>5. PICK dir : dir = IF item.interface THEN n.dir ELSE "none"
  OBVIOUS
<1>6. PICK a : a = VisitTypes(item.types, dir, n.world)
  OBVIOUS
<1>7. PICK b : b = VisitFunctions(n.item, n.dir, n.world)
  OBVIOUS
<1>8. PICK p : /\ p = IF <<n.dir, n.item>> \in visited THEN <<>> ELSE a \o b
               /\ calls' = p \o Tail(calls)
  BY <1>2, <1>4, <1>5, <1>6, <1>7 DEF VisitItem
<1>9. /\ worldKeys' = [worldKeys EXCEPT ![n.world] = @ \cup {<<n.dir, n.item>>}]
      /\ visited' = visited \cup {<<n.dir, n.item>>}
  BY <1>2 DEF VisitItem, Noted
<1>10. item.types \in Seq(Types)
  BY <1>1, <1>3, <1>4, WitIs
<1>11. n.world \in Range(wit.all) /\ n.item \in Range(wit.worlds[n.world][n.dir])
  <2>1. Belongs(wit, worldKeys, calls[1])
    BY <1>1, <1>3 DEF Within
  <2> QED BY <1>3, <2>1 DEF Belongs
<1>12. n.world \in AllWorlds /\ Range(item.types) \subseteq TypesOf(wit, n.world)
  <2>1. n.world \in AllWorlds /\ n.item \in ItemsOf(wit, n.world)
    BY <1>1, <1>3, <1>11, WorldHas
  <2> QED BY <1>1, <1>4, <1>11, <2>1, WorldTypes
<1>13. /\ worldKeys' \in [AllWorlds -> SUBSET (Dirs \X Items)]
       /\ \A v \in AllWorlds : worldKeys[v] \subseteq worldKeys'[v]
       /\ \A v \in AllWorlds : worldKeys'[v] \subseteq worldKeys[v] \cup {<<n.dir, n.item>>}
       /\ <<n.dir, n.item>> \in worldKeys'[n.world]
       /\ \A v \in AllWorlds : v # n.world => worldKeys'[v] = worldKeys[v]
  <2>1. worldKeys \in [AllWorlds -> SUBSET (Dirs \X Items)] /\ <<n.dir, n.item>> \in Dirs \X Items
    BY <1>1, <1>3 DEF Within
  <2> QED BY <1>9, <1>12, <2>1
<1>14. /\ IsSeq(a)
       /\ \A k \in 1..Len(a) : a[k].do = "visit" /\ a[k].world = n.world /\ a[k].type \in Range(item.types)
       /\ \A t \in Range(item.types) : TypeIn(a, t, dir)
  BY <1>6, <1>10, TypesAreVisited
<1>15. /\ IsSeq(b)
       /\ \A k \in 1..Len(b) : /\ b[k].do = "function" /\ b[k].world = n.world
                               /\ b[k].func.dir = n.dir /\ b[k].func.item = n.item
  BY <1>1, <1>3, <1>7, FunctionsAreCalls DEF CallsOK
<1>16. /\ IsSeq(p) /\ \A k \in 1..Len(p) : Belongs(wit, worldKeys', p[k])
       /\ <<n.dir, n.item>> \notin visited => \A t \in Range(item.types) : TypeIn(p, t, dir)
  <2>1. CASE <<n.dir, n.item>> \in visited
    <3>1. p = <<>> /\ Len(p) = 0 /\ IsSeq(p)
      BY <1>8, <2>1, EmptyIsSeq
    <3> QED BY <2>1, <3>1
  <2>2. CASE <<n.dir, n.item>> \notin visited
    <3>1. Joins(p, a, b)
      BY <1>8, <1>14, <1>15, <2>2 DEF Joins
    <3>2. \A k \in 1..Len(a) : Belongs(wit, worldKeys', a[k])
      BY <1>11, <1>12, <1>14 DEF Belongs
    <3>3. \A k \in 1..Len(b) : Belongs(wit, worldKeys', b[k])
      BY <1>11, <1>13, <1>15 DEF Belongs
    <3>4. \A k \in 1..Len(p) : Belongs(wit, worldKeys', p[k])
      BY <3>1, <3>2, <3>3, JoinedBelong
    <3>5. \A t \in Range(item.types) : TypeIn(p, t, dir)
      BY <1>14, <3>1, JoinedIn
    <3>6. IsSeq(p)
      BY <3>1, JoinedHas
    <3> QED BY <3>4, <3>5, <3>6
  <2> QED BY <2>1, <2>2
<1>17. Replaces(calls', calls, p)
  BY <1>1, <1>3, <1>8, <1>16 DEF Replaces
<1>18. \A v \in Range(wit.all) : v \in Worlds /\ v \in AllWorlds
  BY <1>1, WorldHas
<1>19. Within'
  <2>1. stage' = "visit" => Range(todo') \subseteq Range(wit'.all)
                            /\ \A k \in 1..Len(calls') : Belongs(wit', worldKeys', calls'[k])
    BY <1>1, <1>13, <1>16, <1>17, <1>18, KnownCalls
  <2>2. \A v \in AllWorlds : worldKeys'[v] \subseteq visited'
    BY <1>1, <1>9, <1>13 DEF Within
  <2>3. ASSUME NEW v \in Worlds, NEW d \in Dirs, NEW i \in Items, <<d, i>> \in worldKeys'[v]
        PROVE  i \in Range(wit.worlds[v][d])
    <3>1. v \in AllWorlds
      BY DEF AllWorlds
    <3>2. <<d, i>> \in worldKeys[v] \/ (v = n.world /\ d = n.dir /\ i = n.item)
      BY <1>13, <2>3, <3>1
    <3> QED BY <1>1, <1>11, <3>2 DEF Within
  <2>4. \A k \in 1..Len(functions) : \E v \in Range(wit.all) :
          <<functions[k].dir, functions[k].item>> \in worldKeys'[v]
    BY <1>1, <1>13, <1>18 DEF Within
  <2>5. \A v \in Range(wit.all) : worldTypes[v] \subseteq TypesOf(wit, v)
    BY <1>1 DEF Within
  <2> QED BY <1>1, <1>13, <2>1, <2>2, <2>3, <2>4, <2>5 DEF Within
<1>20. Told' = Told /\ \A t : Mentioned(t)' = Mentioned(t)
  BY <1>1 DEF Told, Kind, Mentioned
<1>21. /\ \A d, i : ItemIn(calls, d, i) => ItemIn(calls', d, i) \/ (d = n.dir /\ i = n.item)
       /\ \A d, t : TypeIn(calls, t, d) => TypeIn(calls', t, d)
       /\ \A d, t : TypeIn(p, t, d) => TypeIn(calls', t, d)
  BY <1>3, <1>17, ReplacedIn
<1>22. \A u \in Range(wit.all), d \in Dirs : \A i \in Range(wit.worlds[u][d]) :
         <<d, i>> \in visited' \/ u \in Range(todo) \/ ItemIn(calls', d, i)
  BY <1>1, <1>9, <1>21 DEF Found
<1>23. ASSUME NEW d \in Dirs, NEW i \in Items, <<d, i>> \in visited', wit.items[i].interface,
              NEW t \in Range(wit.items[i].types)
       PROVE  (<<t, d>> \in Told /\ Mentioned(t)) \/ TypeIn(calls', t, d)
  <2>1. CASE <<d, i>> \in visited
    BY <1>1, <1>21, <1>23, <2>1 DEF Found
  <2>2. CASE <<d, i>> \notin visited
    <3>1. d = n.dir /\ i = n.item /\ <<n.dir, n.item>> \notin visited
      BY <1>9, <1>23, <2>2
    <3>2. dir = d /\ t \in Range(item.types)
      BY <1>4, <1>5, <1>23, <3>1
    <3> QED BY <1>16, <1>21, <3>1, <3>2
  <2> QED BY <2>1, <2>2
<1>24. Found'
  BY <1>1, <1>20, <1>22, <1>23 DEF Found
<1> QED BY <1>19, <1>24 DEF Known

LEMMA AddedFunction ==
  ASSUME TypeOK, NEW f, functions' = Append(functions, f)
  PROVE  /\ IsSeq(functions') /\ Len(functions') = Len(functions) + 1 /\ functions'[Len(functions) + 1] = f
         /\ \A k \in 1..Len(functions) : functions'[k] = functions[k]
         /\ Len(functions) \in Nat
<1>1. PICK S : functions \in Seq(S)
  BY DEF TypeOK, FunctionsOK, IsSeq
<1>2. S \subseteq S \cup {f}
  OBVIOUS
<1>3. functions \in Seq(S \cup {f})
  BY <1>1, <1>2, SeqMonotonic
<1>4. functions' \in Seq(S \cup {f})
  BY <1>3
<1> QED BY <1>3, <1>4 DEF IsSeq

LEMMA VisitFunctionKnown ==
  ASSUME Inv, Known, VisitFunction
  PROVE  Known'
<1>1. /\ TypeOK /\ Within /\ Found /\ stage = "visit" /\ calls # <<>>
      /\ UNCHANGED <<wit, stage, todo, types, order, worldTypes, worldKeys, visited, info>>
  BY DEF Inv, Known, VisitFunction
<1>2. PICK n : n = Head(calls) /\ n.do = "function"
  BY DEF VisitFunction
<1>3. PICK f : f = n.func
  OBVIOUS
<1>4. PICK p : /\ p = VisitTypes(f.func.parts, "none", n.world)
               /\ calls' = p \o Tail(calls) /\ functions' = Append(functions, f)
  BY <1>2, <1>3 DEF VisitFunction
<1>5. /\ IsSeq(calls) /\ 1 \in 1..Len(calls) /\ n = calls[1] /\ IsFunc(f) /\ n.world \in Worlds
  BY <1>1, <1>2, <1>3, FirstCall DEF TypeOK, VisitCall
<1>6. f.func.parts \in Seq(Types)
  BY <1>1, <1>5, FuncIs
<1>7. n.world \in Range(wit.all) /\ <<f.dir, f.item>> \in worldKeys[n.world]
  <2>1. Belongs(wit, worldKeys, calls[1])
    BY <1>1, <1>5 DEF Within
  <2> QED BY <1>2, <1>3, <1>5, <2>1 DEF Belongs
<1>8. Range(f.func.parts) \subseteq TypesOf(wit, n.world)
  <2>1. f.dir \in Dirs /\ f.item \in Items /\ f.func \in Range(wit.items[f.item].funcs)
    BY <1>5 DEF IsFunc
  <2>2. f.item \in Range(wit.worlds[n.world][f.dir])
    BY <1>1, <1>5, <1>7, <2>1 DEF Within
  <2>3. f.item \in ItemsOf(wit, n.world)
    BY <1>1, <1>7, <2>1, <2>2, WorldHas
  <2> QED BY <1>1, <1>7, <2>1, <2>3, WorldTypes
<1>9. IsSeq(p) /\ \A k \in 1..Len(p) : /\ p[k].do = "visit" /\ p[k].world = n.world
                                       /\ p[k].type \in Range(f.func.parts)
  BY <1>4, <1>6, TypesAreVisited
<1>10. \A k \in 1..Len(p) : Belongs(wit, worldKeys', p[k])
  BY <1>7, <1>8, <1>9 DEF Belongs
<1>11. Replaces(calls', calls, p)
  BY <1>1, <1>4, <1>5, <1>9 DEF Replaces
<1>12. /\ Len(functions') = Len(functions) + 1 /\ functions'[Len(functions) + 1] = f
       /\ \A k \in 1..Len(functions) : functions'[k] = functions[k]
       /\ Len(functions) \in Nat
  BY <1>1, <1>4, AddedFunction
<1>13. Within'
  <2>1. stage' = "visit" => Range(todo') \subseteq Range(wit'.all)
                            /\ \A k \in 1..Len(calls') : Belongs(wit', worldKeys', calls'[k])
    BY <1>1, <1>10, <1>11, KnownCalls
  <2>2. \A k \in 1..Len(functions') : \E v \in Range(wit.all) :
          <<functions'[k].dir, functions'[k].item>> \in worldKeys[v]
    <3>1. \A k \in 1..Len(functions') : k \in 1..Len(functions) \/ k = Len(functions) + 1
      BY <1>12
    <3> QED BY <1>1, <1>7, <1>12, <3>1 DEF Within
  <2> QED BY <1>1, <2>1, <2>2 DEF Within
<1>14. Told' = Told /\ \A t : Mentioned(t)' = Mentioned(t)
  BY <1>1 DEF Told, Kind, Mentioned
<1>15. /\ \A d, i : ItemIn(calls, d, i) => ItemIn(calls', d, i)
       /\ \A d, t : TypeIn(calls, t, d) => TypeIn(calls', t, d)
  BY <1>2, <1>5, <1>11, ReplacedIn
<1>16. Found'
  BY <1>1, <1>14, <1>15 DEF Found
<1> QED BY <1>13, <1>16 DEF Known

LEMMA VisitTypeKnown ==
  ASSUME Inv, Known, VisitType
  PROVE  Known'
<1>1. /\ TypeOK /\ Within /\ Found /\ stage = "visit" /\ calls # <<>>
      /\ UNCHANGED <<wit, stage, todo, types, order, worldKeys, visited, functions>>
  BY DEF Inv, Known, VisitType
<1>2. PICK n : n = Head(calls) /\ n.do = "visit"
  BY DEF VisitType
<1>3. PICK t : t = n.type
  OBVIOUS
<1>4. PICK parts : parts = IF Kind(t) = "handle" THEN <<>> ELSE Parts(t)
  OBVIOUS
<1>5. PICK dir : dir = IF Kind(t) = "alias" THEN "none" ELSE n.dir
  OBVIOUS
<1>6. PICK a : a = VisitTypes(parts, dir, n.world)
  OBVIOUS
<1>7. PICK e : e = [do |-> "visited", type |-> t]
  OBVIOUS
<1>8. PICK o : o = <<e>>
  OBVIOUS
<1>9. PICK p : p = a \o o
  OBVIOUS
<1>10. /\ worldTypes' = [worldTypes EXCEPT ![n.world] = @ \cup {t}]
       /\ info' = [info EXCEPT ![t] = IF Kind(t) # "resource" THEN @
                                         ELSE CASE n.dir = "import" -> @ \cup {"remote"}
                                                [] n.dir = "export" -> @ \cup {"local"}
                                                [] OTHER -> @]
       /\ calls' = p \o Tail(calls)
  BY <1>2, <1>3, <1>4, <1>5, <1>6, <1>7, <1>8, <1>9, Zenon DEF VisitType
<1>11. /\ IsSeq(calls) /\ 1 \in 1..Len(calls) /\ n = calls[1]
       /\ t \in Types /\ n.dir \in Dirs \cup {"none"} /\ n.world \in Worlds
  BY <1>1, <1>2, <1>3, FirstCall DEF TypeOK, VisitCall
<1>12. n.world \in Range(wit.all) /\ t \in TypesOf(wit, n.world) /\ n.world \in AllWorlds
  <2>1. Belongs(wit, worldKeys, calls[1])
    BY <1>1, <1>11 DEF Within
  <2>2. n.world \in Range(wit.all) /\ t \in TypesOf(wit, n.world)
    BY <1>2, <1>3, <1>11, <2>1 DEF Belongs
  <2> QED BY <1>1, <2>2, WorldHas
<1>13. parts \in Seq(Types) /\ Range(parts) \subseteq TypesOf(wit, n.world)
  <2>1. CASE Kind(t) = "handle"
    <3>1. parts = <<>>
      BY <1>4, <2>1
    <3> QED BY <3>1 DEF Range
  <2>2. CASE Kind(t) # "handle"
    BY <1>1, <1>4, <1>11, <1>12, <2>2, WitIs, WorldTypes
  <2> QED BY <2>1, <2>2
<1>14. IsSeq(a) /\ \A k \in 1..Len(a) : a[k].do = "visit" /\ a[k].world = n.world /\ a[k].type \in Range(parts)
  BY <1>6, <1>13, TypesAreVisited
<1>15. IsSeq(o) /\ \A k \in 1..Len(o) : o[k].do = "visited"
  BY <1>7, <1>8, OneIsSeq
<1>16. Joins(p, a, o)
  BY <1>9, <1>14, <1>15 DEF Joins
<1>17. IsSeq(p) /\ \A k \in 1..Len(p) : Belongs(wit, worldKeys', p[k])
  <2>1. \A k \in 1..Len(a) : Belongs(wit, worldKeys', a[k])
    BY <1>12, <1>13, <1>14 DEF Belongs
  <2>2. \A k \in 1..Len(o) : Belongs(wit, worldKeys', o[k])
    BY <1>15 DEF Belongs
  <2>3. \A k \in 1..Len(p) : Belongs(wit, worldKeys', p[k])
    BY <1>16, <2>1, <2>2, JoinedBelong
  <2>4. IsSeq(p)
    BY <1>16, JoinedHas
  <2> QED BY <2>3, <2>4
<1>18. Replaces(calls', calls, p)
  BY <1>1, <1>10, <1>11, <1>17 DEF Replaces
<1>19. /\ \A v \in AllWorlds : worldTypes[v] \subseteq worldTypes'[v]
       /\ \A v \in AllWorlds : v # n.world => worldTypes'[v] = worldTypes[v]
       /\ worldTypes'[n.world] = worldTypes[n.world] \cup {t}
  BY <1>1, <1>10, <1>12 DEF TypeOK
<1>20. \A v \in Range(wit.all) : v \in Worlds /\ v \in AllWorlds
  BY <1>1, WorldHas
<1>21. Within'
  <2>1. stage' = "visit" => Range(todo') \subseteq Range(wit'.all)
                            /\ \A k \in 1..Len(calls') : Belongs(wit', worldKeys', calls'[k])
    BY <1>1, <1>17, <1>18, KnownCalls
  <2>2. \A v \in Range(wit.all) : worldTypes'[v] \subseteq TypesOf(wit, v)
    BY <1>1, <1>12, <1>19, <1>20 DEF Within
  <2> QED BY <1>1, <2>1, <2>2 DEF Within
<1>22. /\ Told \subseteq Told' /\ <<t, n.dir>> \in Told'
       /\ \A u : Mentioned(u) => Mentioned(u)'
       /\ Mentioned(t)'
  <2>1. Told \subseteq Told' /\ <<t, n.dir>> \in Told'
    BY <1>1, <1>10, <1>11, ToldMore
  <2>2. \A u : Mentioned(u) => Mentioned(u)'
    BY <1>1, <1>19, <1>20 DEF Mentioned
  <2>3. Mentioned(t)'
    BY <1>1, <1>12, <1>19 DEF Mentioned
  <2> QED BY <2>1, <2>2, <2>3
<1>23. /\ \A d, i : ItemIn(calls, d, i) => ItemIn(calls', d, i)
       /\ \A d, u : TypeIn(calls, u, d) => TypeIn(calls', u, d) \/ (d = n.dir /\ u = t)
  BY <1>2, <1>3, <1>11, <1>18, ReplacedIn
<1>24. ASSUME NEW d \in Dirs, NEW i \in Items, <<d, i>> \in visited, wit.items[i].interface,
              NEW u \in Range(wit.items[i].types)
       PROVE  (<<u, d>> \in Told' /\ Mentioned(u)') \/ TypeIn(calls', u, d)
  <2>1. (<<u, d>> \in Told /\ Mentioned(u)) \/ TypeIn(calls, u, d)
    BY <1>1, <1>24 DEF Found
  <2> QED BY <1>22, <1>23, <2>1
<1>25. Found'
  BY <1>1, <1>23, <1>24 DEF Found
<1> QED BY <1>21, <1>25 DEF Known

LEMMA VisitedTypeKnown ==
  ASSUME Inv, Known, VisitedType
  PROVE  Known'
<1>1. /\ TypeOK /\ Within /\ Found /\ stage = "visit" /\ calls # <<>>
      /\ UNCHANGED <<wit, stage, todo, order, worldTypes, worldKeys, visited, info, functions>>
      /\ calls' = Tail(calls)
  BY DEF Inv, Known, VisitedType
<1>2. IsSeq(calls) /\ calls[1].do = "visited"
  <2>1. Head(calls).do = "visited"
    BY DEF VisitedType
  <2> QED BY <1>1, <2>1, FirstCall DEF TypeOK
<1>3. Replaces(calls', calls, <<>>)
  BY <1>1, RestReplaces DEF TypeOK
<1>4. \A k \in 1..Len(<<>>) : Belongs(wit, worldKeys', <<>>[k])
  BY EmptyIsSeq
<1>5. Within'
  <2>1. stage' = "visit" => Range(todo') \subseteq Range(wit'.all)
                            /\ \A k \in 1..Len(calls') : Belongs(wit', worldKeys', calls'[k])
    BY <1>1, <1>3, <1>4, KnownCalls
  <2> QED BY <1>1, <2>1 DEF Within
<1>6. Told' = Told /\ \A t : Mentioned(t)' = Mentioned(t)
  BY <1>1 DEF Told, Kind, Mentioned
<1>7. /\ \A d, i : ItemIn(calls, d, i) => ItemIn(calls', d, i)
      /\ \A d, t : TypeIn(calls, t, d) => TypeIn(calls', t, d)
  BY <1>2, <1>3, ReplacedIn
<1>8. Found'
  BY <1>1, <1>6, <1>7 DEF Found
<1> QED BY <1>5, <1>8 DEF Known

\* When there is no more to visit, all of it is found.
LEMMA StartSortKnown ==
  ASSUME Known, StartSort
  PROVE  Known'
<1>1. /\ Within /\ Found /\ stage' = "sort" /\ calls = <<>> /\ todo = <<>>
      /\ UNCHANGED <<wit, worldTypes, worldKeys, visited, info, functions>>
  BY DEF Known, StartSort
<1>2. Told' = Told /\ \A t : Mentioned(t)' = Mentioned(t)
  BY <1>1 DEF Told, Kind, Mentioned
<1>3. /\ \A d, i : ~ItemIn(calls, d, i)
      /\ \A d, t : ~TypeIn(calls, t, d)
      /\ Range(todo) = {}
  <2>1. Range(<<>>) = {}
    BY DEF Range
  <2> QED BY <1>1, <2>1, NothingIn
<1>4. Within'
  BY <1>1 DEF Within
<1>5. Found'
  BY <1>1, <1>2, <1>3 DEF Found
<1> QED BY <1>4, <1>5 DEF Known

LEMMA OtherKnown ==
  ASSUME Known, stage # "visit", stage' # "visit",
         UNCHANGED <<wit, worldTypes, worldKeys, visited, info, functions>>
  PROVE  Known'
<1>1. Told' = Told /\ \A t : Mentioned(t)' = Mentioned(t)
  BY DEF Told, Kind, Mentioned
<1>2. Within'
  BY DEF Known, Within
<1>3. Found'
  BY <1>1 DEF Known, Found
<1> QED BY <1>2, <1>3 DEF Known

LEMMA RestKnown ==
  ASSUME Known, UNCHANGED vars
  PROVE  Known'
<1>1. UNCHANGED <<wit, stage, todo, calls, worldTypes, worldKeys, visited, info, functions>>
  BY DEF vars
<1>2. Told' = Told /\ \A t : Mentioned(t)' = Mentioned(t)
  BY <1>1 DEF Told, Kind, Mentioned
<1>3. Within'
  BY <1>1 DEF Known, Within
<1>4. Found'
  BY <1>1, <1>2 DEF Known, Found
<1> QED BY <1>3, <1>4 DEF Known

LEMMA InitKnown ==
  ASSUME Inv, Init
  PROVE  Known
<1>1. /\ wit \in Wits /\ stage = "visit" /\ todo = wit.all /\ calls = <<>> /\ functions = <<>> /\ visited = {}
      /\ worldTypes = [v \in AllWorlds |-> {}] /\ worldKeys = [v \in AllWorlds |-> {}]
  BY DEF Init, AllWorlds
<1>2. Len(functions) = 0 /\ Len(calls) = 0
  BY <1>1, EmptyIsSeq
<1>3. \A v \in Range(wit.all) : v \in Worlds /\ v \in AllWorlds
  BY WorldHas DEF Inv
<1>4. Within
  BY <1>1, <1>2, <1>3 DEF Within, AllWorlds
<1>5. Found
  BY <1>1 DEF Found
<1> QED BY <1>4, <1>5 DEF Known

-----------------------------------------------------------------------------
(* What the modules have.                                                  *)

\* A method of the protocol of a world or an interface, and where it is.
Shown(f) == f.dir = "export" /\ f.func.res = NoType
ShownFile(f) == IF wit.items[f.item].interface THEN <<"exports">> ELSE <<"init">>

\* The methods of the one protocol that the functions of a world have.
WorldProtocol(v, f) ==
  Shown(f) /\ ~wit.items[f.item].interface /\ <<"export", f.item>> \in worldKeys[v]

HasClasses ==
  \A t \in DOMAIN locations :
    /\ NeedsLocation(t) => Defines(locations[t], SymbolFile(t), <<t, "">>, Class) \in files
    /\ \A k \in 1..Len(functions) : functions[k].dir = "export" /\ functions[k].func.res = t =>
         \A name \in Method(t, functions[k].func) :
           Defines(locations[t], <<"export", functions[k].item>>, name, Class) \in files

HasProtocols ==
  /\ \A k \in 1..Len(functions) : Shown(functions[k]) /\ functions[k].item \in DOMAIN keys =>
       \A name \in Method(functions[k].item, functions[k].func) :
         Defines(keys[functions[k].item], ShownFile(functions[k]), name, Class) \in files
  /\ \A v \in Range(wit.all) : \A j, k \in 1..Len(functions) :
       WorldProtocol(v, functions[j]) /\ WorldProtocol(v, functions[k]) =>
         (functions[j].item \in DOMAIN keys => functions[k].item \in DOMAIN keys)

\* A module is still to be made, or has all of its world.
Made(m) ==
  /\ \A t \in Range(types) : t \in worldTypes[WorldOf(m)] => t \in DOMAIN locations
  /\ \A k \in 1..Len(functions) :
       Shown(functions[k]) /\ <<"export", functions[k].item>> \in worldKeys[WorldOf(m)] =>
         functions[k].item \in DOMAIN keys

Generated ==
  /\ \A v \in Worlds : \A t \in worldTypes[v] : NeedsLocation(t) => t \in Range(types)
  /\ todo \in Seq(Range(wit.modules)) /\ IsSeq(left) /\ (stage = "collect" => todo = <<>>)
  /\ \A m \in Range(wit.modules) : m \in Range(todo) \/ Made(m)
  /\ left # <<>> => todo # <<>> /\ \A t \in Range(types) :
       t \in worldTypes[WorldOf(Head(todo))] => t \in Range(left) \/ t \in DOMAIN locations
  /\ HasClasses /\ HasProtocols

Symbolic ==
  /\ Inv /\ Known /\ ModulesAreSeparate(wit)
  /\ stage \in {"visit", "sort"} => left = <<>> /\ locations = <<>> /\ keys = <<>>
  /\ stage \in {"sorted", "generate", "collect"} => Generated
  /\ SymbolsResolve

\* The file in which a class is looked for is one of those that it is placed in.
LEMMA Sided ==
  ASSUME TypeOK, Known, stage # "visit", NEW t \in Types, Kind(t) = "resource", Mentioned(t)
  PROVE  InInterface(t) /\ IF Imported(Owner(t)) THEN "remote" \in info[t] ELSE "local" \in info[t]
<1>1. PICK v \in Range(wit.all) : t \in worldTypes[v]
  BY DEF Mentioned
<1>2. t \in TypesOf(wit, v)
  BY <1>1 DEF Known, Within
<1>3. PICK i : i = Owner(t)
  OBVIOUS
<1>4. i \in Items /\ wit.items[i].interface /\ t \in Range(wit.items[i].types) /\ i \in ItemsOf(wit, v)
  BY <1>2, <1>3, WorldTypes
<1>5. \A dir \in Dirs : <<dir, i>> \in visited => Where(dir) \in info[t]
  <2> SUFFICES ASSUME NEW dir \in Dirs, <<dir, i>> \in visited PROVE Where(dir) \in info[t]
    OBVIOUS
  <2>1. <<t, dir>> \in Told
    BY <1>4 DEF Known, Found
  <2> QED BY <2>1, ToldIs
<1>6. PICK dir \in Dirs : i \in Range(wit.worlds[v][dir])
  BY <1>4, WorldHas
<1>7. <<dir, i>> \in visited
  BY <1>6 DEF Known, Found
<1>8. InInterface(t)
  BY <1>3, <1>4 DEF InInterface
<1>9. CASE Imported(i)
  <2>1. <<"import", i>> \in visited /\ "import" \in Dirs /\ Where("import") = "remote"
    BY <1>9 DEF Imported, Dirs, Where
  <2> QED BY <1>3, <1>5, <1>8, <1>9, <2>1
<1>10. CASE ~Imported(i)
  <2>1. dir = "export" /\ Where(dir) = "local"
    BY <1>7, <1>10 DEF Imported, Dirs, Where
  <2> QED BY <1>3, <1>5, <1>7, <1>8, <1>10, <2>1
<1> QED BY <1>9, <1>10

LEMMA Placing ==
  ASSUME TypeOK, Known, stage # "visit", NEW t \in Types, Mentioned(t)
  PROVE  SymbolFile(t) \in Placed(t)
<1>1. CASE ~InInterface(t)
  <2>1. Kind(t) # "resource"
    BY <1>1, Sided
  <2>2. "export" \in Sides(t)
    BY <2>1 DEF Sides
  <2> QED BY <1>1, <2>2 DEF SymbolFile, Placed
<1>2. CASE InInterface(t)
  <2>1. PICK side : side = IF Imported(Owner(t)) THEN "import" ELSE "export"
    OBVIOUS
  <2>2. SymbolFile(t) = <<side, Owner(t)>>
    BY <1>2, <2>1 DEF SymbolFile
  <2>3. side \in Sides(t)
    <3>1. CASE Kind(t) # "resource"
      BY <2>1, <3>1 DEF Sides
    <3>2. CASE Kind(t) = "resource"
      <4>1. Sides(t) = {IF s = "remote" THEN "import" ELSE "export" : s \in info[t]}
        BY <3>2 DEF Sides
      <4>2. IF Imported(Owner(t)) THEN "remote" \in info[t] ELSE "local" \in info[t]
        BY <3>2, Sided
      <4> QED BY <2>1, <4>1, <4>2
    <3> QED BY <3>1, <3>2
  <2>4. Placed(t) = IF Separate(t) THEN {<<s, Owner(t)>> : s \in Sides(t)} ELSE {<<side, Owner(t)>>}
    BY <1>2, <2>1 DEF Placed
  <2> QED BY <2>2, <2>3, <2>4
<1> QED BY <1>1, <1>2

\* The side of an exported method is known.
LEMMA MethodsAreLocal ==
  ASSUME Inv, NEW k \in 1..Len(functions), NEW t \in Types,
         functions[k].dir = "export", functions[k].func.res = t
  PROVE  functions[k] \in Methods(t, "export", "local")
<1>1. t # NoType
  BY TypesAssumption
<1>2. IsFunc(functions[k]) /\ DOMAIN functions = 1..Len(functions)
  BY SeqIs DEF Inv, TypeOK, FunctionsOK
<1>3. <<t, "export">> \in Told
  BY <1>1 DEF Inv, FunctionsTold
<1>4. Kind(t) = "resource"
  BY <1>1, <1>2, FuncIs DEF Inv
<1>5. "local" \in info[t]
  BY <1>3, <1>4, ToldIs DEF Dirs, Where
<1>6. functions[k] \in Range(functions)
  BY <1>2 DEF Range
<1> QED BY <1>5, <1>6 DEF Methods, IsMethod

LEMMA ModuleWorld ==
  ASSUME TypeOK, ModulesAreSeparate(wit), NEW m \in Range(wit.modules)
  PROVE  WorldOf(m) \in Range(wit.all) /\ m.worlds = {WorldOf(m)}
<1>1. PICK v \in Range(wit.all) : m.worlds = {v}
  BY DEF ModulesAreSeparate
<1>2. Cardinality(m.worlds) = 1
  BY <1>1, FS_Singleton
<1>3. WorldOf(m) = v
  BY <1>1, <1>2 DEF WorldOf
<1> QED BY <1>1, <1>3

LEMMA WorldModule ==
  ASSUME TypeOK, ModulesAreSeparate(wit), NEW v \in Range(wit.all)
  PROVE  \E m \in Range(wit.modules) : WorldOf(m) = v
<1>1. PICK m \in Range(wit.modules) : m.worlds = {v}
  BY DEF ModulesAreSeparate
<1>2. WorldOf(m) \in m.worlds
  BY ModuleWorld
<1> QED BY <1>1, <1>2

-----------------------------------------------------------------------------
(* Each module adds what it has.                                           *)

LEMMA FinishSortGenerated ==
  ASSUME Symbolic, FinishSort
  PROVE  Generated'
<1>1. /\ TypeOK /\ stage = "sort" /\ stage' = "sorted" /\ todo' = wit.modules
      /\ left = <<>> /\ locations = <<>> /\ keys = <<>>
      /\ UNCHANGED <<wit, worldTypes, worldKeys, visited, functions, left, locations, keys, files>>
  BY DEF Symbolic, Inv, FinishSort
<1>2. TypeOK' /\ OrderIsSound'
  BY FinishSortInv DEF Symbolic, Inv
<1>3. ASSUME NEW v \in Worlds, NEW t \in worldTypes[v], NeedsLocation(t)
      PROVE  t \in Range(types')
  <2>1. t \in Types /\ ~HasNoClass(t)
    BY <1>1, <1>3 DEF TypeOK, AllWorlds, NeedsLocation, HasNoClass
  <2>2. Contains(types', t)
    BY <1>1, <1>2, <2>1 DEF OrderIsSound, HasNoClass, Kind
  <2> QED BY <2>2 DEF Contains, Range
<1>4. wit.modules \in Seq(Range(wit.modules))
  BY <1>1, WitsAssumption, Zenon DEF TypeOK, IsWit
<1>5. DOMAIN locations = {} /\ DOMAIN keys = {}
  BY <1>1
<1>6. HasClasses' /\ HasProtocols'
  BY <1>1, <1>5 DEF HasClasses, HasProtocols
<1>7. IsSeq(left)
  BY <1>1, EmptyIsSeq
<1> QED BY <1>1, <1>3, <1>4, <1>6, <1>7 DEF Generated, NeedsLocation, Kind

LEMMA StartModuleGenerated ==
  ASSUME Symbolic, StartModule
  PROVE  Generated'
<1>1. /\ TypeOK /\ Generated /\ stage' = "generate" /\ left' = types \o <<"functions">> /\ todo # <<>>
      /\ UNCHANGED <<wit, todo, types, worldTypes, worldKeys, visited, functions, locations, keys, files>>
  BY DEF Symbolic, Inv, StartModule
<1>2. PICK o : o = <<"functions">>
  OBVIOUS
<1>3. IsSeq(o) /\ IsSeq(types)
  BY <1>1, <1>2, OneIsSeq DEF TypeOK, IsSeq
<1>4. Joins(left', types, o)
  BY <1>1, <1>2, <1>3 DEF Joins
<1>5. IsSeq(left') /\ Range(types) \subseteq Range(left')
  BY <1>4, JoinedRange
<1>6. HasClasses' /\ HasProtocols'
  BY <1>1 DEF Generated, HasClasses, HasProtocols, Shown, ShownFile, WorldProtocol, NeedsLocation, Kind,
              SymbolFile, InInterface, Owner, Imported
<1>7. \A m : Made(m) => Made(m)'
  BY <1>1 DEF Made, Shown
<1> QED BY <1>1, <1>5, <1>6, <1>7 DEF Generated, NeedsLocation, Kind

\* What holds of the files goes on to hold when there is more in them.
LEMMA MoreFiles ==
  ASSUME HasProtocols, files \subseteq files',
         UNCHANGED <<wit, worldKeys, functions, keys>>
  PROVE  HasProtocols'
BY DEF HasProtocols, Shown, ShownFile, WorldProtocol

LEMMA EachHas ==
  ASSUME NEW module, NEW places, NEW names, NEW from, NEW file \in places, NEW name \in names
  PROVE  Defines(module, file, name, from) \in InEach(module, places, names, from)
BY DEF InEach

\* What GenerateType does with one type for a module.
OneType(t, module, v) ==
  IF t \notin worldTypes[v]
    THEN UNCHANGED <<stage, locations, files>>
  ELSE IF HasCode(t) /\ Unwraps(t)
    THEN stage' = "panic" /\ UNCHANGED <<locations, files>>
  ELSE /\ UNCHANGED stage
       /\ IF t \in DOMAIN locations
            THEN /\ UNCHANGED locations
                 /\ files' = files \cup
                      (IF HasCode(t) THEN InEach(module, Placed(t), Aliases(t), Alias(locations[t])) ELSE {})
            ELSE /\ locations' = [u \in DOMAIN locations \cup {t} |->
                                    IF u = t THEN module ELSE locations[u]]
                 /\ files' = files \cup
                      (IF HasCode(t) THEN InEach(module, Placed(t), Classes(t), Class) ELSE {})
                      \cup UNION {{Defines(module, <<"export", f.item>>, name, Class) :
                                      name \in Method(t, f.func)} : f \in Methods(t, "export", "local")}

LEMMA GenerateTypeGenerated ==
  ASSUME Symbolic, GenerateType, stage' # "panic"
  PROVE  Generated'
<1>1. /\ Inv /\ TypeOK /\ Known /\ Generated /\ stage = "generate" /\ left # <<>> /\ left' = Tail(left)
      /\ UNCHANGED <<wit, stage, todo, types, worldTypes, worldKeys, visited, info, functions, keys>>
  BY DEF Symbolic, Inv, GenerateType
<1>2. PICK t : t = Head(left)
  OBVIOUS
<1>3. PICK m : m = Head(todo)
  OBVIOUS
<1>4. PICK v : v = WorldOf(m)
  OBVIOUS
<1>5. PICK new : new = InEach(m.name, Placed(t), Classes(t), Class)
  OBVIOUS
<1>6. PICK methods :
        methods = UNION {{Defines(m.name, <<"export", f.item>>, name, Class) : name \in Method(t, f.func)} :
                           f \in Methods(t, "export", "local")}
  OBVIOUS
<1>7. \/ t \notin worldTypes[v] /\ locations' = locations /\ files' = files
      \/ t \in DOMAIN locations /\ locations' = locations /\ files \subseteq files'
      \/ /\ t \in worldTypes[v] /\ t \notin DOMAIN locations
         /\ locations' = [u \in DOMAIN locations \cup {t} |-> IF u = t THEN m.name ELSE locations[u]]
         /\ files' = files \cup (IF HasCode(t) THEN new ELSE {}) \cup methods
  <2>1. OneType(Head(left), Head(todo).name, WorldOf(Head(todo)))
    BY Zenon DEF GenerateType, OneType
  <2>2. OneType(t, m.name, v)
    BY <1>2, <1>3, <1>4, <2>1
  <2>3. CASE t \notin worldTypes[v]
    BY <2>2, <2>3 DEF OneType
  <2>4. CASE t \in worldTypes[v] /\ t \in DOMAIN locations
    <3>1. PICK aliases : aliases = IF HasCode(t) THEN InEach(m.name, Placed(t), Aliases(t), Alias(locations[t])) ELSE {}
      OBVIOUS
    <3>2. locations' = locations /\ files' = files \cup aliases
      BY <1>1, <2>2, <2>4, <3>1, Zenon DEF OneType
    <3> QED BY <2>4, <3>2
  <2>5. CASE t \in worldTypes[v] /\ t \notin DOMAIN locations
    BY <1>1, <1>5, <1>6, <2>2, <2>5, Zenon DEF OneType
  <2> QED BY <2>3, <2>4, <2>5
<1>8. files \subseteq files'
  BY <1>7
<1>9. /\ DOMAIN locations \subseteq DOMAIN locations' /\ DOMAIN locations' \subseteq DOMAIN locations \cup {t}
      /\ \A u \in DOMAIN locations : locations'[u] = locations[u]
      /\ t \in worldTypes[v] => t \in DOMAIN locations'
  BY <1>7
<1>10. todo \in Seq(Range(wit.modules)) /\ todo # <<>> /\ IsSeq(left)
  BY <1>1 DEF Generated
<1>11. m \in Range(wit.modules) /\ v \in Range(wit.all)
  <2>1. m \in Range(wit.modules)
    BY <1>3, <1>10
  <2> QED BY <1>1, <1>4, <2>1, ModuleWorld DEF Symbolic
<1>12. v \in AllWorlds
  BY <1>1, <1>11, WorldHas
<1>13. IsSeq(left') /\ \A u \in Range(left) : u = t \/ u \in Range(left')
  <2>1. PICK S : left \in Seq(S)
    BY <1>10 DEF IsSeq
  <2>2. Tail(left) \in Seq(S)
    BY <1>1, <2>1
  <2>3. \A u \in Range(left) : u = Head(left) \/ u \in Range(Tail(left))
    BY <1>1, <2>1, HeadOrTail
  <2> QED BY <1>1, <1>2, <2>2, <2>3 DEF IsSeq
<1>14. ASSUME NEW u \in Range(types), u \in worldTypes[v]
       PROVE  u \in Range(left') \/ u \in DOMAIN locations'
  <2>1. u \in Range(left) \/ u \in DOMAIN locations
    BY <1>1, <1>3, <1>4, <1>14 DEF Generated
  <2> QED BY <1>9, <1>13, <1>14, <2>1
<1>15. ASSUME NEW u \in DOMAIN locations'
       PROVE  /\ NeedsLocation(u) => Defines(locations'[u], SymbolFile(u), <<u, "">>, Class) \in files'
              /\ \A k \in 1..Len(functions) : functions[k].dir = "export" /\ functions[k].func.res = u =>
                   \A name \in Method(u, functions[k].func) :
                     Defines(locations'[u], <<"export", functions[k].item>>, name, Class) \in files'
  <2>1. CASE u \in DOMAIN locations
    BY <1>1, <1>8, <1>9, <2>1 DEF Generated, HasClasses
  <2>2. CASE u \notin DOMAIN locations
    <3>1. /\ u = t /\ t \in worldTypes[v] /\ locations'[t] = m.name
          /\ files' = files \cup (IF HasCode(t) THEN new ELSE {}) \cup methods
      BY <1>7, <1>9, <1>15, <2>2
    <3>2. t \in Types /\ Mentioned(t)
      BY <1>1, <1>11, <1>12, <3>1 DEF TypeOK, Mentioned
    <3>3. NeedsLocation(t) => Defines(m.name, SymbolFile(t), <<t, "">>, Class) \in files'
      <4> SUFFICES ASSUME NeedsLocation(t) PROVE Defines(m.name, SymbolFile(t), <<t, "">>, Class) \in files'
        OBVIOUS
      <4>1. HasCode(t) /\ <<t, "">> \in Classes(t)
        BY DEF NeedsLocation, HasCode, Classes
      <4>2. SymbolFile(t) \in Placed(t)
        BY <1>1, <3>2, Placing
      <4>3. Defines(m.name, SymbolFile(t), <<t, "">>, Class) \in new
        BY <1>5, <4>1, <4>2, EachHas
      <4> QED BY <3>1, <4>1, <4>3
    <3>4. ASSUME NEW k \in 1..Len(functions), functions[k].dir = "export", functions[k].func.res = t,
                 NEW name \in Method(t, functions[k].func)
          PROVE  Defines(m.name, <<"export", functions[k].item>>, name, Class) \in files'
      <4>1. functions[k] \in Methods(t, "export", "local")
        BY <1>1, <3>2, <3>4, MethodsAreLocal
      <4>2. Defines(m.name, <<"export", functions[k].item>>, name, Class) \in methods
        BY <1>6, <3>4, <4>1
      <4> QED BY <3>1, <4>2
    <3> QED BY <3>1, <3>3, <3>4
  <2> QED BY <2>1, <2>2
<1>16. HasClasses'
  BY <1>1, <1>15 DEF HasClasses, NeedsLocation, Kind, SymbolFile, InInterface, Owner, Imported
<1>17. HasProtocols'
  BY <1>1, <1>8, MoreFiles DEF Generated
<1>18. \A x : Made(x) => Made(x)'
  BY <1>1, <1>9 DEF Made, Shown
<1> QED BY <1>1, <1>3, <1>4, <1>10, <1>13, <1>14, <1>16, <1>17, <1>18 DEF Generated, NeedsLocation, Kind

\* What GenerateFunctions does for a module.
Mine(m) == {f \in Range(functions) : Freestanding(f) /\ <<f.dir, f.item>> \in worldKeys[WorldOf(m)]}
InInit(f) == f.dir = "export" /\ ~wit.items[f.item].interface
Peers(m, f) ==
  {keys[g.item] : g \in {h \in Mine(m) : /\ h.dir = "export" /\ (h.item = f.item \/ (InInit(f) /\ InInit(h)))
                                         /\ h.item \in DOMAIN keys}} \ {m.name}
From(m, f) == IF f.dir = "export" /\ Peers(m, f) # {} THEN Alias(CHOOSE k \in Peers(m, f) : TRUE) ELSE Class
Named(f) == IF f.dir = "import" THEN {<<f.item, f.func.name, "">>} ELSE Method(f.item, f.func)
FileOf(f) ==
  IF ~wit.items[f.item].interface THEN <<"init">>
  ELSE IF f.dir = "import" THEN <<"import", f.item>> ELSE <<"exports">>
Exports(m) == {f.item : f \in {g \in Mine(m) : g.dir = "export"}}

AllFunctions(m) ==
  /\ files' = files \cup UNION {{Defines(m.name, FileOf(f), name, From(m, f)) : name \in Named(f)} : f \in Mine(m)}
  /\ keys' = [i \in DOMAIN keys \cup Exports(m) |-> IF i \in DOMAIN keys THEN keys[i] ELSE m.name]

LEMMA FunctionsGenerated ==
  ASSUME GenerateFunctions
  PROVE  AllFunctions(Head(todo))
BY Zenon DEF GenerateFunctions, AllFunctions, Mine, InInit, Peers, From, Named, FileOf, Exports

\* The exported functions of a module's world, as calls of the sequence.
LEMMA MineIs ==
  ASSUME TypeOK, NEW m
  PROVE  /\ \A k \in 1..Len(functions) :
              Shown(functions[k]) /\ <<"export", functions[k].item>> \in worldKeys[WorldOf(m)] =>
                functions[k] \in Mine(m) /\ functions[k].dir = "export" /\ functions[k].item \in Exports(m)
         /\ \A f \in Mine(m) : f.dir = "export" => \E k \in 1..Len(functions) :
              f = functions[k] /\ Shown(f) /\ <<"export", f.item>> \in worldKeys[WorldOf(m)]
         /\ \A i \in Exports(m) : \E k \in 1..Len(functions) :
              i = functions[k].item /\ Shown(functions[k]) /\ <<"export", i>> \in worldKeys[WorldOf(m)]
<1>1. DOMAIN functions = 1..Len(functions)
  BY SeqIs DEF TypeOK, FunctionsOK
<1>2. \A k \in 1..Len(functions) :
        Shown(functions[k]) /\ <<"export", functions[k].item>> \in worldKeys[WorldOf(m)] =>
          functions[k] \in Mine(m) /\ functions[k].dir = "export"
  BY <1>1 DEF Mine, Shown, Freestanding, Range
<1>3. \A f \in Mine(m) : f.dir = "export" => \E k \in 1..Len(functions) :
        f = functions[k] /\ Shown(f) /\ <<"export", f.item>> \in worldKeys[WorldOf(m)]
  BY <1>1 DEF Mine, Shown, Freestanding, Range
<1>4. \A i : i \in Exports(m) <=> \E f \in Mine(m) : f.dir = "export" /\ f.item = i
  BY DEF Exports
<1>5. \A i \in Exports(m) : \E k \in 1..Len(functions) :
        i = functions[k].item /\ Shown(functions[k]) /\ <<"export", i>> \in worldKeys[WorldOf(m)]
  BY <1>3, <1>4
<1> QED BY <1>2, <1>3, <1>4, <1>5

\* The first module that has an export does not take it from another: this world
\* has no protocol yet.
LEMMA NoPeers ==
  ASSUME Symbolic, Generated, NEW m \in Range(wit.modules), NEW f \in Mine(m), f.dir = "export",
         f.item \notin DOMAIN keys
  PROVE  From(m, f) = Class
<1>1. TypeOK /\ HasProtocols
  BY DEF Symbolic, Inv, Generated
<1>2. PICK v : v = WorldOf(m)
  OBVIOUS
<1>3. v \in Range(wit.all)
  BY <1>1, <1>2, ModuleWorld DEF Symbolic
<1>4. ASSUME NEW h \in Mine(m), h.dir = "export", h.item = f.item \/ (InInit(f) /\ InInit(h)), h.item \in DOMAIN keys
      PROVE  FALSE
  <2>1. InInit(f) /\ InInit(h)
    BY <1>4
  <2>2. PICK j \in 1..Len(functions) :
          h = functions[j] /\ Shown(h) /\ <<"export", h.item>> \in worldKeys[v]
    BY <1>1, <1>2, <1>4, MineIs
  <2>3. PICK k \in 1..Len(functions) :
          f = functions[k] /\ Shown(f) /\ <<"export", f.item>> \in worldKeys[v]
    BY <1>1, <1>2, MineIs
  <2>4. WorldProtocol(v, functions[j]) /\ WorldProtocol(v, functions[k])
    BY <2>1, <2>2, <2>3 DEF WorldProtocol, InInit
  <2>5. functions[k].item \in DOMAIN keys
    BY <1>1, <1>3, <1>4, <2>2, <2>4 DEF HasProtocols
  <2> QED BY <2>3, <2>5
<1>5. Peers(m, f) = {}
  BY <1>4 DEF Peers
<1> QED BY <1>5 DEF From

LEMMA GenerateFunctionsGenerated ==
  ASSUME Symbolic, GenerateFunctions
  PROVE  Generated'
<1>1. /\ Inv /\ TypeOK /\ Known /\ Generated /\ stage = "generate" /\ left = <<"functions">>
      /\ left' = <<>> /\ todo' = Tail(todo) /\ stage' = IF Len(todo) = 1 THEN "collect" ELSE stage
      /\ UNCHANGED <<wit, types, worldTypes, worldKeys, visited, info, functions, locations>>
  BY DEF Symbolic, Inv, GenerateFunctions
<1>2. PICK m : m = Head(todo)
  OBVIOUS
<1>3. PICK v : v = WorldOf(m)
  OBVIOUS
<1>4. PICK new :
        new = UNION {{Defines(m.name, FileOf(f), name, From(m, f)) : name \in Named(f)} : f \in Mine(m)}
  OBVIOUS
<1>5. /\ files' = files \cup new
      /\ keys' = [i \in DOMAIN keys \cup Exports(m) |-> IF i \in DOMAIN keys THEN keys[i] ELSE m.name]
  BY <1>2, <1>4, FunctionsGenerated DEF AllFunctions
<1>6. /\ files \subseteq files'
      /\ DOMAIN keys' = DOMAIN keys \cup Exports(m)
      /\ \A i \in DOMAIN keys : keys'[i] = keys[i]
      /\ \A i \in Exports(m) : i \notin DOMAIN keys => keys'[i] = m.name
  BY <1>5
<1>7. left # <<>>
  BY <1>1, OneIsSeq, EmptyIsSeq
<1>8. todo \in Seq(Range(wit.modules)) /\ todo # <<>>
  BY <1>1, <1>7 DEF Generated
<1>9. /\ todo' \in Seq(Range(wit.modules)) /\ (stage' = "collect" => todo' = <<>>)
      /\ m \in Range(wit.modules)
      /\ \A x \in Range(todo) : x = m \/ x \in Range(todo')
  <2>1. todo' \in Seq(Range(wit.modules)) /\ m \in Range(wit.modules) /\ Len(todo') = Len(todo) - 1
    BY <1>1, <1>2, <1>8
  <2>2. stage' = "collect" => Len(todo) = 1
    BY <1>1
  <2>3. stage' = "collect" => todo' = <<>>
    <3>1. IsSeq(todo')
      BY <2>1 DEF IsSeq
    <3>2. todo' # <<>> => Len(todo') > 0
      BY <3>1, SeqIs
    <3>3. Len(todo) = 1 => Len(todo') = 0
      BY <2>1
    <3>4. ~(0 > 0)
      OBVIOUS
    <3> QED BY <2>2, <3>2, <3>3, <3>4
  <2>4. \A x \in Range(todo) : x = m \/ x \in Range(todo')
    BY <1>1, <1>2, <1>8, HeadOrTail
  <2> QED BY <2>1, <2>3, <2>4
<1>10. v \in Range(wit.all) /\ v \in AllWorlds
  BY <1>1, <1>3, <1>9, ModuleWorld, WorldHas DEF Symbolic
<1>11. \A x : Made(x) => Made(x)'
  BY <1>1, <1>6 DEF Made, Shown
<1>12. Made(m)'
  <2>1. ASSUME NEW t \in Range(types), t \in worldTypes[v] PROVE t \in DOMAIN locations
    <3>1. t \in Types /\ t # "functions"
      BY <1>1, <1>10, <2>1, TypesAssumption DEF TypeOK
    <3>2. t \in Range(left) \/ t \in DOMAIN locations
      BY <1>1, <1>2, <1>3, <1>7, <2>1 DEF Generated
    <3>3. Range(left) = {"functions"}
      BY <1>1 DEF Range
    <3> QED BY <3>1, <3>2, <3>3
  <2>2. \A k \in 1..Len(functions) :
          Shown(functions[k]) /\ <<"export", functions[k].item>> \in worldKeys[v] => functions[k].item \in DOMAIN keys'
    BY <1>1, <1>3, <1>6, MineIs
  <2> QED BY <1>1, <1>3, <2>1, <2>2 DEF Made, Shown
<1>13. \A x \in Range(wit.modules) : x \in Range(todo') \/ Made(x)'
  BY <1>1, <1>9, <1>11, <1>12 DEF Generated
<1>14. HasClasses'
  BY <1>1, <1>6 DEF Generated, HasClasses, NeedsLocation, Kind, SymbolFile, InInterface, Owner, Imported
<1>15. ASSUME NEW k \in 1..Len(functions), Shown(functions[k]), functions[k].item \in DOMAIN keys',
              NEW name \in Method(functions[k].item, functions[k].func)
       PROVE  Defines(keys'[functions[k].item], ShownFile(functions[k]), name, Class) \in files'
  <2>1. PICK f : f = functions[k]
    OBVIOUS
  <2>2. CASE f.item \in DOMAIN keys
    BY <1>1, <1>6, <1>15, <2>1, <2>2 DEF Generated, HasProtocols
  <2>3. CASE f.item \notin DOMAIN keys
    <3>1. f.item \in Exports(m) /\ keys'[f.item] = m.name
      BY <1>6, <1>15, <2>1, <2>3
    <3>2. <<"export", f.item>> \in worldKeys[v]
      BY <1>1, <1>3, <3>1, MineIs
    <3>3. f \in Mine(m) /\ f.dir = "export"
      BY <1>1, <1>3, <1>15, <2>1, <3>2, MineIs
    <3>4. From(m, f) = Class
      BY <1>1, <1>9, <2>3, <3>3, NoPeers
    <3>5. name \in Named(f) /\ FileOf(f) = ShownFile(f)
      BY <1>15, <2>1, <3>3 DEF Named, FileOf, ShownFile
    <3>6. Defines(m.name, FileOf(f), name, From(m, f)) \in new
      BY <1>4, <3>3, <3>5
    <3> QED BY <1>5, <2>1, <3>1, <3>4, <3>5, <3>6
  <2> QED BY <2>1, <2>2, <2>3
<1>16. ASSUME NEW u \in Range(wit.all), NEW j \in 1..Len(functions), NEW k \in 1..Len(functions),
              WorldProtocol(u, functions[j]), WorldProtocol(u, functions[k]), functions[j].item \in DOMAIN keys'
       PROVE  functions[k].item \in DOMAIN keys'
  <2>1. CASE functions[j].item \in DOMAIN keys
    BY <1>1, <1>6, <1>16, <2>1 DEF Generated, HasProtocols
  <2>2. CASE functions[j].item \notin DOMAIN keys
    <3>1. PICK i : i = functions[j].item
      OBVIOUS
    <3>2. i \in Exports(m) /\ <<"export", i>> \in worldKeys[v]
      BY <1>1, <1>3, <1>6, <1>16, <2>2, <3>1, MineIs
    <3>3. ~wit.items[i].interface /\ <<"export", i>> \in worldKeys[u] /\ i \in Items
      BY <1>1, <1>16, <3>1 DEF WorldProtocol, TypeOK, FunctionsOK, IsFunc
    <3>4. i \in Range(wit.worlds[u].export) /\ i \in Range(wit.worlds[v].export)
      <4>1. u \in Worlds /\ v \in Worlds /\ "export" \in Dirs
        BY <1>1, <1>10, <1>16, WorldHas DEF Dirs
      <4> QED BY <1>1, <3>2, <3>3, <4>1 DEF Known, Within
    <3>5. u = v
      BY <1>10, <1>16, <3>3, <3>4 DEF Symbolic, ModulesAreSeparate
    <3>6. Shown(functions[k]) /\ <<"export", functions[k].item>> \in worldKeys[v]
      BY <1>16, <3>5 DEF WorldProtocol
    <3>7. functions[k].item \in Exports(m)
      BY <1>1, <1>3, <3>6, MineIs
    <3> QED BY <1>6, <3>7
  <2> QED BY <2>1, <2>2
<1>17. HasProtocols'
  BY <1>1, <1>15, <1>16 DEF HasProtocols, Shown, ShownFile, WorldProtocol
<1>18. IsSeq(left')
  BY <1>1, EmptyIsSeq
<1> QED BY <1>1, <1>9, <1>13, <1>14, <1>17, <1>18 DEF Generated, NeedsLocation, Kind

-----------------------------------------------------------------------------
(* The symbols lead to what the modules have.                              *)

LEMMA ClassesAreLocated ==
  ASSUME Symbolic, stage = "collect", NEW v \in Range(wit.all), NEW t \in worldTypes[v], NeedsLocation(t)
  PROVE  t \in DOMAIN locations /\ Defines(locations[t], SymbolFile(t), <<t, "">>, Class) \in files
<1>1. TypeOK /\ Generated
  BY DEF Symbolic, Inv
<1>2. PICK m \in Range(wit.modules) : WorldOf(m) = v
  BY <1>1, WorldModule DEF Symbolic
<1>3. Made(m)
  <2>1. todo = <<>> /\ Range(<<>>) = {}
    BY <1>1 DEF Generated, Range
  <2> QED BY <1>1, <2>1 DEF Generated
<1>4. v \in Worlds
  BY <1>1, WorldHas
<1>5. t \in Range(types)
  BY <1>1, <1>4 DEF Generated
<1>6. t \in DOMAIN locations
  BY <1>2, <1>3, <1>5 DEF Made
<1> QED BY <1>1, <1>6 DEF Generated, HasClasses

LEMMA ProtocolsAreMade ==
  ASSUME Symbolic, stage = "collect", NEW k \in 1..Len(functions), Shown(functions[k])
  PROVE  functions[k].item \in DOMAIN keys
<1>1. TypeOK /\ Generated
  BY DEF Symbolic, Inv
<1>2. PICK v \in Range(wit.all) : <<"export", functions[k].item>> \in worldKeys[v]
  BY DEF Symbolic, Known, Within, Shown
<1>3. PICK m \in Range(wit.modules) : WorldOf(m) = v
  BY <1>1, WorldModule DEF Symbolic
<1>4. Made(m)
  <2>1. todo = <<>> /\ Range(<<>>) = {}
    BY <1>1 DEF Generated, Range
  <2> QED BY <1>1, <2>1 DEF Generated
<1> QED BY <1>2, <1>3, <1>4 DEF Made

\* A method of the protocol of a resource.
LEMMA MethodsAreMade ==
  ASSUME Symbolic, stage = "collect", NEW k \in 1..Len(functions), functions[k].dir = "export",
         functions[k].func.res # NoType
  PROVE  LET f == functions[k]
         IN  /\ f.func.res \in Types /\ wit.items[f.item].interface
             /\ f.func.res \in DOMAIN locations
             /\ \A name \in Method(f.func.res, f.func) :
                  Defines(locations[f.func.res], <<"export", f.item>>, name, Class) \in files
<1>1. TypeOK /\ Generated /\ Known
  BY DEF Symbolic, Inv
<1>2. PICK f : f = functions[k]
  OBVIOUS
<1>3. PICK t : t = f.func.res
  OBVIOUS
<1>4. IsFunc(f) /\ f.dir = "export" /\ f.item \in Items
  BY <1>1, <1>2 DEF TypeOK, FunctionsOK, IsFunc
<1>5. /\ t \in Types /\ Kind(t) = "resource" /\ wit.items[f.item].interface
      /\ t \in Range(wit.items[f.item].types)
  BY <1>1, <1>2, <1>3, <1>4, FuncIs
<1>6. PICK v \in Range(wit.all) : <<"export", f.item>> \in worldKeys[v]
  BY <1>1, <1>2, <1>4 DEF Known, Within
<1>7. <<"export", f.item>> \in visited
  <2>1. v \in AllWorlds
    BY <1>1, WorldHas
  <2> QED BY <1>1, <1>6, <2>1 DEF Known, Within
<1>8. Mentioned(t)
  <2>1. "export" \in Dirs
    BY DEF Dirs
  <2> QED BY <1>1, <1>4, <1>5, <1>7, <2>1 DEF Known, Found
<1>9. t \in DOMAIN locations
  BY <1>5, <1>8, ClassesAreLocated DEF Mentioned, NeedsLocation
<1>10. \A name \in Method(t, f.func) : Defines(locations[t], <<"export", f.item>>, name, Class) \in files
  BY <1>1, <1>2, <1>3, <1>4, <1>9 DEF Generated, HasClasses
<1> QED BY <1>2, <1>3, <1>5, <1>9, <1>10

\* The method by which a function is called is one of those that it has.
LEMMA CalledIsMethod ==
  ASSUME NEW i, NEW f
  PROVE  <<i>> \o Called(f) \in Method(i, f)
<1>1. ASSUME NEW a, NEW b, NEW c PROVE <<a>> \o <<b, c>> = <<a, b, c>>
  <2>1. PICK p : p = <<a>>
    OBVIOUS
  <2>2. PICK r : r = <<b, c>>
    OBVIOUS
  <2>3. PICK q : q = <<a, b, c>>
    OBVIOUS
  <2>4. PICK S : S = {a, b, c}
    OBVIOUS
  <2>5. p \in Seq(S) /\ r \in Seq(S) /\ q \in Seq(S)
    BY <2>1, <2>2, <2>3, <2>4
  <2>6. /\ Len(p) = 1 /\ p[1] = a /\ Len(r) = 2 /\ r[1] = b /\ r[2] = c
        /\ Len(q) = 3 /\ q[1] = a /\ q[2] = b /\ q[3] = c
    BY <2>1, <2>2, <2>3
  <2>7. PICK u : u = p \o r
    OBVIOUS
  <2>8. /\ u \in Seq(S) /\ Len(u) = Len(p) + Len(r)
        /\ \A n \in 1..(Len(p) + Len(r)) : u[n] = IF n <= Len(p) THEN p[n] ELSE r[n - Len(p)]
    BY <2>5, <2>7, ConcatProperties
  <2>9. Len(u) = 3 /\ \A n \in 1..3 : u[n] = IF n <= 1 THEN p[n] ELSE r[n - 1]
    BY <2>6, <2>8
  <2>10. u[1] = p[1] /\ u[2] = r[2 - 1] /\ u[3] = r[3 - 1]
    BY <2>9
  <2>11. u[1] = q[1] /\ u[2] = q[2] /\ u[3] = q[3]
    BY <2>6, <2>10
  <2>12. \A n \in 1..3 : n = 1 \/ n = 2 \/ n = 3
    OBVIOUS
  <2>13. \A n \in 1..Len(u) : u[n] = q[n]
    BY <2>9, <2>11, <2>12
  <2>14. u = q
    BY <2>5, <2>6, <2>8, <2>9, <2>13, SeqEqual
  <2> QED BY <2>1, <2>2, <2>3, <2>7, <2>14
<1>2. CASE f.async
  <2>1. Called(f) = <<f.name, "start">> /\ <<i, f.name, "start">> \in Method(i, f)
    BY <1>2 DEF Called, Method
  <2> QED BY <1>1, <2>1
<1>3. CASE ~f.async
  <2>1. Called(f) = <<f.name, "">> /\ <<i, f.name, "">> \in Method(i, f)
    BY <1>3 DEF Called, Method
  <2> QED BY <1>1, <2>1
<1> QED BY <1>2, <1>3

Resolved(x) ==
  \E d \in files : /\ d.file = ProtocolFile(x) /\ d.from = Class
                   /\ d.name = <<x.class>> \o x.called
                   /\ x.scope \in {x.item, d.module}

LEMMA SymbolResolves ==
  ASSUME Symbolic, stage = "collect", NEW k \in 1..Len(functions), functions[k].dir = "export"
  PROVE  Resolved(Symbol(functions[k]))
<1>1. PICK f : f = functions[k]
  OBVIOUS
<1>2. PICK x : x = Symbol(f)
  OBVIOUS
<1>3. /\ x.scope = IF wit.items[f.item].interface THEN f.item ELSE keys[f.item]
      /\ x.item = f.item /\ x.called = Called(f.func)
      /\ x.class = IF Freestanding(f) THEN f.item ELSE f.func.res
  BY <1>2 DEF Symbol, Scope
<1>4. CASE Freestanding(f)
  <2>1. Shown(f) /\ f.item \in DOMAIN keys
    BY <1>1, <1>4, ProtocolsAreMade DEF Shown, Freestanding
  <2>2. PICK d : d = Defines(keys[f.item], ShownFile(f), <<f.item>> \o Called(f.func), Class)
    OBVIOUS
  <2>3. d \in files
    BY <1>1, <2>1, <2>2, CalledIsMethod DEF Symbolic, Generated, HasProtocols
  <2>4. d.module = keys[f.item] /\ d.file = ShownFile(f) /\ d.name = <<f.item>> \o Called(f.func) /\ d.from = Class
    BY <2>2 DEF Defines
  <2>5. x.class = x.item /\ x.class = f.item
    BY <1>3, <1>4
  <2>6. ProtocolFile(x) = ShownFile(f)
    BY <1>3, <2>5 DEF ProtocolFile, ShownFile
  <2>7. x.scope \in {x.item, d.module}
    BY <1>3, <2>4
  <2>8. d.name = <<x.class>> \o x.called
    BY <1>3, <2>4, <2>5
  <2> QED BY <1>1, <1>2, <2>3, <2>4, <2>6, <2>7, <2>8 DEF Resolved
<1>5. CASE ~Freestanding(f)
  <2>1. PICK t : t = f.func.res
    OBVIOUS
  <2>2. t # NoType
    BY <1>5, <2>1 DEF Freestanding
  <2>3. /\ t \in Types /\ wit.items[f.item].interface
        /\ \A name \in Method(t, f.func) : Defines(locations[t], <<"export", f.item>>, name, Class) \in files
    BY <1>1, <2>1, <2>2, MethodsAreMade
  <2>4. f.item \in Items
    BY <1>1 DEF Symbolic, Inv, TypeOK, FunctionsOK, IsFunc
  <2>5. x.class = t /\ t # x.item
    BY <1>3, <1>5, <2>1, <2>3, <2>4, TypesAssumption
  <2>6. PICK d : d = Defines(locations[t], <<"export", f.item>>, <<t>> \o Called(f.func), Class)
    OBVIOUS
  <2>7. d \in files
    BY <2>3, <2>6, CalledIsMethod
  <2>8. d.file = <<"export", f.item>> /\ d.name = <<t>> \o Called(f.func) /\ d.from = Class
    BY <2>6 DEF Defines
  <2>9. ProtocolFile(x) = <<"export", f.item>>
    BY <1>3, <2>5 DEF ProtocolFile
  <2>10. x.scope = x.item
    BY <1>3, <2>3
  <2>11. d.name = <<x.class>> \o x.called
    BY <1>3, <2>5, <2>8
  <2> QED BY <1>1, <1>2, <2>7, <2>8, <2>9, <2>10, <2>11 DEF Resolved
<1> QED BY <1>4, <1>5

LEMMA CollectResolves ==
  ASSUME Symbolic, CollectSymbols
  PROVE  SymbolsResolve' /\ stage' = "done"
<1>1. /\ TypeOK /\ stage = "collect"
      /\ UNCHANGED <<wit, worldTypes, visited, info, locations, keys, files, functions>>
  BY DEF Symbolic, Inv, CollectSymbols
<1>2. PICK exports : exports = {f \in Range(functions) : f.dir = "export"}
  OBVIOUS
<1>3. PICK used : used = {t \in UNION {worldTypes[v] : v \in Range(wit.all)} : NeedsLocation(t)}
  OBVIOUS
<1>4. used \subseteq DOMAIN locations
  BY <1>1, <1>3, ClassesAreLocated
<1>5. \A f \in exports : \E k \in 1..Len(functions) : f = functions[k] /\ functions[k].dir = "export"
  <2>1. DOMAIN functions = 1..Len(functions)
    BY <1>1, SeqIs DEF TypeOK, FunctionsOK
  <2> QED BY <1>2, <2>1 DEF Range
<1>6. ASSUME NEW f \in exports PROVE wit.items[f.item].interface \/ f.item \in DOMAIN keys
  <2>1. PICK k \in 1..Len(functions) : f = functions[k] /\ functions[k].dir = "export"
    BY <1>5
  <2>2. CASE f.func.res = NoType
    BY <1>1, <2>1, <2>2, ProtocolsAreMade DEF Shown
  <2>3. CASE f.func.res # NoType
    BY <1>1, <2>1, <2>3, MethodsAreMade
  <2> QED BY <2>2, <2>3
<1>7. IF used \subseteq DOMAIN locations /\ \A f \in exports : wit.items[f.item].interface \/ f.item \in DOMAIN keys
        THEN symbols' = {Symbol(f) : f \in exports} /\ stage' = "done"
        ELSE stage' = "unresolved" /\ UNCHANGED symbols
  BY <1>2, <1>3, Zenon DEF CollectSymbols
<1>8. symbols' = {Symbol(f) : f \in exports} /\ stage' = "done"
  BY <1>4, <1>6, <1>7, Zenon
<1>9. ASSUME NEW v \in Range(wit.all), NEW t \in worldTypes[v], NeedsLocation(t)
      PROVE  Defines(locations[t], SymbolFile(t), <<t, "">>, Class) \in files
  BY <1>1, <1>9, ClassesAreLocated
<1>10. ASSUME NEW x \in symbols' PROVE Resolved(x)
  <2>1. PICK f \in exports : x = Symbol(f)
    BY <1>8
  <2>2. PICK k \in 1..Len(functions) : f = functions[k] /\ functions[k].dir = "export"
    BY <1>5
  <2> QED BY <1>1, <2>1, <2>2, SymbolResolves
<1>11. /\ \A t : SymbolFile(t)' = SymbolFile(t) /\ NeedsLocation(t)' = NeedsLocation(t)
       /\ \A x : ProtocolFile(x)' = ProtocolFile(x)
  BY <1>1 DEF SymbolFile, InInterface, Owner, Imported, NeedsLocation, Kind, ProtocolFile
<1>12. SymbolsResolve'
  BY <1>1, <1>8, <1>9, <1>10, <1>11 DEF SymbolsResolve, Resolved
<1> QED BY <1>8, <1>12

LEMMA InitSymbolic ==
  ASSUME \A w \in Wits : ModulesAreSeparate(w), Init
  PROVE  Symbolic
<1>1. Inv
  BY InitInv
<1>2. Known
  BY <1>1, InitKnown
<1> QED BY <1>1, <1>2 DEF Init, Symbolic, SymbolsResolve

\* Until the modules are generated they have nothing.
LEMMA EarlySymbolic ==
  ASSUME Symbolic, Inv', Known', stage \in {"visit", "sort"}, stage' \in {"visit", "sort"},
         UNCHANGED <<wit, left, locations, keys>>
  PROVE  Symbolic'
BY DEF Symbolic, SymbolsResolve

LEMMA LateSymbolic ==
  ASSUME Symbolic, Inv', stage \in {"sorted", "generate", "collect"},
         stage' \in {"sorted", "generate", "collect", "panic", "done"},
         UNCHANGED <<wit, worldTypes, worldKeys, visited, info, functions>>,
         stage' \in {"sorted", "generate", "collect"} => Generated',
         stage' = "done" => SymbolsResolve'
  PROVE  Symbolic'
<1>1. Known'
  BY OtherKnown DEF Symbolic
<1> QED BY <1>1 DEF Symbolic, SymbolsResolve

LEMMA RestSymbolic ==
  ASSUME Symbolic, UNCHANGED vars
  PROVE  Symbolic'
<1>1. Inv' /\ Known'
  BY RestInv, RestKnown DEF Symbolic
<1>2. UNCHANGED <<wit, stage, todo, types, worldTypes, worldKeys, visited, functions, left, locations, keys, files,
                  symbols>>
  BY DEF vars
<1>3. \A m : Made(m) => Made(m)'
  BY <1>2 DEF Made, Shown
<1>4. Generated => Generated'
  <2>1. HasClasses => HasClasses'
    BY <1>2 DEF HasClasses, NeedsLocation, Kind, SymbolFile, InInterface, Owner, Imported
  <2>2. HasProtocols => HasProtocols'
    BY <1>2 DEF HasProtocols, Shown, ShownFile, WorldProtocol
  <2> QED BY <1>2, <1>3, <2>1, <2>2 DEF Generated, NeedsLocation, Kind
<1>5. SymbolsResolve'
  <2>1. /\ \A t : SymbolFile(t)' = SymbolFile(t) /\ NeedsLocation(t)' = NeedsLocation(t)
        /\ \A x : ProtocolFile(x)' = ProtocolFile(x)
    BY <1>2 DEF SymbolFile, InInterface, Owner, Imported, NeedsLocation, Kind, ProtocolFile
  <2> QED BY <1>2, <2>1 DEF Symbolic, SymbolsResolve
<1> QED BY <1>1, <1>2, <1>4, <1>5 DEF Symbolic

LEMMA NextSymbolic ==
  ASSUME Symbolic, [Next]_vars
  PROVE  Symbolic'
<1>1. Inv /\ Known /\ Inv'
  BY NextInv DEF Symbolic
<1>2. CASE VisitWorld
  <2>1. Known'
    BY <1>1, <1>2, VisitWorldKnown
  <2> QED BY <1>1, <1>2, <2>1, EarlySymbolic DEF VisitWorld
<1>3. CASE VisitItem
  <2>1. Known'
    BY <1>1, <1>3, VisitItemKnown
  <2> QED BY <1>1, <1>3, <2>1, EarlySymbolic DEF VisitItem
<1>4. CASE VisitFunction
  <2>1. Known'
    BY <1>1, <1>4, VisitFunctionKnown
  <2> QED BY <1>1, <1>4, <2>1, EarlySymbolic DEF VisitFunction
<1>5. CASE VisitType
  <2>1. Known'
    BY <1>1, <1>5, VisitTypeKnown
  <2> QED BY <1>1, <1>5, <2>1, EarlySymbolic DEF VisitType
<1>6. CASE VisitedType
  <2>1. Known'
    BY <1>1, <1>6, VisitedTypeKnown
  <2> QED BY <1>1, <1>6, <2>1, EarlySymbolic DEF VisitedType
<1>7. CASE StartSort
  <2>1. Known'
    BY <1>1, <1>7, StartSortKnown
  <2> QED BY <1>1, <1>7, <2>1, EarlySymbolic DEF StartSort
<1>8. CASE SortType \/ SortMethod \/ SortedType
  <2>1. stage = "sort" /\ UNCHANGED <<wit, stage, worldTypes, worldKeys, visited, info, functions, left, locations, keys>>
    BY <1>8 DEF SortType, SortMethod, SortedType
  <2>2. Known'
    BY <1>1, <2>1, OtherKnown
  <2> QED BY <1>1, <2>1, <2>2, EarlySymbolic
<1>9. CASE FinishSort
  <2>1. /\ stage = "sort" /\ stage' = "sorted"
        /\ UNCHANGED <<wit, worldTypes, worldKeys, visited, info, functions>>
    BY <1>9 DEF FinishSort
  <2>2. Known'
    BY <1>1, <2>1, OtherKnown
  <2>3. Generated'
    BY <1>9, FinishSortGenerated
  <2> QED BY <1>1, <2>1, <2>2, <2>3 DEF Symbolic, SymbolsResolve
<1>10. CASE StartModule
  <2>1. Generated'
    BY <1>10, StartModuleGenerated
  <2> QED BY <1>1, <1>10, <2>1, LateSymbolic DEF StartModule
<1>11. CASE GenerateType
  <2>1. /\ stage = "generate" /\ stage' \in {"generate", "panic"}
        /\ UNCHANGED <<wit, worldTypes, worldKeys, visited, info, functions>>
    BY <1>11 DEF GenerateType
  <2>2. stage' # "panic" => Generated'
    BY <1>11, GenerateTypeGenerated
  <2> QED BY <1>1, <2>1, <2>2, LateSymbolic
<1>12. CASE GenerateFunctions
  <2>1. /\ stage = "generate" /\ stage' \in {"generate", "collect"}
        /\ UNCHANGED <<wit, worldTypes, worldKeys, visited, info, functions>>
    BY <1>12 DEF GenerateFunctions
  <2>2. Generated'
    BY <1>12, GenerateFunctionsGenerated
  <2> QED BY <1>1, <2>1, <2>2, LateSymbolic
<1>13. CASE CollectSymbols
  <2>1. stage = "collect" /\ UNCHANGED <<wit, worldTypes, worldKeys, visited, info, functions>>
    BY <1>13 DEF CollectSymbols
  <2>2. SymbolsResolve' /\ stage' = "done"
    BY <1>13, CollectResolves
  <2> QED BY <1>1, <2>1, <2>2, LateSymbolic
<1>14. CASE Resting
  BY <1>14, RestSymbolic DEF Resting
<1>15. CASE UNCHANGED vars
  BY <1>15, RestSymbolic
<1> QED BY <1>2, <1>3, <1>4, <1>5, <1>6, <1>7, <1>8, <1>9, <1>10, <1>11, <1>12, <1>13, <1>14, <1>15 DEF Next

-----------------------------------------------------------------------------
(* Visiting leaves out no item of a world, and no function or type of it.  *)

ItemDue(s, v, dir, i) ==
  \E k \in 1..Len(s) : s[k].do = "item" /\ s[k].world = v /\ s[k].dir = dir /\ s[k].item = i
FuncDue(s, dir, i, f) ==
  \E k \in 1..Len(s) : s[k].do = "function" /\ s[k].func.dir = dir /\ s[k].func.item = i /\ s[k].func.func = f
TypeDue(s, t) == \E k \in 1..Len(s) : s[k].do = "visit" /\ s[k].type = t
Has(s, dir, i, f) == \E k \in 1..Len(s) : s[k].dir = dir /\ s[k].item = i /\ s[k].func = f

Whole ==
  /\ \A v \in Range(wit.all), dir \in Dirs : \A i \in Range(wit.worlds[v][dir]) :
       <<dir, i>> \in worldKeys[v] \/ (stage = "visit" /\ (v \in Range(todo) \/ ItemDue(calls, v, dir, i)))
  /\ \A dir \in Dirs, i \in Items : <<dir, i>> \in visited => \A f \in Range(wit.items[i].funcs) :
       Has(functions, dir, i, f) \/ (stage = "visit" /\ FuncDue(calls, dir, i, f))
  /\ \A dir \in Dirs, i \in Items : <<dir, i>> \in visited => \A t \in Range(wit.items[i].types) :
       Mentioned(t) \/ (stage = "visit" /\ TypeDue(calls, t))

LEMMA ReplacedDue ==
  ASSUME NEW s, NEW p, NEW q, Replaces(q, s, p)
  PROVE  /\ \A v, dir, i : ItemDue(p, v, dir, i) => ItemDue(q, v, dir, i)
         /\ \A dir, i, f : FuncDue(p, dir, i, f) => FuncDue(q, dir, i, f)
         /\ \A t : TypeDue(p, t) => TypeDue(q, t)
         /\ \A v, dir, i : ItemDue(s, v, dir, i) =>
              \/ ItemDue(q, v, dir, i)
              \/ s[1].do = "item" /\ s[1].world = v /\ s[1].dir = dir /\ s[1].item = i
         /\ \A dir, i, f : FuncDue(s, dir, i, f) =>
              \/ FuncDue(q, dir, i, f)
              \/ s[1].do = "function" /\ s[1].func.dir = dir /\ s[1].func.item = i /\ s[1].func.func = f
         /\ \A t : TypeDue(s, t) => TypeDue(q, t) \/ (s[1].do = "visit" /\ s[1].type = t)
<1>1. /\ \A k \in 1..Len(s) : k # 1 => \E j \in 1..Len(q) : q[j] = s[k]
      /\ \A k \in 1..Len(p) : \E j \in 1..Len(q) : q[j] = p[k]
  BY ReplacedKeeps
<1>2. /\ \A v, dir, i : ItemDue(p, v, dir, i) => ItemDue(q, v, dir, i)
      /\ \A v, dir, i : ItemDue(s, v, dir, i) =>
           \/ ItemDue(q, v, dir, i)
           \/ s[1].do = "item" /\ s[1].world = v /\ s[1].dir = dir /\ s[1].item = i
  <2>1. ASSUME NEW v, NEW dir, NEW i, ItemDue(p, v, dir, i) PROVE ItemDue(q, v, dir, i)
    <3>1. PICK k \in 1..Len(p) : p[k].do = "item" /\ p[k].world = v /\ p[k].dir = dir /\ p[k].item = i
      BY <2>1 DEF ItemDue
    <3>2. PICK j \in 1..Len(q) : q[j] = p[k]
      BY <1>1
    <3> QED BY <3>1, <3>2 DEF ItemDue
  <2>2. ASSUME NEW v, NEW dir, NEW i, ItemDue(s, v, dir, i)
        PROVE  \/ ItemDue(q, v, dir, i)
               \/ s[1].do = "item" /\ s[1].world = v /\ s[1].dir = dir /\ s[1].item = i
    <3>1. PICK k \in 1..Len(s) : s[k].do = "item" /\ s[k].world = v /\ s[k].dir = dir /\ s[k].item = i
      BY <2>2 DEF ItemDue
    <3>2. CASE k = 1
      BY <3>1, <3>2
    <3>3. CASE k # 1
      <4>1. PICK j \in 1..Len(q) : q[j] = s[k]
        BY <1>1, <3>3
      <4> QED BY <3>1, <4>1 DEF ItemDue
    <3> QED BY <3>2, <3>3
  <2> QED BY <2>1, <2>2
<1>3. /\ \A dir, i, f : FuncDue(p, dir, i, f) => FuncDue(q, dir, i, f)
      /\ \A dir, i, f : FuncDue(s, dir, i, f) =>
           \/ FuncDue(q, dir, i, f)
           \/ s[1].do = "function" /\ s[1].func.dir = dir /\ s[1].func.item = i /\ s[1].func.func = f
  BY <1>1 DEF FuncDue
<1>4. /\ \A t : TypeDue(p, t) => TypeDue(q, t)
      /\ \A t : TypeDue(s, t) => TypeDue(q, t) \/ (s[1].do = "visit" /\ s[1].type = t)
  BY <1>1 DEF TypeDue
<1> QED BY <1>2, <1>3, <1>4

LEMMA JoinedDue ==
  ASSUME NEW s, NEW t, NEW q, Joins(q, s, t)
  PROVE  /\ \A v, dir, i : ItemDue(s, v, dir, i) \/ ItemDue(t, v, dir, i) => ItemDue(q, v, dir, i)
         /\ \A dir, i, f : FuncDue(s, dir, i, f) \/ FuncDue(t, dir, i, f) => FuncDue(q, dir, i, f)
         /\ \A u : TypeDue(s, u) \/ TypeDue(t, u) => TypeDue(q, u)
<1>1. /\ \A i \in 1..Len(s) : \E k \in 1..Len(q) : q[k] = s[i]
      /\ \A i \in 1..Len(t) : \E k \in 1..Len(q) : q[k] = t[i]
  BY JoinedHas
<1>2. ASSUME NEW v, NEW dir, NEW i, ItemDue(s, v, dir, i) \/ ItemDue(t, v, dir, i)
      PROVE  ItemDue(q, v, dir, i)
  BY <1>1, <1>2 DEF ItemDue
<1>3. ASSUME NEW dir, NEW i, NEW f, FuncDue(s, dir, i, f) \/ FuncDue(t, dir, i, f)
      PROVE  FuncDue(q, dir, i, f)
  BY <1>1, <1>3 DEF FuncDue
<1>4. ASSUME NEW u, TypeDue(s, u) \/ TypeDue(t, u)
      PROVE  TypeDue(q, u)
  BY <1>1, <1>4 DEF TypeDue
<1> QED BY <1>2, <1>3, <1>4

LEMMA NothingDue ==
  /\ \A v, dir, i : ~ItemDue(<<>>, v, dir, i)
  /\ \A dir, i, f : ~FuncDue(<<>>, dir, i, f)
  /\ \A t : ~TypeDue(<<>>, t)
BY EmptyIsSeq DEF ItemDue, FuncDue, TypeDue

LEMMA FunctionsAreDue ==
  ASSUME TypeOK, NEW i \in Items, NEW v, NEW dir
  PROVE  \A f \in Range(wit.items[i].funcs) : FuncDue(VisitFunctions(i, dir, v), dir, i, f)
<1>1. PICK funcs : funcs = wit.items[i].funcs
  OBVIOUS
<1>2. IsSeq(funcs)
  BY <1>1, WitIs DEF IsSeq
<1>3. PICK s : s = VisitFunctions(i, dir, v)
  OBVIOUS
<1>4. s = [n \in DOMAIN funcs |->
             [do |-> "function", func |-> [dir |-> dir, item |-> i, func |-> funcs[n]], world |-> v]]
  BY <1>1, <1>3 DEF VisitFunctions
<1>5. s = [n \in DOMAIN funcs |-> s[n]]
  BY <1>4
<1>6. 1..Len(s) = DOMAIN funcs
  BY <1>2, <1>5, MadeFrom
<1>7. \A n \in 1..Len(s) : /\ s[n].do = "function" /\ s[n].func.dir = dir /\ s[n].func.item = i
                           /\ s[n].func.func = funcs[n]
  BY <1>4, <1>6
<1>8. ASSUME NEW f \in Range(funcs) PROVE FuncDue(s, dir, i, f)
  <2>1. PICK n \in DOMAIN funcs : f = funcs[n]
    BY DEF Range
  <2> QED BY <1>6, <1>7, <2>1 DEF FuncDue
<1> QED BY <1>1, <1>3, <1>8

LEMMA VisitWorldWhole ==
  ASSUME Inv, Known, Whole, VisitWorld
  PROVE  Whole'
<1>1. /\ TypeOK /\ Within /\ stage = "visit" /\ calls = <<>> /\ todo \in Seq(Worlds) /\ todo # <<>>
      /\ UNCHANGED <<wit, stage, worldTypes, worldKeys, visited, functions>>
      /\ todo' = Tail(todo)
  BY DEF Inv, TypeOK, Known, VisitWorld
<1>2. PICK v : v = Head(todo)
  OBVIOUS
<1>3. PICK a : a = VisitItems(v, "import")
  OBVIOUS
<1>4. PICK b : b = VisitItems(v, "export")
  OBVIOUS
<1>5. calls' = a \o b
  BY <1>2, <1>3, <1>4 DEF VisitWorld
<1>6. v \in Range(todo) /\ \A u \in Range(todo) : u = v \/ u \in Range(todo')
  BY <1>1, <1>2, HeadOrTail
<1>7. v \in Worlds
  BY <1>1, <1>6, WorldHas DEF Within
<1>8. /\ IsSeq(a) /\ \A k \in 1..Len(a) : a[k].world = v
      /\ \A i \in Range(wit.worlds[v]["import"]) : ItemIn(a, "import", i)
  BY <1>1, <1>3, <1>7, ItemsAreCalls DEF CallsOK, Dirs
<1>9. /\ IsSeq(b) /\ \A k \in 1..Len(b) : b[k].world = v
      /\ \A i \in Range(wit.worlds[v]["export"]) : ItemIn(b, "export", i)
  BY <1>1, <1>4, <1>7, ItemsAreCalls DEF CallsOK, Dirs
<1>10. Joins(calls', a, b)
  BY <1>5, <1>8, <1>9 DEF Joins
<1>11. /\ \A i \in Range(wit.worlds[v]["import"]) : ItemDue(a, v, "import", i)
       /\ \A i \in Range(wit.worlds[v]["export"]) : ItemDue(b, v, "export", i)
  BY <1>8, <1>9 DEF ItemIn, ItemDue
<1>12. \A dir \in Dirs : \A i \in Range(wit.worlds[v][dir]) : ItemDue(calls', v, dir, i)
  <2>1. /\ \A i \in Range(wit.worlds[v]["import"]) : ItemDue(calls', v, "import", i)
        /\ \A i \in Range(wit.worlds[v]["export"]) : ItemDue(calls', v, "export", i)
    BY <1>10, <1>11, JoinedDue
  <2> QED BY <2>1 DEF Dirs
<1>13. /\ \A u, dir, i : ~ItemDue(calls, u, dir, i)
       /\ \A dir, i, f : ~FuncDue(calls, dir, i, f)
       /\ \A t : ~TypeDue(calls, t)
  BY <1>1, NothingDue
<1>14. \A u \in Range(wit.all), dir \in Dirs : \A i \in Range(wit.worlds[u][dir]) :
         <<dir, i>> \in worldKeys[u] \/ u \in Range(todo') \/ ItemDue(calls', u, dir, i)
  BY <1>6, <1>12, <1>13 DEF Whole
<1>15. /\ \A dir \in Dirs, i \in Items : <<dir, i>> \in visited => \A f \in Range(wit.items[i].funcs) :
            Has(functions, dir, i, f)
       /\ \A dir \in Dirs, i \in Items : <<dir, i>> \in visited => \A t \in Range(wit.items[i].types) : Mentioned(t)
  BY <1>13 DEF Whole
<1>16. \A t : Mentioned(t)' = Mentioned(t)
  BY <1>1 DEF Mentioned
<1> QED BY <1>1, <1>14, <1>15, <1>16 DEF Whole

LEMMA VisitItemWhole ==
  ASSUME Inv, Known, Whole, VisitItem
  PROVE  Whole'
<1>1. /\ TypeOK /\ Within /\ stage = "visit" /\ calls # <<>>
      /\ UNCHANGED <<wit, stage, todo, types, order, worldTypes, info, functions>>
  BY DEF Inv, Known, VisitItem
<1>2. PICK n : n = Head(calls)
  OBVIOUS
<1>3. /\ IsSeq(calls) /\ 1 \in 1..Len(calls) /\ n = calls[1] /\ n.do = "item"
      /\ n.item \in Items /\ n.dir \in Dirs /\ n.world \in Worlds
  <2>1. n.do = "item"
    BY <1>2 DEF VisitItem
  <2> QED BY <1>1, <1>2, <2>1, FirstCall DEF TypeOK, VisitCall
<1>4. PICK item : item = wit.items[n.item]
  OBVIOUS
<1>5. PICK dir : dir = IF item.interface THEN n.dir ELSE "none"
  OBVIOUS
<1>6. PICK a : a = VisitTypes(item.types, dir, n.world)
  OBVIOUS
<1>7. PICK b : b = VisitFunctions(n.item, n.dir, n.world)
  OBVIOUS
<1>8. PICK p : /\ p = IF <<n.dir, n.item>> \in visited THEN <<>> ELSE a \o b
               /\ calls' = p \o Tail(calls)
  BY <1>2, <1>4, <1>5, <1>6, <1>7 DEF VisitItem
<1>9. /\ worldKeys' = [worldKeys EXCEPT ![n.world] = @ \cup {<<n.dir, n.item>>}]
      /\ visited' = visited \cup {<<n.dir, n.item>>}
  BY <1>2 DEF VisitItem, Noted
<1>10. item.types \in Seq(Types)
  BY <1>1, <1>3, <1>4, WitIs
<1>11. /\ \A v \in AllWorlds : worldKeys[v] \subseteq worldKeys'[v]
       /\ <<n.dir, n.item>> \in worldKeys'[n.world]
  <2>1. n.world \in AllWorlds /\ worldKeys \in [AllWorlds -> SUBSET (Dirs \X Items)]
    BY <1>1, <1>3 DEF Within, AllWorlds
  <2> QED BY <1>9, <2>1
<1>12. IsSeq(a) /\ \A t \in Range(item.types) : TypeDue(a, t)
  <2>1. IsSeq(a) /\ \A t \in Range(item.types) : TypeIn(a, t, dir)
    BY <1>6, <1>10, TypesAreVisited
  <2> QED BY <2>1 DEF TypeIn, TypeDue
<1>13. IsSeq(b) /\ \A f \in Range(item.funcs) : FuncDue(b, n.dir, n.item, f)
  <2>1. IsSeq(b)
    BY <1>1, <1>3, <1>7, FunctionsAreCalls DEF CallsOK
  <2> QED BY <1>1, <1>3, <1>4, <1>7, <2>1, FunctionsAreDue
<1>14. /\ IsSeq(p)
       /\ <<n.dir, n.item>> \notin visited =>
            /\ \A t \in Range(item.types) : TypeDue(p, t)
            /\ \A f \in Range(item.funcs) : FuncDue(p, n.dir, n.item, f)
  <2>1. CASE <<n.dir, n.item>> \in visited
    BY <1>8, <2>1, EmptyIsSeq
  <2>2. CASE <<n.dir, n.item>> \notin visited
    <3>1. Joins(p, a, b)
      BY <1>8, <1>12, <1>13, <2>2 DEF Joins
    <3>2. IsSeq(p)
      BY <3>1, JoinedHas
    <3> QED BY <1>12, <1>13, <3>1, <3>2, JoinedDue
  <2> QED BY <2>1, <2>2
<1>15. Replaces(calls', calls, p)
  BY <1>1, <1>3, <1>8, <1>14 DEF Replaces
<1>16. /\ \A v, d, i : ItemDue(calls, v, d, i) => ItemDue(calls', v, d, i) \/ (v = n.world /\ d = n.dir /\ i = n.item)
       /\ \A d, i, f : FuncDue(calls, d, i, f) => FuncDue(calls', d, i, f)
       /\ \A t : TypeDue(calls, t) => TypeDue(calls', t)
       /\ \A d, i, f : FuncDue(p, d, i, f) => FuncDue(calls', d, i, f)
       /\ \A t : TypeDue(p, t) => TypeDue(calls', t)
  BY <1>3, <1>15, ReplacedDue
<1>17. \A v \in Range(wit.all) : v \in AllWorlds
  BY <1>1, WorldHas
<1>18. \A v \in Range(wit.all), d \in Dirs : \A i \in Range(wit.worlds[v][d]) :
         <<d, i>> \in worldKeys'[v] \/ v \in Range(todo) \/ ItemDue(calls', v, d, i)
  BY <1>11, <1>16, <1>17 DEF Whole
<1>19. \A d \in Dirs, i \in Items : <<d, i>> \in visited' =>
         <<d, i>> \in visited \/ (d = n.dir /\ i = n.item /\ <<n.dir, n.item>> \notin visited)
  BY <1>9
<1>20. ASSUME NEW d \in Dirs, NEW i \in Items, <<d, i>> \in visited', NEW f \in Range(wit.items[i].funcs)
       PROVE  Has(functions, d, i, f) \/ FuncDue(calls', d, i, f)
  <2>1. CASE <<d, i>> \in visited
    BY <1>16, <2>1 DEF Whole
  <2>2. CASE d = n.dir /\ i = n.item /\ <<n.dir, n.item>> \notin visited
    BY <1>4, <1>14, <1>16, <2>2
  <2> QED BY <1>19, <1>20, <2>1, <2>2
<1>21. ASSUME NEW d \in Dirs, NEW i \in Items, <<d, i>> \in visited', NEW t \in Range(wit.items[i].types)
       PROVE  Mentioned(t) \/ TypeDue(calls', t)
  <2>1. CASE <<d, i>> \in visited
    BY <1>16, <2>1 DEF Whole
  <2>2. CASE d = n.dir /\ i = n.item /\ <<n.dir, n.item>> \notin visited
    BY <1>4, <1>14, <1>16, <2>2
  <2> QED BY <1>19, <1>21, <2>1, <2>2
<1>22. \A t : Mentioned(t)' = Mentioned(t)
  BY <1>1 DEF Mentioned
<1> QED BY <1>1, <1>18, <1>20, <1>21, <1>22 DEF Whole

LEMMA VisitFunctionWhole ==
  ASSUME Inv, Known, Whole, VisitFunction
  PROVE  Whole'
<1>1. /\ TypeOK /\ stage = "visit" /\ calls # <<>>
      /\ UNCHANGED <<wit, stage, todo, worldTypes, worldKeys, visited>>
  BY DEF Inv, VisitFunction
<1>2. PICK n : n = Head(calls) /\ n.do = "function"
  BY DEF VisitFunction
<1>3. PICK f : f = n.func
  OBVIOUS
<1>4. PICK p : /\ p = VisitTypes(f.func.parts, "none", n.world)
               /\ calls' = p \o Tail(calls) /\ functions' = Append(functions, f)
  BY <1>2, <1>3 DEF VisitFunction
<1>5. /\ IsSeq(calls) /\ 1 \in 1..Len(calls) /\ n = calls[1] /\ IsFunc(f)
  BY <1>1, <1>2, <1>3, FirstCall DEF TypeOK, VisitCall
<1>6. f.func.parts \in Seq(Types)
  BY <1>1, <1>5, FuncIs
<1>7. IsSeq(p)
  BY <1>4, <1>6, TypesAreVisited
<1>8. Replaces(calls', calls, p)
  BY <1>1, <1>4, <1>5, <1>7 DEF Replaces
<1>9. /\ Len(functions') = Len(functions) + 1 /\ functions'[Len(functions) + 1] = f
      /\ \A k \in 1..Len(functions) : functions'[k] = functions[k]
      /\ Len(functions) \in Nat
  BY <1>1, <1>4, AddedFunction
<1>10. /\ \A d, i, g : Has(functions, d, i, g) => Has(functions', d, i, g)
       /\ Has(functions', f.dir, f.item, f.func)
  <2>1. /\ \A k \in 1..Len(functions) : k \in 1..Len(functions')
        /\ Len(functions) + 1 \in 1..Len(functions')
    BY <1>9
  <2> QED BY <1>9, <2>1 DEF Has
<1>11. /\ \A v, d, i : ItemDue(calls, v, d, i) => ItemDue(calls', v, d, i)
       /\ \A d, i, g : FuncDue(calls, d, i, g) => FuncDue(calls', d, i, g) \/ (d = f.dir /\ i = f.item /\ g = f.func)
       /\ \A t : TypeDue(calls, t) => TypeDue(calls', t)
  BY <1>2, <1>3, <1>5, <1>8, ReplacedDue
<1>12. \A d, i, g : Has(functions, d, i, g) \/ FuncDue(calls, d, i, g) =>
                      Has(functions', d, i, g) \/ FuncDue(calls', d, i, g)
  BY <1>10, <1>11
<1>13. \A t : Mentioned(t)' = Mentioned(t)
  BY <1>1 DEF Mentioned
<1> QED BY <1>1, <1>11, <1>12, <1>13 DEF Whole

LEMMA VisitTypeWhole ==
  ASSUME Inv, Known, Whole, VisitType
  PROVE  Whole'
<1>1. /\ TypeOK /\ Within /\ stage = "visit" /\ calls # <<>>
      /\ UNCHANGED <<wit, stage, todo, worldKeys, visited, functions>>
  BY DEF Inv, Known, VisitType
<1>2. PICK n : n = Head(calls) /\ n.do = "visit"
  BY DEF VisitType
<1>3. PICK t : t = n.type
  OBVIOUS
<1>4. PICK parts : parts = IF Kind(t) = "handle" THEN <<>> ELSE Parts(t)
  OBVIOUS
<1>5. PICK a : a = VisitTypes(parts, IF Kind(t) = "alias" THEN "none" ELSE n.dir, n.world)
  OBVIOUS
<1>6. PICK o : o = <<[do |-> "visited", type |-> t]>>
  OBVIOUS
<1>7. PICK p : p = a \o o
  OBVIOUS
<1>8. /\ worldTypes' = [worldTypes EXCEPT ![n.world] = @ \cup {t}]
      /\ calls' = p \o Tail(calls)
  BY <1>2, <1>3, <1>4, <1>5, <1>6, <1>7, Zenon DEF VisitType
<1>9. /\ IsSeq(calls) /\ 1 \in 1..Len(calls) /\ n = calls[1] /\ t \in Types /\ n.world \in Worlds
  BY <1>1, <1>2, <1>3, FirstCall DEF TypeOK, VisitCall
<1>10. n.world \in Range(wit.all) /\ n.world \in AllWorlds
  <2>1. Belongs(wit, worldKeys, calls[1])
    BY <1>1, <1>9 DEF Within
  <2>2. n.world \in Range(wit.all)
    BY <1>2, <1>9, <2>1 DEF Belongs
  <2> QED BY <1>1, <2>2, WorldHas
<1>11. parts \in Seq(Types)
  BY <1>1, <1>4, <1>9, WitIs
<1>12. IsSeq(a)
  BY <1>5, <1>11, TypesAreVisited
<1>13. IsSeq(o)
  BY <1>6, OneIsSeq
<1>14. IsSeq(p)
  BY <1>7, <1>12, <1>13, Joined
<1>15. Replaces(calls', calls, p)
  BY <1>1, <1>8, <1>9, <1>14 DEF Replaces
<1>16. /\ \A v \in AllWorlds : worldTypes[v] \subseteq worldTypes'[v]
       /\ t \in worldTypes'[n.world]
  BY <1>1, <1>8, <1>10 DEF TypeOK
<1>17. \A v \in Range(wit.all) : v \in AllWorlds
  BY <1>1, WorldHas
<1>18. (\A u : Mentioned(u) => Mentioned(u)') /\ Mentioned(t)'
  BY <1>1, <1>10, <1>16, <1>17 DEF Mentioned
<1>19. /\ \A v, d, i : ItemDue(calls, v, d, i) => ItemDue(calls', v, d, i)
       /\ \A d, i, f : FuncDue(calls, d, i, f) => FuncDue(calls', d, i, f)
       /\ \A u : TypeDue(calls, u) => TypeDue(calls', u) \/ u = t
  BY <1>2, <1>3, <1>9, <1>15, ReplacedDue
<1>20. \A u : Mentioned(u) \/ TypeDue(calls, u) => Mentioned(u)' \/ TypeDue(calls', u)
  BY <1>18, <1>19
<1> QED BY <1>1, <1>19, <1>20 DEF Whole

LEMMA VisitedTypeWhole ==
  ASSUME Inv, Known, Whole, VisitedType
  PROVE  Whole'
<1>1. /\ TypeOK /\ stage = "visit" /\ calls # <<>>
      /\ UNCHANGED <<wit, stage, todo, worldTypes, worldKeys, visited, functions>>
      /\ calls' = Tail(calls)
  BY DEF Inv, VisitedType
<1>2. IsSeq(calls) /\ calls[1].do = "visited"
  <2>1. Head(calls).do = "visited"
    BY DEF VisitedType
  <2> QED BY <1>1, <2>1, FirstCall DEF TypeOK
<1>3. Replaces(calls', calls, <<>>)
  BY <1>1, RestReplaces DEF TypeOK
<1>4. /\ \A v, d, i : ItemDue(calls, v, d, i) => ItemDue(calls', v, d, i)
      /\ \A d, i, f : FuncDue(calls, d, i, f) => FuncDue(calls', d, i, f)
      /\ \A t : TypeDue(calls, t) => TypeDue(calls', t)
  BY <1>2, <1>3, ReplacedDue
<1>5. \A t : Mentioned(t)' = Mentioned(t)
  BY <1>1 DEF Mentioned
<1> QED BY <1>1, <1>4, <1>5 DEF Whole

LEMMA StartSortWhole ==
  ASSUME Whole, StartSort
  PROVE  Whole'
<1>1. /\ stage' = "sort" /\ calls = <<>> /\ todo = <<>>
      /\ UNCHANGED <<wit, worldTypes, worldKeys, visited, functions>>
  BY DEF StartSort
<1>2. /\ \A v, dir, i : ~ItemDue(calls, v, dir, i)
      /\ \A dir, i, f : ~FuncDue(calls, dir, i, f)
      /\ \A t : ~TypeDue(calls, t)
      /\ Range(todo) = {}
  <2>1. Range(<<>>) = {}
    BY DEF Range
  <2> QED BY <1>1, <2>1, NothingDue
<1>3. \A t : Mentioned(t)' = Mentioned(t)
  BY <1>1 DEF Mentioned
<1> QED BY <1>1, <1>2, <1>3 DEF Whole

LEMMA OtherWhole ==
  ASSUME Whole, stage # "visit", stage' # "visit", UNCHANGED <<wit, worldTypes, worldKeys, visited, functions>>
  PROVE  Whole'
<1>1. \A t : Mentioned(t)' = Mentioned(t)
  BY DEF Mentioned
<1> QED BY <1>1 DEF Whole

LEMMA RestWhole ==
  ASSUME Whole, UNCHANGED vars
  PROVE  Whole'
<1>1. UNCHANGED <<wit, stage, todo, calls, worldTypes, worldKeys, visited, functions>>
  BY DEF vars
<1>2. \A t : Mentioned(t)' = Mentioned(t)
  BY <1>1 DEF Mentioned
<1> QED BY <1>1, <1>2 DEF Whole

LEMMA InitWhole ==
  ASSUME Init
  PROVE  Whole
BY DEF Init, Whole

-----------------------------------------------------------------------------
(* What modules have when their worlds are apart.                          *)

NoRepeats(s) == \A j, k \in 1..Len(s) : s[j] = s[k] => j = k
HasAClass(t) == NeedsLocation(t) \/ Kind(t) = "stream"

\* Each type and each module is generated once.
Once ==
  /\ NoRepeats(types) /\ NoRepeats(left) /\ NoRepeats(todo)
  /\ left # <<>> => "functions" \in Range(left)
  /\ \A m \in Range(todo) : \A t \in worldTypes[WorldOf(m)] :
       HasAClass(t) /\ t \in DOMAIN locations => m = Head(todo) /\ left # <<>> /\ t \notin Range(left)

\* What has a place has it in the module of its world.
Home ==
  /\ \A t \in DOMAIN locations : \E m \in Range(wit.modules) :
       locations[t] = m.name /\ t \in worldTypes[WorldOf(m)]
  /\ \A i \in DOMAIN keys : \E m \in Range(wit.modules) :
       keys[i] = m.name /\ i \in Items /\ <<"export", i>> \in worldKeys[WorldOf(m)]

HasStreams == \A t \in DOMAIN locations : Kind(t) = "stream" => HasConstructor(locations[t], t)

HasWrappers(m) ==
  \A k \in 1..Len(functions) :
    Freestanding(functions[k]) /\ <<functions[k].dir, functions[k].item>> \in worldKeys[WorldOf(m)] =>
      \E d \in files : d.module = m.name /\ d.name = <<functions[k].item, functions[k].func.name, "">>

Filled ==
  /\ \A v \in Worlds : \A t \in worldTypes[v] : HasAClass(t) => t \in Range(types)
  /\ Once /\ Home /\ HasStreams
  /\ \A d \in files : d.from = Class
  /\ \A m \in Range(wit.modules) : m \in Range(todo) \/ HasWrappers(m)

\* What BindingsAreComplete says of the modules.
Complete(w, T, F) ==
  \A m \in Range(w.modules) : \A v \in m.worlds :
    LET defined == {d.name : d \in {e \in F : e.module = m.name}}
    IN  /\ \A d \in F : d.from # Class => \E e \in F : Alias(e.module) = d.from
                                                  /\ e.file = <<"init">> /\ e.name = d.name /\ e.from = Class
        /\ \A dir \in {"import", "export"} : \A i \in Range(w.worlds[v][dir]) :
             /\ \A t \in Range(w.items[i].types) :
                  w.types[t].kind \in {"record", "variant", "enum", "resource"} => <<t, "">> \in defined
             /\ \A f \in Range(w.items[i].funcs) :
                  f.res = NoType => <<i, f.name, "">> \in defined
        /\ \A t \in T[v] : w.types[t].kind = "stream" => ConstructorOf(w, t) \in defined

Kept ==
  /\ Symbolic /\ WorldsAreApart(wit) /\ Whole /\ NoRepeats(order.sorted)
  /\ stage \in {"visit", "sort"} => files = {}
  /\ stage \in {"sorted", "generate", "collect"} => Filled
  /\ stage \in {"done", "unresolved"} => Complete(wit, worldTypes, files)

LEMMA BindingsAreCompleteIs ==
  BindingsAreComplete <=> (stage \in {"collect", "done", "unresolved"} => Complete(wit, worldTypes, files))
BY Zenon DEF BindingsAreComplete, Complete, NeedsLocation, Kind, Constructor

LEMMA ApartAreSeparate ==
  ASSUME NEW w, WorldsAreApart(w)
  PROVE  ModulesAreSeparate(w)
<1>1. /\ \A v \in Range(w.all) : \E m \in Range(w.modules) : m.worlds = {v}
      /\ \A m \in Range(w.modules) : \E v \in Range(w.all) : m.worlds = {v}
  BY DEF WorldsAreApart
<1>2. \A u, v \in Range(w.all) : \A i \in Range(w.worlds[u].export) \cap Range(w.worlds[v].export) : u = v
  BY DEF WorldsAreApart
<1> QED BY <1>1, <1>2 DEF ModulesAreSeparate

LEMMA ModulesSeq ==
  ASSUME TypeOK
  PROVE  IsSeq(wit.modules) /\ DOMAIN wit.modules = 1..Len(wit.modules)
<1>1. wit.modules \in Seq(Range(wit.modules))
  BY WitsAssumption, Zenon DEF TypeOK, IsWit
<1>2. IsSeq(wit.modules)
  BY <1>1 DEF IsSeq
<1> QED BY <1>2, SeqIs

\* A world has one module.
LEMMA OneModule ==
  ASSUME TypeOK, WorldsAreApart(wit), NEW m \in Range(wit.modules), NEW n \in Range(wit.modules),
         WorldOf(m) = WorldOf(n)
  PROVE  m = n
<1>1. m.worlds = n.worlds
  BY ApartAreSeparate, ModuleWorld
<1>2. PICK j \in 1..Len(wit.modules) : m = wit.modules[j]
  BY ModulesSeq DEF Range
<1>3. PICK k \in 1..Len(wit.modules) : n = wit.modules[k]
  BY ModulesSeq DEF Range
<1>4. j = k
  BY <1>1, <1>2, <1>3 DEF WorldsAreApart
<1> QED BY <1>2, <1>3, <1>4

LEMMA TypeHasOneWorld ==
  ASSUME TypeOK, WorldsAreApart(wit), NEW u \in Range(wit.all), NEW v \in Range(wit.all),
         NEW t \in TypesOf(wit, u) \cap TypesOf(wit, v), HasAClass(t)
  PROVE  u = v
BY DEF WorldsAreApart, HasAClass, NeedsLocation, Kind

\* A class or a constructor is of one module, as is an export.
LEMMA OneHome ==
  ASSUME Symbolic, WorldsAreApart(wit), NEW m \in Range(wit.modules), NEW n \in Range(wit.modules)
  PROVE  /\ \A t \in worldTypes[WorldOf(m)] : t \in worldTypes[WorldOf(n)] /\ HasAClass(t) => m = n
         /\ \A i \in Items : <<"export", i>> \in worldKeys[WorldOf(m)] /\ <<"export", i>> \in worldKeys[WorldOf(n)] => m = n
<1>1. TypeOK /\ Within
  BY DEF Symbolic, Inv, Known
<1>2. PICK u : u = WorldOf(m)
  OBVIOUS
<1>3. PICK v : v = WorldOf(n)
  OBVIOUS
<1>4. u \in Range(wit.all) /\ v \in Range(wit.all)
  BY <1>1, <1>2, <1>3, ApartAreSeparate, ModuleWorld
<1>5. u \in Worlds /\ v \in Worlds
  BY <1>1, <1>4, WorldHas
<1>6. ASSUME NEW t \in worldTypes[u], t \in worldTypes[v], HasAClass(t)
      PROVE  u = v
  <2>1. t \in TypesOf(wit, u) \cap TypesOf(wit, v)
    BY <1>1, <1>4, <1>6 DEF Within
  <2> QED BY <1>1, <1>4, <1>6, <2>1, TypeHasOneWorld
<1>7. ASSUME NEW i \in Items, <<"export", i>> \in worldKeys[u], <<"export", i>> \in worldKeys[v]
      PROVE  u = v
  <2>1. i \in Range(wit.worlds[u]["export"]) /\ i \in Range(wit.worlds[v]["export"])
    BY <1>1, <1>5, <1>7 DEF Within, Dirs
  <2> QED BY <1>4, <2>1 DEF WorldsAreApart
<1>8. u = v => m = n
  BY <1>1, <1>2, <1>3, OneModule
<1> QED BY <1>2, <1>3, <1>6, <1>7, <1>8

LEMMA InsertedOnce ==
  ASSUME NEW s \in Seq(Types), NEW t \in Types, NoRepeats(s)
  PROVE  NoRepeats(Declare(s, t))
<1>1. CASE HasNoClass(t) \/ Contains(s, t)
  <2>1. Declare(s, t) = s
    BY <1>1 DEF Declare, Insert
  <2> QED BY <2>1
<1>2. CASE ~HasNoClass(t) /\ ~Contains(s, t)
  <2>1. PICK q : q = Append(s, t)
    OBVIOUS
  <2>2. Declare(s, t) = q
    BY <1>2, <2>1 DEF Declare, Insert
  <2>3. /\ Len(s) \in Nat /\ Len(q) = Len(s) + 1 /\ q[Len(s) + 1] = t
        /\ \A n \in 1..Len(s) : q[n] = s[n]
    BY <2>1
  <2>4. \A n \in 1..Len(s) : s[n] # t
    BY <1>2 DEF Contains
  <2>5. \A n \in 1..Len(q) : n \in 1..Len(s) \/ n = Len(s) + 1
    BY <2>3
  <2>6. NoRepeats(q)
    BY <2>3, <2>4, <2>5 DEF NoRepeats
  <2> QED BY <2>2, <2>6
<1> QED BY <1>1, <1>2

LEMMA AddedOnce ==
  ASSUME NEW s, NEW e, NEW q, IsSeq(s), q = s \o <<e>>, e \notin Range(s), NoRepeats(s)
  PROVE  NoRepeats(q) /\ e \in Range(q)
<1>1. PICK o : o = <<e>>
  OBVIOUS
<1>2. IsSeq(o) /\ Len(o) = 1 /\ o[1] = e
  BY <1>1, OneIsSeq
<1>3. q = s \o o
  BY <1>1
<1>4. /\ IsSeq(q) /\ Len(q) = Len(s) + Len(o)
      /\ \A i \in 1..(Len(s) + Len(o)) : q[i] = IF i <= Len(s) THEN s[i] ELSE o[i - Len(s)]
  BY <1>2, <1>3, Joined
<1>5. Len(s) \in Nat /\ DOMAIN s = 1..Len(s) /\ DOMAIN q = 1..Len(q)
  BY <1>4, SeqIs
<1>6. \A i \in 1..Len(s) : q[i] = s[i] /\ s[i] # e
  BY <1>2, <1>4, <1>5 DEF Range
<1>7. q[Len(s) + 1] = e /\ Len(s) + 1 \in 1..Len(q)
  BY <1>2, <1>4, <1>5
<1>8. \A i \in 1..Len(q) : i \in 1..Len(s) \/ i = Len(s) + 1
  BY <1>2, <1>4, <1>5
<1>9. NoRepeats(q)
  BY <1>6, <1>7, <1>8 DEF NoRepeats
<1>10. e \in Range(q)
  BY <1>5, <1>7 DEF Range
<1> QED BY <1>9, <1>10

LEMMA TailOnce ==
  ASSUME NEW S, NEW s \in Seq(S), s # <<>>, NoRepeats(s)
  PROVE  NoRepeats(Tail(s)) /\ Head(s) \notin Range(Tail(s))
<1>1. /\ Tail(s) \in Seq(S) /\ Len(Tail(s)) = Len(s) - 1
      /\ \A i \in 1..Len(Tail(s)) : Tail(s)[i] = s[i + 1]
  BY HeadTailProperties
<1>2. Len(s) \in Nat /\ Len(s) > 0 /\ Head(s) = s[1]
  BY SeqIs DEF IsSeq
<1>3. DOMAIN Tail(s) = 1..Len(Tail(s))
  BY <1>1
<1>4. \A i \in 1..Len(Tail(s)) : i + 1 \in 1..Len(s) /\ i + 1 # 1
  BY <1>1, <1>2
<1>5. 1 \in 1..Len(s)
  BY <1>2
<1>6. ASSUME NEW j \in 1..Len(Tail(s)), NEW k \in 1..Len(Tail(s)), Tail(s)[j] = Tail(s)[k]
      PROVE  j = k
  <2>1. s[j + 1] = s[k + 1] /\ j + 1 \in 1..Len(s) /\ k + 1 \in 1..Len(s)
    BY <1>1, <1>4, <1>6
  <2>2. j + 1 = k + 1
    BY <2>1 DEF NoRepeats
  <2> QED BY <2>2
<1>7. \A i \in 1..Len(Tail(s)) : Tail(s)[i] # Head(s)
  BY <1>1, <1>2, <1>4, <1>5 DEF NoRepeats
<1>8. Head(s) \notin Range(Tail(s))
  BY <1>3, <1>7 DEF Range
<1> QED BY <1>6, <1>8 DEF NoRepeats

\* What is in the files stays there.
LEMMA StillThere ==
  ASSUME files \subseteq files', UNCHANGED <<wit, worldKeys, functions>>
  PROVE  /\ \A t, x : HasConstructor(x, t) => HasConstructor(x, t)'
         /\ \A m : HasWrappers(m) => HasWrappers(m)'
         /\ \A t : HasAClass(t)' = HasAClass(t)
<1>1. \A t : Constructor(t)' = Constructor(t)
  BY DEF Constructor
<1>2. \A t, x : HasConstructor(x, t) => HasConstructor(x, t)'
  BY <1>1 DEF HasConstructor
<1>3. \A m : HasWrappers(m) => HasWrappers(m)'
  BY DEF HasWrappers, Freestanding
<1>4. \A t : HasAClass(t)' = HasAClass(t)
  BY DEF HasAClass, NeedsLocation, Kind
<1> QED BY <1>2, <1>3, <1>4

LEMMA FinishSortFilled ==
  ASSUME Kept, FinishSort
  PROVE  Filled'
<1>1. /\ Symbolic /\ TypeOK /\ stage = "sort" /\ stage' = "sorted" /\ todo' = wit.modules /\ types' = order.sorted
      /\ left = <<>> /\ locations = <<>> /\ keys = <<>> /\ files = {} /\ NoRepeats(order.sorted) /\ WorldsAreApart(wit)
      /\ UNCHANGED <<wit, worldTypes, worldKeys, visited, functions, left, locations, keys, files>>
  BY DEF Kept, Symbolic, Inv, FinishSort
<1>2. TypeOK' /\ OrderIsSound'
  BY <1>1, FinishSortInv DEF Symbolic, Inv
<1>3. \A t : HasAClass(t)' = HasAClass(t)
  BY <1>1, StillThere
<1>4. ASSUME NEW v \in Worlds, NEW t \in worldTypes[v], HasAClass(t)
      PROVE  t \in Range(types')
  <2>1. t \in Types /\ ~HasNoClass(t)
    BY <1>1, <1>4 DEF TypeOK, AllWorlds, HasAClass, NeedsLocation, HasNoClass
  <2>2. Contains(types', t)
    BY <1>1, <1>2, <2>1 DEF OrderIsSound, HasNoClass, Kind
  <2> QED BY <2>2 DEF Contains, Range
<1>5. NoRepeats(wit.modules)
  BY <1>1 DEF WorldsAreApart, NoRepeats
<1>6. DOMAIN locations = {} /\ DOMAIN keys = {}
  BY <1>1
<1>7. NoRepeats(<<>>)
  BY EmptyIsSeq DEF NoRepeats
<1>8. Once'
  BY <1>1, <1>5, <1>6, <1>7 DEF Once, NoRepeats
<1>9. Home' /\ HasStreams'
  BY <1>1, <1>6 DEF Home, HasStreams
<1> QED BY <1>1, <1>3, <1>4, <1>8, <1>9 DEF Filled

LEMMA StartModuleFilled ==
  ASSUME Kept, StartModule
  PROVE  Filled'
<1>1. /\ Symbolic /\ TypeOK /\ Filled /\ left = <<>> /\ left' = types \o <<"functions">> /\ todo # <<>>
      /\ UNCHANGED <<wit, todo, types, worldTypes, worldKeys, functions, locations, keys, files>>
  BY DEF Kept, Symbolic, Inv, StartModule
<1>2. /\ \A t, x : HasConstructor(x, t) => HasConstructor(x, t)'
      /\ \A m : HasWrappers(m) => HasWrappers(m)'
      /\ \A t : HasAClass(t)' = HasAClass(t)
  BY <1>1, StillThere
<1>3. IsSeq(types) /\ "functions" \notin Range(types) /\ NoRepeats(types)
  BY <1>1, TypesAssumption DEF TypeOK, IsSeq, Range, Filled, Once
<1>4. NoRepeats(left') /\ "functions" \in Range(left')
  BY <1>1, <1>3, AddedOnce
<1>5. Once'
  <2>1. NoRepeats(types') /\ NoRepeats(left') /\ NoRepeats(todo')
    BY <1>1, <1>4 DEF Filled, Once
  <2>2. ASSUME NEW m \in Range(todo), NEW t \in worldTypes[WorldOf(m)], HasAClass(t), t \in DOMAIN locations
        PROVE  FALSE
    BY <1>1, <2>2 DEF Filled, Once
  <2> QED BY <1>1, <1>2, <1>4, <2>1, <2>2 DEF Once, NoRepeats
<1>6. Home'
  BY <1>1 DEF Filled, Home
<1>7. HasStreams'
  BY <1>1, <1>2 DEF Filled, HasStreams, Kind
<1> QED BY <1>1, <1>2, <1>5, <1>6, <1>7 DEF Filled

LEMMA EachFrom ==
  ASSUME NEW module, NEW places, NEW names, NEW from
  PROVE  \A d \in InEach(module, places, names, from) : d.from = from
BY DEF InEach, Defines

LEMMA GenerateTypeFilled ==
  ASSUME Kept, GenerateType, stage' # "panic"
  PROVE  Filled'
<1>1. /\ Symbolic /\ TypeOK /\ Known /\ Generated /\ Filled /\ WorldsAreApart(wit) /\ left # <<>>
      /\ stage = "generate" /\ left' = Tail(left) /\ Head(left) # "functions"
      /\ UNCHANGED <<wit, stage, todo, types, worldTypes, worldKeys, visited, info, functions, keys>>
  BY DEF Kept, Symbolic, Inv, GenerateType
<1>2. PICK t : t = Head(left)
  OBVIOUS
<1>3. PICK m : m = Head(todo)
  OBVIOUS
<1>4. PICK v : v = WorldOf(m)
  OBVIOUS
<1>5. IsSeq(left) /\ todo \in Seq(Range(wit.modules)) /\ todo # <<>>
  BY <1>1 DEF Generated
<1>6. m \in Range(wit.modules) /\ m \in Range(todo)
  BY <1>3, <1>5, HeadOrTail
<1>7. v \in Range(wit.all)
  BY <1>1, <1>4, <1>6, ModuleWorld, ApartAreSeparate
<1>8. v \in AllWorlds
  BY <1>1, <1>7, WorldHas
<1>9. /\ NoRepeats(Tail(left)) /\ t \notin Range(Tail(left)) /\ Range(Tail(left)) \subseteq Range(left)
      /\ t \in Range(left) /\ "functions" \in Range(Tail(left))
  <2>1. PICK S : left \in Seq(S)
    BY <1>5 DEF IsSeq
  <2>2. NoRepeats(left) /\ "functions" \in Range(left)
    BY <1>1 DEF Filled, Once
  <2> QED BY <1>1, <1>2, <2>1, <2>2, TailOnce, HeadOrTail
<1>10. Tail(left) # <<>>
  <2>1. Range(<<>>) = {}
    BY DEF Range
  <2> QED BY <1>9, <2>1
<1>11. t \in worldTypes[v] /\ t \in DOMAIN locations => ~HasAClass(t)
  <2>1. HasAClass(t) /\ t \in worldTypes[v] /\ t \in DOMAIN locations => t \notin Range(left)
    BY <1>1, <1>4, <1>6 DEF Filled, Once
  <2> QED BY <1>9, <2>1
<1>12. PICK new : new = InEach(m.name, Placed(t), Classes(t), Class)
  OBVIOUS
<1>13. \/ locations' = locations /\ files' = files
       \/ /\ t \in worldTypes[v] /\ t \notin DOMAIN locations
          /\ locations' = [u \in DOMAIN locations \cup {t} |-> IF u = t THEN m.name ELSE locations[u]]
          /\ files \subseteq files' /\ (HasCode(t) => new \subseteq files')
          /\ \A d \in files' : d \in files \/ d.from = Class
  <2>1. OneType(Head(left), Head(todo).name, WorldOf(Head(todo)))
    BY Zenon DEF GenerateType, OneType
  <2>2. OneType(t, m.name, v)
    BY <1>2, <1>3, <1>4, <2>1
  <2>3. CASE t \notin worldTypes[v]
    BY <2>2, <2>3 DEF OneType
  <2>4. CASE t \in worldTypes[v] /\ t \in DOMAIN locations
    <3>1. ~HasCode(t)
      BY <1>11, <2>4 DEF HasCode, HasAClass, NeedsLocation
    <3>2. PICK aliases : aliases = InEach(m.name, Placed(t), Aliases(t), Alias(locations[t]))
      OBVIOUS
    <3>3. locations' = locations /\ files' = files \cup (IF HasCode(t) THEN aliases ELSE {})
      BY <1>1, <2>2, <2>4, <3>2, Zenon DEF OneType
    <3> QED BY <3>1, <3>3
  <2>5. CASE t \in worldTypes[v] /\ t \notin DOMAIN locations
    <3>1. PICK methods :
            methods = UNION {{Defines(m.name, <<"export", f.item>>, name, Class) : name \in Method(t, f.func)} :
                               f \in Methods(t, "export", "local")}
      OBVIOUS
    <3>2. /\ locations' = [u \in DOMAIN locations \cup {t} |-> IF u = t THEN m.name ELSE locations[u]]
          /\ files' = files \cup (IF HasCode(t) THEN new ELSE {}) \cup methods
      BY <1>1, <1>12, <2>2, <2>5, <3>1, Zenon DEF OneType
    <3>3. \A d \in new : d.from = Class
      BY <1>12, EachFrom
    <3>4. \A d \in methods : d.from = Class
      BY <3>1 DEF Defines
    <3>5. \A d \in files' : d \in files \/ d.from = Class
      BY <3>2, <3>3, <3>4
    <3> QED BY <2>5, <3>2, <3>5
  <2> QED BY <2>3, <2>4, <2>5
<1>14. /\ \A u, x : HasConstructor(x, u) => HasConstructor(x, u)'
       /\ \A x : HasWrappers(x) => HasWrappers(x)'
       /\ \A u : HasAClass(u)' = HasAClass(u)
  BY <1>1, <1>13, StillThere
<1>15. /\ DOMAIN locations' \subseteq DOMAIN locations \cup {t}
       /\ \A u \in DOMAIN locations : locations'[u] = locations[u]
       /\ t \in DOMAIN locations' => t \in DOMAIN locations \/ (t \in worldTypes[v] /\ locations'[t] = m.name)
  BY <1>13
<1>16. ASSUME NEW n \in Range(todo), NEW u \in worldTypes[WorldOf(n)], HasAClass(u), u \in DOMAIN locations'
       PROVE  n = m /\ u \notin Range(Tail(left))
  <2>1. CASE u \in DOMAIN locations
    BY <1>1, <1>3, <1>9, <1>16, <2>1 DEF Filled, Once
  <2>2. CASE u \notin DOMAIN locations
    <3>1. u = t /\ t \in worldTypes[v] /\ n \in Range(wit.modules)
      BY <1>5, <1>15, <1>16, <2>2 DEF Range
    <3>2. n = m
      BY <1>1, <1>4, <1>6, <1>16, <3>1, OneHome
    <3> QED BY <1>9, <3>1, <3>2
  <2> QED BY <2>1, <2>2
<1>17. Once'
  <2>1. NoRepeats(types') /\ NoRepeats(left') /\ NoRepeats(todo')
    BY <1>1, <1>9 DEF Filled, Once
  <2> QED BY <1>1, <1>3, <1>9, <1>10, <1>14, <1>16, <2>1 DEF Once, NoRepeats
<1>18. Home'
  <2>1. \A u \in DOMAIN locations' : \E n \in Range(wit.modules) :
          locations'[u] = n.name /\ u \in worldTypes[WorldOf(n)]
    BY <1>1, <1>4, <1>6, <1>15 DEF Filled, Home
  <2> QED BY <1>1, <2>1 DEF Filled, Home
<1>19. ASSUME NEW u \in DOMAIN locations', Kind(u) = "stream"
       PROVE  \E d \in files' : d.module = locations'[u] /\ d.name = Constructor(u)
  <2>1. CASE u \in DOMAIN locations
    <3>1. HasConstructor(locations[u], u)
      BY <1>1, <1>19, <2>1 DEF Filled, HasStreams
    <3>2. PICK d \in files : d.module = locations[u] /\ d.name = Constructor(u)
      BY <3>1 DEF HasConstructor
    <3> QED BY <1>13, <1>15, <2>1, <3>2
  <2>2. CASE u \notin DOMAIN locations
    <3>1. u = t /\ t \in worldTypes[v] /\ locations'[t] = m.name /\ t \notin DOMAIN locations
      BY <1>15, <1>19, <2>2
    <3>2. CASE HasConstructor(m.name, t)
      <4>1. PICK d \in files : d.module = m.name /\ d.name = Constructor(t)
        BY <3>2 DEF HasConstructor
      <4> QED BY <1>13, <3>1, <4>1
    <3>3. CASE ~HasConstructor(m.name, t)
      <4>1. HasCode(t) /\ Constructor(t) \in Classes(t)
        BY <1>3, <1>19, <3>1, <3>3 DEF HasCode, Classes
      <4>2. t \in Types /\ Mentioned(t)
        BY <1>1, <1>7, <1>8, <3>1 DEF TypeOK, Mentioned
      <4>3. SymbolFile(t) \in Placed(t)
        BY <1>1, <4>2, Placing
      <4>4. PICK d : d = Defines(m.name, SymbolFile(t), Constructor(t), Class)
        OBVIOUS
      <4>5. d \in new /\ d.module = m.name /\ d.name = Constructor(t)
        BY <1>12, <4>1, <4>3, <4>4, EachHas DEF Defines
      <4>6. d \in files'
        BY <1>13, <3>1, <4>1, <4>5
      <4> QED BY <3>1, <4>5, <4>6
    <3> QED BY <3>2, <3>3
  <2> QED BY <2>1, <2>2
<1>20. HasStreams'
  <2>1. \A u : Constructor(u)' = Constructor(u) /\ Kind(u)' = Kind(u)
    BY <1>1 DEF Constructor, Kind
  <2> QED BY <1>19, <2>1 DEF HasStreams, HasConstructor
<1>21. \A d \in files' : d.from = Class
  BY <1>1, <1>13 DEF Filled
<1> QED BY <1>1, <1>14, <1>17, <1>18, <1>20, <1>21 DEF Filled

\* A module takes nothing of a protocol from another.
LEMMA AllFromHere ==
  ASSUME Symbolic, WorldsAreApart(wit), Home, NEW m \in Range(wit.modules), NEW f \in Mine(m)
  PROVE  From(m, f) = Class
<1>1. TypeOK
  BY DEF Symbolic, Inv
<1>2. ASSUME NEW h \in Mine(m), h.dir = "export", h.item \in DOMAIN keys
      PROVE  keys[h.item] = m.name
  <2>1. PICK n \in Range(wit.modules) :
          keys[h.item] = n.name /\ h.item \in Items /\ <<"export", h.item>> \in worldKeys[WorldOf(n)]
    BY <1>2 DEF Home
  <2>2. <<"export", h.item>> \in worldKeys[WorldOf(m)]
    BY <1>2 DEF Mine
  <2>3. m = n
    BY <2>1, <2>2, OneHome
  <2> QED BY <2>1, <2>3
<1>3. Peers(m, f) = {}
  BY <1>2 DEF Peers
<1> QED BY <1>3 DEF From

LEMMA GenerateFunctionsFilled ==
  ASSUME Kept, GenerateFunctions
  PROVE  Filled'
<1>1. /\ Symbolic /\ TypeOK /\ Known /\ Generated /\ Filled /\ Home /\ WorldsAreApart(wit) /\ left = <<"functions">>
      /\ left' = <<>> /\ todo' = Tail(todo) /\ stage = "generate"
      /\ UNCHANGED <<wit, types, worldTypes, worldKeys, visited, info, functions, locations>>
  BY DEF Kept, Symbolic, Inv, GenerateFunctions, Filled
<1>2. PICK m : m = Head(todo)
  OBVIOUS
<1>3. PICK new :
        new = UNION {{Defines(m.name, FileOf(f), name, From(m, f)) : name \in Named(f)} : f \in Mine(m)}
  OBVIOUS
<1>4. /\ files' = files \cup new
      /\ keys' = [i \in DOMAIN keys \cup Exports(m) |-> IF i \in DOMAIN keys THEN keys[i] ELSE m.name]
  BY <1>2, <1>3, FunctionsGenerated DEF AllFunctions
<1>5. left # <<>>
  BY <1>1, OneIsSeq, EmptyIsSeq
<1>6. todo \in Seq(Range(wit.modules)) /\ todo # <<>>
  BY <1>1, <1>5 DEF Generated
<1>7. /\ m \in Range(wit.modules) /\ NoRepeats(Tail(todo)) /\ m \notin Range(Tail(todo))
      /\ Range(Tail(todo)) \subseteq Range(todo)
      /\ \A n \in Range(todo) : n = m \/ n \in Range(Tail(todo))
  <2>1. NoRepeats(todo)
    BY <1>1 DEF Filled, Once
  <2>2. m \in Range(todo)
    BY <1>2, <1>6, HeadOrTail
  <2>3. Range(todo) \subseteq Range(wit.modules)
    BY <1>6 DEF Range
  <2> QED BY <1>2, <1>6, <2>1, <2>2, <2>3, TailOnce, HeadOrTail
<1>8. \A f \in Mine(m) : From(m, f) = Class
  BY <1>1, <1>7, AllFromHere
<1>9. files \subseteq files'
  BY <1>4
<1>10. /\ \A u, x : HasConstructor(x, u) => HasConstructor(x, u)'
       /\ \A x : HasWrappers(x) => HasWrappers(x)'
       /\ \A u : HasAClass(u)' = HasAClass(u)
  BY <1>1, <1>9, StillThere
<1>11. \A d \in new : d.from = Class
  BY <1>3, <1>8 DEF Defines
<1>12. \A d \in files' : d.from = Class
  BY <1>1, <1>4, <1>11 DEF Filled
<1>13. Once'
  <2>1. NoRepeats(types') /\ NoRepeats(left') /\ NoRepeats(todo')
    BY <1>1, <1>7, EmptyIsSeq DEF Filled, Once, NoRepeats
  <2>2. ASSUME NEW n \in Range(Tail(todo)), NEW t \in worldTypes[WorldOf(n)], HasAClass(t), t \in DOMAIN locations
        PROVE  FALSE
    BY <1>1, <1>2, <1>7, <2>2 DEF Filled, Once
  <2> QED BY <1>1, <1>10, <2>1, <2>2 DEF Once, NoRepeats
<1>14. Home'
  <2>1. ASSUME NEW i \in DOMAIN keys'
        PROVE  \E n \in Range(wit.modules) :
                 keys'[i] = n.name /\ i \in Items /\ <<"export", i>> \in worldKeys[WorldOf(n)]
    <3>1. CASE i \in DOMAIN keys
      BY <1>1, <1>4, <3>1 DEF Home
    <3>2. CASE i \notin DOMAIN keys
      <4>1. i \in Exports(m) /\ keys'[i] = m.name
        BY <1>4, <2>1, <3>2
      <4>2. PICK k \in 1..Len(functions) :
              i = functions[k].item /\ Shown(functions[k]) /\ <<"export", i>> \in worldKeys[WorldOf(m)]
        BY <1>1, <4>1, MineIs
      <4>3. i \in Items
        BY <1>1, <4>2 DEF TypeOK, FunctionsOK, IsFunc
      <4> QED BY <1>7, <4>1, <4>2, <4>3
    <3> QED BY <3>1, <3>2
  <2> QED BY <1>1, <2>1 DEF Home
<1>15. HasStreams'
  BY <1>1, <1>10 DEF Filled, HasStreams, Kind
<1>16. HasWrappers(m)'
  <2>1. ASSUME NEW k \in 1..Len(functions), Freestanding(functions[k]),
               <<functions[k].dir, functions[k].item>> \in worldKeys[WorldOf(m)]
        PROVE  \E d \in files' : d.module = m.name /\ d.name = <<functions[k].item, functions[k].func.name, "">>
    <3>1. PICK f : f = functions[k]
      OBVIOUS
    <3>2. DOMAIN functions = 1..Len(functions)
      BY <1>1, SeqIs DEF TypeOK, FunctionsOK
    <3>3. f \in Mine(m)
      BY <2>1, <3>1, <3>2 DEF Mine, Range
    <3>4. PICK name : name = <<f.item, f.func.name, "">>
      OBVIOUS
    <3>5. name \in Named(f)
      BY <3>4 DEF Named, Method
    <3>6. PICK d : d = Defines(m.name, FileOf(f), name, From(m, f))
      OBVIOUS
    <3>7. d \in new /\ d.module = m.name /\ d.name = name
      BY <1>3, <3>3, <3>5, <3>6 DEF Defines
    <3> QED BY <1>4, <3>1, <3>4, <3>7
  <2>2. \A f : Freestanding(f)' = Freestanding(f)
    BY DEF Freestanding
  <2> QED BY <1>1, <2>1, <2>2 DEF HasWrappers
<1>17. \A n \in Range(wit.modules) : n \in Range(todo') \/ HasWrappers(n)'
  BY <1>1, <1>7, <1>10, <1>16 DEF Filled
<1> QED BY <1>1, <1>10, <1>12, <1>13, <1>14, <1>15, <1>17 DEF Filled

\* All modules are made when the symbols are collected.
LEMMA AllIsMade ==
  ASSUME Kept, stage = "collect", NEW m \in Range(wit.modules)
  PROVE  /\ Made(m) /\ HasWrappers(m) /\ m.worlds = {WorldOf(m)}
         /\ WorldOf(m) \in Range(wit.all) /\ WorldOf(m) \in Worlds /\ WorldOf(m) \in AllWorlds
<1>1. TypeOK /\ Generated /\ Filled /\ WorldsAreApart(wit)
  BY DEF Kept, Symbolic, Inv
<1>2. todo = <<>> /\ Range(<<>>) = {}
  BY <1>1 DEF Generated, Range
<1>3. Made(m) /\ HasWrappers(m)
  BY <1>1, <1>2 DEF Generated, Filled
<1>4. WorldOf(m) \in Range(wit.all) /\ m.worlds = {WorldOf(m)}
  BY <1>1, ApartAreSeparate, ModuleWorld
<1>5. WorldOf(m) \in Worlds /\ WorldOf(m) \in AllWorlds
  BY <1>1, <1>4, WorldHas
<1> QED BY <1>3, <1>4, <1>5

\* What is located is in the module of its world.
LEMMA LocatedHere ==
  ASSUME Kept, Filled, NEW m \in Range(wit.modules), NEW t \in worldTypes[WorldOf(m)], HasAClass(t), t \in DOMAIN locations
  PROVE  locations[t] = m.name
<1>1. PICK n \in Range(wit.modules) : locations[t] = n.name /\ t \in worldTypes[WorldOf(n)]
  BY DEF Filled, Home
<1>2. m = n
  BY <1>1, OneHome DEF Kept
<1> QED BY <1>1, <1>2

LEMMA ClassesAreHere ==
  ASSUME Kept, stage = "collect", NEW m \in Range(wit.modules), NEW dir \in Dirs,
         NEW i \in Range(wit.worlds[WorldOf(m)][dir]), NEW t \in Range(wit.items[i].types), NeedsLocation(t)
  PROVE  \E d \in files : d.module = m.name /\ d.name = <<t, "">>
<1>1. Symbolic /\ TypeOK /\ Within /\ Filled /\ WorldsAreApart(wit) /\ Whole
  BY DEF Kept, Symbolic, Inv, Known
<1>2. PICK v : v = WorldOf(m)
  OBVIOUS
<1>3. v \in Range(wit.all) /\ v \in Worlds /\ v \in AllWorlds
  BY <1>2, AllIsMade
<1>4. i \in Items /\ i \in ItemsOf(wit, v)
  BY <1>1, <1>2, <1>3, WorldHas
<1>5. <<dir, i>> \in worldKeys[v]
  BY <1>1, <1>2, <1>3 DEF Whole
<1>6. <<dir, i>> \in visited
  BY <1>1, <1>3, <1>5 DEF Within
<1>7. Mentioned(t)
  BY <1>1, <1>4, <1>6 DEF Whole
<1>8. PICK u \in Range(wit.all) : t \in worldTypes[u]
  BY <1>7 DEF Mentioned
<1>9. t \in TypesOf(wit, u) \cap TypesOf(wit, v)
  <2>1. t \in TypesOf(wit, u)
    BY <1>1, <1>8 DEF Within
  <2>2. t \in TypesOf(wit, v)
    BY <1>1, <1>3, <1>4, WorldTypes
  <2> QED BY <2>1, <2>2
<1>10. HasAClass(t)
  BY DEF HasAClass
<1>11. u = v
  BY <1>1, <1>3, <1>9, <1>10, TypeHasOneWorld
<1>12. t \in DOMAIN locations /\ Defines(locations[t], SymbolFile(t), <<t, "">>, Class) \in files
  BY <1>1, <1>8, ClassesAreLocated
<1>13. locations[t] = m.name
  BY <1>1, <1>2, <1>8, <1>10, <1>11, <1>12, LocatedHere
<1> QED BY <1>12, <1>13 DEF Defines

LEMMA FunctionsAreHere ==
  ASSUME Kept, stage = "collect", NEW m \in Range(wit.modules), NEW dir \in Dirs,
         NEW i \in Range(wit.worlds[WorldOf(m)][dir]), NEW f \in Range(wit.items[i].funcs), f.res = NoType
  PROVE  \E d \in files : d.module = m.name /\ d.name = <<i, f.name, "">>
<1>1. TypeOK /\ Within /\ Whole
  BY DEF Kept, Symbolic, Inv, Known
<1>2. PICK v : v = WorldOf(m)
  OBVIOUS
<1>3. v \in Range(wit.all) /\ v \in AllWorlds /\ HasWrappers(m)
  BY <1>2, AllIsMade
<1>4. i \in Items
  BY <1>1, <1>2, <1>3, WorldHas
<1>5. <<dir, i>> \in worldKeys[v]
  BY <1>1, <1>2, <1>3 DEF Whole
<1>6. <<dir, i>> \in visited
  BY <1>1, <1>3, <1>5 DEF Within
<1>7. Has(functions, dir, i, f)
  BY <1>1, <1>4, <1>6 DEF Whole
<1>8. PICK k \in 1..Len(functions) : functions[k].dir = dir /\ functions[k].item = i /\ functions[k].func = f
  BY <1>7 DEF Has
<1>9. Freestanding(functions[k]) /\ <<functions[k].dir, functions[k].item>> \in worldKeys[WorldOf(m)]
  BY <1>2, <1>5, <1>8 DEF Freestanding
<1> QED BY <1>3, <1>8, <1>9 DEF HasWrappers

LEMMA StreamsAreHere ==
  ASSUME Kept, stage = "collect", NEW m \in Range(wit.modules), NEW t \in worldTypes[WorldOf(m)], Kind(t) = "stream"
  PROVE  \E d \in files : d.module = m.name /\ d.name = Constructor(t)
<1>1. Filled /\ HasStreams /\ Made(m) /\ WorldOf(m) \in Worlds
  BY AllIsMade DEF Kept, Filled
<1>2. HasAClass(t)
  BY DEF HasAClass
<1>3. t \in Range(types)
  BY <1>1, <1>2 DEF Filled
<1>4. t \in DOMAIN locations
  BY <1>1, <1>3 DEF Made
<1>5. locations[t] = m.name
  BY <1>1, <1>2, <1>4, LocatedHere
<1>6. HasConstructor(m.name, t)
  BY <1>1, <1>4, <1>5 DEF HasStreams
<1> QED BY <1>6 DEF HasConstructor

LEMMA CollectMissing ==
  ASSUME Kept, stage = "collect"
  PROVE  Complete(wit, worldTypes, files)
<1>1. Filled
  BY DEF Kept
<1>2. ASSUME NEW m \in Range(wit.modules), NEW v \in m.worlds
      PROVE  LET defined == {d.name : d \in {e \in files : e.module = m.name}}
             IN  /\ \A d \in files : d.from # Class => \E e \in files : Alias(e.module) = d.from
                                          /\ e.file = <<"init">> /\ e.name = d.name /\ e.from = Class
                 /\ \A dir \in {"import", "export"} : \A i \in Range(wit.worlds[v][dir]) :
                      /\ \A t \in Range(wit.items[i].types) :
                           wit.types[t].kind \in {"record", "variant", "enum", "resource"} => <<t, "">> \in defined
                      /\ \A f \in Range(wit.items[i].funcs) :
                           f.res = NoType => <<i, f.name, "">> \in defined
                 /\ \A t \in worldTypes[v] : wit.types[t].kind = "stream" => ConstructorOf(wit, t) \in defined
  <2>1. PICK defined : defined = {d.name : d \in {e \in files : e.module = m.name}}
    OBVIOUS
  <2>2. v = WorldOf(m)
    BY <1>2, AllIsMade
  <2>3. \A x : (\E d \in files : d.module = m.name /\ d.name = x) => x \in defined
    BY <2>1
  <2>4. \A d \in files : d.from = Class
    BY <1>1 DEF Filled
  <2>5. \A dir \in {"import", "export"} : \A i \in Range(wit.worlds[v][dir]) :
          \A t \in Range(wit.items[i].types) :
            wit.types[t].kind \in {"record", "variant", "enum", "resource"} => <<t, "">> \in defined
    BY <2>2, <2>3, ClassesAreHere DEF Dirs, NeedsLocation, Kind
  <2>6. \A dir \in {"import", "export"} : \A i \in Range(wit.worlds[v][dir]) :
          \A f \in Range(wit.items[i].funcs) : f.res = NoType => <<i, f.name, "">> \in defined
    BY <2>2, <2>3, FunctionsAreHere DEF Dirs
  <2>7. \A t \in worldTypes[v] : wit.types[t].kind = "stream" => ConstructorOf(wit, t) \in defined
    BY <2>2, <2>3, StreamsAreHere DEF Kind, Constructor
  <2> QED BY <2>1, <2>4, <2>5, <2>6, <2>7
<1> QED BY <1>2, Zenon DEF Complete

LEMMA InitKept ==
  ASSUME \A w \in Wits : WorldsAreApart(w), Init
  PROVE  Kept
<1>1. \A w \in Wits : ModulesAreSeparate(w)
  BY ApartAreSeparate
<1>2. Symbolic /\ Whole
  BY <1>1, InitSymbolic, InitWhole
<1>3. NoRepeats(<<>>)
  BY EmptyIsSeq DEF NoRepeats
<1> QED BY <1>2, <1>3 DEF Init, Kept

\* Nothing is in the files until the modules are generated.
LEMMA EarlyKept ==
  ASSUME Kept, Symbolic', Whole', NoRepeats(order'.sorted), stage \in {"visit", "sort"}, stage' \in {"visit", "sort"},
         UNCHANGED <<wit, files>>
  PROVE  Kept'
BY DEF Kept

LEMMA LateKept ==
  ASSUME Kept, Symbolic', stage \in {"sort", "sorted", "generate"},
         stage' \in {"sorted", "generate", "collect", "panic"},
         UNCHANGED <<wit, order, worldTypes, worldKeys, visited, functions>>,
         stage' # "panic" => Filled'
  PROVE  Kept'
<1>1. Whole'
  BY OtherWhole DEF Kept
<1> QED BY <1>1 DEF Kept

LEMMA SortedTypeKept ==
  ASSUME Kept, Symbolic', SortedType
  PROVE  Kept'
<1>1. /\ TypeOK /\ stage = "sort" /\ calls # <<>> /\ Head(calls).do = "sorted"
      /\ UNCHANGED <<wit, stage, worldTypes, worldKeys, visited, functions, files>>
  BY DEF Kept, Symbolic, Inv, SortedType
<1>2. PICK t : /\ t = Head(calls).type /\ order' = [order EXCEPT !.sorted = Declare(@, t)]
  BY DEF SortedType
<1>3. t \in Types
  BY <1>1, <1>2, FirstCall DEF TypeOK, SortCall
<1>4. PICK s : s = order.sorted
  OBVIOUS
<1>5. PICK q : q = Declare(s, t)
  OBVIOUS
<1>6. s \in Seq(Types) /\ order \in [sorted : Seq(Types), entered : SUBSET Types] /\ NoRepeats(s)
  BY <1>1, <1>4 DEF TypeOK, Kept
<1>7. NoRepeats(q)
  BY <1>3, <1>5, <1>6, InsertedOnce
<1>8. order'.sorted = q
  <2>1. order' = [order EXCEPT !.sorted = q]
    BY <1>2, <1>4, <1>5
  <2> QED BY <1>6, <2>1
<1>9. Whole'
  BY <1>1, OtherWhole DEF Kept
<1> QED BY <1>1, <1>7, <1>8, <1>9, EarlyKept

LEMMA CollectKept ==
  ASSUME Kept, Symbolic', CollectSymbols
  PROVE  Kept'
<1>1. /\ stage = "collect" /\ stage' \in {"done", "unresolved"}
      /\ UNCHANGED <<wit, order, worldTypes, worldKeys, visited, functions, files>>
  BY DEF CollectSymbols
<1>2. Complete(wit, worldTypes, files)
  BY <1>1, CollectMissing
<1>3. Whole'
  BY <1>1, OtherWhole DEF Kept
<1> QED BY <1>1, <1>2, <1>3 DEF Kept

LEMMA RestKept ==
  ASSUME Kept, Symbolic', UNCHANGED vars
  PROVE  Kept'
<1>1. UNCHANGED <<wit, stage, todo, calls, types, order, worldTypes, worldKeys, visited, info, functions, left,
                  locations, keys, files, symbols>>
  BY DEF vars
<1>2. Whole'
  BY RestWhole DEF Kept
<1>3. /\ \A t, x : HasConstructor(x, t) => HasConstructor(x, t)'
      /\ \A m : HasWrappers(m) => HasWrappers(m)'
      /\ \A t : HasAClass(t)' = HasAClass(t)
  BY <1>1, StillThere
<1>4. Once => Once'
  BY <1>1, <1>3 DEF Once
<1>5. Home => Home'
  BY <1>1 DEF Home
<1>6. HasStreams => HasStreams'
  BY <1>1, <1>3 DEF HasStreams, Kind
<1>7. Filled => Filled'
  BY <1>1, <1>3, <1>4, <1>5, <1>6 DEF Filled
<1> QED BY <1>1, <1>2, <1>7 DEF Kept

LEMMA NextKept ==
  ASSUME Kept, [Next]_vars
  PROVE  Kept'
<1>1. Symbolic /\ Inv /\ Known /\ Whole /\ NoRepeats(order.sorted)
  BY DEF Kept, Symbolic
<1>2. Symbolic'
  BY <1>1, NextSymbolic
<1>3. CASE VisitWorld
  <2>1. Whole'
    BY <1>1, <1>3, VisitWorldWhole
  <2> QED BY <1>1, <1>2, <1>3, <2>1, EarlyKept DEF VisitWorld
<1>4. CASE VisitItem
  <2>1. Whole'
    BY <1>1, <1>4, VisitItemWhole
  <2>2. stage = "visit" /\ UNCHANGED <<wit, stage, order, files>>
    BY <1>4 DEF VisitItem
  <2> QED BY <1>1, <1>2, <2>1, <2>2, EarlyKept
<1>5. CASE VisitFunction
  <2>1. Whole'
    BY <1>1, <1>5, VisitFunctionWhole
  <2>2. stage = "visit" /\ UNCHANGED <<wit, stage, order, files>>
    BY <1>5 DEF VisitFunction
  <2> QED BY <1>1, <1>2, <2>1, <2>2, EarlyKept
<1>6. CASE VisitType
  <2>1. Whole'
    BY <1>1, <1>6, VisitTypeWhole
  <2>2. stage = "visit" /\ UNCHANGED <<wit, stage, order, files>>
    BY <1>6 DEF VisitType
  <2> QED BY <1>1, <1>2, <2>1, <2>2, EarlyKept
<1>7. CASE VisitedType
  <2>1. Whole'
    BY <1>1, <1>7, VisitedTypeWhole
  <2> QED BY <1>1, <1>2, <1>7, <2>1, EarlyKept DEF VisitedType
<1>8. CASE StartSort
  <2>1. Whole'
    BY <1>1, <1>8, StartSortWhole
  <2> QED BY <1>1, <1>2, <1>8, <2>1, EarlyKept DEF StartSort
<1>9. CASE SortType
  <2>1. /\ stage = "sort" /\ order'.sorted = order.sorted
        /\ UNCHANGED <<wit, stage, worldTypes, worldKeys, visited, functions, files>>
    <3>1. TypeOK
      BY <1>1 DEF Inv
    <3>2. PICK entered : order' = order \/ order' = [order EXCEPT !.entered = entered]
      BY <1>9 DEF SortType
    <3>3. order'.sorted = order.sorted
      BY <3>1, <3>2 DEF TypeOK
    <3> QED BY <1>9, <3>3 DEF SortType
  <2>2. Whole'
    BY <1>1, <2>1, OtherWhole
  <2> QED BY <1>1, <1>2, <2>1, <2>2, EarlyKept
<1>10. CASE SortMethod
  <2>1. stage = "sort" /\ UNCHANGED <<wit, stage, order, worldTypes, worldKeys, visited, functions, files>>
    BY <1>10 DEF SortMethod
  <2>2. Whole'
    BY <1>1, <2>1, OtherWhole
  <2> QED BY <1>1, <1>2, <2>1, <2>2, EarlyKept
<1>11. CASE SortedType
  BY <1>2, <1>11, SortedTypeKept
<1>12. CASE FinishSort
  <2>1. Filled'
    BY <1>12, FinishSortFilled
  <2> QED BY <1>2, <1>12, <2>1, LateKept DEF FinishSort
<1>13. CASE StartModule
  <2>1. Filled'
    BY <1>13, StartModuleFilled
  <2> QED BY <1>2, <1>13, <2>1, LateKept DEF StartModule
<1>14. CASE GenerateType
  <2>1. /\ stage = "generate" /\ stage' \in {"generate", "panic"}
        /\ UNCHANGED <<wit, order, worldTypes, worldKeys, visited, functions>>
    BY <1>14 DEF GenerateType
  <2>2. stage' # "panic" => Filled'
    BY <1>14, GenerateTypeFilled
  <2> QED BY <1>2, <2>1, <2>2, LateKept
<1>15. CASE GenerateFunctions
  <2>1. /\ stage = "generate" /\ stage' \in {"generate", "collect"}
        /\ UNCHANGED <<wit, order, worldTypes, worldKeys, visited, functions>>
    BY <1>15 DEF GenerateFunctions
  <2>2. Filled'
    BY <1>15, GenerateFunctionsFilled
  <2> QED BY <1>2, <2>1, <2>2, LateKept
<1>16. CASE CollectSymbols
  BY <1>2, <1>16, CollectKept
<1>17. CASE Resting
  BY <1>2, <1>17, RestKept DEF Resting
<1>18. CASE UNCHANGED vars
  BY <1>2, <1>18, RestKept
<1> QED BY <1>3, <1>4, <1>5, <1>6, <1>7, <1>8, <1>9, <1>10, <1>11, <1>12, <1>13, <1>14, <1>15, <1>16, <1>17, <1>18
        DEF Next

LEMMA KeptIsComplete ==
  ASSUME Kept
  PROVE  BindingsAreComplete
<1>1. stage = "collect" => Complete(wit, worldTypes, files)
  BY CollectMissing
<1>2. stage \in {"done", "unresolved"} => Complete(wit, worldTypes, files)
  BY DEF Kept
<1> QED BY <1>1, <1>2, BindingsAreCompleteIs

-----------------------------------------------------------------------------
(* The theorems.                                                           *)

\* Whatever the types, functions and worlds: each class is declared after those
\* that it mentions, but for a resource whose methods lead back to it, and no
\* type of a world is left out (types_sorted, sort).
THEOREM OrderHolds == Spec => []OrderIsSound
<1>1. Init => Inv
  BY InitInv
<1>2. Inv /\ [Next]_vars => Inv'
  BY NextInv
<1>3. Inv => OrderIsSound
  BY DEF Inv
<1> QED BY <1>1, <1>2, <1>3, PTL DEF Spec

\* If each world has a module and no two share a function of the world: the
\* symbols name every class, protocol and method by the file that defines it, and
\* none is missing when they are collected (collect_symbols, package_and_name).
THEOREM SymbolsAreFound ==
  ASSUME \A w \in Wits : ModulesAreSeparate(w)
  PROVE  Spec => []SymbolsResolve
<1>1. Init => Symbolic
  BY InitSymbolic
<1>2. Symbolic /\ [Next]_vars => Symbolic'
  BY NextSymbolic
<1>3. Symbolic => SymbolsResolve
  BY DEF Symbolic
<1> QED BY <1>1, <1>2, <1>3, PTL DEF Spec

\* If moreover the worlds share neither an export nor what has a class or a
\* constructor: a module has each class, function and constructor of its world,
\* and takes nothing from a module that has it not (generate_code).
THEOREM BindingsHold ==
  ASSUME \A w \in Wits : WorldsAreApart(w)
  PROVE  Spec => []BindingsAreComplete
<1>1. Init => Kept
  BY InitKept
<1>2. Kept /\ [Next]_vars => Kept'
  BY NextKept
<1>3. Kept => BindingsAreComplete
  BY KeptIsComplete
<1> QED BY <1>1, <1>2, <1>3, PTL DEF Spec
=============================================================================
