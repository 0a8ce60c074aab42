-------------------------- MODULE ValueStackProofs --------------------------
(***************************************************************************)
(* What crosses a call comes back the same, for any types and functions.   *)
(***************************************************************************)
EXTENDS ValueStack, SequenceTheorems, WellFoundedInduction, TLAPS

-----------------------------------------------------------------------------
(* Sequences whose elements, Python objects among them, lie in no set that *)
(* is known beforehand.                                                    *)

IsSeq(s) == \E S : s \in Seq(S)

\* Sequences that are joined may be taken to be over one set.
LEMMA OneSet ==
  ASSUME NEW s, NEW t, NEW u, IsSeq(s), IsSeq(t), IsSeq(u)
  PROVE  \E S : s \in Seq(S) /\ t \in Seq(S) /\ u \in Seq(S)
<1>1. PICK A : s \in Seq(A)
  BY DEF IsSeq
<1>2. PICK B : t \in Seq(B)
  BY DEF IsSeq
<1>3. PICK C : u \in Seq(C)
  BY DEF IsSeq
<1> DEFINE S == A \cup B \cup C
<1>4. A \subseteq S /\ B \subseteq S /\ C \subseteq S
  OBVIOUS
<1>5. s \in Seq(S)
  BY <1>1, <1>4, SeqMonotonic
<1>6. t \in Seq(S)
  BY <1>2, <1>4, SeqMonotonic
<1>7. u \in Seq(S)
  BY <1>3, <1>4, SeqMonotonic
<1> QED BY <1>5, <1>6, <1>7

LEMMA SeqIs ==
  ASSUME NEW s, IsSeq(s)
  PROVE  /\ Len(s) \in Nat /\ DOMAIN s = 1..Len(s)
         /\ s = [i \in 1..Len(s) |-> s[i]]
<1>1. PICK S : s \in Seq(S)
  BY DEF IsSeq
<1>2. Len(s) \in Nat /\ s \in [1..Len(s) -> S] /\ DOMAIN s = 1..Len(s)
  BY <1>1, LenProperties
<1> QED BY <1>2

LEMMA EmptyIsSeq == IsSeq(<<>>) /\ Len(<<>>) = 0
BY EmptySeq DEF IsSeq

LEMMA OneIsSeq ==
  ASSUME NEW x
  PROVE  IsSeq(<<x>>) /\ Len(<<x>>) = 1 /\ <<x>>[1] = x
<1>1. <<x>> \in Seq({x})
  OBVIOUS
<1> QED BY <1>1 DEF IsSeq

LEMMA MadeIsSeq ==
  ASSUME NEW n \in Nat, NEW f, f = [i \in 1..n |-> f[i]]
  PROVE  IsSeq(f) /\ Len(f) = n
<1> DEFINE S == {f[i] : i \in 1..n}
<1>1. f \in [1..n -> S]
  OBVIOUS
<1>2. f \in Seq(S)
  BY <1>1, SeqDef
<1>3. Len(f) \in Nat /\ DOMAIN f = 1..Len(f) /\ DOMAIN f = 1..n
  BY <1>1, <1>2, LenProperties
<1>4. Len(f) = n
  <2> HIDE DEF S
  <2>1. n \in 1..n \/ n = 0
    OBVIOUS
  <2>2. Len(f) \in 1..Len(f) \/ Len(f) = 0
    BY <1>3
  <2> QED BY <1>3, <2>1, <2>2
<1> QED BY <1>2, <1>4 DEF IsSeq

LEMMA Same ==
  ASSUME NEW s, NEW t, IsSeq(s), IsSeq(t), Len(s) = Len(t),
         \A i \in 1..Len(s) : s[i] = t[i]
  PROVE  s = t
<1>1. PICK S : s \in Seq(S) /\ t \in Seq(S)
  BY OneSet
<1> QED BY <1>1, SeqEqual

LEMMA Joined ==
  ASSUME NEW s, NEW t, IsSeq(s), IsSeq(t)
  PROVE  /\ IsSeq(s \o t)
         /\ Len(s \o t) = Len(s) + Len(t)
         /\ \A i \in 1..(Len(s) + Len(t)) :
              (s \o t)[i] = IF i <= Len(s) THEN s[i] ELSE t[i - Len(s)]
<1>1. PICK S : s \in Seq(S) /\ t \in Seq(S)
  BY OneSet
<1>2. s \o t \in Seq(S)
  BY <1>1, ConcatProperties
<1>3. /\ Len(s \o t) = Len(s) + Len(t)
      /\ \A i \in 1..(Len(s) + Len(t)) :
           (s \o t)[i] = IF i <= Len(s) THEN s[i] ELSE t[i - Len(s)]
  BY <1>1, ConcatProperties
<1> QED BY <1>2, <1>3 DEF IsSeq

LEMMA Assoc ==
  ASSUME NEW s, NEW t, NEW u, IsSeq(s), IsSeq(t), IsSeq(u)
  PROVE  (s \o t) \o u = s \o (t \o u)
<1>1. PICK S : s \in Seq(S) /\ t \in Seq(S) /\ u \in Seq(S)
  BY OneSet
<1> QED BY <1>1, ConcatAssociative

LEMMA NoneJoined ==
  ASSUME NEW s, IsSeq(s)
  PROVE  <<>> \o s = s /\ s \o <<>> = s
<1>1. PICK S : s \in Seq(S)
  BY DEF IsSeq
<1> QED BY <1>1, ConcatEmptySeq

\* The first operation and the others.
LEMMA FirstOf ==
  ASSUME NEW x, NEW s, IsSeq(s)
  PROVE  <<x>> \o s # <<>> /\ Head(<<x>> \o s) = x /\ Tail(<<x>> \o s) = s
<1> DEFINE c == <<x>> \o s
<1>1. IsSeq(c) /\ Len(c) = 1 + Len(s) /\ \A i \in 1..(1 + Len(s)) : c[i] = IF i <= 1 THEN x ELSE s[i - 1]
  BY Joined, OneIsSeq
<1>2. Len(s) \in Nat
  BY SeqIs
<1>3. c # <<>>
  BY <1>1, <1>2, EmptyIsSeq
<1>4. PICK S : c \in Seq(S)
  BY <1>1 DEF IsSeq
<1>5. Tail(c) \in Seq(S) /\ Len(Tail(c)) = Len(c) - 1 /\ \A i \in 1..Len(Tail(c)) : Tail(c)[i] = c[i + 1]
  BY <1>3, <1>4, HeadTailProperties
<1>6. Head(c) = c[1]
  OBVIOUS
<1>7. Head(c) = x
  BY <1>1, <1>2, <1>6
<1>8. Len(Tail(c)) = Len(s)
  BY <1>1, <1>2, <1>5
<1>9. \A i \in 1..Len(s) : Tail(c)[i] = s[i]
  BY <1>1, <1>2, <1>5, <1>8
<1>10. IsSeq(Tail(c))
  BY <1>5 DEF IsSeq
<1>11. Tail(c) = s
  BY <1>8, <1>9, <1>10, Same
<1> QED BY <1>3, <1>7, <1>11

\* The value on top and those below it.
LEMMA TopOf ==
  ASSUME NEW x, NEW s, IsSeq(s)
  PROVE  /\ Append(s, x) = s \o <<x>>
         /\ s \o <<x>> # <<>> /\ Last(s \o <<x>>) = x /\ Front(s \o <<x>>) = s
<1> DEFINE c == s \o <<x>>
<1>1. IsSeq(c) /\ Len(c) = Len(s) + 1 /\ \A i \in 1..(Len(s) + 1) : c[i] = IF i <= Len(s) THEN s[i] ELSE <<x>>[i - Len(s)]
  BY Joined, OneIsSeq
<1>2. Len(s) \in Nat
  BY SeqIs
<1>3. c # <<>>
  BY <1>1, <1>2, EmptyIsSeq
<1>4. Last(c) = x
  <2>1. Last(c) = c[Len(s) + 1]
    BY <1>1 DEF Last
  <2>2. c[Len(s) + 1] = <<x>>[1]
    BY <1>1, <1>2
  <2> QED BY <2>1, <2>2, OneIsSeq
<1>5. Front(c) = SubSeq(c, 1, Len(s))
  BY <1>1, <1>2 DEF Front
<1>6. PICK S : c \in Seq(S)
  BY <1>1 DEF IsSeq
<1>7. \A i \in 1..Len(s) : c[i] \in S
  BY <1>1, <1>2, <1>6, ElementOfSeq
<1>8. /\ SubSeq(c, 1, Len(s)) \in Seq(S)
      /\ Len(SubSeq(c, 1, Len(s))) = IF 1 <= Len(s) THEN Len(s) - 1 + 1 ELSE 0
      /\ \A i \in 1..(Len(s) - 1 + 1) : SubSeq(c, 1, Len(s))[i] = c[1 + i - 1]
  <2>1. 1 \in Int /\ Len(s) \in Int
    BY <1>2
  <2> HIDE DEF c
  <2> QED BY <1>7, <2>1, SubSeqProperties
<1>9. IsSeq(SubSeq(c, 1, Len(s))) /\ Len(SubSeq(c, 1, Len(s))) = Len(s)
  <2> HIDE DEF c
  <2>1. Len(SubSeq(c, 1, Len(s))) = Len(s)
    BY <1>2, <1>8
  <2> QED BY <1>8, <2>1 DEF IsSeq
<1>10. \A i \in 1..Len(s) : SubSeq(c, 1, Len(s))[i] = s[i]
  BY <1>1, <1>2, <1>8
<1>11. SubSeq(c, 1, Len(s)) = s
  BY <1>9, <1>10, Same
<1>12. Append(s, x) = c
  <2>1. PICK A : s \in Seq(A)
    BY DEF IsSeq
  <2>2. IsSeq(Append(s, x)) /\ Len(Append(s, x)) = Len(s) + 1
        /\ \A i \in 1..(Len(s) + 1) : Append(s, x)[i] = IF i = Len(s) + 1 THEN x ELSE s[i]
    <3>1. A \subseteq A \cup {x}
      OBVIOUS
    <3>2. s \in Seq(A \cup {x})
      BY <2>1, <3>1, SeqMonotonic
    <3>3. Append(s, x) \in Seq(A \cup {x})
      BY <3>2
    <3> QED BY <3>2, <3>3 DEF IsSeq
  <2>3. \A i \in 1..(Len(s) + 1) : c[i] = IF i = Len(s) + 1 THEN x ELSE s[i]
    BY <1>1, <1>2, OneIsSeq
  <2> HIDE DEF c
  <2> QED BY <1>1, <2>2, <2>3, Same
<1> QED BY <1>3, <1>4, <1>5, <1>11, <1>12

-----------------------------------------------------------------------------
(* is_option: the options, and the aliases of what is one.                 *)

LEMMA OptionalIs ==
  ASSUME NEW T \in Types
  PROVE  Optional[T] <=> T.k = "option" \/ (T.k = "alias" /\ Optional[T.of])
<1> DEFINE Closed == {A \in SUBSET Types : \A U \in A : U.k = "option" \/ (U.k = "alias" /\ U.of \in A)}
           S == UNION Closed
           f == [U \in Types |-> U \in S]
<1>1. ASSUME NEW U \in Types PROVE U \in S <=> (U.k = "option" \/ (U.k = "alias" /\ U.of \in S))
  <2>1. ASSUME U \in S PROVE U.k = "option" \/ (U.k = "alias" /\ U.of \in S)
    BY <2>1
  <2>2. ASSUME U.k = "option" \/ (U.k = "alias" /\ U.of \in S) PROVE U \in S
    <3>1. S \cup {U} \in Closed
      BY <2>2
    <3> QED BY <3>1
  <2> QED BY <2>1, <2>2
<1>2. \A U \in Types : U.k = "alias" => U.of \in Types
  <2> SUFFICES ASSUME NEW U \in Types, U.k = "alias" PROVE U.of \in Types
    OBVIOUS
  <2>1. U.of \in Parts(U)
    BY DEF Parts
  <2>2. NoType \notin Parts(U)
    BY TypesAssumption
  <2> QED BY <2>1, <2>2, TypesAssumption
<1>3. f = [U \in Types |-> U.k = "option" \/ (U.k = "alias" /\ f[U.of])]
  <2> HIDE DEF S
  <2>1. ASSUME NEW U \in Types PROVE f[U] = (U.k = "option" \/ (U.k = "alias" /\ f[U.of]))
    <3>1. f[U] = (U \in S)
      OBVIOUS
    <3>2. U.k = "alias" => f[U.of] = (U.of \in S)
      BY <1>2
    <3>3. (U \in S) = (U.k = "option" \/ (U.k = "alias" /\ U.of \in S))
      BY <1>1
    <3> HIDE DEF f
    <3>4. CASE U.k = "alias"
      BY <3>1, <3>2, <3>3, <3>4, Zenon
    <3>5. CASE U.k # "alias"
      BY <3>1, <3>3, <3>5, Zenon
    <3> QED BY <3>4, <3>5
  <2> HIDE DEF f
  <2>2. f = [U \in Types |-> f[U]]
    BY DEF f
  <2> QED BY <2>1, <2>2
<1>4. Optional = [U \in Types |-> U.k = "option" \/ (U.k = "alias" /\ Optional[U.of])]
  <2> HIDE DEF f
  <2> QED BY <1>3, Zenon DEF Optional
<1> QED BY <1>4

-----------------------------------------------------------------------------
(* The operations that lower, as one function: what is left to be called   *)
(* before the other operations, the stacks, and the tokens that are written. *)

Effect(calls, s, it, tokens) == [calls |-> calls, stack |-> s, iters |-> it, tokens |-> tokens]

LowersCase(T, d, value, s, it) ==
  Effect(Lower(Payload(T, d)),
         IF Payload(T, d) = NoType THEN Front(s) ELSE Append(Front(s), value), it, <<d>>)

LowersValue(T, s, it) ==
  LET x == Last(s)
  IN  CASE T.k = "alias" -> Effect(Lower(T.of), s, it, <<>>)
        [] T.k \in Leaves -> Effect(<<>>, Front(s), it, <<x.value>>)
        [] T.k = "option" -> IF x.cls = "None" THEN LowersCase(T, 0, None, s, it)
                             ELSE LowersCase(T, 1, IF Nesting(T) THEN x.value ELSE x, s, it)
        [] T.k = "result" -> LowersCase(T, IF x.cls = "Ok" THEN 0 ELSE 1, x.value, s, it)
        [] T.k = "variant" -> LowersCase(T, x.n, x.value, s, it)
        [] T.k = "record" -> Effect(LowerAll(T.fields), Front(s) \o Reverse(x.value), it, <<>>)
        [] T.k = "list" -> Effect(LowerEach(T, Len(x.value)) \o << Op("pop_iter", T, 0) >>,
                                  s, Append(it, 0), <<Len(x.value)>>)

Lowers(op, s, it) ==
  CASE op.op = "pop" -> LowersValue(op.ty, s, it)
    [] op.op = "pop_iter_next" -> Effect(<<>>, Append(s, Last(s).value[Last(it) + 1]),
                                         Append(Front(it), Last(it) + 1), <<>>)
    [] op.op = "pop_iter" -> Effect(<<>>, Front(s), EndIter(it), <<>>)

(* The glue can lower: it ends with both stacks empty, and will have        *)
(* written exactly the tokens "todo".                                      *)

Lowering(op) == op.op \in {"pop", "pop_iter_next", "pop_iter"}

AreSeqs(o, s, it, todo) == IsSeq(o) /\ IsSeq(s) /\ IsSeq(it) /\ IsSeq(todo)

EndsEmpty(o, s, it, todo, G) ==
  IF o = <<>> THEN s = <<>> /\ it = <<>> /\ todo = <<>>
  ELSE /\ Lowering(Head(o))
       /\ \E then : LET e == Lowers(Head(o), s, it)
                    IN  /\ todo = e.tokens \o then
                        /\ <<e.calls \o Tail(o), e.stack, e.iters, then>> \in G

Closed(G) ==
  \A o, s, it, todo : <<o, s, it, todo>> \in G => AreSeqs(o, s, it, todo) /\ EndsEmpty(o, s, it, todo, G)

CanLower(o, s, it, todo) == \E G : Closed(G) /\ <<o, s, it, todo>> \in G

LEMMA CanLowerSeqs ==
  ASSUME NEW o, NEW s, NEW it, NEW todo, CanLower(o, s, it, todo)
  PROVE  IsSeq(o) /\ IsSeq(s) /\ IsSeq(it) /\ IsSeq(todo)
BY DEF CanLower, Closed, AreSeqs

LEMMA NothingToLower ==
  /\ CanLower(<<>>, <<>>, <<>>, <<>>)
  /\ \A s, it, todo : CanLower(<<>>, s, it, todo) => s = <<>> /\ it = <<>> /\ todo = <<>>
<1>1. Closed({<< <<>>, <<>>, <<>>, <<>> >>})
  BY EmptyIsSeq DEF Closed, AreSeqs, EndsEmpty
<1>2. CanLower(<<>>, <<>>, <<>>, <<>>)
  BY <1>1 DEF CanLower
<1>3. \A s, it, todo : CanLower(<<>>, s, it, todo) => s = <<>> /\ it = <<>> /\ todo = <<>>
  BY DEF CanLower, Closed, EndsEmpty
<1> QED BY <1>2, <1>3

\* One step forward.
LEMMA LowerStep ==
  ASSUME NEW o, NEW s, NEW it, NEW todo, CanLower(o, s, it, todo), o # <<>>
  PROVE  /\ Lowering(Head(o))
         /\ \E then : LET e == Lowers(Head(o), s, it)
                      IN  /\ todo = e.tokens \o then
                          /\ CanLower(e.calls \o Tail(o), e.stack, e.iters, then)
<1>1. PICK G : Closed(G) /\ <<o, s, it, todo>> \in G
  BY DEF CanLower
<1>2. EndsEmpty(o, s, it, todo, G)
  BY <1>1 DEF Closed
<1> QED BY <1>1, <1>2 DEF EndsEmpty, CanLower

\* One step back.
LEMMA LowerBack ==
  ASSUME NEW op, NEW o, NEW s, NEW it, NEW todo, NEW calls, NEW rest, NEW its, NEW tokens,
         Lowering(op), IsSeq(o), IsSeq(s), IsSeq(it), IsSeq(tokens),
         Lowers(op, s, it) = Effect(calls, rest, its, tokens), CanLower(calls \o o, rest, its, todo)
  PROVE  CanLower(<<op>> \o o, s, it, tokens \o todo)
<1> DEFINE e == Effect(calls, rest, its, tokens)
           c == <<op>> \o o
           d == tokens \o todo
<1>0. e.calls = calls /\ e.stack = rest /\ e.iters = its /\ e.tokens = tokens
  BY DEF Effect
<1>1. PICK G : Closed(G) /\ <<calls \o o, rest, its, todo>> \in G
  BY DEF CanLower
<1> DEFINE H == G \cup {<<c, s, it, d>>}
<1>2. c # <<>> /\ Head(c) = op /\ Tail(c) = o
  BY FirstOf
<1>3. AreSeqs(c, s, it, d)
  <2>1. IsSeq(todo)
    BY <1>1 DEF Closed, AreSeqs
  <2>2. IsSeq(c) /\ IsSeq(d)
    BY <2>1, Joined, OneIsSeq
  <2> QED BY <2>2 DEF AreSeqs
<1>4. EndsEmpty(c, s, it, d, H)
  <2> HIDE DEF c, e
  <2>1. d = e.tokens \o todo /\ <<e.calls \o Tail(c), e.stack, e.iters, todo>> \in H
    BY <1>0, <1>1, <1>2
  <2>2. Lowers(Head(c), s, it) = e
    BY <1>2 DEF e
  <2> HIDE DEF H, d
  <2> QED BY <1>2, <2>1, <2>2, Zenon DEF EndsEmpty
<1>5. \A a, x, i, t : EndsEmpty(a, x, i, t, G) => EndsEmpty(a, x, i, t, H)
  <2>1. \A y : y \in G => y \in H
    OBVIOUS
  <2> HIDE DEF H
  <2> SUFFICES ASSUME NEW a, NEW x, NEW i, NEW t, EndsEmpty(a, x, i, t, G) PROVE EndsEmpty(a, x, i, t, H)
    OBVIOUS
  <2>2. CASE a = <<>>
    BY <2>2 DEF EndsEmpty
  <2>3. CASE a # <<>>
    BY <2>1, <2>3 DEF EndsEmpty
  <2> QED BY <2>2, <2>3
<1>6. Closed(H)
  <2> HIDE DEF c, e, d
  <2> SUFFICES ASSUME NEW a, NEW x, NEW i, NEW t, <<a, x, i, t>> \in H
               PROVE  AreSeqs(a, x, i, t) /\ EndsEmpty(a, x, i, t, H)
    BY Zenon DEF Closed
  <2>1. CASE <<a, x, i, t>> \in G
    <3>1. AreSeqs(a, x, i, t) /\ EndsEmpty(a, x, i, t, G)
      BY <1>1, <2>1, Zenon DEF Closed
    <3> QED BY <1>5, <3>1
  <2>2. CASE <<a, x, i, t>> = <<c, s, it, d>>
    <3>1. a = c /\ x = s /\ i = it /\ t = d
      BY <2>2
    <3> QED BY <1>3, <1>4, <3>1, Zenon
  <2> QED BY <2>1, <2>2
<1>7. <<c, s, it, d>> \in H
  OBVIOUS
<1> HIDE DEF H
<1> QED BY <1>6, <1>7 DEF CanLower

-----------------------------------------------------------------------------
(* A Python object holds a value: lowering it, in any state in which the    *)
(* glue can do the rest, writes the tokens of the value and leaves the rest. *)

Lowerable(T, x, ts) ==
  /\ IsSeq(ts)
  /\ \A o, s, it, todo :
       CanLower(o, s, it, todo) => CanLower(<< Op("pop", T, 0) >> \o o, s \o <<x>>, it, ts \o todo)

\* The objects of a result say which of its cases they are: Return looks inside.
IsCaseOf(T, x) ==
  \E d \in {0, 1} : \E v, ts :
    /\ x = Object(IF d = 0 THEN "Ok" ELSE "Err", v)
    /\ IF Payload(T, d) = NoType THEN v = None ELSE Lowerable(Payload(T, d), v, ts)

Holds(T, x, ts) ==
  /\ Lowerable(T, x, ts)
  /\ x.cls = "None" => Optional[T]
  /\ T.k = "result" => IsCaseOf(T, x)

MayHold(T, v, ts) == IF T = NoType THEN v = None /\ ts = <<>> ELSE T \in Types /\ Holds(T, v, ts)

LEMMA PopBack ==
  ASSUME NEW T, NEW o, NEW s, NEW it, NEW todo, NEW calls, NEW rest, NEW its, NEW tokens,
         IsSeq(o), IsSeq(s), IsSeq(it), IsSeq(tokens),
         LowersValue(T, s, it) = Effect(calls, rest, its, tokens), CanLower(calls \o o, rest, its, todo)
  PROVE  CanLower(<< Op("pop", T, 0) >> \o o, s, it, tokens \o todo)
<1> DEFINE op == Op("pop", T, 0)
<1>1. op.op = "pop" /\ op.ty = T
  BY DEF Op
<1>2. Lowers(op, s, it) = LowersValue(T, s, it)
  BY <1>1 DEF Lowers
<1>3. Lowering(op)
  BY <1>1 DEF Lowering
<1>4. Lowers(op, s, it) = Effect(calls, rest, its, tokens)
  BY <1>2
<1> HIDE DEF op
<1>5. CanLower(<<op>> \o o, s, it, tokens \o todo)
  BY <1>3, <1>4, LowerBack
<1> QED BY <1>5 DEF op

LEMMA LeafHolds ==
  ASSUME NEW T \in Types, NEW t,
         T.k \in Leaves
  PROVE  Holds(T, Object("leaf", t), <<t>>)
<1> DEFINE x == Object("leaf", t)
<1>1. x.cls = "leaf" /\ x.value = t
  BY DEF Object
<1> HIDE DEF x
<1>2. ASSUME NEW o, NEW s, NEW it, NEW todo, CanLower(o, s, it, todo)
      PROVE  CanLower(<< Op("pop", T, 0) >> \o o, s \o <<x>>, it, <<t>> \o todo)
  <2>1. IsSeq(o) /\ IsSeq(s) /\ IsSeq(it)
    BY <1>2, CanLowerSeqs
  <2>2. Last(s \o <<x>>) = x /\ Front(s \o <<x>>) = s /\ IsSeq(s \o <<x>>)
    BY <2>1, TopOf, Joined, OneIsSeq
  <2>3. LowersValue(T, s \o <<x>>, it) = Effect(<<>>, s, it, <<t>>)
    BY <1>1, <2>2 DEF LowersValue, Leaves, Cases
  <2>4. <<>> \o o = o
    BY <2>1, NoneJoined
  <2>5. IsSeq(<<t>>)
    BY OneIsSeq
  <2> QED BY <1>2, <2>1, <2>2, <2>3, <2>4, <2>5, PopBack
<1>3. Lowerable(T, x, <<t>>)
  BY <1>2, OneIsSeq DEF Lowerable
<1> QED BY <1>1, <1>3 DEF Holds, x, Leaves

LEMMA AliasHolds ==
  ASSUME NEW T \in Types, NEW x, NEW ts,
         T.k = "alias", Holds(T.of, x, ts), T.of # NoType
  PROVE  Holds(T, x, ts)
<1>1. ASSUME NEW o, NEW s, NEW it, NEW todo, CanLower(o, s, it, todo)
      PROVE  CanLower(<< Op("pop", T, 0) >> \o o, s \o <<x>>, it, ts \o todo)
  <2>1. IsSeq(o) /\ IsSeq(s) /\ IsSeq(it)
    BY <1>1, CanLowerSeqs
  <2>2. IsSeq(s \o <<x>>)
    BY <2>1, Joined, OneIsSeq
  <2>3. LowersValue(T, s \o <<x>>, it) = Effect(<< Op("pop", T.of, 0) >>, s \o <<x>>, it, <<>>)
    BY DEF LowersValue, Lower, Leaves, Cases
  <2>4. CanLower(<< Op("pop", T.of, 0) >> \o o, s \o <<x>>, it, ts \o todo)
    BY <1>1 DEF Holds, Lowerable
  <2>5. IsSeq(ts \o todo)
    BY <2>4, CanLowerSeqs
  <2>6. CanLower(<< Op("pop", T, 0) >> \o o, s \o <<x>>, it, <<>> \o (ts \o todo))
    BY <2>1, <2>2, <2>3, <2>4, EmptyIsSeq, PopBack
  <2> QED BY <2>5, <2>6, NoneJoined
<1>2. Lowerable(T, x, ts)
  BY <1>1 DEF Holds, Lowerable
<1>3. x.cls = "None" => Optional[T]
  BY OptionalIs DEF Holds
<1> QED BY <1>2, <1>3 DEF Holds

\* The payload of a case is lowered, or there is none.
LEMMA PayloadLowers ==
  ASSUME NEW U, NEW v, NEW ts, NEW o, NEW s, NEW it, NEW todo,
         MayHold(U, v, ts), CanLower(o, s, it, todo)
  PROVE  CanLower(Lower(U) \o o, IF U = NoType THEN s ELSE s \o <<v>>, it, ts \o todo)
<1>1. IsSeq(o) /\ IsSeq(todo)
  BY CanLowerSeqs
<1>2. CASE U = NoType
  BY <1>1, <1>2, NoneJoined DEF Lower, MayHold
<1>3. CASE U # NoType
  BY <1>3 DEF Lower, MayHold, Holds, Lowerable
<1> QED BY <1>2, <1>3

LEMMA CaseLowers ==
  ASSUME NEW T \in Types, NEW d \in Discriminants(T), NEW v, NEW ts, NEW s, NEW it,
         T.k \in Cases, MayHold(Payload(T, d), v, ts), IsSeq(s)
  PROVE  LowersValue(T, s \o << Wrapped(T, d, v) >>, it) =
           Effect(Lower(Payload(T, d)), IF Payload(T, d) = NoType THEN s ELSE s \o <<v>>, it, <<d>>)
<1> DEFINE x == Wrapped(T, d, v)
           c == s \o <<x>>
<1>1. Last(c) = x /\ Front(c) = s
  BY TopOf
<1>2. LowersCase(T, d, v, c, it) =
        Effect(Lower(Payload(T, d)), IF Payload(T, d) = NoType THEN s ELSE s \o <<v>>, it, <<d>>)
  <2>1. Append(s, v) = s \o <<v>>
    BY TopOf
  <2> HIDE DEF c
  <2> QED BY <1>1, <2>1 DEF LowersCase
<1>3. LowersValue(T, c, it) = LowersCase(T, d, v, c, it)
  <2> HIDE DEF c
  <2>1. CASE T.k = "option"
    <3>1. d \in {0, 1}
      BY <2>1 DEF Discriminants
    <3>2. CASE d = 0
      <4>1. Payload(T, d) = NoType
        BY <2>1, <3>2 DEF Payload
      <4>2. v = None
        BY <4>1 DEF MayHold
      <4>3. x = None
        BY <2>1, <3>2 DEF Wrapped
      <4>4. x.cls = "None"
        BY <4>3 DEF None, Object
      <4> HIDE DEF x
      <4> QED BY <1>1, <2>1, <3>2, <4>2, <4>4 DEF LowersValue, Leaves, Cases
    <3>3. CASE d = 1
      <4>1. Payload(T, d) = T.of
        BY <2>1, <3>3 DEF Payload
      <4>2. T.of # NoType
        <5>1. T.of \in Parts(T)
          BY <2>1 DEF Parts
        <5> QED BY <2>1, <5>1, TypesAssumption
      <4>3. CASE Nesting(T)
        <5>1. x = Object("Some", v)
          BY <2>1, <3>3, <4>3 DEF Wrapped
        <5>2. x.cls = "Some" /\ x.value = v
          BY <5>1 DEF Object
        <5> HIDE DEF x
        <5> QED BY <1>1, <2>1, <3>3, <4>3, <5>2 DEF LowersValue, Leaves, Cases
      <4>4. CASE ~Nesting(T)
        <5>1. x = v
          BY <2>1, <3>3, <4>4 DEF Wrapped
        <5>2. x.cls # "None"
          BY <4>1, <4>2, <4>4, <5>1 DEF MayHold, Holds, Nesting
        <5> HIDE DEF x
        <5> QED BY <1>1, <2>1, <3>3, <4>4, <5>1, <5>2 DEF LowersValue, Leaves, Cases
      <4> QED BY <4>3, <4>4
    <3> QED BY <3>1, <3>2, <3>3
  <2>2. CASE T.k = "result"
    <3>1. d \in {0, 1}
      BY <2>2 DEF Discriminants
    <3>2. x.value = v /\ d = IF x.cls = "Ok" THEN 0 ELSE 1
      BY <2>2, <3>1 DEF Wrapped, Object
    <3> HIDE DEF x
    <3> QED BY <1>1, <2>2, <3>2 DEF LowersValue, Leaves, Cases
  <2>3. CASE T.k = "variant"
    <3>1. x.value = v /\ x.n = d
      BY <2>3 DEF Wrapped, Case
    <3> HIDE DEF x
    <3> QED BY <1>1, <2>3, <3>1 DEF LowersValue, Leaves, Cases
  <2> QED BY <2>1, <2>2, <2>3 DEF Cases
<1> QED BY <1>2, <1>3

LEMMA CaseHolds ==
  ASSUME NEW T \in Types, NEW d \in Discriminants(T), NEW v, NEW ts,
         T.k \in Cases, MayHold(Payload(T, d), v, ts)
  PROVE  Holds(T, Wrapped(T, d, v), <<d>> \o ts)
<1> DEFINE x == Wrapped(T, d, v)
           U == Payload(T, d)
<1>0. IsSeq(ts)
  BY EmptyIsSeq DEF MayHold, Holds, Lowerable
<1>1. ASSUME NEW o, NEW s, NEW it, NEW todo, CanLower(o, s, it, todo)
      PROVE  CanLower(<< Op("pop", T, 0) >> \o o, s \o <<x>>, it, (<<d>> \o ts) \o todo)
  <2>1. IsSeq(o) /\ IsSeq(s) /\ IsSeq(it) /\ IsSeq(todo)
    BY <1>1, CanLowerSeqs
  <2>2. IsSeq(s \o <<x>>) /\ IsSeq(<<d>>)
    BY <2>1, Joined, OneIsSeq
  <2> DEFINE left == IF U = NoType THEN s ELSE s \o <<v>>
  <2>3. LowersValue(T, s \o <<x>>, it) = Effect(Lower(U), left, it, <<d>>)
    BY <2>1, CaseLowers
  <2> HIDE DEF x, U
  <2>4. CanLower(Lower(U) \o o, left, it, ts \o todo)
    BY <1>1, PayloadLowers DEF U
  <2> DEFINE calls == Lower(U)
             c == s \o <<x>>
             tokens == <<d>>
             then == ts \o todo
  <2>5. CanLower(<< Op("pop", T, 0) >> \o o, c, it, tokens \o then)
    <3>1. IsSeq(c) /\ IsSeq(tokens) /\ LowersValue(T, c, it) = Effect(calls, left, it, tokens)
          /\ CanLower(calls \o o, left, it, then)
      BY <2>2, <2>3, <2>4
    <3> HIDE DEF left, calls, c, tokens, then
    <3> QED BY <2>1, <3>1, PopBack
  <2>6. CanLower(<< Op("pop", T, 0) >> \o o, s \o <<x>>, it, <<d>> \o (ts \o todo))
    BY <2>5
  <2> HIDE DEF c, calls, tokens, then, left
  <2>7. (<<d>> \o ts) \o todo = <<d>> \o (ts \o todo)
    BY <1>0, <2>1, <2>2, Assoc, SMTT(60)
  <2> QED BY <2>6, <2>7, Zenon
<1>2. Lowerable(T, x, <<d>> \o ts)
  <2>1. IsSeq(<<d>> \o ts)
    BY <1>0, Joined, OneIsSeq
  <2> HIDE DEF x
  <2> QED BY <1>1, <2>1 DEF Lowerable
<1>3. x.cls = "None" => Optional[T]
  <2>1. CASE T.k = "option"
    BY <2>1, OptionalIs
  <2>2. CASE T.k = "result"
    BY <2>2 DEF Wrapped, Object
  <2>3. CASE T.k = "variant"
    BY <2>3 DEF Wrapped, Case
  <2> QED BY <2>1, <2>2, <2>3 DEF Cases
<1>4. ASSUME T.k = "result" PROVE IsCaseOf(T, x)
  <2>1. d \in {0, 1}
    BY <1>4 DEF Discriminants
  <2>2. x = Object(IF d = 0 THEN "Ok" ELSE "Err", v)
    BY <1>4 DEF Wrapped
  <2>3. IF Payload(T, d) = NoType THEN v = None ELSE Lowerable(Payload(T, d), v, ts)
    BY DEF MayHold, Holds
  <2> HIDE DEF x
  <2> QED BY <2>1, <2>2, <2>3, Zenon DEF IsCaseOf
<1> HIDE DEF x
<1>5. Holds(T, x, <<d>> \o ts)
  BY <1>2, <1>3, <1>4 DEF Holds
<1> QED BY <1>5 DEF x

-----------------------------------------------------------------------------
(* The fields of a record, and the parameters of a function.               *)

LEMMA ReverseMore ==
  ASSUME NEW xs, NEW x, IsSeq(xs)
  PROVE  IsSeq(Reverse(xs)) /\ Reverse(xs \o <<x>>) = <<x>> \o Reverse(xs)
<1> DEFINE n == Len(xs)
           r == Reverse(xs)
           c == xs \o <<x>>
           a == Reverse(c)
           b == <<x>> \o r
<1>1. n \in Nat
  BY SeqIs
<1>2. r = [i \in 1..n |-> r[i]] /\ \A i \in 1..n : r[i] = xs[n - i + 1]
  BY DEF Reverse
<1>3. IsSeq(r) /\ Len(r) = n
  <2> HIDE DEF r
  <2> QED BY <1>1, <1>2, MadeIsSeq
<1>4. IsSeq(c) /\ Len(c) = n + 1 /\ \A i \in 1..(n + 1) : c[i] = IF i <= n THEN xs[i] ELSE <<x>>[i - n]
  BY Joined, OneIsSeq
<1>5. a = [i \in 1..(n + 1) |-> a[i]] /\ \A i \in 1..(n + 1) : a[i] = c[n + 1 - i + 1]
  BY <1>4 DEF Reverse
<1>6. IsSeq(a) /\ Len(a) = n + 1
  <2> HIDE DEF a
  <2> QED BY <1>1, <1>5, MadeIsSeq
<1>7. IsSeq(b) /\ Len(b) = 1 + n /\ \A i \in 1..(1 + n) : b[i] = IF i <= 1 THEN <<x>>[i] ELSE r[i - 1]
  <2> HIDE DEF r
  <2> QED BY <1>3, Joined, OneIsSeq
<1>8. ASSUME NEW i \in 1..(n + 1) PROVE a[i] = b[i]
  <2> HIDE DEF a, b, c, r, n
  <2>1. CASE i = 1
    <3>1. a[i] = c[n + 1]
      BY <1>1, <1>5, <2>1
    <3>2. c[n + 1] = <<x>>[1]
      BY <1>1, <1>4
    <3>3. b[i] = <<x>>[1]
      BY <1>1, <1>7, <2>1
    <3> QED BY <3>1, <3>2, <3>3
  <2>2. CASE i # 1
    <3>0. i - 1 \in 1..n /\ n + 1 - i + 1 \in 1..(n + 1) /\ n + 1 - i + 1 <= n
      BY <1>1, <2>2
    <3>1. a[i] = xs[n + 1 - i + 1]
      BY <1>4, <1>5, <3>0
    <3>2. b[i] = xs[n - (i - 1) + 1]
      <4>1. r[i - 1] = xs[n - (i - 1) + 1]
        BY <1>2, <3>0
      <4>2. b[i] = r[i - 1]
        BY <1>1, <1>7, <2>2
      <4> QED BY <4>1, <4>2
    <3>3. n + 1 - i + 1 = n - (i - 1) + 1
      BY <1>1
    <3> QED BY <3>1, <3>2, <3>3
  <2> QED BY <2>1, <2>2
<1>9. a = b
  <2> HIDE DEF a, b
  <2>1. Len(a) = Len(b)
    BY <1>1, <1>6, <1>7
  <2> QED BY <1>6, <1>7, <1>8, <2>1, Same
<1> QED BY <1>3, <1>9

FirstPops(types, j) == [n \in 1..j |-> Op("pop", types[n], 0)]

LEMMA FirstPopsMore ==
  ASSUME NEW types, NEW j \in Nat
  PROVE  /\ IsSeq(FirstPops(types, j)) /\ Len(FirstPops(types, j)) = j
         /\ FirstPops(types, j + 1) = FirstPops(types, j) \o << Op("pop", types[j + 1], 0) >>
<1> DEFINE f(k) == FirstPops(types, k)
           last == << Op("pop", types[j + 1], 0) >>
           c == f(j) \o last
<1>1. ASSUME NEW k \in Nat PROVE IsSeq(f(k)) /\ Len(f(k)) = k
  <2>1. f(k) = [n \in 1..k |-> f(k)[n]]
    BY DEF FirstPops
  <2> HIDE DEF f
  <2> QED BY <2>1, MadeIsSeq
<1>2. IsSeq(c) /\ Len(c) = j + 1 /\ \A i \in 1..(j + 1) : c[i] = IF i <= j THEN f(j)[i] ELSE last[i - j]
  <2>1. IsSeq(last) /\ Len(last) = 1
    BY OneIsSeq
  <2>2. IsSeq(f(j)) /\ Len(f(j)) = j
    BY <1>1
  <2> DEFINE a == f(j)
  <2> HIDE DEF f, last, a
  <2>3. IsSeq(a) /\ Len(a) = j
    BY <2>2 DEF a
  <2>4. IsSeq(a \o last) /\ Len(a \o last) = j + 1
        /\ \A i \in 1..(j + 1) : (a \o last)[i] = IF i <= j THEN a[i] ELSE last[i - j]
    BY <2>1, <2>3, Joined
  <2> QED BY <2>4 DEF a
<1>3. ASSUME NEW i \in 1..(j + 1) PROVE f(j + 1)[i] = c[i]
  <2>1. f(j + 1)[i] = Op("pop", types[i], 0)
    BY DEF FirstPops
  <2>2. CASE i <= j
    <3>1. f(j)[i] = Op("pop", types[i], 0)
      BY <2>2 DEF FirstPops
    <3> HIDE DEF f, c, last
    <3> QED BY <1>2, <2>1, <2>2, <3>1
  <2>3. CASE i = j + 1
    <3>1. last[1] = Op("pop", types[j + 1], 0)
      BY OneIsSeq
    <3>2. c[j + 1] = last[1]
      <4> HIDE DEF f, c, last
      <4> QED BY <1>2
    <3> HIDE DEF f, c, last
    <3> QED BY <2>1, <2>3, <3>1, <3>2
  <2>4. i <= j \/ i = j + 1
    OBVIOUS
  <2> QED BY <2>2, <2>3, <2>4
<1>4. f(j + 1) = c
  <2>1. IsSeq(f(j + 1)) /\ Len(f(j + 1)) = j + 1
    BY <1>1
  <2> HIDE DEF f, c
  <2> QED BY <1>2, <1>3, <2>1, Same
<1> QED BY <1>1, <1>4

HoldAll(types, j, xs, ts) ==
  /\ IsSeq(xs) /\ Len(xs) = j /\ IsSeq(ts)
  /\ \A o, s, it, todo :
       CanLower(o, s, it, todo) => CanLower(FirstPops(types, j) \o o, s \o Reverse(xs), it, ts \o todo)

LEMMA HoldNone == ASSUME NEW types PROVE HoldAll(types, 0, <<>>, <<>>)
<1>1. FirstPops(types, 0) = <<>>
  <2>1. IsSeq(FirstPops(types, 0)) /\ Len(FirstPops(types, 0)) = 0
    BY FirstPopsMore
  <2> QED BY <2>1, EmptyIsSeq, Same
<1>2. Reverse(<<>>) = <<>>
  <2> DEFINE r == Reverse(<<>>)
  <2>1. r = [i \in 1..0 |-> r[i]]
    BY EmptyIsSeq DEF Reverse
  <2> HIDE DEF r
  <2>2. IsSeq(r) /\ Len(r) = 0
    BY <2>1, MadeIsSeq
  <2>3. r = <<>>
    BY <2>2, EmptyIsSeq, Same
  <2> QED BY <2>3 DEF r
<1>3. ASSUME NEW o, NEW s, NEW it, NEW todo, CanLower(o, s, it, todo)
      PROVE  CanLower(FirstPops(types, 0) \o o, s \o Reverse(<<>>), it, <<>> \o todo)
  <2>1. IsSeq(o) /\ IsSeq(s) /\ IsSeq(todo)
    BY <1>3, CanLowerSeqs
  <2>2. <<>> \o o = o /\ s \o <<>> = s /\ <<>> \o todo = todo
    BY <2>1, NoneJoined
  <2> QED BY <1>1, <1>2, <1>3, <2>2
<1> QED BY <1>3, EmptyIsSeq DEF HoldAll

LEMMA HoldMore ==
  ASSUME NEW types, NEW j \in Nat, NEW xs, NEW ts, NEW x, NEW tx,
         HoldAll(types, j, xs, ts), Lowerable(types[j + 1], x, tx)
  PROVE  HoldAll(types, j + 1, xs \o <<x>>, ts \o tx)
<1> DEFINE T == types[j + 1]
           op == Op("pop", T, 0)
           P == FirstPops(types, j)
           r == Reverse(xs)
<1>1. IsSeq(xs) /\ Len(xs) = j /\ IsSeq(ts) /\ IsSeq(tx)
  BY DEF HoldAll, Lowerable
<1>2. IsSeq(P) /\ FirstPops(types, j + 1) = P \o <<op>> /\ IsSeq(<<op>>)
  BY FirstPopsMore, OneIsSeq
<1>3. IsSeq(r) /\ Reverse(xs \o <<x>>) = <<x>> \o r /\ IsSeq(<<x>>)
  BY <1>1, ReverseMore, OneIsSeq
<1>4. ASSUME NEW o, NEW s, NEW it, NEW todo, CanLower(o, s, it, todo)
      PROVE  CanLower(FirstPops(types, j + 1) \o o, s \o Reverse(xs \o <<x>>), it, (ts \o tx) \o todo)
  <2>1. IsSeq(o) /\ IsSeq(s) /\ IsSeq(todo)
    BY <1>4, CanLowerSeqs
  <2>2. CanLower(<<op>> \o o, s \o <<x>>, it, tx \o todo)
    BY <1>4 DEF Lowerable
  <2>3. CanLower(P \o (<<op>> \o o), (s \o <<x>>) \o r, it, ts \o (tx \o todo))
    BY <2>2 DEF HoldAll
  <2> HIDE DEF P, op, r, T
  <2>4. P \o (<<op>> \o o) = (P \o <<op>>) \o o
    <3> DEFINE q == <<op>>
    <3>1. IsSeq(q) /\ IsSeq(P)
      BY <1>2
    <3> HIDE DEF q
    <3>2. (P \o q) \o o = P \o (q \o o)
      BY ONLY <2>1, <3>1, Assoc, SMTT(60)
    <3> QED BY <3>2 DEF q
  <2>5. (s \o <<x>>) \o r = s \o (<<x>> \o r)
    BY <1>3, <2>1, Assoc, SMTT(60)
  <2>6. ts \o (tx \o todo) = (ts \o tx) \o todo
    BY <1>1, <2>1, Assoc, SMTT(60)
  <2> QED BY <1>2, <1>3, <2>3, <2>4, <2>5, <2>6, Zenon
<1>5. IsSeq(xs \o <<x>>) /\ Len(xs \o <<x>>) = j + 1 /\ IsSeq(ts \o tx)
  BY <1>1, Joined, OneIsSeq
<1> QED BY <1>4, <1>5 DEF HoldAll

LEMMA RecordHolds ==
  ASSUME NEW T \in Types, NEW xs, NEW ts,
         T.k = "record", HoldAll(T.fields, Len(T.fields), xs, ts)
  PROVE  Holds(T, Object("record", xs), ts)
<1> DEFINE x == Object("record", xs)
           P == FirstPops(T.fields, Len(T.fields))
<1>1. x.cls = "record" /\ x.value = xs
  BY DEF Object
<1>2. P = LowerAll(T.fields)
  BY DEF FirstPops, LowerAll
<1>3. ASSUME NEW o, NEW s, NEW it, NEW todo, CanLower(o, s, it, todo)
      PROVE  CanLower(<< Op("pop", T, 0) >> \o o, s \o <<x>>, it, ts \o todo)
  <2> HIDE DEF x
  <2>1. IsSeq(o) /\ IsSeq(s) /\ IsSeq(it)
    BY <1>3, CanLowerSeqs
  <2> DEFINE c == s \o <<x>>
             rest == s \o Reverse(xs)
             then == ts \o todo
  <2>2. IsSeq(c) /\ Last(c) = x /\ Front(c) = s
    BY <2>1, TopOf, Joined, OneIsSeq
  <2>3. CanLower(P \o o, rest, it, then)
    BY <1>3 DEF HoldAll
  <2>4. IsSeq(then) /\ <<>> \o then = then
    BY <2>3, CanLowerSeqs, NoneJoined
  <2> HIDE DEF c, then, P
  <2>5. LowersValue(T, c, it) = Effect(P, rest, it, <<>>)
    BY <1>1, <1>2, <2>2 DEF LowersValue, Leaves, Cases
  <2> HIDE DEF rest
  <2>6. CanLower(<< Op("pop", T, 0) >> \o o, c, it, <<>> \o then)
    BY <2>1, <2>2, <2>3, <2>5, EmptyIsSeq, PopBack
  <2> QED BY <2>4, <2>6 DEF c, then
<1>4. Lowerable(T, x, ts)
  BY <1>3 DEF Lowerable, HoldAll
<1> QED BY <1>1, <1>4 DEF Holds, x

-----------------------------------------------------------------------------
(* The elements of a list.                                                 *)

LEMMA TwiceMore ==
  ASSUME NEW n \in Nat, NEW a, NEW b
  PROVE  /\ IsSeq(Twice(n, a, b)) /\ Twice(0, a, b) = <<>>
         /\ Twice(n + 1, a, b) = <<a>> \o (<<b>> \o Twice(n, a, b))
<1> DEFINE f(k) == Twice(k, a, b)
           g == <<b>> \o f(n)
           h == <<a>> \o g
<1>1. ASSUME NEW k \in Nat
      PROVE  IsSeq(f(k)) /\ Len(f(k)) = 2 * k /\ \A i \in 1..(2 * k) : f(k)[i] = IF i % 2 = 1 THEN a ELSE b
  <2>1. f(k) = [i \in 1..(2 * k) |-> f(k)[i]] /\ \A i \in 1..(2 * k) : f(k)[i] = IF i % 2 = 1 THEN a ELSE b
    BY DEF Twice
  <2>2. 2 * k \in Nat
    OBVIOUS
  <2> HIDE DEF f
  <2> QED BY <2>1, <2>2, MadeIsSeq
<1>2. f(0) = <<>>
  <2>1. IsSeq(f(0)) /\ Len(f(0)) = 0
    <3> HIDE DEF f
    <3> QED BY <1>1
  <2> HIDE DEF f
  <2> QED BY <2>1, EmptyIsSeq, Same
<1>3. IsSeq(f(n)) /\ Len(f(n)) = 2 * n /\ \A i \in 1..(2 * n) : f(n)[i] = IF i % 2 = 1 THEN a ELSE b
  BY <1>1
<1>4. IsSeq(f(n + 1)) /\ Len(f(n + 1)) = 2 * n + 2
      /\ \A i \in 1..(2 * n + 2) : f(n + 1)[i] = IF i % 2 = 1 THEN a ELSE b
  <2>1. n + 1 \in Nat /\ 2 * (n + 1) = 2 * n + 2
    OBVIOUS
  <2> HIDE DEF f
  <2> QED BY <1>1, <2>1
<1> HIDE DEF f
<1>5. IsSeq(g) /\ Len(g) = 1 + 2 * n /\ \A i \in 1..(1 + 2 * n) : g[i] = IF i <= 1 THEN <<b>>[i] ELSE f(n)[i - 1]
  BY <1>3, Joined, OneIsSeq
<1> HIDE DEF g
<1>6. IsSeq(h) /\ Len(h) = 2 + 2 * n /\ \A i \in 1..(2 + 2 * n) : h[i] = IF i <= 1 THEN <<a>>[i] ELSE g[i - 1]
  BY <1>5, Joined, OneIsSeq
<1> HIDE DEF h
<1>7. ASSUME NEW i \in 1..(2 * n + 2) PROVE f(n + 1)[i] = h[i]
  <2>1. CASE i = 1
    <3>1. h[i] = <<a>>[1] /\ <<a>>[1] = a
      BY <1>6, <2>1, OneIsSeq
    <3> QED BY <1>4, <2>1, <3>1
  <2>2. CASE i = 2
    <3>1. h[i] = g[1] /\ g[1] = <<b>>[1] /\ <<b>>[1] = b
      BY <1>5, <1>6, <2>2, OneIsSeq
    <3> QED BY <1>4, <2>2, <3>1
  <2>3. CASE i > 2
    <3>1. h[i] = g[i - 1] /\ g[i - 1] = f(n)[i - 2]
      BY <1>5, <1>6, <2>3
    <3>2. f(n)[i - 2] = IF (i - 2) % 2 = 1 THEN a ELSE b
      BY <1>3, <2>3
    <3>3. (i - 2) % 2 = i % 2
      OBVIOUS
    <3> QED BY <1>4, <3>1, <3>2, <3>3
  <2> QED BY <2>1, <2>2, <2>3
<1>8. Len(f(n + 1)) = Len(h)
  BY <1>4, <1>6
<1>9. f(n + 1) = h
  BY <1>4, <1>6, <1>7, <1>8, Same
<1> QED BY <1>2, <1>3, <1>9 DEF f, g, h

(* The first of the elements, es, hold values whose tokens are ts: lowering  *)
(* them and then the others, fs, writes ts and leaves what the others write. *)

HoldEach(T, es, ts) ==
  /\ IsSeq(es) /\ IsSeq(ts)
  /\ \A fs, o, s, it, todo :
       IsSeq(fs) /\ IsSeq(o) /\ IsSeq(s) /\ IsSeq(it) =>
       (CanLower(LowerEach(T, Len(fs)) \o o, s \o << Object("list", es \o fs) >>, it \o << Len(es) >>, todo) =>
        CanLower(LowerEach(T, Len(es) + Len(fs)) \o o, s \o << Object("list", es \o fs) >>, it \o <<0>>, ts \o todo))

LEMMA HoldNoElement == ASSUME NEW T PROVE HoldEach(T, <<>>, <<>>)
<1>1. ASSUME NEW fs, NEW o, NEW s, NEW it, NEW todo, IsSeq(fs),
             CanLower(LowerEach(T, Len(fs)) \o o, s \o << Object("list", <<>> \o fs) >>, it \o << Len(<<>>) >>, todo)
      PROVE  CanLower(LowerEach(T, Len(<<>>) + Len(fs)) \o o, s \o << Object("list", <<>> \o fs) >>, it \o <<0>>,
                      <<>> \o todo)
  <2>1. Len(<<>>) = 0 /\ Len(<<>>) + Len(fs) = Len(fs)
    BY <1>1, EmptyIsSeq, SeqIs
  <2>2. <<>> \o todo = todo
    BY <1>1, CanLowerSeqs, NoneJoined
  <2> QED BY <1>1, <2>1, <2>2
<1> QED BY <1>1, EmptyIsSeq DEF HoldEach

\* pop_iter_next, when an element is left.
LEMMA NextBack ==
  ASSUME NEW T, NEW o, NEW s, NEW it, NEW todo, NEW es, NEW e, NEW fs, NEW x,
         IsSeq(o), IsSeq(s), IsSeq(it), IsSeq(es), IsSeq(fs), x = Object("list", (es \o <<e>>) \o fs),
         CanLower(o, (s \o <<x>>) \o <<e>>, it \o << Len(es) + 1 >>, todo)
  PROVE  CanLower(<< Op("pop_iter_next", T, 0) >> \o o, s \o <<x>>, it \o << Len(es) >>, todo)
<1> DEFINE op == Op("pop_iter_next", T, 0)
           c == s \o <<x>>
           i == it \o << Len(es) >>
           above == c \o <<e>>
           after == it \o << Len(es) + 1 >>
<1>1. op.op = "pop_iter_next"
  BY DEF Op
<1>2. IsSeq(c) /\ Last(c) = x /\ Append(c, e) = above
  BY TopOf, Joined, OneIsSeq
<1>3. IsSeq(i) /\ Last(i) = Len(es) /\ Front(i) = it /\ Append(it, Len(es) + 1) = after
  BY TopOf, Joined, OneIsSeq
<1>4. x.value[Len(es) + 1] = e
  <2> DEFINE h == es \o <<e>>
  <2>1. x.value = h \o fs
    BY DEF Object
  <2>2. IsSeq(h) /\ Len(h) = Len(es) + 1 /\ Len(es) \in Nat /\ Len(fs) \in Nat
        /\ \A k \in 1..(Len(es) + 1) : h[k] = IF k <= Len(es) THEN es[k] ELSE <<e>>[k - Len(es)]
    BY Joined, OneIsSeq, SeqIs
  <2>3. h[Len(es) + 1] = <<e>>[1] /\ <<e>>[1] = e
    <3> HIDE DEF h
    <3> QED BY <2>2, OneIsSeq
  <2> HIDE DEF h
  <2>4. \A k \in 1..(Len(h) + Len(fs)) : (h \o fs)[k] = IF k <= Len(h) THEN h[k] ELSE fs[k - Len(h)]
    BY <2>2, Joined
  <2>5. (h \o fs)[Len(es) + 1] = h[Len(es) + 1]
    BY <2>2, <2>4
  <2> QED BY <2>1, <2>3, <2>5
<1>5. CanLower(<<>> \o o, above, after, todo)
  BY NoneJoined
<1> HIDE DEF c, i, above, after
<1>6. Lowers(op, c, i) = Effect(<<>>, above, after, <<>>)
  BY <1>1, <1>2, <1>3, <1>4 DEF Lowers
<1>7. Lowering(op)
  BY <1>1 DEF Lowering
<1> HIDE DEF op
<1>8. CanLower(<<op>> \o o, c, i, <<>> \o todo)
  BY <1>2, <1>3, <1>5, <1>6, <1>7, EmptyIsSeq, LowerBack
<1>9. <<>> \o todo = todo
  BY <1>5, CanLowerSeqs, NoneJoined
<1> QED BY <1>8, <1>9 DEF op, c, i

LEMMA HoldElement ==
  ASSUME NEW T, NEW es, NEW ts, NEW e, NEW te,
         HoldEach(T, es, ts), Lowerable(T.of, e, te)
  PROVE  HoldEach(T, es \o <<e>>, ts \o te)
<1> DEFINE es1 == es \o <<e>>
           next == Op("pop_iter_next", T, 0)
           pop == Op("pop", T.of, 0)
<1>1. IsSeq(es) /\ IsSeq(ts) /\ IsSeq(te) /\ Len(es) \in Nat
  BY SeqIs DEF HoldEach, Lowerable
<1>2. IsSeq(es1) /\ Len(es1) = Len(es) + 1 /\ IsSeq(ts \o te)
  BY <1>1, Joined, OneIsSeq
<1>3. ASSUME NEW fs, NEW o, NEW s, NEW it, NEW todo, IsSeq(fs), IsSeq(o), IsSeq(s), IsSeq(it),
             CanLower(LowerEach(T, Len(fs)) \o o, s \o << Object("list", es1 \o fs) >>, it \o << Len(es1) >>, todo)
      PROVE  CanLower(LowerEach(T, Len(es1) + Len(fs)) \o o, s \o << Object("list", es1 \o fs) >>, it \o <<0>>,
                      (ts \o te) \o todo)
  <2> DEFINE x == Object("list", es1 \o fs)
             fs1 == <<e>> \o fs
             E == LowerEach(T, Len(fs))
             r == E \o o
             then == te \o todo
  <2>1. Len(fs) \in Nat /\ IsSeq(todo)
    BY <1>3, SeqIs, CanLowerSeqs
  <2>2. /\ IsSeq(E) /\ IsSeq(r) /\ IsSeq(<<next>>) /\ IsSeq(<<pop>>)
        /\ LowerEach(T, Len(fs) + 1) = <<next>> \o (<<pop>> \o E)
    <3>1. IsSeq(E) /\ LowerEach(T, Len(fs) + 1) = <<next>> \o (<<pop>> \o E)
      BY <2>1, TwiceMore DEF LowerEach
    <3> QED BY <1>3, <3>1, Joined, OneIsSeq
  <2>3. CanLower(<<pop>> \o r, (s \o <<x>>) \o <<e>>, it \o << Len(es) + 1 >>, then)
    <3>1. CanLower(r, s \o <<x>>, it \o << Len(es) + 1 >>, todo)
      BY <1>2, <1>3
    <3> HIDE DEF r, x
    <3> QED BY <3>1 DEF Lowerable
  <2>4. CanLower(<<next>> \o (<<pop>> \o r), s \o <<x>>, it \o << Len(es) >>, then)
    <3> DEFINE q == <<pop>> \o r
    <3>1. IsSeq(q)
      BY <2>2, Joined
    <3>2. CanLower(q, (s \o <<x>>) \o <<e>>, it \o << Len(es) + 1 >>, then)
      BY <2>3
    <3>3. x = Object("list", (es \o <<e>>) \o fs)
      OBVIOUS
    <3> HIDE DEF q, r, then, x
    <3>4. CanLower(<< Op("pop_iter_next", T, 0) >> \o q, s \o <<x>>, it \o << Len(es) >>, then)
      BY <1>1, <1>3, <3>1, <3>2, <3>3, NextBack
    <3> QED BY <3>4 DEF q
  <2>5. <<next>> \o (<<pop>> \o r) = LowerEach(T, Len(fs) + 1) \o o
    <3> DEFINE a == <<next>>
               b == <<pop>>
    <3>1. IsSeq(a) /\ IsSeq(b) /\ IsSeq(E) /\ IsSeq(o)
      BY <1>3, <2>2
    <3>2. LowerEach(T, Len(fs) + 1) = a \o (b \o E)
      BY <2>2
    <3> HIDE DEF a, b, E
    <3>3. (b \o E) \o o = b \o (E \o o)
      BY ONLY <3>1, Assoc, SMTT(60)
    <3>4. IsSeq(b \o E)
      BY ONLY <3>1, Joined
    <3>5. (a \o (b \o E)) \o o = a \o ((b \o E) \o o)
      BY ONLY <3>1, <3>4, Assoc, SMTT(60)
    <3>6. LowerEach(T, Len(fs) + 1) \o o = a \o (b \o r)
      BY <3>2, <3>3, <3>5 DEF r
    <3> QED BY <3>6 DEF a, b
  <2>6. IsSeq(fs1) /\ Len(fs1) = Len(fs) + 1 /\ es \o fs1 = es1 \o fs
    <3> DEFINE one == <<e>>
    <3>1. IsSeq(one) /\ Len(one) = 1
      BY OneIsSeq
    <3> HIDE DEF one
    <3>2. (es \o one) \o fs = es \o (one \o fs)
      BY ONLY <1>1, <1>3, <3>1, Assoc, SMTT(60)
    <3>3. IsSeq(one \o fs) /\ Len(one \o fs) = Len(one) + Len(fs)
      BY ONLY <1>3, <3>1, Joined
    <3>4. Len(one) + Len(fs) = Len(fs) + 1
      BY <2>1, <3>1
    <3> QED BY <3>2, <3>3, <3>4 DEF one
  <2>7. CanLower(LowerEach(T, Len(fs1)) \o o, s \o << Object("list", es \o fs1) >>, it \o << Len(es) >>, then)
    <3>1. CanLower(LowerEach(T, Len(fs) + 1) \o o, s \o <<x>>, it \o << Len(es) >>, then)
      BY <2>4, <2>5, Zenon
    <3> HIDE DEF then, fs1
    <3> QED BY <2>6, <3>1, Zenon DEF x
  <2>8. CanLower(LowerEach(T, Len(es) + Len(fs1)) \o o, s \o << Object("list", es \o fs1) >>, it \o <<0>>, ts \o then)
    <3> HIDE DEF fs1, then
    <3> QED BY <1>3, <2>6, <2>7 DEF HoldEach
  <2>9. Len(es) + Len(fs1) = Len(es1) + Len(fs)
    <3> HIDE DEF fs1, es1
    <3> QED BY <1>1, <1>2, <2>1, <2>6
  <2>10. ts \o then = (ts \o te) \o todo
    BY <1>1, <2>1, Assoc, SMTT(60)
  <2> HIDE DEF fs1, then, es1
  <2> QED BY <2>6, <2>8, <2>9, <2>10, Zenon
<1> HIDE DEF es1
<1> QED BY <1>2, <1>3 DEF HoldEach, es1

LEMMA ListHolds ==
  ASSUME NEW T \in Types, NEW es, NEW ts,
         T.k = "list", HoldEach(T, es, ts)
  PROVE  Holds(T, Object("list", es), << Len(es) >> \o ts)
<1> DEFINE x == Object("list", es)
           n == Len(es)
           E == LowerEach(T, n)
           end == Op("pop_iter", T, 0)
<1>1. x.cls = "list" /\ x.value = es
  BY DEF Object
<1>2. IsSeq(es) /\ IsSeq(ts) /\ n \in Nat
  BY SeqIs DEF HoldEach
<1>3. IsSeq(E)
  BY <1>2, TwiceMore DEF LowerEach
<1>4. es \o <<>> = es
  BY <1>2, NoneJoined
<1>5. ASSUME NEW o, NEW s, NEW it, NEW todo, CanLower(o, s, it, todo)
      PROVE  CanLower(<< Op("pop", T, 0) >> \o o, s \o <<x>>, it, (<<n>> \o ts) \o todo)
  <2> DEFINE c == s \o <<x>>
             i == it \o <<n>>
             z == it \o <<0>>
             r == <<end>> \o o
             then == ts \o todo
  <2>1. IsSeq(o) /\ IsSeq(s) /\ IsSeq(it) /\ IsSeq(todo)
    BY <1>5, CanLowerSeqs
  <2>2. IsSeq(c) /\ IsSeq(i) /\ IsSeq(r) /\ IsSeq(<<end>>)
    BY <2>1, Joined, OneIsSeq
  <2>3. Last(c) = x /\ Front(c) = s /\ Front(i) = it /\ Append(it, 0) = z
    BY <2>1, TopOf
  <2>4. CanLower(r, c, i, todo)
    <3>1. end.op = "pop_iter"
      BY DEF Op
    <3>2. Lowering(end)
      BY <3>1 DEF Lowering
    <3> HIDE DEF end, c, i
    <3>3. Lowers(end, c, i) = Effect(<<>>, s, it, <<>>)
      BY <2>3, <3>1 DEF Lowers, EndIter
    <3>4. CanLower(<<>> \o o, s, it, todo) /\ <<>> \o todo = todo
      BY <1>5, <2>1, NoneJoined
    <3>5. CanLower(<<end>> \o o, c, i, <<>> \o todo)
      BY <2>1, <2>2, <3>2, <3>3, <3>4, EmptyIsSeq, LowerBack
    <3> QED BY <3>4, <3>5
  <2>5. CanLower(LowerEach(T, n + 0) \o r, c, z, then)
    <3>1. LowerEach(T, 0) \o r = r
      <4>1. LowerEach(T, 0) = <<>>
        BY TwiceMore DEF LowerEach
      <4> QED BY <2>2, <4>1, NoneJoined
    <3>2. CanLower(LowerEach(T, Len(<<>>)) \o r, s \o << Object("list", es \o <<>>) >>, it \o << Len(es) >>, todo)
      <4>1. CanLower(r, s \o << Object("list", es \o <<>>) >>, it \o << Len(es) >>, todo)
        BY <1>4, <2>4
      <4> QED BY <3>1, <4>1, EmptyIsSeq
    <3>3. CanLower(LowerEach(T, Len(es) + Len(<<>>)) \o r, s \o << Object("list", es \o <<>>) >>, it \o <<0>>, ts \o todo)
      <4> HIDE DEF r
      <4> QED BY <2>1, <2>2, <3>2, EmptyIsSeq DEF HoldEach
    <3> QED BY <1>4, <3>3, EmptyIsSeq
  <2>6. CanLower((E \o <<end>>) \o o, c, z, then)
    <3>1. (E \o <<end>>) \o o = E \o (<<end>> \o o)
      <4> DEFINE q == <<end>>
      <4>1. IsSeq(q)
        BY <2>2
      <4> HIDE DEF q, E
      <4>2. (E \o q) \o o = E \o (q \o o)
        BY ONLY <1>3, <2>1, <4>1, Assoc, SMTT(60)
      <4> QED BY <4>2 DEF q
    <3>2. n + 0 = n
      BY <1>2
    <3> HIDE DEF n, c, z, then
    <3> QED BY <2>5, <3>1, <3>2
  <2>7. LowersValue(T, c, it) = Effect(E \o <<end>>, c, z, <<n>>)
    <3> HIDE DEF c, z, x
    <3> QED BY <1>1, <2>3 DEF LowersValue, Leaves, Cases
  <2>8. CanLower(<< Op("pop", T, 0) >> \o o, c, it, <<n>> \o then)
    <3> DEFINE calls == E \o <<end>>
               tokens == <<n>>
    <3>1. IsSeq(tokens) /\ LowersValue(T, c, it) = Effect(calls, c, z, tokens) /\ CanLower(calls \o o, c, z, then)
      BY <2>6, <2>7, OneIsSeq
    <3> HIDE DEF calls, c, z, tokens, then
    <3>2. IsSeq(o) /\ IsSeq(c) /\ IsSeq(it) /\ IsSeq(tokens)
      BY <2>1, <2>2, <3>1
    <3>3. LowersValue(T, c, it) = Effect(calls, c, z, tokens)
      BY <3>1
    <3>4. CanLower(calls \o o, c, z, then)
      BY <3>1
    <3>5. CanLower(<< Op("pop", T, 0) >> \o o, c, it, tokens \o then)
      BY <3>2, <3>3, <3>4, PopBack
    <3> QED BY <3>5 DEF tokens
  <2>9. (<<n>> \o ts) \o todo = <<n>> \o then
    <3> DEFINE q == <<n>>
    <3>1. IsSeq(q)
      BY OneIsSeq
    <3> HIDE DEF q
    <3>2. (q \o ts) \o todo = q \o (ts \o todo)
      BY ONLY <1>2, <2>1, <3>1, Assoc, SMTT(60)
    <3> QED BY <3>2 DEF q
  <2> HIDE DEF then, n
  <2> QED BY <2>8, <2>9, Zenon DEF c
<1>6. Lowerable(T, x, <<n>> \o ts)
  <2>1. IsSeq(<<n>> \o ts)
    BY <1>2, Joined, OneIsSeq
  <2> HIDE DEF n, x
  <2> QED BY <1>5, <2>1 DEF Lowerable
<1> HIDE DEF x, n
<1>7. Holds(T, x, <<n>> \o ts)
  BY <1>1, <1>6 DEF Holds
<1> QED BY <1>7 DEF x, n

-----------------------------------------------------------------------------
(* The operations that lift, as one function of what the glue reads.       *)

Adds(calls, s, tokens) == [calls |-> calls, stack |-> s, tokens |-> tokens]

\* What there is to read.
Readings(op) ==
  IF op.op # "lift" THEN {0}
  ELSE IF op.ty.k \in Leaves THEN Tokens
  ELSE IF op.ty.k \in Cases THEN Discriminants(op.ty)
  ELSE IF op.ty.k = "list" THEN Lengths
  ELSE {0}

LiftsValue(T, s, c) ==
  CASE T.k = "alias" -> Adds(Lift(T.of), s, <<>>)
    [] T.k \in Leaves -> Adds(<< Op("push", T, c) >>, s, <<c>>)
    [] T.k \in Cases -> Adds(Lift(Payload(T, c)) \o << Op("push", T, c) >>, s, <<c>>)
    [] T.k = "record" -> Adds(LiftAll(T.fields) \o << Op("push", T, Len(T.fields)) >>, s, <<>>)
    [] T.k = "list" -> Adds(<< Op("push", T, 0) >> \o LiftEach(T, c), s, <<c>>)

Lifts(op, s, c) ==
  CASE op.op = "lift" -> LiftsValue(op.ty, s, c)
    [] op.op = "push" -> Adds(<<>>, Pushed(s, op.ty, op.arg), <<>>)
    [] op.op = "list_append" -> Adds(<<>>, Appended(s), <<>>)

LiftingOp(op) == op.op \in {"lift", "push", "list_append"}

(* The glue can lift: whatever it reads, it ends with objects on the stack   *)
(* that hold the values it has read, the parameters of a call or what the    *)
(* import answers.                                                         *)

Lifted(w, s, todo) ==
  IF w.phase = "call" THEN HoldAll(w.sig.params, Len(w.sig.params), s, todo)
  ELSE IF w.sig.import = NoType THEN s = <<>> /\ todo = <<>>
  ELSE \E x : s = <<x>> /\ Holds(w.sig.import, x, todo)

EndsLifted(w, o, s, todo, G) ==
  IF o = <<>> THEN Lifted(w, s, todo)
  ELSE /\ LiftingOp(Head(o))
       /\ \A c \in Readings(Head(o)) :
            LET e == Lifts(Head(o), s, c)
            IN  <<e.calls \o Tail(o), e.stack, todo \o e.tokens>> \in G

LiftClosed(w, G) ==
  \A o, s, todo : <<o, s, todo>> \in G =>
    IsSeq(o) /\ IsSeq(s) /\ IsSeq(todo) /\ EndsLifted(w, o, s, todo, G)

CanLift(w, o, s, todo) == \E G : LiftClosed(w, G) /\ <<o, s, todo>> \in G

LEMMA CanLiftSeqs ==
  ASSUME NEW w, NEW o, NEW s, NEW todo, CanLift(w, o, s, todo)
  PROVE  IsSeq(o) /\ IsSeq(s) /\ IsSeq(todo)
BY DEF CanLift, LiftClosed

LEMMA NothingToLift ==
  ASSUME NEW w
  PROVE  /\ \A s, todo : IsSeq(s) /\ IsSeq(todo) /\ Lifted(w, s, todo) => CanLift(w, <<>>, s, todo)
         /\ \A s, todo : CanLift(w, <<>>, s, todo) => Lifted(w, s, todo)
<1>1. ASSUME NEW s, NEW todo, IsSeq(s), IsSeq(todo), Lifted(w, s, todo) PROVE CanLift(w, <<>>, s, todo)
  <2> DEFINE G == {<< <<>>, s, todo >>}
  <2>1. LiftClosed(w, G)
    <3> SUFFICES ASSUME NEW a, NEW b, NEW c, <<a, b, c>> \in G
                 PROVE  IsSeq(a) /\ IsSeq(b) /\ IsSeq(c) /\ EndsLifted(w, a, b, c, G)
      BY Zenon DEF LiftClosed
    <3>1. a = <<>> /\ b = s /\ c = todo
      OBVIOUS
    <3> QED BY <1>1, <3>1, EmptyIsSeq DEF EndsLifted
  <2> QED BY <2>1 DEF CanLift
<1>2. \A s, todo : CanLift(w, <<>>, s, todo) => Lifted(w, s, todo)
  BY DEF CanLift, LiftClosed, EndsLifted
<1> QED BY <1>1, <1>2

LEMMA LiftStep ==
  ASSUME NEW w, NEW o, NEW s, NEW todo, CanLift(w, o, s, todo), o # <<>>
  PROVE  /\ LiftingOp(Head(o))
         /\ \A c \in Readings(Head(o)) :
              CanLift(w, Lifts(Head(o), s, c).calls \o Tail(o), Lifts(Head(o), s, c).stack,
                      todo \o Lifts(Head(o), s, c).tokens)
<1>1. PICK G : LiftClosed(w, G) /\ <<o, s, todo>> \in G
  BY DEF CanLift
<1>2. EndsLifted(w, o, s, todo, G)
  BY <1>1 DEF LiftClosed
<1> QED BY <1>1, <1>2 DEF EndsLifted, CanLift

LEMMA LiftBack ==
  ASSUME NEW w, NEW op, NEW o, NEW s, NEW todo, LiftingOp(op), IsSeq(o), IsSeq(s), IsSeq(todo),
         \A c \in Readings(op) :
           CanLift(w, Lifts(op, s, c).calls \o o, Lifts(op, s, c).stack, todo \o Lifts(op, s, c).tokens)
  PROVE  CanLift(w, <<op>> \o o, s, todo)
<1> DEFINE After(c) == <<Lifts(op, s, c).calls \o o, Lifts(op, s, c).stack, todo \o Lifts(op, s, c).tokens>>
           C == Readings(op)
           Of == [c \in C |-> CHOOSE G : LiftClosed(w, G) /\ After(c) \in G]
           q == <<op>> \o o
           U == UNION {Of[c] : c \in C}
           H == U \cup {<<q, s, todo>>}
<1>1. ASSUME NEW c \in C PROVE LiftClosed(w, Of[c]) /\ After(c) \in Of[c]
  <2>1. \E G : LiftClosed(w, G) /\ After(c) \in G
    BY DEF CanLift
  <2>2. Of[c] = CHOOSE G : LiftClosed(w, G) /\ After(c) \in G
    OBVIOUS
  <2> HIDE DEF After, Of
  <2> QED BY <2>1, <2>2, Zenon
<1> HIDE DEF Of
<1>2. q # <<>> /\ Head(q) = op /\ Tail(q) = o /\ IsSeq(q)
  BY FirstOf, Joined, OneIsSeq
<1>3. \A c \in C : After(c) \in H
  <2> HIDE DEF After
  <2> QED BY <1>1
<1>4. EndsLifted(w, q, s, todo, H)
  <2> HIDE DEF H, q
  <2> QED BY <1>2, <1>3, Zenon DEF EndsLifted
<1>5. ASSUME NEW a, NEW b, NEW t, NEW G, EndsLifted(w, a, b, t, G), \A y : y \in G => y \in H
      PROVE  EndsLifted(w, a, b, t, H)
  <2> HIDE DEF H
  <2>1. CASE a = <<>>
    BY <1>5, <2>1 DEF EndsLifted
  <2>2. CASE a # <<>>
    BY <1>5, <2>2 DEF EndsLifted
  <2> QED BY <2>1, <2>2
<1>6. LiftClosed(w, H)
  <2> SUFFICES ASSUME NEW a, NEW b, NEW t, <<a, b, t>> \in H
               PROVE  IsSeq(a) /\ IsSeq(b) /\ IsSeq(t) /\ EndsLifted(w, a, b, t, H)
    BY Zenon DEF LiftClosed
  <2>1. CASE <<a, b, t>> = <<q, s, todo>>
    <3> HIDE DEF H, q
    <3>1. a = q /\ b = s /\ t = todo
      BY <2>1
    <3> QED BY <1>2, <1>4, <3>1, Zenon
  <2>2. CASE <<a, b, t>> # <<q, s, todo>>
    <3>0. <<a, b, t>> \in U
      <4> HIDE DEF q, U
      <4> QED BY <2>2
    <3>1. PICK c \in C : <<a, b, t>> \in Of[c]
      BY <3>0
    <3>2. \A y : y \in Of[c] => y \in H
      OBVIOUS
    <3>3. IsSeq(a) /\ IsSeq(b) /\ IsSeq(t) /\ EndsLifted(w, a, b, t, Of[c])
      BY <1>1, <3>1, Zenon DEF LiftClosed
    <3> HIDE DEF H
    <3> QED BY <1>5, <3>2, <3>3, Zenon
  <2> QED BY <2>1, <2>2
<1>7. <<q, s, todo>> \in H
  OBVIOUS
<1> HIDE DEF H
<1> QED BY <1>6, <1>7 DEF CanLift

LEMMA PushBack ==
  ASSUME NEW w, NEW T, NEW arg, NEW o, NEW s, NEW todo, IsSeq(s), CanLift(w, o, Pushed(s, T, arg), todo)
  PROVE  CanLift(w, << Op("push", T, arg) >> \o o, s, todo)
<1> DEFINE op == Op("push", T, arg)
           p == Pushed(s, T, arg)
<1>1. op.op = "push" /\ op.ty = T /\ op.arg = arg
  BY DEF Op
<1>2. IsSeq(o) /\ IsSeq(todo)
  BY CanLiftSeqs
<1> HIDE DEF op
<1>3. LiftingOp(op)
  BY <1>1 DEF LiftingOp
<1>4. \A c : Lifts(op, s, c).calls = <<>> /\ Lifts(op, s, c).stack = p /\ Lifts(op, s, c).tokens = <<>>
  BY <1>1 DEF Lifts, Adds
<1> HIDE DEF p
<1>5. <<>> \o o = o /\ todo \o <<>> = todo
  BY <1>2, NoneJoined
<1>6. CanLift(w, o, p, todo)
  BY DEF p
<1>7. \A c \in Readings(op) :
        CanLift(w, Lifts(op, s, c).calls \o o, Lifts(op, s, c).stack, todo \o Lifts(op, s, c).tokens)
  BY <1>4, <1>5, <1>6, Zenon
<1>8. CanLift(w, <<op>> \o o, s, todo)
  BY <1>2, <1>3, <1>7, LiftBack
<1> QED BY <1>8 DEF op

LEMMA AppendBack ==
  ASSUME NEW w, NEW T, NEW o, NEW s, NEW todo, IsSeq(s), CanLift(w, o, Appended(s), todo)
  PROVE  CanLift(w, << Op("list_append", T, 0) >> \o o, s, todo)
<1> DEFINE op == Op("list_append", T, 0)
           p == Appended(s)
<1>1. op.op = "list_append"
  BY DEF Op
<1>2. IsSeq(o) /\ IsSeq(todo)
  BY CanLiftSeqs
<1> HIDE DEF op
<1>3. LiftingOp(op)
  BY <1>1 DEF LiftingOp
<1>4. \A c : Lifts(op, s, c).calls = <<>> /\ Lifts(op, s, c).stack = p /\ Lifts(op, s, c).tokens = <<>>
  BY <1>1 DEF Lifts, Adds
<1> HIDE DEF p
<1>5. <<>> \o o = o /\ todo \o <<>> = todo
  BY <1>2, NoneJoined
<1>6. CanLift(w, o, p, todo)
  BY DEF p
<1>7. \A c \in Readings(op) :
        CanLift(w, Lifts(op, s, c).calls \o o, Lifts(op, s, c).stack, todo \o Lifts(op, s, c).tokens)
  BY <1>4, <1>5, <1>6, Zenon
<1>8. CanLift(w, <<op>> \o o, s, todo)
  BY <1>2, <1>3, <1>7, LiftBack
<1> QED BY <1>8 DEF op

-----------------------------------------------------------------------------
(* The glue can lift a value of a type, if it can go on with any object     *)
(* that holds a value of the type.                                         *)

Continues(w, T, o, s, todo) ==
  /\ IsSeq(o) /\ IsSeq(s) /\ IsSeq(todo)
  /\ \A x, ts : Holds(T, x, ts) => CanLift(w, o, s \o <<x>>, todo \o ts)

Liftable(T) ==
  \A w, o, s, todo : Continues(w, T, o, s, todo) => CanLift(w, << Op("lift", T, 0) >> \o o, s, todo)

LEMMA ValueBack ==
  ASSUME NEW w, NEW T, NEW o, NEW s, NEW todo, IsSeq(o), IsSeq(s), IsSeq(todo),
         \A c \in Readings(Op("lift", T, 0)) :
           \E calls, tokens : /\ LiftsValue(T, s, c) = Adds(calls, s, tokens)
                              /\ CanLift(w, calls \o o, s, todo \o tokens)
  PROVE  CanLift(w, << Op("lift", T, 0) >> \o o, s, todo)
<1> DEFINE op == Op("lift", T, 0)
<1>1. op.op = "lift" /\ op.ty = T
  BY DEF Op
<1>2. \A c \in Readings(op) :
        \E calls, tokens : /\ LiftsValue(T, s, c) = Adds(calls, s, tokens)
                           /\ CanLift(w, calls \o o, s, todo \o tokens)
  OBVIOUS
<1> HIDE DEF op
<1>3. LiftingOp(op)
  BY <1>1 DEF LiftingOp
<1>4. ASSUME NEW c \in Readings(op)
      PROVE  CanLift(w, Lifts(op, s, c).calls \o o, Lifts(op, s, c).stack, todo \o Lifts(op, s, c).tokens)
  <2>1. PICK calls, tokens : /\ LiftsValue(T, s, c) = Adds(calls, s, tokens)
                             /\ CanLift(w, calls \o o, s, todo \o tokens)
    BY <1>2
  <2>2. Lifts(op, s, c) = Adds(calls, s, tokens)
    BY <1>1, <2>1 DEF Lifts
  <2>3. Lifts(op, s, c).calls = calls /\ Lifts(op, s, c).stack = s /\ Lifts(op, s, c).tokens = tokens
    BY <2>2 DEF Adds
  <2> QED BY <2>1, <2>3, Zenon
<1>5. CanLift(w, <<op>> \o o, s, todo)
  BY <1>3, <1>4, LiftBack
<1> QED BY <1>5 DEF op

LEMMA LeafLifts == ASSUME NEW T \in Types, T.k \in Leaves PROVE Liftable(T)
<1> SUFFICES ASSUME NEW w, NEW o, NEW s, NEW todo, Continues(w, T, o, s, todo)
             PROVE  CanLift(w, << Op("lift", T, 0) >> \o o, s, todo)
  BY DEF Liftable
<1>1. IsSeq(o) /\ IsSeq(s) /\ IsSeq(todo)
  BY DEF Continues
<1>2. ASSUME NEW c
      PROVE  /\ LiftsValue(T, s, c) = Adds(<< Op("push", T, c) >>, s, <<c>>)
             /\ CanLift(w, << Op("push", T, c) >> \o o, s, todo \o <<c>>)
  <2>1. LiftsValue(T, s, c) = Adds(<< Op("push", T, c) >>, s, <<c>>)
    BY DEF LiftsValue, Leaves, Cases
  <2>2. Pushed(s, T, c) = s \o << Object("leaf", c) >>
    <3>1. Pushed(s, T, c) = Append(s, Object("leaf", c))
      BY DEF Pushed, Leaves, Cases
    <3> QED BY <1>1, <3>1, TopOf
  <2>3. CanLift(w, o, s \o << Object("leaf", c) >>, todo \o <<c>>)
    BY LeafHolds DEF Continues
  <2>4. CanLift(w, o, Pushed(s, T, c), todo \o <<c>>)
    BY <2>2, <2>3, Zenon
  <2> QED BY <1>1, <2>1, <2>4, PushBack
<1>3. \A c \in Readings(Op("lift", T, 0)) :
        \E calls, tokens : /\ LiftsValue(T, s, c) = Adds(calls, s, tokens)
                           /\ CanLift(w, calls \o o, s, todo \o tokens)
  BY <1>2, Zenon
<1> QED BY <1>1, <1>3, ValueBack

LEMMA AliasLifts ==
  ASSUME NEW T \in Types, T.k = "alias", T.of # NoType, Liftable(T.of)
  PROVE  Liftable(T)
<1> SUFFICES ASSUME NEW w, NEW o, NEW s, NEW todo, Continues(w, T, o, s, todo)
             PROVE  CanLift(w, << Op("lift", T, 0) >> \o o, s, todo)
  BY DEF Liftable
<1>1. IsSeq(o) /\ IsSeq(s) /\ IsSeq(todo) /\ todo \o <<>> = todo
  BY NoneJoined DEF Continues
<1>2. Continues(w, T.of, o, s, todo)
  BY AliasHolds DEF Continues
<1>3. CanLift(w, << Op("lift", T.of, 0) >> \o o, s, todo \o <<>>)
  BY <1>1, <1>2 DEF Liftable
<1>4. \A c : LiftsValue(T, s, c) = Adds(<< Op("lift", T.of, 0) >>, s, <<>>)
  BY DEF LiftsValue, Lift, Leaves, Cases
<1>5. \A c \in Readings(Op("lift", T, 0)) :
        \E calls, tokens : /\ LiftsValue(T, s, c) = Adds(calls, s, tokens)
                           /\ CanLift(w, calls \o o, s, todo \o tokens)
  BY <1>3, <1>4, Zenon
<1> QED BY <1>1, <1>5, ValueBack

LEMMA PushedCase ==
  ASSUME NEW T, NEW d, NEW s,
         T.k \in Cases, IsSeq(s)
  PROVE  /\ Payload(T, d) = NoType => Pushed(s, T, d) = s \o << Wrapped(T, d, None) >>
         /\ Payload(T, d) # NoType => \A v : Pushed(s \o <<v>>, T, d) = s \o << Wrapped(T, d, v) >>
<1>1. ASSUME Payload(T, d) = NoType PROVE Pushed(s, T, d) = s \o << Wrapped(T, d, None) >>
  <2>1. Pushed(s, T, d) = Append(s, Wrapped(T, d, None))
    BY <1>1 DEF Pushed, Leaves, Cases
  <2> QED BY <2>1, TopOf
<1>2. ASSUME Payload(T, d) # NoType, NEW v PROVE Pushed(s \o <<v>>, T, d) = s \o << Wrapped(T, d, v) >>
  <2>1. Last(s \o <<v>>) = v /\ Front(s \o <<v>>) = s
    BY TopOf
  <2>2. Pushed(s \o <<v>>, T, d) = Append(s, Wrapped(T, d, v))
    BY <1>2, <2>1 DEF Pushed, Leaves, Cases
  <2> QED BY <2>2, TopOf
<1> QED BY <1>1, <1>2

LEMMA CaseLifts ==
  ASSUME NEW T \in Types, T.k \in Cases,
         \A d \in Discriminants(T) :
           Payload(T, d) # NoType => Payload(T, d) \in Types /\ Liftable(Payload(T, d))
  PROVE  Liftable(T)
<1> SUFFICES ASSUME NEW w, NEW o, NEW s, NEW todo, Continues(w, T, o, s, todo)
             PROVE  CanLift(w, << Op("lift", T, 0) >> \o o, s, todo)
  BY DEF Liftable
<1>1. IsSeq(o) /\ IsSeq(s) /\ IsSeq(todo)
  BY DEF Continues
<1>2. ASSUME NEW d \in Discriminants(T)
      PROVE  CanLift(w, (Lift(Payload(T, d)) \o << Op("push", T, d) >>) \o o, s, todo \o <<d>>)
  <2> DEFINE U == Payload(T, d)
             push == << Op("push", T, d) >>
             read == todo \o <<d>>
             q == push \o o
  <2>1. IsSeq(push) /\ IsSeq(read) /\ IsSeq(q)
    BY <1>1, Joined, OneIsSeq
  <2>2. CASE U = NoType
    <3>1. Holds(T, Wrapped(T, d, None), <<d>> \o <<>>)
      BY <2>2, CaseHolds DEF MayHold
    <3>2. <<d>> \o <<>> = <<d>>
      BY OneIsSeq, NoneJoined
    <3>3. CanLift(w, o, s \o << Wrapped(T, d, None) >>, read)
      BY <3>1, <3>2 DEF Continues
    <3>4. CanLift(w, o, Pushed(s, T, d), read)
      <4>1. Pushed(s, T, d) = s \o << Wrapped(T, d, None) >>
        BY <1>1, <2>2, PushedCase
      <4> QED BY <3>3, <4>1, Zenon
    <3>5. CanLift(w, q, s, read)
      <4> HIDE DEF read
      <4> QED BY <1>1, <3>4, PushBack
    <3>6. <<>> \o push = push
      BY <2>1, NoneJoined
    <3> HIDE DEF push, read, U
    <3>7. CanLift(w, (Lift(U) \o push) \o o, s, read)
      BY <2>2, <3>5, <3>6 DEF Lift, q
    <3> QED BY <3>7 DEF U, push, read
  <2>3. CASE U # NoType
    <3>1. U \in Types /\ Liftable(U)
      BY <2>3
    <3>2. ASSUME NEW v, NEW ts, Holds(U, v, ts) PROVE CanLift(w, q, s \o <<v>>, read \o ts)
      <4>1. Holds(T, Wrapped(T, d, v), <<d>> \o ts)
        BY <2>3, <3>1, <3>2, CaseHolds DEF MayHold
      <4>2. CanLift(w, o, s \o << Wrapped(T, d, v) >>, todo \o (<<d>> \o ts))
        BY <4>1 DEF Continues
      <4>3. read \o ts = todo \o (<<d>> \o ts)
        <5> DEFINE one == <<d>>
        <5>1. IsSeq(one) /\ IsSeq(ts)
          BY <3>2, OneIsSeq DEF Holds, Lowerable
        <5> HIDE DEF one
        <5>2. (todo \o one) \o ts = todo \o (one \o ts)
          BY ONLY <1>1, <5>1, Assoc, SMTT(60)
        <5> QED BY <5>2 DEF one
      <4>4. CanLift(w, o, Pushed(s \o <<v>>, T, d), read \o ts)
        <5>0. U # NoType => \A y : Pushed(s \o <<y>>, T, d) = s \o << Wrapped(T, d, y) >>
          BY <1>1, PushedCase
        <5>1. Pushed(s \o <<v>>, T, d) = s \o << Wrapped(T, d, v) >>
          BY <2>3, <5>0
        <5> HIDE DEF read
        <5> QED BY <4>2, <4>3, <5>1, Zenon
      <4>5. IsSeq(s \o <<v>>)
        BY <1>1, Joined, OneIsSeq
      <4> DEFINE t == read \o ts
                 c == s \o <<v>>
      <4> HIDE DEF read, t, c
      <4>6. CanLift(w, << Op("push", T, d) >> \o o, c, t)
        BY <4>4, <4>5, PushBack DEF t, c
      <4> QED BY <4>6 DEF t, c
    <3>3. Continues(w, U, q, s, read)
      BY <1>1, <2>1, <3>2 DEF Continues
    <3> HIDE DEF U, q, read
    <3>4. CanLift(w, << Op("lift", U, 0) >> \o q, s, read)
      BY <3>1, <3>3 DEF Liftable
    <3>5. << Op("lift", U, 0) >> \o q = (<< Op("lift", U, 0) >> \o push) \o o
      <4> DEFINE one == << Op("lift", U, 0) >>
      <4>1. IsSeq(one)
        BY OneIsSeq
      <4> HIDE DEF one, push
      <4>2. (one \o push) \o o = one \o (push \o o)
        BY ONLY <1>1, <2>1, <4>1, Assoc, SMTT(60)
      <4> QED BY <4>2 DEF one, q
    <3> HIDE DEF push
    <3>6. Lift(U) = << Op("lift", U, 0) >>
      BY <2>3 DEF Lift
    <3>7. CanLift(w, (Lift(U) \o push) \o o, s, read)
      BY <3>4, <3>5, <3>6, Zenon
    <3> QED BY <3>7 DEF U, push, read
  <2> QED BY <2>2, <2>3
<1>3. \A c : LiftsValue(T, s, c) = Adds(Lift(Payload(T, c)) \o << Op("push", T, c) >>, s, <<c>>)
  BY DEF LiftsValue, Leaves, Cases
<1>4. Readings(Op("lift", T, 0)) = Discriminants(T)
  BY DEF Readings, Op, Leaves, Cases
<1>5. \A c \in Readings(Op("lift", T, 0)) :
        \E calls, tokens : /\ LiftsValue(T, s, c) = Adds(calls, s, tokens)
                           /\ CanLift(w, calls \o o, s, todo \o tokens)
  BY <1>2, <1>3, <1>4, Zenon
<1> QED BY <1>1, <1>5, ValueBack

-----------------------------------------------------------------------------
(* Induction on the natural numbers, over a set.                           *)

LEMMA Least ==
  ASSUME NEW S \in SUBSET Nat, S # {} PROVE \E x \in S : \A y \in S : x <= y
<1>1. PICK x \in S : \A y \in S : ~(<<y, x>> \in OpToRel(<, Nat))
  BY NatLessThanWellFounded, WFMin, Zenon
<1>2. \A y \in S : ~(y < x)
  <2> SUFFICES ASSUME NEW y \in S, y < x PROVE FALSE
    OBVIOUS
  <2>1. <<y, x>> \in {ss \in Nat \X Nat : ss[1] < ss[2]}
    OBVIOUS
  <2> QED BY <1>1, <2>1, Zenon DEF OpToRel
<1> QED BY <1>2

LEMMA AllNumbers ==
  ASSUME NEW S, S \subseteq Nat, 0 \in S, \A n \in S : n + 1 \in S
  PROVE  S = Nat
<1> SUFFICES ASSUME Nat \ S # {} PROVE FALSE
  OBVIOUS
<1>1. PICK x \in Nat \ S : \A y \in Nat \ S : x <= y
  BY Least
<1>2. x - 1 \in Nat /\ x - 1 \notin Nat \ S
  BY <1>1
<1>3. (x - 1) + 1 \in S
  BY <1>2
<1> QED BY <1>1, <1>3

-----------------------------------------------------------------------------
(* Records and parameters, from the last to the first.                     *)

LastLifts(types, j) == [n \in 1..(Len(types) - j) |-> Op("lift", types[j + n], 0)]

LEMMA LastLiftsMore ==
  ASSUME NEW types, NEW j \in Nat, Len(types) \in Nat
  PROVE  /\ j <= Len(types) => IsSeq(LastLifts(types, j)) /\ Len(LastLifts(types, j)) = Len(types) - j
         /\ j < Len(types) => LastLifts(types, j) = << Op("lift", types[j + 1], 0) >> \o LastLifts(types, j + 1)
         /\ LastLifts(types, Len(types)) = <<>> /\ LastLifts(types, 0) = LiftAll(types)
<1> DEFINE f(k) == LastLifts(types, k)
           n == Len(types)
<1>1. ASSUME NEW k \in Nat, k <= n
      PROVE  IsSeq(f(k)) /\ Len(f(k)) = n - k /\ \A i \in 1..(n - k) : f(k)[i] = Op("lift", types[k + i], 0)
  <2>1. f(k) = [i \in 1..(n - k) |-> f(k)[i]] /\ \A i \in 1..(n - k) : f(k)[i] = Op("lift", types[k + i], 0)
    BY DEF LastLifts
  <2>2. n - k \in Nat
    BY <1>1
  <2> HIDE DEF f, n
  <2> QED BY <2>1, <2>2, MadeIsSeq
<1>2. ASSUME j < n PROVE f(j) = << Op("lift", types[j + 1], 0) >> \o f(j + 1)
  <2> DEFINE a == f(j)
             b == f(j + 1)
             one == << Op("lift", types[j + 1], 0) >>
             c == one \o b
  <2>1. IsSeq(a) /\ Len(a) = n - j /\ \A i \in 1..(n - j) : a[i] = Op("lift", types[j + i], 0)
    BY <1>1, <1>2
  <2>2. IsSeq(b) /\ Len(b) = n - (j + 1) /\ \A i \in 1..(n - (j + 1)) : b[i] = Op("lift", types[j + 1 + i], 0)
    <3>1. j + 1 \in Nat /\ j + 1 <= n
      BY <1>2
    <3> HIDE DEF f, n
    <3> QED BY <1>1, <3>1
  <2>3. IsSeq(one) /\ Len(one) = 1 /\ one[1] = Op("lift", types[j + 1], 0)
    BY OneIsSeq
  <2> HIDE DEF a, b, one, n
  <2>4. IsSeq(c) /\ Len(c) = Len(one) + Len(b)
        /\ \A i \in 1..(Len(one) + Len(b)) : c[i] = IF i <= Len(one) THEN one[i] ELSE b[i - Len(one)]
    BY <2>2, <2>3, Joined
  <2> HIDE DEF c
  <2>5. n \in Nat /\ Len(c) = n - j
    BY <1>2, <2>2, <2>3, <2>4 DEF n
  <2>6. ASSUME NEW i \in 1..(n - j) PROVE a[i] = c[i]
    <3>1. CASE i = 1
      BY <2>1, <2>2, <2>3, <2>4, <2>5, <3>1
    <3>2. CASE i # 1
      <4>1. i - 1 \in 1..(n - (j + 1)) /\ c[i] = b[i - 1]
        BY <2>2, <2>3, <2>4, <2>5, <3>2
      <4>2. b[i - 1] = Op("lift", types[j + 1 + (i - 1)], 0)
        BY <2>2, <4>1
      <4>3. j + 1 + (i - 1) = j + i
        BY <2>5
      <4> QED BY <2>1, <4>1, <4>2, <4>3
    <3> QED BY <3>1, <3>2
  <2>7. a = c
    BY <2>1, <2>4, <2>5, <2>6, Same
  <2> QED BY <2>7 DEF a, b, c, one
<1>3. f(n) = <<>>
  <2>1. IsSeq(f(n)) /\ Len(f(n)) = 0
    BY <1>1
  <2> HIDE DEF f, n
  <2> QED BY <2>1, EmptyIsSeq, Same
<1>4. f(0) = LiftAll(types)
  <2>1. \A i \in 1..Len(types) : 0 + i = i
    OBVIOUS
  <2>2. Len(types) - 0 = Len(types)
    OBVIOUS
  <2> QED BY <2>1, <2>2 DEF LastLifts, LiftAll
<1>5. j <= n => IsSeq(f(j)) /\ Len(f(j)) = n - j
  BY <1>1
<1> QED BY <1>2, <1>3, <1>4, <1>5

LEMMA AllLift ==
  ASSUME NEW types, NEW w, NEW o, NEW s, NEW todo, Len(types) \in Nat,
         \A i \in 1..Len(types) : Liftable(types[i]),
         IsSeq(o), IsSeq(s), IsSeq(todo),
         \A xs, ts : HoldAll(types, Len(types), xs, ts) => CanLift(w, o, s \o xs, todo \o ts)
  PROVE  CanLift(w, LiftAll(types) \o o, s, todo)
<1> DEFINE n == Len(types)
           From(j) == \A xs, ts : HoldAll(types, j, xs, ts) =>
                        CanLift(w, LastLifts(types, j) \o o, s \o xs, todo \o ts)
           S == {k \in Nat : k <= n => From(n - k)}
<1>1. From(n)
  <2> SUFFICES ASSUME NEW xs, NEW ts, HoldAll(types, n, xs, ts)
               PROVE  CanLift(w, LastLifts(types, n) \o o, s \o xs, todo \o ts)
    OBVIOUS
  <2>1. LastLifts(types, n) = <<>> /\ <<>> \o o = o
    BY LastLiftsMore, NoneJoined
  <2> QED BY <2>1
<1>2. ASSUME NEW j \in Nat, j < n, From(j + 1) PROVE From(j)
  <2> SUFFICES ASSUME NEW xs, NEW ts, HoldAll(types, j, xs, ts)
               PROVE  CanLift(w, LastLifts(types, j) \o o, s \o xs, todo \o ts)
    OBVIOUS
  <2> DEFINE T == types[j + 1]
             later == LastLifts(types, j + 1)
             q == later \o o
             c == s \o xs
             read == todo \o ts
  <2>1. IsSeq(xs) /\ IsSeq(ts)
    BY DEF HoldAll
  <2>2. IsSeq(later)
    <3>1. j + 1 \in Nat /\ j + 1 <= n
      BY <1>2
    <3> QED BY <3>1, LastLiftsMore
  <2>3. IsSeq(q) /\ IsSeq(c) /\ IsSeq(read)
    <3> HIDE DEF later
    <3> QED BY <2>1, <2>2, Joined
  <2>4. ASSUME NEW x, NEW tx, Holds(T, x, tx) PROVE CanLift(w, q, c \o <<x>>, read \o tx)
    <3>1. HoldAll(types, j + 1, xs \o <<x>>, ts \o tx)
      BY <2>4, HoldMore DEF Holds
    <3>2. CanLift(w, q, s \o (xs \o <<x>>), todo \o (ts \o tx))
      BY <1>2, <3>1
    <3>3. s \o (xs \o <<x>>) = c \o <<x>>
      <4> DEFINE one == <<x>>
      <4>1. IsSeq(one)
        BY OneIsSeq
      <4> HIDE DEF one
      <4>2. (s \o xs) \o one = s \o (xs \o one)
        BY <2>1, <4>1, Assoc, SMTT(60)
      <4> QED BY <4>2 DEF one
    <3>4. todo \o (ts \o tx) = read \o tx
      <4>1. IsSeq(tx)
        BY <2>4 DEF Holds, Lowerable
      <4>2. (todo \o ts) \o tx = todo \o (ts \o tx)
        BY <2>1, <4>1, Assoc, SMTT(60)
      <4> QED BY <4>2
    <3> HIDE DEF q, c, read
    <3> QED BY <3>2, <3>3, <3>4, Zenon
  <2>5. Continues(w, T, q, c, read)
    <3> HIDE DEF q, c, read, T
    <3> QED BY <2>3, <2>4 DEF Continues
  <2>6. Liftable(T)
    <3>1. j + 1 \in 1..Len(types)
      BY <1>2
    <3> QED BY <3>1
  <2>7. CanLift(w, << Op("lift", T, 0) >> \o q, c, read)
    <3> HIDE DEF q, c, read, T
    <3> QED BY <2>5, <2>6 DEF Liftable
  <2>8. LastLifts(types, j) = << Op("lift", T, 0) >> \o later
    BY <1>2, LastLiftsMore
  <2>9. (<< Op("lift", T, 0) >> \o later) \o o = << Op("lift", T, 0) >> \o q
    <3> DEFINE one == << Op("lift", T, 0) >>
    <3>1. IsSeq(one)
      BY OneIsSeq
    <3> HIDE DEF one, later
    <3>2. (one \o later) \o o = one \o (later \o o)
      BY <2>2, <3>1, Assoc, SMTT(60)
    <3> QED BY <3>2 DEF one
  <2> HIDE DEF later, q, T
  <2> QED BY <2>7, <2>8, <2>9
<1> HIDE DEF From
<1>3. 0 \in S
  BY <1>1
<1>4. ASSUME NEW k \in S PROVE k + 1 \in S
  <2>1. CASE k + 1 <= n
    <3>1. n - (k + 1) \in Nat /\ n - (k + 1) < n /\ (n - (k + 1)) + 1 = n - k /\ k <= n
      BY <2>1
    <3>2. From(n - (k + 1))
      BY <1>2, <3>1
    <3> QED BY <3>2
  <2>2. CASE ~(k + 1 <= n)
    BY <2>2
  <2> QED BY <2>1, <2>2
<1>5. S = Nat
  BY <1>3, <1>4, AllNumbers
<1>6. From(0)
  <2>1. n \in S /\ n <= n /\ n - n = 0
    BY <1>5
  <2> QED BY <2>1
<1>7. CanLift(w, LastLifts(types, 0) \o o, s \o <<>>, todo \o <<>>)
  BY <1>6, HoldNone DEF From
<1>8. s \o <<>> = s /\ todo \o <<>> = todo /\ LastLifts(types, 0) = LiftAll(types)
  BY NoneJoined, LastLiftsMore
<1> QED BY <1>7, <1>8

\* What a record is put around: the values on top, in their order.
LEMMA TopsOf ==
  ASSUME NEW s, NEW xs, IsSeq(s), IsSeq(xs)
  PROVE  Rest(s \o xs, Len(xs)) = s /\ Tops(s \o xs, Len(xs)) = xs
<1> DEFINE c == s \o xs
           m == Len(s)
           n == Len(xs)
           a == SubSeq(c, 1, m)
           b == SubSeq(c, m + 1, m + n)
<1>1. m \in Nat /\ n \in Nat
  BY SeqIs
<1>2. IsSeq(c) /\ Len(c) = m + n /\ \A i \in 1..(m + n) : c[i] = IF i <= m THEN s[i] ELSE xs[i - m]
  BY Joined
<1>3. PICK S : c \in Seq(S)
  BY <1>2 DEF IsSeq
<1> HIDE DEF c, m, n
<1>4. \A i \in 1..(m + n) : c[i] \in S
  BY <1>2, <1>3, ElementOfSeq
<1>5. a \in Seq(S) /\ Len(a) = m /\ \A i \in 1..m : a[i] = c[i]
  <2>1. 1 \in Int /\ m \in Int /\ \A i \in 1..m : c[i] \in S
    BY <1>1, <1>4
  <2>2. /\ SubSeq(c, 1, m) \in Seq(S)
        /\ Len(SubSeq(c, 1, m)) = IF 1 <= m THEN m - 1 + 1 ELSE 0
        /\ \A i \in 1..(m - 1 + 1) : SubSeq(c, 1, m)[i] = c[1 + i - 1]
    BY <2>1, SubSeqProperties
  <2>3. (IF 1 <= m THEN m - 1 + 1 ELSE 0) = m /\ m - 1 + 1 = m /\ \A i \in 1..m : 1 + i - 1 = i
    BY <1>1
  <2> HIDE DEF a
  <2>4. /\ a \in Seq(S) /\ Len(a) = IF 1 <= m THEN m - 1 + 1 ELSE 0
        /\ \A i \in 1..(m - 1 + 1) : a[i] = c[1 + i - 1]
    BY <2>2 DEF a
  <2> QED BY <2>3, <2>4
<1>6. b \in Seq(S) /\ Len(b) = n /\ \A i \in 1..n : b[i] = c[m + i]
  <2> DEFINE u == m + 1
             v == m + n
             d == SubSeq(c, u, v)
  <2>1. u \in Int /\ v \in Int /\ \A i \in u..v : c[i] \in S
    BY <1>1, <1>4
  <2> HIDE DEF u, v
  <2>2. /\ d \in Seq(S) /\ Len(d) = IF u <= v THEN v - u + 1 ELSE 0
        /\ \A i \in 1..(v - u + 1) : d[i] = c[u + i - 1]
    BY <2>1, SubSeqProperties
  <2> HIDE DEF d
  <2>3. v - u + 1 = n /\ (IF u <= v THEN v - u + 1 ELSE 0) = n /\ \A i \in 1..n : u + i - 1 = m + i
    BY <1>1 DEF u, v
  <2>4. d \in Seq(S) /\ Len(d) = n /\ \A i \in 1..n : d[i] = c[u + i - 1]
    BY <2>2, <2>3
  <2>5. b = d
    BY DEF b, d, u, v
  <2> HIDE DEF b
  <2> QED BY <2>3, <2>4, <2>5
<1> HIDE DEF a, b
<1>7. a = s
  <2>1. \A i \in 1..m : c[i] = s[i]
    BY <1>1, <1>2
  <2>2. \A i \in 1..Len(a) : a[i] = s[i]
    BY <1>5, <2>1
  <2> QED BY <1>5, <2>2, Same DEF IsSeq, m
<1>8. b = xs
  <2>1. \A i \in 1..n : c[m + i] = xs[i]
    <3> SUFFICES ASSUME NEW i \in 1..n PROVE c[m + i] = xs[i]
      OBVIOUS
    <3> DEFINE j == m + i
    <3>1. j \in 1..(m + n) /\ ~(j <= m) /\ j - m = i
      BY <1>1
    <3> HIDE DEF j
    <3>2. c[j] = xs[i]
      BY <1>2, <3>1
    <3> QED BY <3>2 DEF j
  <2>2. \A i \in 1..Len(b) : b[i] = xs[i]
    BY <1>6, <2>1
  <2> QED BY <1>6, <2>2, Same DEF IsSeq, n
<1>9. Rest(c, n) = a /\ Tops(c, n) = b
  <2>1. Len(c) - n = m /\ Len(c) - n + 1 = m + 1 /\ Len(c) = m + n
    BY <1>1, <1>2
  <2> QED BY <2>1 DEF Rest, Tops, a, b
<1> QED BY <1>7, <1>8, <1>9 DEF c, n

LEMMA RecordLifts ==
  ASSUME NEW T \in Types, T.k = "record", T.fields \in Seq(Types),
         \A i \in 1..Len(T.fields) : Liftable(T.fields[i])
  PROVE  Liftable(T)
<1> SUFFICES ASSUME NEW w, NEW o, NEW s, NEW todo, Continues(w, T, o, s, todo)
             PROVE  CanLift(w, << Op("lift", T, 0) >> \o o, s, todo)
  BY DEF Liftable
<1> DEFINE n == Len(T.fields)
           push == << Op("push", T, n) >>
           q == push \o o
           all == LiftAll(T.fields)
<1>1. IsSeq(o) /\ IsSeq(s) /\ IsSeq(todo) /\ n \in Nat /\ todo \o <<>> = todo
  BY NoneJoined DEF Continues
<1>2. IsSeq(push) /\ IsSeq(q)
  BY <1>1, Joined, OneIsSeq
<1>3. ASSUME NEW xs, NEW ts, HoldAll(T.fields, n, xs, ts) PROVE CanLift(w, q, s \o xs, todo \o ts)
  <2> DEFINE c == s \o xs
             t == todo \o ts
  <2>1. IsSeq(xs) /\ Len(xs) = n
    BY <1>3 DEF HoldAll
  <2>2. Pushed(c, T, n) = s \o << Object("record", xs) >>
    <3>1. Pushed(c, T, n) = Append(Rest(c, n), Object("record", Tops(c, n)))
      BY DEF Pushed, Leaves, Cases
    <3>2. Rest(c, n) = s /\ Tops(c, n) = xs
      BY <1>1, <2>1, TopsOf
    <3> HIDE DEF c, n
    <3>3. Pushed(c, T, n) = Append(s, Object("record", xs))
      BY <3>1, <3>2
    <3> QED BY <1>1, <3>3, TopOf
  <2>3. CanLift(w, o, s \o << Object("record", xs) >>, t)
    BY <1>3, RecordHolds DEF Continues
  <2>4. IsSeq(c)
    BY <1>1, <2>1, Joined
  <2> HIDE DEF c, t, n
  <2>5. CanLift(w, o, Pushed(c, T, n), t)
    BY <2>2, <2>3, Zenon
  <2>6. CanLift(w, << Op("push", T, n) >> \o o, c, t)
    BY <2>4, <2>5, PushBack
  <2> QED BY <2>6 DEF c, t
<1>4. CanLift(w, all \o q, s, todo)
  <2> HIDE DEF q
  <2> QED BY <1>1, <1>2, <1>3, AllLift
<1>5. IsSeq(all)
  <2>1. 0 \in Nat /\ 0 <= Len(T.fields)
    BY <1>1
  <2>2. IsSeq(LastLifts(T.fields, 0)) /\ LastLifts(T.fields, 0) = all
    BY <1>1, <2>1, LastLiftsMore
  <2> QED BY <2>2, Zenon
<1>6. (all \o push) \o o = all \o q
  <2> HIDE DEF all, push
  <2>1. (all \o push) \o o = all \o (push \o o)
    BY ONLY <1>1, <1>2, <1>5, Assoc, SMTT(60)
  <2> QED BY <2>1
<1>7. \A c : LiftsValue(T, s, c) = Adds(all \o push, s, <<>>)
  BY DEF LiftsValue, Leaves, Cases
<1> HIDE DEF all, push, q
<1>8. \A c \in Readings(Op("lift", T, 0)) :
        \E calls, tokens : /\ LiftsValue(T, s, c) = Adds(calls, s, tokens)
                           /\ CanLift(w, calls \o o, s, todo \o tokens)
  <2>1. CanLift(w, (all \o push) \o o, s, todo \o <<>>)
    BY <1>1, <1>4, <1>6, Zenon
  <2> QED BY <1>7, <2>1, Zenon
<1> QED BY <1>1, <1>8, ValueBack

-----------------------------------------------------------------------------
(* A list: list_append after each of its elements.                         *)

LEMMA AppendedIs ==
  ASSUME NEW s, NEW es, NEW e, NEW above, NEW top, IsSeq(s), IsSeq(es),
         above = (s \o << Object("list", es) >>) \o <<e>>, top = s \o << Object("list", es \o <<e>>) >>
  PROVE  Appended(above) = top
<1> DEFINE x == Object("list", es)
           c == s \o <<x>>
           y == Object("list", es \o <<e>>)
<1>1. x.value = es
  BY DEF Object
<1>2. IsSeq(c)
  BY Joined, OneIsSeq
<1>3. Front(c) = s /\ Last(c) = x
  BY TopOf
<1>4. Append(es, e) = es \o <<e>>
  BY TopOf
<1>5. Append(s, y) = s \o <<y>>
  BY TopOf
<1> HIDE DEF x, c
<1>6. Front(c \o <<e>>) = c /\ Last(c \o <<e>>) = e
  BY <1>2, TopOf
<1>7. Appended(c \o <<e>>) = Append(s, Object("list", Append(es, e)))
  BY <1>1, <1>3, <1>6 DEF Appended
<1> QED BY <1>4, <1>5, <1>7 DEF c, x

\* One more element, when k are left after it.
LEMMA ElementLifts ==
  ASSUME NEW T, NEW w, NEW o, NEW s, NEW head, NEW k \in Nat, NEW es, NEW ts,
         Liftable(T.of), IsSeq(o), IsSeq(s), IsSeq(head), HoldEach(T, es, ts),
         \A e, te : HoldEach(T, es \o <<e>>, ts \o te) =>
           CanLift(w, LiftEach(T, k) \o o, s \o << Object("list", es \o <<e>>) >>, head \o (ts \o te))
  PROVE  CanLift(w, LiftEach(T, k + 1) \o o, s \o << Object("list", es) >>, head \o ts)
<1> DEFINE each == LiftEach(T, k)
           app == << Op("list_append", T, 0) >>
           lift == << Op("lift", T.of, 0) >>
           rest == each \o o
           q == app \o rest
           c == s \o << Object("list", es) >>
           t == head \o ts
<1>1. IsSeq(es) /\ IsSeq(ts) /\ IsSeq(o) /\ IsSeq(head)
  BY DEF HoldEach
<1>2. IsSeq(each) /\ LiftEach(T, k + 1) = lift \o (app \o each)
  BY TwiceMore DEF LiftEach
<1>3. IsSeq(app) /\ IsSeq(lift) /\ IsSeq(c) /\ IsSeq(t)
  BY <1>1, Joined, OneIsSeq
<1> HIDE DEF each, lift, app
<1>4. IsSeq(rest) /\ IsSeq(q)
  BY <1>2, <1>3, Joined
<1>5. ASSUME NEW e, NEW te, Holds(T.of, e, te) PROVE CanLift(w, q, c \o <<e>>, t \o te)
  <2> DEFINE top == s \o << Object("list", es \o <<e>>) >>
             read == t \o te
             above == c \o <<e>>
  <2>1. IsSeq(te)
    BY <1>5 DEF Holds, Lowerable
  <2>2. HoldEach(T, es \o <<e>>, ts \o te)
    BY <1>5, HoldElement DEF Holds
  <2>3. CanLift(w, rest, top, head \o (ts \o te))
    BY <2>2 DEF each
  <2>4. read = head \o (ts \o te)
    <3>0. IsSeq(head) /\ IsSeq(ts) /\ IsSeq(te)
      BY <1>1, <2>1
    <3>1. (head \o ts) \o te = head \o (ts \o te)
      BY ONLY <3>0, Assoc, SMTT(60)
    <3> QED BY <3>1
  <2>5. Appended(above) = top
    <3>1. above = (s \o << Object("list", es) >>) \o <<e>> /\ top = s \o << Object("list", es \o <<e>>) >>
      OBVIOUS
    <3> HIDE DEF above, top
    <3> QED BY <1>1, <3>1, AppendedIs
  <2>6. IsSeq(above)
    BY <1>3, Joined, OneIsSeq
  <2> HIDE DEF rest, top, read, above
  <2>7. CanLift(w, rest, Appended(above), read)
    BY <2>3, <2>4, <2>5, Zenon
  <2>8. CanLift(w, app \o rest, above, read)
    BY <2>6, <2>7, AppendBack DEF app
  <2> QED BY <2>8 DEF above, read
<1> HIDE DEF q, c, t
<1>6. Continues(w, T.of, q, c, t)
  BY <1>3, <1>4, <1>5 DEF Continues
<1>7. CanLift(w, lift \o q, c, t)
  BY <1>6 DEF Liftable, lift
<1>8. (lift \o (app \o each)) \o o = lift \o q
  <2>0. IsSeq(app) /\ IsSeq(each) /\ IsSeq(o)
    BY <1>1, <1>2, <1>3
  <2>1. (app \o each) \o o = app \o (each \o o)
    BY ONLY <2>0, Assoc, SMTT(60)
  <2> DEFINE both == app \o each
  <2>2. IsSeq(both)
    BY <1>2, <1>3, Joined
  <2> HIDE DEF both
  <2>3. (lift \o both) \o o = lift \o (both \o o)
    BY ONLY <1>1, <1>3, <2>2, Assoc, SMTT(60)
  <2> QED BY <2>1, <2>3 DEF both, q, rest
<1> QED BY <1>2, <1>7, <1>8, Zenon DEF c, t

LEMMA ListLifts ==
  ASSUME NEW T \in Types, T.k = "list", Liftable(T.of)
  PROVE  Liftable(T)
<1> SUFFICES ASSUME NEW w, NEW o, NEW s, NEW todo, Continues(w, T, o, s, todo)
             PROVE  CanLift(w, << Op("lift", T, 0) >> \o o, s, todo)
  BY DEF Liftable
<1>1. IsSeq(o) /\ IsSeq(s) /\ IsSeq(todo)
  BY DEF Continues
<1>2. ASSUME NEW n \in Nat
      PROVE  CanLift(w, (<< Op("push", T, 0) >> \o LiftEach(T, n)) \o o, s, todo \o <<n>>)
  <2> DEFINE head == todo \o <<n>>
             From(k) == \A es, ts : HoldEach(T, es, ts) /\ Len(es) + k = n =>
                          CanLift(w, LiftEach(T, k) \o o, s \o << Object("list", es) >>, head \o ts)
             S == {k \in Nat : From(k)}
  <2>1. IsSeq(head)
    BY <1>1, Joined, OneIsSeq
  <2>2. From(0)
    <3> SUFFICES ASSUME NEW es, NEW ts, HoldEach(T, es, ts), Len(es) + 0 = n
                 PROVE  CanLift(w, LiftEach(T, 0) \o o, s \o << Object("list", es) >>, head \o ts)
      OBVIOUS
    <3>1. IsSeq(es) /\ IsSeq(ts) /\ Len(es) \in Nat
      BY SeqIs DEF HoldEach
    <3>2. LiftEach(T, 0) \o o = o
      <4>1. LiftEach(T, 0) = <<>>
        BY TwiceMore DEF LiftEach
      <4> QED BY <1>1, <4>1, NoneJoined
    <3>3. Len(es) = n
      BY <3>1
    <3>4. Holds(T, Object("list", es), <<n>> \o ts)
      BY <3>3, ListHolds
    <3>5. CanLift(w, o, s \o << Object("list", es) >>, todo \o (<<n>> \o ts))
      BY <3>4 DEF Continues
    <3>6. head \o ts = todo \o (<<n>> \o ts)
      <4> DEFINE one == <<n>>
      <4>1. IsSeq(one)
        BY OneIsSeq
      <4> HIDE DEF one
      <4>2. (todo \o one) \o ts = todo \o (one \o ts)
        BY ONLY <1>1, <3>1, <4>1, Assoc, SMTT(60)
      <4> QED BY <4>2 DEF one
    <3> QED BY <3>2, <3>5, <3>6, Zenon
  <2>3. ASSUME NEW k \in Nat, From(k) PROVE From(k + 1)
    <3> SUFFICES ASSUME NEW es, NEW ts, HoldEach(T, es, ts), Len(es) + (k + 1) = n
                 PROVE  CanLift(w, LiftEach(T, k + 1) \o o, s \o << Object("list", es) >>, head \o ts)
      OBVIOUS
    <3>1. IsSeq(es) /\ Len(es) \in Nat
      BY SeqIs DEF HoldEach
    <3> HIDE DEF head
    <3>2. ASSUME NEW e, NEW te, HoldEach(T, es \o <<e>>, ts \o te)
          PROVE  CanLift(w, LiftEach(T, k) \o o, s \o << Object("list", es \o <<e>>) >>, head \o (ts \o te))
      <4>1. Len(es \o <<e>>) = Len(es) + 1
        BY <3>1, Joined, OneIsSeq
      <4>2. Len(es \o <<e>>) + k = n
        BY <3>1, <4>1
      <4> QED BY <2>3, <3>2, <4>2
    <3> HIDE DEF From
    <3> QED BY <1>1, <2>1, <3>2, ElementLifts
  <2> HIDE DEF From, head
  <2>4. S = Nat
    <3>1. 0 \in S /\ S \subseteq Nat
      BY <2>2
    <3>2. \A k \in S : k + 1 \in S
      BY <2>3
    <3> HIDE DEF S
    <3> QED BY <3>1, <3>2, AllNumbers
  <2>5. From(n)
    BY <2>4
  <2>6. CanLift(w, LiftEach(T, n) \o o, s \o << Object("list", <<>>) >>, head \o <<>>)
    <3>1. HoldEach(T, <<>>, <<>>) /\ Len(<<>>) + n = n
      BY HoldNoElement, EmptyIsSeq
    <3> HIDE DEF head
    <3> QED BY <2>5, <3>1 DEF From
  <2> DEFINE each == LiftEach(T, n)
             q == each \o o
             push == << Op("push", T, 0) >>
  <2>7. Pushed(s, T, 0) = s \o << Object("list", <<>>) >>
    <3>1. Pushed(s, T, 0) = Append(s, Object("list", <<>>))
      BY DEF Pushed, Leaves, Cases
    <3> QED BY <1>1, <3>1, TopOf
  <2>8. head \o <<>> = head
    BY <2>1, NoneJoined
  <2>9. IsSeq(each) /\ IsSeq(push)
    BY TwiceMore, OneIsSeq DEF LiftEach
  <2>10. CanLift(w, q, Pushed(s, T, 0), head)
    <3> HIDE DEF each
    <3> QED BY <2>6, <2>7, <2>8, Zenon DEF each
  <2> HIDE DEF each, q
  <2>11. CanLift(w, << Op("push", T, 0) >> \o q, s, head)
    BY <1>1, <2>10, PushBack
  <2>12. (push \o each) \o o = push \o q
    <3> HIDE DEF push
    <3>1. (push \o each) \o o = push \o (each \o o)
      BY ONLY <1>1, <2>9, Assoc, SMTT(60)
    <3> QED BY <3>1 DEF q
  <2> QED BY <2>11, <2>12, Zenon DEF each, head
<1>3. \A c : LiftsValue(T, s, c) = Adds(<< Op("push", T, 0) >> \o LiftEach(T, c), s, <<c>>)
  BY DEF LiftsValue, Leaves, Cases
<1>4. Readings(Op("lift", T, 0)) \subseteq Nat
  BY LengthsAssumption DEF Readings, Op, Leaves, Cases
<1>5. \A c \in Readings(Op("lift", T, 0)) :
        \E calls, tokens : /\ LiftsValue(T, s, c) = Adds(calls, s, tokens)
                           /\ CanLift(w, calls \o o, s, todo \o tokens)
  BY <1>2, <1>3, <1>4, Zenon
<1> QED BY <1>1, <1>5, ValueBack

-----------------------------------------------------------------------------
(* Every type, by induction on what it is made of.                         *)

LEMMA PartsAre ==
  ASSUME NEW T \in Types
  PROVE  /\ T.k \in Leaves \/ T.k \in Cases \/ T.k = "alias" \/ T.k = "record" \/ T.k = "list"
         /\ T.k = "alias" \/ T.k = "list" => T.of \in Types /\ T.of # NoType /\ Depth[T.of] < Depth[T]
         /\ T.k = "record" => T.fields \in Seq(Types) /\ \A i \in 1..Len(T.fields) :
                                T.fields[i] \in Types /\ Depth[T.fields[i]] < Depth[T]
         /\ T.k \in Cases => \A d \in Discriminants(T) : Payload(T, d) # NoType =>
                                Payload(T, d) \in Types /\ Depth[Payload(T, d)] < Depth[T]
<1>1. T.k \in Leaves \/ T.k \in Cases \/ T.k = "alias" \/ T.k = "record" \/ T.k = "list"
  BY TypesAssumption DEF Kinds
<1>2. \A U \in Parts(T) : U # NoType => U \in Types /\ Depth[U] < Depth[T]
  BY TypesAssumption
<1>3. T.k \notin {"result", "variant"} => NoType \notin Parts(T)
  BY TypesAssumption
<1>4. T.k = "alias" \/ T.k = "list" => T.of \in Types /\ T.of # NoType /\ Depth[T.of] < Depth[T]
  BY <1>2, <1>3 DEF Parts
<1>5. ASSUME T.k = "record"
      PROVE  T.fields \in Seq(Types) /\ \A i \in 1..Len(T.fields) :
               T.fields[i] \in Types /\ Depth[T.fields[i]] < Depth[T]
  <2>1. T.fields \in Seq(Types)
    BY <1>5, TypesAssumption
  <2>2. DOMAIN T.fields = 1..Len(T.fields)
    BY <2>1, LenProperties
  <2>3. Parts(T) = {T.fields[n] : n \in DOMAIN T.fields}
    BY <1>5 DEF Parts
  <2>4. \A i \in 1..Len(T.fields) : T.fields[i] \in Parts(T)
    BY <2>2, <2>3
  <2>5. NoType \notin Parts(T)
    BY <1>3, <1>5
  <2> QED BY <1>2, <2>1, <2>4, <2>5
<1>6. ASSUME T.k \in Cases, NEW d \in Discriminants(T), Payload(T, d) # NoType PROVE Payload(T, d) \in Parts(T)
  <2>1. CASE T.k = "option"
    BY <1>6, <2>1 DEF Payload, Parts
  <2>2. CASE T.k = "result"
    BY <2>2 DEF Payload, Parts
  <2>3. CASE T.k = "variant"
    <3>1. T.cases \in Seq(Types \cup {NoType})
      BY <2>3, TypesAssumption
    <3>2. DOMAIN T.cases = 1..Len(T.cases) /\ Len(T.cases) \in Nat
      BY <3>1, LenProperties
    <3>3. d + 1 \in DOMAIN T.cases
      BY <2>3, <3>2 DEF Discriminants
    <3>4. Parts(T) = {T.cases[n] : n \in DOMAIN T.cases} /\ Payload(T, d) = T.cases[d + 1]
      BY <2>3 DEF Parts, Payload
    <3> QED BY <3>3, <3>4
  <2> QED BY <1>6, <2>1, <2>2, <2>3 DEF Cases
<1> QED BY <1>1, <1>2, <1>4, <1>5, <1>6, Zenon

LEMMA AllLiftable == \A T \in Types : Liftable(T)
<1> DEFINE S == {d \in Nat : \A T \in Types : Depth[T] < d => Liftable(T)}
<1>1. \A T \in Types : Depth[T] \in Nat
  BY TypesAssumption
<1>2. 0 \in S
  BY <1>1
<1>3. ASSUME NEW d \in S PROVE d + 1 \in S
  <2> SUFFICES ASSUME NEW T \in Types, Depth[T] < d + 1 PROVE Liftable(T)
    OBVIOUS
  <2>0. \A U \in Types : Depth[U] < Depth[T] => Liftable(U)
    <3> SUFFICES ASSUME NEW U \in Types, Depth[U] < Depth[T] PROVE Liftable(U)
      OBVIOUS
    <3>1. Depth[U] < d
      BY <1>1
    <3> QED BY <3>1
  <2> HIDE DEF S
  <2>1. CASE T.k \in Leaves
    BY <2>1, LeafLifts
  <2>2. CASE T.k \in Cases
    BY <2>0, <2>2, PartsAre, CaseLifts, Zenon
  <2>3. CASE T.k = "alias"
    BY <2>0, <2>3, PartsAre, AliasLifts, Zenon
  <2>4. CASE T.k = "record"
    BY <2>0, <2>4, PartsAre, RecordLifts, Zenon
  <2>5. CASE T.k = "list"
    BY <2>0, <2>5, PartsAre, ListLifts, Zenon
  <2> QED BY <2>1, <2>2, <2>3, <2>4, <2>5, PartsAre, Zenon
<1>4. S = Nat
  <2>1. S \subseteq Nat
    OBVIOUS
  <2> HIDE DEF S
  <2> QED BY <1>2, <1>3, <2>1, AllNumbers
<1> SUFFICES ASSUME NEW T \in Types PROVE Liftable(T)
  OBVIOUS
<1>5. Depth[T] + 1 \in S /\ Depth[T] < Depth[T] + 1
  BY <1>1, <1>4
<1> QED BY <1>5

-----------------------------------------------------------------------------
(* The steps of the glue are those of the two functions.                   *)

StepsLifting ==
  /\ ops # <<>> /\ LiftingOp(Head(ops))
  /\ \E c \in Readings(Head(ops)) :
       LET e == Lifts(Head(ops), stack, c)
       IN  /\ ops' = e.calls \o Tail(ops) /\ stack' = e.stack
           /\ IsSeq(e.tokens) /\ given' = given \o e.tokens
  /\ UNCHANGED <<sig, phase, iters, out>>

StepsLowering ==
  /\ ops # <<>> /\ Lowering(Head(ops))
  /\ LET e == Lowers(Head(ops), stack, iters)
     IN  /\ ops' = e.calls \o Tail(ops) /\ stack' = e.stack /\ iters' = e.iters
         /\ IsSeq(e.tokens) /\ out' = out \o e.tokens
  /\ UNCHANGED <<sig, phase, given>>

LEMMA TailIsSeq == ASSUME NEW s, IsSeq(s), s # <<>> PROVE IsSeq(Tail(s))
<1>1. PICK S : s \in Seq(S)
  BY DEF IsSeq
<1> QED BY <1>1, HeadTailProperties DEF IsSeq

LEMMA LiftingSteps ==
  ASSUME LiftAlias \/ LiftLeaf \/ LiftCase \/ LiftRecord \/ LiftList \/ Push \/ ListAppend,
         IsSeq(ops), IsSeq(given)
  PROVE  StepsLifting
<1> DEFINE op == Head(ops)
           T == Head(ops).ty
<1>1. ASSUME NEW calls, NEW tokens, NEW c \in Readings(op), ops # <<>>, op.op = "lift",
             LiftsValue(T, stack, c) = Adds(calls, stack, tokens), IsSeq(tokens), Reads(tokens, calls)
      PROVE  StepsLifting
  <2>1. Lifts(op, stack, c) = Adds(calls, stack, tokens)
    BY <1>1 DEF Lifts
  <2>2. /\ Lifts(op, stack, c).calls = calls /\ Lifts(op, stack, c).stack = stack
        /\ Lifts(op, stack, c).tokens = tokens
    BY <2>1 DEF Adds
  <2>3. LiftingOp(op)
    BY <1>1 DEF LiftingOp
  <2> QED BY <1>1, <2>2, <2>3 DEF Reads, StepsLifting
<1>2. CASE LiftAlias
  <2>1. ops # <<>> /\ op.op = "lift" /\ T.k = "alias" /\ Reads(<<>>, Lift(T.of))
    BY <1>2 DEF LiftAlias, Lifting
  <2>2. LiftsValue(T, stack, 0) = Adds(Lift(T.of), stack, <<>>) /\ 0 \in Readings(op)
    BY <2>1 DEF LiftsValue, Readings, Leaves, Cases
  <2> HIDE DEF op, T
  <2> QED BY <1>1, <2>1, <2>2, EmptyIsSeq
<1>3. CASE LiftLeaf
  <2>1. ops # <<>> /\ op.op = "lift" /\ T.k \in Leaves
    BY <1>3 DEF LiftLeaf, Lifting
  <2>2. PICK c \in Tokens : Reads(<<c>>, << Op("push", T, c) >>)
    BY <1>3 DEF LiftLeaf
  <2>3. LiftsValue(T, stack, c) = Adds(<< Op("push", T, c) >>, stack, <<c>>) /\ c \in Readings(op)
    BY <2>1 DEF LiftsValue, Readings, Leaves, Cases
  <2> HIDE DEF op, T
  <2> QED BY <1>1, <2>1, <2>2, <2>3, OneIsSeq
<1>4. CASE LiftCase
  <2>1. ops # <<>> /\ op.op = "lift" /\ T.k \in Cases
    BY <1>4 DEF LiftCase, Lifting
  <2>2. PICK c \in Discriminants(T) : Reads(<<c>>, Lift(Payload(T, c)) \o << Op("push", T, c) >>)
    BY <1>4 DEF LiftCase
  <2>3. /\ LiftsValue(T, stack, c) = Adds(Lift(Payload(T, c)) \o << Op("push", T, c) >>, stack, <<c>>)
        /\ c \in Readings(op)
    BY <2>1 DEF LiftsValue, Readings, Leaves, Cases
  <2> HIDE DEF op, T
  <2> QED BY <1>1, <2>1, <2>2, <2>3, OneIsSeq
<1>5. CASE LiftRecord
  <2>1. ops # <<>> /\ op.op = "lift" /\ T.k = "record"
        /\ Reads(<<>>, LiftAll(T.fields) \o << Op("push", T, Len(T.fields)) >>)
    BY <1>5 DEF LiftRecord, Lifting
  <2>2. /\ LiftsValue(T, stack, 0) = Adds(LiftAll(T.fields) \o << Op("push", T, Len(T.fields)) >>, stack, <<>>)
        /\ 0 \in Readings(op)
    BY <2>1 DEF LiftsValue, Readings, Leaves, Cases
  <2> HIDE DEF op, T
  <2> QED BY <1>1, <2>1, <2>2, EmptyIsSeq
<1>6. CASE LiftList
  <2>1. ops # <<>> /\ op.op = "lift" /\ T.k = "list"
    BY <1>6 DEF LiftList, Lifting
  <2>2. PICK c \in Lengths : Reads(<<c>>, << Op("push", T, 0) >> \o LiftEach(T, c))
    BY <1>6 DEF LiftList
  <2>3. /\ LiftsValue(T, stack, c) = Adds(<< Op("push", T, 0) >> \o LiftEach(T, c), stack, <<c>>)
        /\ c \in Readings(op)
    BY <2>1 DEF LiftsValue, Readings, Leaves, Cases
  <2> HIDE DEF op, T
  <2> QED BY <1>1, <2>1, <2>2, <2>3, OneIsSeq
<1>7. ASSUME NEW s, ops # <<>>, LiftingOp(op), 0 \in Readings(op), Lifts(op, stack, 0) = Adds(<<>>, s, <<>>),
             stack' = s, ops' = Tail(ops), UNCHANGED <<sig, given, phase, iters, out, raised>>
      PROVE  StepsLifting
  <2>1. Lifts(op, stack, 0).calls = <<>> /\ Lifts(op, stack, 0).stack = s /\ Lifts(op, stack, 0).tokens = <<>>
    BY <1>7 DEF Adds
  <2>2. <<>> \o Tail(ops) = Tail(ops) /\ given \o <<>> = given
    BY <1>7, TailIsSeq, NoneJoined
  <2> QED BY <1>7, <2>1, <2>2, EmptyIsSeq DEF StepsLifting
<1>8. CASE Push
  <2>1. ops # <<>> /\ op.op = "push" /\ stack' = Pushed(stack, T, op.arg) /\ ops' = Tail(ops)
        /\ UNCHANGED <<sig, given, phase, iters, out, raised>>
    BY <1>8 DEF Push
  <2>2. LiftingOp(op) /\ 0 \in Readings(op) /\ Lifts(op, stack, 0) = Adds(<<>>, Pushed(stack, T, op.arg), <<>>)
    BY <2>1 DEF LiftingOp, Readings, Lifts
  <2> HIDE DEF op, T
  <2> QED BY <1>7, <2>1, <2>2
<1>9. CASE ListAppend
  <2>1. ops # <<>> /\ op.op = "list_append" /\ stack' = Appended(stack) /\ ops' = Tail(ops)
        /\ UNCHANGED <<sig, given, phase, iters, out, raised>>
    BY <1>9 DEF ListAppend
  <2>2. LiftingOp(op) /\ 0 \in Readings(op) /\ Lifts(op, stack, 0) = Adds(<<>>, Appended(stack), <<>>)
    BY <2>1 DEF LiftingOp, Readings, Lifts
  <2> HIDE DEF op, T
  <2> QED BY <1>7, <2>1, <2>2
<1> QED BY <1>2, <1>3, <1>4, <1>5, <1>6, <1>8, <1>9

LEMMA LoweringSteps ==
  ASSUME PopAlias \/ PopLeaf \/ PopOption \/ PopResult \/ PopVariant \/ PopRecord \/ PopList \/ PopIterNext \/ PopIter,
         IsSeq(ops), IsSeq(out)
  PROVE  StepsLowering
<1> DEFINE op == Head(ops)
           T == Head(ops).ty
<1>1. ASSUME NEW calls, NEW s, NEW it, NEW tokens, ops # <<>>, Lowering(op),
             Lowers(op, stack, iters) = Effect(calls, s, it, tokens), IsSeq(tokens),
             ops' = calls \o Tail(ops), stack' = s, iters' = it, out' = out \o tokens,
             UNCHANGED <<sig, given, phase, raised>>
      PROVE  StepsLowering
  <2>1. /\ Lowers(op, stack, iters).calls = calls /\ Lowers(op, stack, iters).stack = s
        /\ Lowers(op, stack, iters).iters = it /\ Lowers(op, stack, iters).tokens = tokens
    BY <1>1 DEF Effect
  <2> QED BY <1>1, <2>1 DEF StepsLowering
<1>2. ASSUME NEW kind, Popping(kind)
      PROVE  ops # <<>> /\ Lowering(op) /\ T.k = kind /\ Lowers(op, stack, iters) = LowersValue(T, stack, iters)
  BY <1>2 DEF Popping, Lowering, Lowers
<1>3. out \o <<>> = out /\ \A x : Append(out, x) = out \o <<x>> /\ IsSeq(<<x>>)
  BY NoneJoined, TopOf, OneIsSeq
<1>4. ops # <<>> => <<>> \o Tail(ops) = Tail(ops)
  BY TailIsSeq, NoneJoined
<1>5. ASSUME NEW d, NEW value, ops # <<>>, Lowering(op), Chosen(d, value),
             Lowers(op, stack, iters) = LowersCase(T, d, value, stack, iters)
      PROVE  StepsLowering
  <2> DEFINE s == IF Payload(T, d) = NoType THEN Front(stack) ELSE Append(Front(stack), value)
  <2>1. Lowers(op, stack, iters) = Effect(Lower(Payload(T, d)), s, iters, <<d>>)
    BY <1>5 DEF LowersCase
  <2>2. /\ out' = out \o <<d>> /\ ops' = Lower(Payload(T, d)) \o Tail(ops) /\ stack' = s /\ iters' = iters
        /\ UNCHANGED <<sig, given, phase, raised>>
    BY <1>3, <1>5 DEF Chosen, Below
  <2> HIDE DEF s, op, T
  <2> QED BY <1>1, <1>3, <1>5, <2>1, <2>2
<1>6. CASE PopAlias
  <2>1. Popping("alias") /\ ops' = Lower(T.of) \o Tail(ops) /\ UNCHANGED <<sig, given, phase, stack, iters, out, raised>>
    BY <1>6 DEF PopAlias
  <2>2. LowersValue(T, stack, iters) = Effect(Lower(T.of), stack, iters, <<>>)
    BY <1>2, <2>1 DEF LowersValue, Leaves, Cases
  <2>3. stack' = stack /\ iters' = iters /\ out' = out \o <<>> /\ IsSeq(<<>>) /\ UNCHANGED <<sig, given, phase, raised>>
    BY <1>3, <2>1, EmptyIsSeq
  <2> HIDE DEF op, T
  <2> QED BY <1>1, <1>2, <2>1, <2>2, <2>3
<1>7. CASE PopLeaf
  <2>1. /\ Popping("leaf") \/ Popping("bytes")
        /\ out' = Append(out, Last(stack).value) /\ stack' = Front(stack) /\ ops' = Tail(ops) /\ iters' = iters
        /\ UNCHANGED <<sig, given, phase, raised>>
    BY <1>7 DEF PopLeaf, Top, Below
  <2>2. /\ ops # <<>> /\ Lowering(op) /\ T.k \in Leaves
        /\ Lowers(op, stack, iters) = LowersValue(T, stack, iters)
    BY <1>2, <2>1 DEF Leaves
  <2>3. Lowers(op, stack, iters) = Effect(<<>>, Front(stack), iters, << Last(stack).value >>)
    BY <2>2 DEF LowersValue, Leaves, Cases
  <2>4. out' = out \o << Last(stack).value >> /\ IsSeq(<< Last(stack).value >>) /\ ops' = <<>> \o Tail(ops)
    BY <1>3, <1>4, <2>1, <2>2
  <2> HIDE DEF op, T
  <2> QED BY <1>1, <2>1, <2>2, <2>3, <2>4
<1>8. CASE PopOption
  <2>1. ops # <<>> /\ Lowering(op) /\ T.k = "option" /\ Lowers(op, stack, iters) = LowersValue(T, stack, iters)
    BY <1>2, <1>8 DEF PopOption
  <2>2. CASE Last(stack).cls = "None"
    <3>1. Chosen(0, None)
      BY <1>8, <2>2 DEF PopOption, Top
    <3>2. Lowers(op, stack, iters) = LowersCase(T, 0, None, stack, iters)
      BY <2>1, <2>2 DEF LowersValue, Leaves, Cases
    <3> HIDE DEF op, T
    <3> QED BY <1>5, <2>1, <3>1, <3>2
  <2>3. CASE Last(stack).cls # "None"
    <3> DEFINE x == IF Nesting(T) THEN Last(stack).value ELSE Last(stack)
    <3>1. Chosen(1, x)
      BY <1>8, <2>3 DEF PopOption, Top
    <3>2. Lowers(op, stack, iters) = LowersCase(T, 1, x, stack, iters)
      BY <2>1, <2>3 DEF LowersValue, Leaves, Cases
    <3> HIDE DEF op, T, x
    <3> QED BY <1>5, <2>1, <3>1, <3>2
  <2> QED BY <2>2, <2>3
<1>9. CASE PopResult
  <2> DEFINE d == IF Last(stack).cls = "Ok" THEN 0 ELSE 1
  <2>1. ops # <<>> /\ Lowering(op) /\ T.k = "result" /\ Lowers(op, stack, iters) = LowersValue(T, stack, iters)
    BY <1>2, <1>9 DEF PopResult
  <2>2. Chosen(d, Last(stack).value)
    BY <1>9 DEF PopResult, Top
  <2>3. Lowers(op, stack, iters) = LowersCase(T, d, Last(stack).value, stack, iters)
    BY <2>1 DEF LowersValue, Leaves, Cases
  <2> HIDE DEF op, T, d
  <2> QED BY <1>5, <2>1, <2>2, <2>3
<1>10. CASE PopVariant
  <2>1. ops # <<>> /\ Lowering(op) /\ T.k = "variant" /\ Lowers(op, stack, iters) = LowersValue(T, stack, iters)
    BY <1>2, <1>10 DEF PopVariant
  <2>2. Chosen(Last(stack).n, Last(stack).value)
    BY <1>10 DEF PopVariant, Top
  <2>3. Lowers(op, stack, iters) = LowersCase(T, Last(stack).n, Last(stack).value, stack, iters)
    BY <2>1 DEF LowersValue, Leaves, Cases
  <2> HIDE DEF op, T
  <2> QED BY <1>5, <2>1, <2>2, <2>3
<1>11. CASE PopRecord
  <2> DEFINE s == Front(stack) \o Reverse(Last(stack).value)
  <2>1. ops # <<>> /\ Lowering(op) /\ T.k = "record" /\ Lowers(op, stack, iters) = LowersValue(T, stack, iters)
    BY <1>2, <1>11 DEF PopRecord
  <2>2. stack' = s /\ ops' = LowerAll(T.fields) \o Tail(ops) /\ UNCHANGED <<sig, given, phase, iters, out, raised>>
    BY <1>11 DEF PopRecord, Top, Below
  <2>3. Lowers(op, stack, iters) = Effect(LowerAll(T.fields), s, iters, <<>>)
    BY <2>1 DEF LowersValue, Leaves, Cases
  <2> HIDE DEF s, op, T
  <2>4. iters' = iters /\ out' = out \o <<>> /\ IsSeq(<<>>) /\ UNCHANGED <<sig, given, phase, raised>>
    BY <1>3, <2>2, EmptyIsSeq
  <2> QED BY <1>1, <2>1, <2>2, <2>3, <2>4
<1>12. CASE PopList
  <2> DEFINE n == Len(Last(stack).value)
             calls == LowerEach(T, n) \o << Op("pop_iter", T, 0) >>
  <2>1. ops # <<>> /\ Lowering(op) /\ T.k = "list" /\ Lowers(op, stack, iters) = LowersValue(T, stack, iters)
    BY <1>2, <1>12 DEF PopList
  <2>2. /\ ops' = LowerEach(T, n) \o << Op("pop_iter", T, 0) >> \o Tail(ops) /\ out' = Append(out, n)
        /\ iters' = Append(iters, 0) /\ UNCHANGED <<sig, given, phase, stack, raised>>
    BY <1>12 DEF PopList, Top
  <2>3. Lowers(op, stack, iters) = Effect(calls, stack, Append(iters, 0), <<n>>)
    BY <2>1 DEF LowersValue, Leaves, Cases
  <2>4. ops' = calls \o Tail(ops)
    BY <2>2
  <2> HIDE DEF n, calls, op, T
  <2>5. stack' = stack /\ out' = out \o <<n>> /\ IsSeq(<<n>>) /\ UNCHANGED <<sig, given, phase, raised>>
    BY <1>3, <2>2
  <2> QED BY <1>1, <2>1, <2>2, <2>3, <2>4, <2>5
<1>13. CASE PopIterNext
  <2> DEFINE s == Append(stack, Last(stack).value[Last(iters) + 1])
             it == Append(Front(iters), Last(iters) + 1)
  <2>1. ops # <<>> /\ op.op = "pop_iter_next" /\ stack' = s /\ iters' = it /\ ops' = Tail(ops)
        /\ UNCHANGED <<sig, given, phase, out, raised>>
    BY <1>13 DEF PopIterNext, Top
  <2>2. Lowering(op) /\ Lowers(op, stack, iters) = Effect(<<>>, s, it, <<>>)
    BY <2>1 DEF Lowering, Lowers
  <2> HIDE DEF s, it, op, T
  <2>3. ops' = <<>> \o Tail(ops) /\ out' = out \o <<>> /\ IsSeq(<<>>) /\ UNCHANGED <<sig, given, phase, raised>>
    BY <1>3, <1>4, <2>1, EmptyIsSeq
  <2> QED BY <1>1, <2>1, <2>2, <2>3
<1>14. CASE PopIter
  <2>1. ops # <<>> /\ op.op = "pop_iter" /\ stack' = Front(stack) /\ iters' = EndIter(iters) /\ ops' = Tail(ops)
        /\ UNCHANGED <<sig, given, phase, out, raised>>
    BY <1>14 DEF PopIter, Below
  <2>2. Lowering(op) /\ Lowers(op, stack, iters) = Effect(<<>>, Front(stack), EndIter(iters), <<>>)
    BY <2>1 DEF Lowering, Lowers
  <2> HIDE DEF op, T
  <2>3. ops' = <<>> \o Tail(ops) /\ out' = out \o <<>> /\ IsSeq(<<>>) /\ UNCHANGED <<sig, given, phase, raised>>
    BY <1>3, <1>4, <2>1, EmptyIsSeq
  <2> QED BY <1>1, <2>1, <2>2, <2>3
<1> QED BY <1>6, <1>7, <1>8, <1>9, <1>10, <1>11, <1>12, <1>13, <1>14

-----------------------------------------------------------------------------
(* The call.                                                               *)

Walk(p) == [phase |-> p, sig |-> sig]

Sent == \E td : given = out \o td /\ CanLower(ops, stack, iters, td)

InCall == phase = "call" => CanLift(Walk("call"), ops, stack, given) /\ out = <<>> /\ iters = <<>>
InForward == phase = "forward" => Sent
InAnswer ==
  phase = "answer" => iters = <<>> /\ \E td : given = out \o td /\ CanLift(Walk("answer"), ops, stack, td)
InReturn ==
  phase = "return" => \E td : CanLower(ops, stack, iters, td) /\ (sig.import = sig.export => given = out \o td)
AtEnd ==
  /\ phase = "panic" => ops = <<>>
  /\ phase = "done" => ops = <<>> /\ stack = <<>> /\ iters = <<>> /\ (sig.import = sig.export => out = given)

\* Whatever the phase, the glue can go on to the end of it, and the tokens written
\* with those that it will write are the tokens read.
Crossing ==
  /\ sig \in Signatures /\ IsSeq(ops) /\ IsSeq(out) /\ IsSeq(given)
  /\ phase = "call" \/ phase = "forward" \/ phase = "answer" \/ phase = "return" \/ phase = "done" \/ phase = "panic"
  /\ InCall /\ InForward /\ InAnswer /\ InReturn /\ AtEnd

LEMMA CrossingGives == Crossing => RoundTrip
<1> SUFFICES ASSUME Crossing PROVE RoundTrip
  OBVIOUS
<1>1. ASSUME phase = "forward", ops = <<>> PROVE stack = <<>> /\ iters = <<>> /\ out = given
  <2>1. PICK td : given = out \o td /\ CanLower(<<>>, stack, iters, td)
    BY <1>1 DEF Crossing, InForward, Sent
  <2>2. stack = <<>> /\ iters = <<>> /\ td = <<>>
    BY <2>1, NothingToLower
  <2>3. out \o <<>> = out
    BY NoneJoined DEF Crossing
  <2> QED BY <2>1, <2>2, <2>3
<1>2. phase = "done" => ops = <<>> /\ stack = <<>> /\ iters = <<>> /\ (sig.import = sig.export => out = given)
  BY DEF Crossing, AtEnd
<1> QED BY <1>1, <1>2 DEF RoundTrip

LEMMA CrossingInit == Init => Crossing
<1> SUFFICES ASSUME Init PROVE Crossing
  OBVIOUS
<1> DEFINE w == Walk("call")
           types == sig.params
<1>1. sig \in Signatures /\ phase = "call" /\ ops = LiftAll(types) /\ given = <<>> /\ stack = <<>> /\ iters = <<>> /\ out = <<>>
  BY DEF Init
<1>2. types \in Seq(Types)
  BY <1>1, SignaturesAssumption
<1>3. Len(types) \in Nat /\ \A i \in 1..Len(types) : types[i] \in Types
  BY <1>2, ElementOfSeq, LenProperties
<1>4. IsSeq(LiftAll(types)) /\ LiftAll(types) \o <<>> = LiftAll(types)
  <2>1. 0 \in Nat /\ 0 <= Len(types)
    BY <1>3
  <2>2. IsSeq(LastLifts(types, 0)) /\ LastLifts(types, 0) = LiftAll(types)
    BY <1>3, <2>1, LastLiftsMore
  <2> QED BY <2>2, NoneJoined
<1>5. w.phase = "call" /\ w.sig = sig
  BY DEF Walk
<1>6. ASSUME NEW xs, NEW ts, HoldAll(types, Len(types), xs, ts) PROVE CanLift(w, <<>>, <<>> \o xs, <<>> \o ts)
  <2>1. IsSeq(xs) /\ IsSeq(ts) /\ <<>> \o xs = xs /\ <<>> \o ts = ts
    BY <1>6, NoneJoined DEF HoldAll
  <2>2. Lifted(w, xs, ts)
    BY <1>5, <1>6 DEF Lifted
  <2> QED BY <2>1, <2>2, NothingToLift
<1> HIDE DEF w, types
<1>7. CanLift(w, LiftAll(types) \o <<>>, <<>>, <<>>)
  BY <1>3, <1>6, AllLiftable, EmptyIsSeq, AllLift
<1>8. CanLift(w, ops, stack, given)
  BY <1>1, <1>4, <1>7
<1> QED BY <1>1, <1>4, <1>8, EmptyIsSeq DEF Crossing, InCall, InForward, InAnswer, InReturn, AtEnd, w, types

\* While the glue works, it lifts in two of the phases and lowers in two.
LEMMA LiftsIn ==
  ASSUME Crossing, ops # <<>>
  PROVE  /\ LiftingOp(Head(ops)) => phase = "call" \/ phase = "answer"
         /\ Lowering(Head(ops)) => phase = "forward" \/ phase = "return"
<1>1. ~(LiftingOp(Head(ops)) /\ Lowering(Head(ops)))
  BY DEF LiftingOp, Lowering
<1>2. phase = "call" \/ phase = "answer" => LiftingOp(Head(ops))
  BY LiftStep DEF Crossing, InCall, InAnswer
<1>3. phase = "forward" \/ phase = "return" => Lowering(Head(ops))
  BY LowerStep DEF Crossing, InForward, Sent, InReturn
<1> QED BY <1>1, <1>2, <1>3 DEF Crossing, AtEnd

LEMMA CrossingLifts ==
  ASSUME Crossing, StepsLifting
  PROVE  Crossing'
<1>1. ops # <<>> /\ LiftingOp(Head(ops)) /\ (phase = "call" \/ phase = "answer")
  BY LiftsIn DEF StepsLifting
<1>2. PICK c \in Readings(Head(ops)) :
        /\ ops' = Lifts(Head(ops), stack, c).calls \o Tail(ops) /\ stack' = Lifts(Head(ops), stack, c).stack
        /\ IsSeq(Lifts(Head(ops), stack, c).tokens) /\ given' = given \o Lifts(Head(ops), stack, c).tokens
  BY DEF StepsLifting
<1>3. sig' = sig /\ phase' = phase /\ iters' = iters /\ out' = out
  BY DEF StepsLifting
<1> DEFINE tokens == Lifts(Head(ops), stack, c).tokens
<1>4. Walk("call")' = Walk("call") /\ Walk("answer")' = Walk("answer")
  BY <1>3 DEF Walk
<1>5. ASSUME phase = "call" PROVE Crossing'
  <2>1. CanLift(Walk("call"), ops, stack, given)
    BY <1>5 DEF Crossing, InCall
  <2>2. CanLift(Walk("call"), ops', stack', given')
    BY <1>1, <1>2, <2>1, LiftStep
  <2>3. IsSeq(ops') /\ IsSeq(given')
    BY <2>2, CanLiftSeqs
  <2> QED BY <1>3, <1>4, <1>5, <2>2, <2>3 DEF Crossing, InCall, InForward, InAnswer, InReturn, AtEnd
<1>6. ASSUME phase = "answer" PROVE Crossing'
  <2>1. PICK td : given = out \o td /\ CanLift(Walk("answer"), ops, stack, td)
    BY <1>6 DEF Crossing, InAnswer
  <2>2. CanLift(Walk("answer"), ops', stack', td \o tokens)
    BY <1>1, <1>2, <2>1, LiftStep
  <2>3. IsSeq(ops') /\ IsSeq(td \o tokens)
    BY <2>2, CanLiftSeqs
  <2>4. IsSeq(tokens)
    BY <1>2
  <2>5. given' = out \o (td \o tokens)
    <3>1. IsSeq(out) /\ IsSeq(td)
      BY <2>1, CanLiftSeqs DEF Crossing
    <3>2. given' = (out \o td) \o tokens
      BY <1>2, <2>1
    <3> HIDE DEF tokens
    <3>3. (out \o td) \o tokens = out \o (td \o tokens)
      BY <2>4, <3>1, Assoc, SMTT(60)
    <3> QED BY <3>2, <3>3
  <2>6. IsSeq(given')
    <3>1. IsSeq(out)
      BY DEF Crossing
    <3> HIDE DEF tokens
    <3> QED BY <2>3, <2>5, <3>1, Joined
  <2> HIDE DEF tokens
  <2>7. InAnswer'
    BY <1>3, <1>4, <2>2, <2>5, <1>6 DEF Crossing, InAnswer
  <2> QED BY <1>3, <1>6, <2>3, <2>6, <2>7 DEF Crossing, InCall, InForward, InReturn, AtEnd
<1> QED BY <1>1, <1>5, <1>6

LEMMA CrossingLowers ==
  ASSUME Crossing, StepsLowering
  PROVE  Crossing'
<1> DEFINE e == Lowers(Head(ops), stack, iters)
<1>1. ops # <<>> /\ Lowering(Head(ops)) /\ (phase = "forward" \/ phase = "return")
  BY LiftsIn DEF StepsLowering
<1>2. /\ ops' = e.calls \o Tail(ops) /\ stack' = e.stack /\ iters' = e.iters
      /\ IsSeq(e.tokens) /\ out' = out \o e.tokens
  BY DEF StepsLowering
<1>3. sig' = sig /\ phase' = phase /\ given' = given
  BY DEF StepsLowering
<1>4. ASSUME NEW td, CanLower(ops, stack, iters, td)
      PROVE  \E then : /\ CanLower(ops', stack', iters', then)
                       /\ given = out \o td => given = out' \o then
  <2>1. PICK then : td = e.tokens \o then /\ CanLower(e.calls \o Tail(ops), e.stack, e.iters, then)
    BY <1>1, <1>4, LowerStep
  <2> DEFINE tokens == e.tokens
  <2>2. IsSeq(out) /\ IsSeq(tokens) /\ IsSeq(then)
    BY <1>2, <2>1, CanLowerSeqs DEF Crossing
  <2>3. CanLower(ops', stack', iters', then) /\ out' = out \o tokens /\ td = tokens \o then
    BY <1>2, <2>1
  <2> HIDE DEF e, tokens
  <2>4. (out \o tokens) \o then = out \o (tokens \o then)
    BY ONLY <2>2, Assoc, SMTT(60)
  <2> QED BY <2>3, <2>4, Zenon
<1>5. \E then : CanLower(ops', stack', iters', then)
  <2>1. \E td : CanLower(ops, stack, iters, td)
    BY <1>1 DEF Crossing, InForward, Sent, InReturn
  <2> QED BY <1>4, <2>1
<1>6. IsSeq(ops') /\ IsSeq(out')
  <2>1. IsSeq(out)
    BY DEF Crossing
  <2>2. IsSeq(out')
    <3> HIDE DEF e
    <3> QED BY <1>2, <2>1, Joined
  <2> QED BY <1>5, <2>2, CanLowerSeqs
<1> HIDE DEF e
<1>7. ASSUME phase = "forward" PROVE Crossing'
  <2>1. PICK td : given = out \o td /\ CanLower(ops, stack, iters, td)
    BY <1>7 DEF Crossing, InForward, Sent
  <2>2. Sent'
    BY <1>3, <1>4, <2>1 DEF Sent
  <2> QED BY <1>3, <1>6, <1>7, <2>2 DEF Crossing, InCall, InForward, InAnswer, InReturn, AtEnd
<1>8. ASSUME phase = "return" PROVE Crossing'
  <2>1. PICK td : CanLower(ops, stack, iters, td) /\ (sig.import = sig.export => given = out \o td)
    BY <1>8 DEF Crossing, InReturn
  <2>2. PICK then : CanLower(ops', stack', iters', then) /\ (given = out \o td => given = out' \o then)
    BY <1>4, <2>1
  <2>3. InReturn'
    BY <1>3, <2>1, <2>2 DEF InReturn
  <2> QED BY <1>3, <1>6, <1>8, <2>3 DEF Crossing, InCall, InForward, InAnswer, AtEnd
<1> QED BY <1>1, <1>7, <1>8

LEMMA CrossingForward ==
  ASSUME Crossing, Forward
  PROVE  Crossing'
<1> DEFINE types == sig.params
           n == Len(types)
<1>1. phase = "call" /\ ops = <<>> /\ phase' = "forward" /\ stack' = Reverse(stack) /\ ops' = LowerAll(types)
      /\ sig' = sig /\ given' = given /\ iters' = iters /\ out' = out
  BY DEF Forward
<1>2. CanLift(Walk("call"), <<>>, stack, given) /\ out = <<>> /\ iters = <<>>
  BY <1>1 DEF Crossing, InCall
<1>3. HoldAll(types, n, stack, given)
  <2>1. Lifted(Walk("call"), stack, given)
    BY <1>2, NothingToLift
  <2>2. Walk("call").phase = "call" /\ Walk("call").sig = sig
    BY DEF Walk
  <2> QED BY <2>1, <2>2 DEF Lifted
<1>4. n \in Nat
  <2>1. types \in Seq(Types)
    BY SignaturesAssumption DEF Crossing
  <2> QED BY <2>1, LenProperties
<1>5. FirstPops(types, n) = LowerAll(types)
  BY DEF FirstPops, LowerAll
<1>6. IsSeq(FirstPops(types, n)) /\ IsSeq(stack) /\ IsSeq(given) /\ IsSeq(Reverse(stack))
  BY <1>3, <1>4, FirstPopsMore, ReverseMore DEF HoldAll
<1> HIDE DEF types, n
<1>7. CanLower(FirstPops(types, n) \o <<>>, <<>> \o Reverse(stack), <<>>, given \o <<>>)
  BY <1>3, NothingToLower DEF HoldAll
<1>8. /\ FirstPops(types, n) \o <<>> = FirstPops(types, n) /\ <<>> \o Reverse(stack) = Reverse(stack)
      /\ given \o <<>> = given /\ <<>> \o given = given
  BY <1>6, NoneJoined
<1>9. CanLower(ops', stack', iters', given)
  BY <1>1, <1>2, <1>5, <1>7, <1>8
<1>10. Sent'
  BY <1>1, <1>2, <1>8, <1>9 DEF Sent
<1>11. IsSeq(ops')
  BY <1>1, <1>5, <1>6
<1> QED BY <1>1, <1>10, <1>11 DEF Crossing, InCall, InForward, InAnswer, InReturn, AtEnd

LEMMA CrossingAnswer ==
  ASSUME Crossing, Answer
  PROVE  Crossing'
<1> DEFINE w == Walk("answer")
           T == sig.import
<1>1. phase = "forward" /\ ops = <<>> /\ phase' = "answer" /\ ops' = Lift(T)
      /\ sig' = sig /\ given' = given /\ stack' = stack /\ iters' = iters /\ out' = out
  BY DEF Answer
<1>2. PICK td : given = out \o td /\ CanLower(<<>>, stack, iters, td)
  BY <1>1 DEF Crossing, InForward, Sent
<1>3. stack = <<>> /\ iters = <<>> /\ td = <<>>
  BY <1>2, NothingToLower
<1>4. w.phase = "answer" /\ w.sig = sig
  BY DEF Walk
<1>5. T = NoType \/ T \in Types
  BY SignaturesAssumption DEF Crossing
<1>6. CanLift(w, ops', <<>>, <<>>)
  <2>1. CASE T = NoType
    <3>1. Lifted(w, <<>>, <<>>)
      BY <1>4, <2>1 DEF Lifted
    <3>2. ops' = <<>>
      BY <1>1, <2>1 DEF Lift
    <3> HIDE DEF w
    <3> QED BY <3>1, <3>2, EmptyIsSeq, NothingToLift
  <2>2. CASE T # NoType
    <3>1. ASSUME NEW x, NEW ts, Holds(T, x, ts) PROVE CanLift(w, <<>>, <<>> \o <<x>>, <<>> \o ts)
      <4> DEFINE one == <<x>>
      <4>1. IsSeq(ts) /\ IsSeq(one) /\ <<>> \o one = one /\ <<>> \o ts = ts
        BY <3>1, OneIsSeq, NoneJoined DEF Holds, Lowerable
      <4>2. Lifted(w, one, ts)
        BY <1>4, <2>2, <3>1 DEF Lifted
      <4> HIDE DEF one, w
      <4>3. CanLift(w, <<>>, <<>> \o one, <<>> \o ts)
        BY <4>1, <4>2, NothingToLift
      <4> QED BY <4>3 DEF one
    <3> HIDE DEF w, T
    <3>2. Continues(w, T, <<>>, <<>>, <<>>)
      BY <3>1, EmptyIsSeq DEF Continues
    <3>3. CanLift(w, << Op("lift", T, 0) >> \o <<>>, <<>>, <<>>)
      BY <1>5, <2>2, <3>2, AllLiftable DEF Liftable
    <3> DEFINE one == << Op("lift", T, 0) >>
    <3>4. IsSeq(one)
      BY OneIsSeq
    <3>5. one \o <<>> = one /\ ops' = one
      <4>1. ops' = one
        BY <1>1, <2>2 DEF Lift
      <4> HIDE DEF one
      <4> QED BY <3>4, <4>1, NoneJoined
    <3> QED BY <3>3, <3>5, Zenon
  <2> QED BY <2>1, <2>2
<1>7. w' = w
  BY <1>1 DEF Walk
<1> HIDE DEF w
<1>8. InAnswer'
  BY <1>1, <1>2, <1>3, <1>6, <1>7 DEF InAnswer, w
<1>9. IsSeq(ops')
  BY <1>6, CanLiftSeqs
<1> QED BY <1>1, <1>8, <1>9 DEF Crossing, InCall, InForward, InReturn, AtEnd

\* One object that holds a value, to be lowered and no more.
LEMMA OneLowers ==
  ASSUME NEW T, NEW x, NEW ts, NEW s, T # NoType, Lowerable(T, x, ts), s = <<x>>
  PROVE  CanLower(Lower(T), s, <<>>, ts)
<1> DEFINE one == << Op("pop", T, 0) >>
<1>1. CanLower(one \o <<>>, <<>> \o <<x>>, <<>>, ts \o <<>>)
  BY NothingToLower DEF Lowerable
<1>2. IsSeq(one) /\ IsSeq(s) /\ IsSeq(ts)
  BY OneIsSeq DEF Lowerable
<1>3. Lower(T) = one
  BY DEF Lower
<1>4. CanLower(one \o <<>>, <<>> \o s, <<>>, ts \o <<>>)
  BY <1>1
<1> HIDE DEF one
<1>5. one \o <<>> = one /\ <<>> \o s = s /\ ts \o <<>> = ts
  BY <1>2, NoneJoined
<1> QED BY <1>3, <1>4, <1>5

\* What Return leaves to be lowered.
Back == \E td : CanLower(ops', stack', iters', td) /\ (sig.import = sig.export => given = out \o td)

LEMMA NothingBack ==
  ASSUME phase' = "return", ops' = <<>>, stack' = <<>>, iters' = <<>>,
         sig.import = sig.export => given = out \o <<>>
  PROVE  Back
BY NothingToLower DEF Back

LEMMA ReturnGivesBack ==
  ASSUME Crossing, Return, phase' = "return"
  PROVE  Back
<1> DEFINE T == sig.import
           R == sig.export
<1>1. phase = "answer" /\ ops = <<>> /\ ops' = Lower(R) /\ iters' = iters /\ sig' = sig
  BY DEF Return
<1>2. iters = <<>>
  BY <1>1 DEF Crossing, InAnswer
<1>3. PICK td : given = out \o td /\ CanLift(Walk("answer"), <<>>, stack, td)
  BY <1>1 DEF Crossing, InAnswer
<1>4. Lifted(Walk("answer"), stack, td)
  BY <1>3, NothingToLift
<1>5. Walk("answer").phase = "answer" /\ Walk("answer").sig = sig
  BY DEF Walk
<1>6. R = T \/ (T.k = "result" /\ T.ok = T.err /\ (R = NoType \/ R = T.ok) /\ R.k # "result")
  BY SignaturesAssumption DEF Crossing
<1>7. (raised' <=> T # NoType /\ Style(T) = "result" /\ Last(stack).cls = "Err")
  BY DEF Return, Raises, Top
<1>8. NoType.k = "none"
  BY DEF NoType
<1>9. CASE T = NoType
  <2>1. R = NoType
    BY <1>6, <1>8, <1>9
  <2>2. stack = <<>> /\ td = <<>>
    BY <1>4, <1>5, <1>9 DEF Lifted
  <2>3. Style(R) = "none"
    BY <1>8, <2>1 DEF Style
  <2>4. ops' = <<>>
    BY <1>1, <2>1 DEF Lower
  <2>5. stack' = <<>>
    <3>1. ~raised'
      BY <1>7, <1>9
    <3>2. stack' = Returned(None)
      BY <1>9, <3>1 DEF Return
    <3> QED BY <2>3, <3>2 DEF Returned
  <2> QED BY <1>1, <1>2, <1>3, <2>2, <2>4, <2>5, NothingBack
<1>10. CASE T # NoType
  <2>1. PICK x : stack = <<x>> /\ Holds(T, x, td)
    BY <1>4, <1>5, <1>10 DEF Lifted
  <2>2. Last(stack) = x
    BY <2>1, OneIsSeq DEF Last
  <2>3. ~raised' => stack' = Returned(Unwrapped)
    BY <1>10 DEF Return
  <2>4. raised' => \/ Style(R) = "none" /\ stack' = <<>>
                   \/ Style(R) = "normal" /\ sig.async /\ stack' = << Last(stack).value >>
                   \/ Style(R) = "result" /\ stack' = << Last(stack) >>
    <3>1. Style(R) = "none" \/ Style(R) = "normal" \/ Style(R) = "result"
      BY DEF Style
    <3> QED BY <3>1 DEF Return, Top
  <2>5. CASE R = T
    <3>1. stack' = <<x>>
      <4>1. CASE T.k # "result"
        <5>1. Style(T) = "normal"
          BY <1>10, <4>1 DEF Style
        <5>2. ~raised'
          BY <1>7, <5>1
        <5>3. Unwrapped = x
          BY <2>2, <5>1 DEF Unwrapped, Top
        <5> QED BY <2>3, <2>5, <5>1, <5>2, <5>3 DEF Returned
      <4>2. CASE T.k = "result"
        <5>1. Style(T) = "result"
          BY <1>10, <4>2 DEF Style
        <5>2. PICK d \in {0, 1} : \E v, ts : x = Object(IF d = 0 THEN "Ok" ELSE "Err", v)
          BY <2>1, <4>2 DEF Holds, IsCaseOf
        <5>3. PICK v : x = Object(IF d = 0 THEN "Ok" ELSE "Err", v)
          BY <5>2
        <5>4. x.value = v /\ x.cls = IF d = 0 THEN "Ok" ELSE "Err"
          BY <5>3 DEF Object
        <5>5. CASE d = 0
          <6>1. ~raised'
            BY <1>7, <2>2, <5>4, <5>5
          <6>2. Unwrapped = v
            BY <2>2, <5>1, <5>4 DEF Unwrapped, Top
          <6> QED BY <2>3, <2>5, <5>1, <5>3, <5>5, <6>1, <6>2 DEF Returned
        <5>6. CASE d # 0
          <6>1. raised'
            BY <1>7, <1>10, <2>2, <5>1, <5>4, <5>6
          <6> QED BY <2>2, <2>4, <2>5, <5>1, <6>1
        <5> QED BY <5>5, <5>6
      <4> QED BY <4>1, <4>2
    <3>2. CanLower(Lower(R), stack', <<>>, td)
      BY <1>10, <2>1, <2>5, <3>1, OneLowers DEF Holds
    <3> QED BY <1>1, <1>2, <1>3, <3>2 DEF Back
  <2>6. CASE R # T
    <3>1. T.k = "result" /\ T.ok = T.err /\ (R = NoType \/ R = T.ok) /\ R.k # "result"
      BY <1>6, <2>6
    <3>2. CASE R = NoType
      <4>1. Style(R) = "none" /\ ops' = <<>>
        BY <1>1, <1>8, <3>2 DEF Style, Lower
      <4>2. stack' = <<>>
        BY <2>3, <2>4, <4>1 DEF Returned
      <4> QED BY <1>1, <1>2, <2>6, <4>1, <4>2, NothingBack
    <3>3. CASE R # NoType
      <4>1. Style(R) = "normal" /\ Style(T) = "result"
        BY <1>10, <3>1, <3>3 DEF Style
      <4>2. PICK d \in {0, 1} : \E v, ts : /\ x = Object(IF d = 0 THEN "Ok" ELSE "Err", v)
                                           /\ IF Payload(T, d) = NoType THEN v = None ELSE Lowerable(Payload(T, d), v, ts)
        BY <2>1, <3>1 DEF Holds, IsCaseOf
      <4>3. PICK v, ts : /\ x = Object(IF d = 0 THEN "Ok" ELSE "Err", v)
                         /\ IF Payload(T, d) = NoType THEN v = None ELSE Lowerable(Payload(T, d), v, ts)
        BY <4>2
      <4>4. Payload(T, d) = R
        BY <3>1, <3>3 DEF Payload
      <4>5. Lowerable(R, v, ts)
        BY <3>3, <4>3, <4>4
      <4>6. Last(stack).value = v
        BY <2>2, <4>3 DEF Object
      <4>7. stack' = <<v>>
        <5>1. CASE ~raised'
          <6>1. Unwrapped = v
            BY <4>1, <4>6 DEF Unwrapped, Top
          <6> QED BY <2>3, <4>1, <5>1, <6>1 DEF Returned
        <5>2. CASE raised'
          BY <2>4, <4>1, <4>6, <5>2
        <5> QED BY <5>1, <5>2
      <4>8. CanLower(Lower(R), stack', <<>>, ts)
        BY <3>3, <4>5, <4>7, OneLowers
      <4> QED BY <1>1, <1>2, <2>6, <4>8 DEF Back
    <3> QED BY <3>2, <3>3
  <2> QED BY <2>5, <2>6
<1> QED BY <1>9, <1>10

LEMMA CrossingReturn ==
  ASSUME Crossing, Return
  PROVE  Crossing'
<1>1. sig' = sig /\ given' = given /\ iters' = iters /\ out' = out
  BY DEF Return
<1>2. phase' = "return" \/ phase' = "panic"
  BY DEF Return
<1>3. CASE phase' = "return"
  <2>1. Back
    BY <1>3, ReturnGivesBack
  <2>2. InReturn'
    BY <1>1, <2>1 DEF InReturn, Back
  <2>3. IsSeq(ops')
    BY <2>1, CanLowerSeqs DEF Back
  <2> QED BY <1>1, <1>3, <2>2, <2>3 DEF Crossing, InCall, InForward, InAnswer, AtEnd
<1>4. CASE phase' = "panic"
  <2>1. ops' = <<>>
    BY <1>4 DEF Return
  <2> QED BY <1>1, <1>4, <2>1, EmptyIsSeq DEF Crossing, InCall, InForward, InAnswer, InReturn, AtEnd
<1> QED BY <1>2, <1>3, <1>4

LEMMA CrossingFinish ==
  ASSUME Crossing, Finish
  PROVE  Crossing'
<1>1. phase = "return" /\ ops = <<>> /\ phase' = "done" /\ UNCHANGED <<sig, given, ops, stack, iters, out, raised>>
  BY DEF Finish
<1>2. PICK td : CanLower(<<>>, stack, iters, td) /\ (sig.import = sig.export => given = out \o td)
  BY <1>1 DEF Crossing, InReturn
<1>3. stack = <<>> /\ iters = <<>> /\ td = <<>>
  BY <1>2, NothingToLower
<1>4. out \o <<>> = out
  BY NoneJoined DEF Crossing
<1>5. AtEnd'
  BY <1>1, <1>2, <1>3, <1>4 DEF AtEnd
<1> QED BY <1>1, <1>5 DEF Crossing, InCall, InForward, InAnswer, InReturn

\* The glue can always go on: each operation finds on the stacks what it takes from
\* them, and what is written in the end is what was read (MyCall, call_import,
\* export_call_, call_task_return).
THEOREM CrossingHolds == Spec => []Crossing
<1>1. Init => Crossing
  BY CrossingInit
<1>2. Crossing /\ [Next]_vars => Crossing'
  <2> SUFFICES ASSUME Crossing, [Next]_vars PROVE Crossing'
    OBVIOUS
  <2>0. IsSeq(ops) /\ IsSeq(given) /\ IsSeq(out)
    BY DEF Crossing
  <2>1. CASE LiftAlias \/ LiftLeaf \/ LiftCase \/ LiftRecord \/ LiftList \/ Push \/ ListAppend
    BY <2>0, <2>1, LiftingSteps, CrossingLifts
  <2>2. CASE PopAlias \/ PopLeaf \/ PopOption \/ PopResult \/ PopVariant \/ PopRecord
               \/ PopList \/ PopIterNext \/ PopIter
    BY <2>0, <2>2, LoweringSteps, CrossingLowers
  <2>3. CASE Forward
    BY <2>3, CrossingForward
  <2>4. CASE Answer
    BY <2>4, CrossingAnswer
  <2>5. CASE Return
    BY <2>5, CrossingReturn
  <2>6. CASE Finish
    BY <2>6, CrossingFinish
  <2>7. CASE UNCHANGED vars
    <3>1. /\ sig' = sig /\ given' = given /\ phase' = phase /\ ops' = ops
          /\ stack' = stack /\ iters' = iters /\ out' = out
      BY <2>7 DEF vars
    <3> QED BY <3>1 DEF Crossing, InCall, InForward, Sent, InAnswer, InReturn, AtEnd, Walk
  <2>8. CASE Halt
    BY <2>7, <2>8 DEF Halt
  <2> QED BY <2>1, <2>2, <2>3, <2>4, <2>5, <2>6, <2>7, <2>8 DEF Next
<1> QED BY <1>1, <1>2, PTL DEF Spec

\* For any types and functions, the value that Python gets and gives back is the
\* same again, and nothing is left on the stacks of a call (MyCall.stack,
\* MyCall.iter_stack; summarize_option, which tells none from some(none)).
THEOREM ValuesCross == Spec => []RoundTrip
BY CrossingHolds, CrossingGives, PTL
=============================================================================
