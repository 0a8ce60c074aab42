---------------------------- MODULE MCValueStack ----------------------------
(* Types nested up to three deep, and lists up to two long. *)
EXTENDS ValueStack, FiniteSetsExt

Leaf == [k |-> "leaf"]
Bytes == [k |-> "bytes"]
Option(T) == [k |-> "option", of |-> T]
ResultOf(T, E) == [k |-> "result", ok |-> T, err |-> E]
Variant(cases) == [k |-> "variant", cases |-> cases]
Record(fields) == [k |-> "record", fields |-> fields]
List(T) == [k |-> "list", of |-> T]
Alias(T) == [k |-> "alias", of |-> T]

Flat == <<Leaf, Bytes, Option(Leaf), ResultOf(Leaf, NoType), ResultOf(NoType, Leaf),
          Variant(<<NoType, Leaf>>), Record(<<Leaf, Option(Leaf)>>), List(Leaf)>>
Nested == <<Option(Option(Leaf)), Option(Alias(Option(Leaf))), Option(ResultOf(NoType, NoType)),
            ResultOf(Option(Leaf), Leaf), Alias(ResultOf(Leaf, Leaf)),
            Option(Option(Option(Leaf))), Option(Alias(Option(Option(Leaf)))),
            List(Option(Option(Leaf))), List(List(Leaf)),
            Record(<<List(Leaf), Record(<<Leaf, Leaf>>), Leaf>>),
            Variant(<<Record(<<Leaf, Leaf>>), NoType, Option(Option(Leaf))>>)>>
Passed == Flat \o Nested

RECURSIVE Within(_)
Within(T) == IF T = NoType THEN {} ELSE {T} \cup UNION {Within(U) : U \in Parts(T)}

MCTypes == UNION {Within(Passed[n]) : n \in DOMAIN Passed}

RECURSIVE Deep(_)
Deep(T) == IF T = NoType \/ Parts(T) = {} THEN 0 ELSE 1 + Max({Deep(U) : U \in Parts(T)})

MCDepth == [T \in MCTypes |-> Deep(T)]

MCSignatures ==
  {[params |-> <<Passed[n], Leaf>>, import |-> NoType, export |-> NoType, async |-> FALSE] :
     n \in DOMAIN Passed}
  \cup {[params |-> <<>>, import |-> Passed[n], export |-> Passed[n], async |-> a] :
     n \in DOMAIN Passed, a \in BOOLEAN}
  \cup {[params |-> <<>>, import |-> ResultOf(Leaf, Leaf), export |-> T, async |-> a] :
     T \in {NoType, Leaf}, a \in BOOLEAN}
=============================================================================
