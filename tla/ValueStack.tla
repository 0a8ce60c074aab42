----------------------------- MODULE ValueStack -----------------------------
(***************************************************************************)
(* How values cross between the component model and Python: the stack      *)
(* machine of MyCall (runtime/src/lib.rs), whose push_* operations lift a   *)
(* value to Python and whose pop_* operations lower one, called in the      *)
(* order in which the wit-dylib glue walks a type.  One call is followed    *)
(* through: an export is called, its application forwards the arguments to *)
(* an import (call_import), and forwards what the import returns or raises  *)
(* (export_call_, or _return_result and call_task_return if it is async).   *)
(***************************************************************************)
EXTENDS Integers, Sequences, SequencesExt

CONSTANTS
  Types,        \* the types of the world, with every type that they are made of
  Depth,        \* [Types -> Nat]: a type is made of types that come before it
  Signatures,   \* the functions: see SignaturesAssumption
  Tokens,       \* the canonical values of the leaf types
  Lengths       \* the lengths of the lists that are passed

NoType == [k |-> "none"]

(* Types are [k |-> kind, ...]: "leaf" (numbers, strings, enums, flags,      *)
(* handles: one canonical token), "bytes" (list<u8>), "option", "result",   *)
(* "variant", "record" (and tuple), "list", "alias".                        *)
Leaves == {"leaf", "bytes"}
Cases == {"option", "result", "variant"}
Kinds == Leaves \cup Cases \cup {"record", "list", "alias"}

Parts(T) ==
  CASE T.k \in {"alias", "option", "list"} -> {T.of}
    [] T.k = "result"  -> {T.ok, T.err}
    [] T.k = "variant" -> {T.cases[n] : n \in DOMAIN T.cases}
    [] T.k = "record"  -> {T.fields[n] : n \in DOMAIN T.fields}
    [] OTHER -> {}

\* A case of a result or a variant may have no payload.
ASSUME TypesAssumption ==
  /\ Depth \in [Types -> Nat]
  /\ \A T \in Types :
       /\ T.k \in Kinds
       /\ T.k = "variant" => T.cases \in Seq(Types \cup {NoType})
       /\ T.k = "record" => T.fields \in Seq(Types)
       /\ T.k \notin {"result", "variant"} => NoType \notin Parts(T)
       /\ \A U \in Parts(T) \ {NoType} : U \in Types /\ Depth[U] < Depth[T]

\* The application gives back what the import gave it: the two functions return
\* the same type, or the import a result whose value and whose exception have the
\* type that the export returns, unless it returns nothing.  (What is itself a
\* result it would not give back: it would return the value in it, or raise.)
ASSUME SignaturesAssumption ==
  \A s \in Signatures :
    /\ s.params \in Seq(Types)
    /\ s.import \in Types \cup {NoType} /\ s.async \in BOOLEAN
    /\ \/ s.export = s.import
       \/ /\ s.import.k = "result" /\ s.import.ok = s.import.err
          /\ s.export \in {NoType, s.import.ok} /\ s.export.k # "result"

ASSUME LengthsAssumption == Lengths \subseteq Nat

VARIABLES
  sig,      \* the signature
  given,    \* the canonical tokens lifted so far: of the arguments, then of the result
  phase,    \* "call", "forward", "answer", "return", "done", "panic"
  ops,      \* what the glue still does, first to last
  stack,    \* MyCall.stack
  iters,    \* MyCall.iter_stack
  out,      \* the canonical tokens lowered so far
  raised    \* the import's wrapper raised Err

vars == <<sig, given, phase, ops, stack, iters, out, raised>>

\* is_option
Optional[T \in Types] == T.k = "option" \/ (T.k = "alias" /\ Optional[T.of])

\* is_option of the payload decides the kind of an option (summarize_option).
Nesting_mut_no_alias(T) == T.of.k = "option"
Nesting(T) == Optional[T.of]

Discriminants(T) == IF T.k = "variant" THEN 0..(Len(T.cases) - 1) ELSE {0, 1}

Payload(T, d) ==
  CASE T.k = "option"  -> IF d = 1 THEN T.of ELSE NoType
    [] T.k = "result"  -> IF d = 0 THEN T.ok ELSE T.err
    [] T.k = "variant" -> T.cases[d + 1]

Op(name, T, arg) == [op |-> name, ty |-> T, arg |-> arg]

Lift(T) == IF T = NoType THEN <<>> ELSE << Op("lift", T, 0) >>
Lower(T) == IF T = NoType THEN <<>> ELSE << Op("pop", T, 0) >>
LiftAll(types) == [n \in 1..Len(types) |-> Op("lift", types[n], 0)]
LowerAll(types) == [n \in 1..Len(types) |-> Op("pop", types[n], 0)]

\* n times the two operations
Twice(n, first, second) == [i \in 1..(2 * n) |-> IF i % 2 = 1 THEN first ELSE second]
LiftEach(T, n) == Twice(n, Op("lift", T.of, 0), Op("list_append", T, 0))
LowerEach(T, n) == Twice(n, Op("pop_iter_next", T, 0), Op("pop", T.of, 0))

Init ==
  /\ sig \in Signatures
  /\ phase = "call" /\ ops = LiftAll(sig.params)
  /\ given = <<>> /\ stack = <<>> /\ iters = <<>> /\ out = <<>> /\ raised = FALSE

-----------------------------------------------------------------------------
(* The glue lifts a value: what it is made of first, then the value, from   *)
(* the tokens that it reads.                                               *)

Lifting(kinds) == ops # <<>> /\ Head(ops).op = "lift" /\ Head(ops).ty.k \in kinds

Reads(tokens, calls) ==
  /\ given' = given \o tokens
  /\ ops' = calls \o Tail(ops)
  /\ UNCHANGED <<sig, phase, stack, iters, out, raised>>

LiftAlias == Lifting({"alias"}) /\ Reads(<<>>, Lift(Head(ops).ty.of))

LiftLeaf ==
  /\ Lifting(Leaves)
  /\ \E t \in Tokens : Reads(<<t>>, << Op("push", Head(ops).ty, t) >>)

LiftCase ==
  /\ Lifting(Cases)
  /\ LET T == Head(ops).ty
     IN  \E d \in Discriminants(T) : Reads(<<d>>, Lift(Payload(T, d)) \o << Op("push", T, d) >>)

LiftRecord ==
  /\ Lifting({"record"})
  /\ LET T == Head(ops).ty
     IN  Reads(<<>>, LiftAll(T.fields) \o << Op("push", T, Len(T.fields)) >>)

LiftList ==
  /\ Lifting({"list"})
  /\ LET T == Head(ops).ty
     IN  \E n \in Lengths : Reads(<<n>>, << Op("push", T, 0) >> \o LiftEach(T, n))

-----------------------------------------------------------------------------
(* Python values and the operations of MyCall.                             *)

\* n tells the classes generated for the cases of a variant apart.
Object(class, value) == [cls |-> class, n |-> 0, value |-> value]
Case(d, value) == [cls |-> "case", n |-> d, value |-> value]
None == Object("None", <<>>)

Top == Last(stack)
Below == Front(stack)
Rest(s, n) == SubSeq(s, 1, Len(s) - n)
Tops(s, n) == SubSeq(s, Len(s) - n + 1, Len(s))

\* The object of a case, around its payload if it has one.
Wrapped(T, d, value) ==
  CASE T.k = "option"  -> IF d = 0 THEN None ELSE IF Nesting(T) THEN Object("Some", value) ELSE value
    [] T.k = "result"  -> Object(IF d = 0 THEN "Ok" ELSE "Err", value)
    [] T.k = "variant" -> Case(d, value)

\* push_*: the stack after lifting one value whose parts are on the stack
Pushed(s, T, arg) ==
  CASE T.k \in Leaves -> Append(s, Object("leaf", arg))
    [] T.k \in Cases ->
         IF Payload(T, arg) = NoType THEN Append(s, Wrapped(T, arg, None))
         ELSE Append(Front(s), Wrapped(T, arg, Last(s)))
    [] T.k = "record" -> Append(Rest(s, arg), Object("record", Tops(s, arg)))
    [] T.k = "list" -> Append(s, Object("list", <<>>))

Push ==
  /\ ops # <<>> /\ Head(ops).op = "push"
  /\ stack' = Pushed(stack, Head(ops).ty, Head(ops).arg)
  /\ ops' = Tail(ops)
  /\ UNCHANGED <<sig, given, phase, iters, out, raised>>

\* list_append: the element on top joins the list below it
Appended(s) ==
  LET below == Front(s)
  IN  Append(Front(below), Object("list", Append(Last(below).value, Last(s))))

ListAppend ==
  /\ ops # <<>> /\ Head(ops).op = "list_append"
  /\ stack' = Appended(stack)
  /\ ops' = Tail(ops)
  /\ UNCHANGED <<sig, given, phase, iters, out, raised>>

Popping(kind) == ops # <<>> /\ Head(ops).op = "pop" /\ Head(ops).ty.k = kind

PopAlias ==
  /\ Popping("alias")
  /\ ops' = Lower(Head(ops).ty.of) \o Tail(ops)
  /\ UNCHANGED <<sig, given, phase, stack, iters, out, raised>>

\* pop_u8 ... pop_char, pop_string, pop_enum, pop_flags, maybe_pop_list
PopLeaf ==
  /\ Popping("leaf") \/ Popping("bytes")
  /\ out' = Append(out, Top.value) /\ stack' = Below /\ ops' = Tail(ops)
  /\ UNCHANGED <<sig, given, phase, iters, raised>>

\* The discriminant is lowered; a payload is left on the stack for its own pop.
Chosen(d, payload) ==
  /\ out' = Append(out, d)
  /\ ops' = Lower(Payload(Head(ops).ty, d)) \o Tail(ops)
  /\ stack' = IF Payload(Head(ops).ty, d) = NoType THEN Below ELSE Append(Below, payload)
  /\ UNCHANGED <<sig, given, phase, iters, raised>>

PopOption ==
  /\ Popping("option")
  /\ IF Top.cls = "None" THEN Chosen(0, None)
     ELSE Chosen(1, IF Nesting(Head(ops).ty) THEN Top.value ELSE Top)

PopResult == Popping("result") /\ Chosen(IF Top.cls = "Ok" THEN 0 ELSE 1, Top.value)

PopVariant == Popping("variant") /\ Chosen(Top.n, Top.value)

\* The fields are put on the stack in reverse: the first is popped first.
PopRecord ==
  /\ Popping("record")
  /\ stack' = Below \o Reverse(Top.value)
  /\ ops' = LowerAll(Head(ops).ty.fields) \o Tail(ops)
  /\ UNCHANGED <<sig, given, phase, iters, out, raised>>

\* pop_list: the list stays on the stack below the element that is lowered.
PopList ==
  /\ Popping("list")
  /\ LET T == Head(ops).ty
         n == Len(Top.value)
     IN  /\ ops' = LowerEach(T, n) \o << Op("pop_iter", T, 0) >> \o Tail(ops)
         /\ out' = Append(out, n)
  /\ iters' = Append(iters, 0)
  /\ UNCHANGED <<sig, given, phase, stack, raised>>

PopIterNext ==
  /\ ops # <<>> /\ Head(ops).op = "pop_iter_next"
  /\ stack' = Append(stack, Top.value[Last(iters) + 1])
  /\ iters' = Append(Front(iters), Last(iters) + 1)
  /\ ops' = Tail(ops)
  /\ UNCHANGED <<sig, given, phase, out, raised>>

EndIter(s) == Front(s)

PopIter ==
  /\ ops # <<>> /\ Head(ops).op = "pop_iter"
  /\ iters' = EndIter(iters) /\ stack' = Below /\ ops' = Tail(ops)
  /\ UNCHANGED <<sig, given, phase, out, raised>>

-----------------------------------------------------------------------------
(* The call.                                                               *)

\* return_style: only a result that is not behind an alias is special.
Style(T) ==
  CASE T = NoType -> "none"
    [] T.k = "result" -> "result"
    [] OTHER -> "normal"

\* The parameters are on the stack in order; call_import puts the first on top.
Forward ==
  /\ phase = "call" /\ ops = <<>>
  /\ phase' = "forward"
  /\ stack' = Reverse(stack)
  /\ ops' = LowerAll(sig.params)
  /\ UNCHANGED <<sig, given, iters, out, raised>>

Answer ==
  /\ phase = "forward" /\ ops = <<>>
  /\ phase' = "answer"
  /\ ops' = Lift(sig.import)
  /\ UNCHANGED <<sig, given, stack, iters, out, raised>>

\* The generated wrapper of the import: `raise result`, `return result.value`.
Unwrapped == IF Style(sig.import) = "result" THEN Top.value ELSE Top
Raises == Style(sig.import) = "result" /\ Top.cls = "Err"

\* What is lowered for what the application returned or raised: export_call_,
\* or _return_result with call_task_return.
Returned(value) ==
  CASE Style(sig.export) = "none" -> <<>>
    [] Style(sig.export) = "normal" -> <<value>>
    [] Style(sig.export) = "result" -> << Object("Ok", value) >>

Return ==
  /\ phase = "answer" /\ ops = <<>>
  /\ raised' = (sig.import # NoType /\ Raises)
  /\ IF ~raised'
       THEN stack' = Returned(IF sig.import = NoType THEN None ELSE Unwrapped) /\ phase' = "return"
     ELSE IF sig.async
       THEN /\ stack' = CASE Style(sig.export) = "none" -> <<>>
                          [] Style(sig.export) = "normal" -> <<Top.value>>
                          [] Style(sig.export) = "result" -> <<Top>>
            /\ phase' = "return"
     ELSE IF Style(sig.export) = "result" THEN stack' = <<Top>> /\ phase' = "return"
     ELSE stack' = <<>> /\ phase' = "panic"
  /\ ops' = IF phase' = "panic" THEN <<>> ELSE Lower(sig.export)
  /\ UNCHANGED <<sig, given, iters, out>>

Finish ==
  /\ phase = "return" /\ ops = <<>>
  /\ phase' = "done"
  /\ UNCHANGED <<sig, given, ops, stack, iters, out, raised>>

Halt == phase \in {"done", "panic"} /\ UNCHANGED vars

Next ==
  \/ LiftAlias \/ LiftLeaf \/ LiftCase \/ LiftRecord \/ LiftList
  \/ Push \/ ListAppend
  \/ PopAlias \/ PopLeaf \/ PopOption \/ PopResult \/ PopVariant \/ PopRecord
  \/ PopList \/ PopIterNext \/ PopIter
  \/ Forward \/ Answer \/ Return \/ Finish \/ Halt

Spec == Init /\ [][Next]_vars

-----------------------------------------------------------------------------
(* Properties.                                                             *)

\* What Python gets and gives back unchanged is the same value again, whatever
\* its type nests: none and some(none) stay apart, fields and elements keep their
\* order, parameters keep theirs.  Nothing is left on the stacks of values and of
\* iterations when the arguments, and the result, have been lowered.
RoundTrip ==
  /\ phase = "forward" /\ ops = <<>> => stack = <<>> /\ iters = <<>> /\ out = given
  /\ phase = "done" =>
       /\ stack = <<>> /\ iters = <<>> /\ ops = <<>>
       /\ sig.import = sig.export => out = given
=============================================================================
