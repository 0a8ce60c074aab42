------------------------ MODULE ResourceTableProofs ------------------------
(***************************************************************************)
(* Handles denote what they seem to, none is lost, and an application that *)
(* misuses nothing runs into no trap, for any number of objects, things,   *)
(* indices and calls.                                                      *)
(***************************************************************************)
EXTENDS ResourceTable, SequenceTheorems, TLAPS

-----------------------------------------------------------------------------
(* The inductive invariant of the imported resources.                      *)

\* A finalizer has the handle of its object unless it was rebuilt, and an object
\* that is not made yet has neither.
Finalizers ==
  \A o \in Objects :
    /\ attr[o] = "unborn" => fin[o] = "dead" /\ \A i \in Indices : slot[i] # o
    /\ fin[o] \in Indices => attr[o] = fin[o]
    /\ attr[o] \in Indices => fin[o] \in {attr[o], "malformed"}
    /\ fin[o] = "malformed" => o \in restored

\* A borrowed parameter is an object of its own, and its finalizer would drop the
\* borrow.
Parameters ==
  \A t \in Exports : export[t] = "running" =>
    /\ borrow[t].value \in Objects /\ borrow[t].handle \in Indices
    /\ attr[borrow[t].value] # "unborn"
    /\ fin[borrow[t].value] \in Indices => fin[borrow[t].value] = borrow[t].handle
    /\ \A u \in Exports : export[u] = "running" /\ borrow[u].value = borrow[t].value => u = t

\* write_all: what is left of the list, and the handles of the write in progress.
Progress ==
  /\ total + Len(source) = Len(whole)
  /\ \A j \in 1 .. Len(source) : source[j] = whole[total + j]
  /\ writer = "idle" => total = 0
  /\ writer = "copying" => Len(saved) = Len(source) /\ IsInjective(source)

Safe == "early exit" \notin misuse /\ trap = "none"

\* What an index denotes, in an object, in a call and in a write.
InObjects == \A o \in Objects : attr[o] \in Indices => slot[attr[o]] = o
InCalls ==
  \A t \in Exports : export[t] = "running" =>
    slot[borrow[t].handle] = borrow[t].value /\ borrow[t].handle \in borrowed
InWrite ==
  writer = "copying" => \A j \in 1 .. Len(source) :
    /\ slot[saved[j]] = source[j]
    /\ attr[source[j]] = "deleted" /\ fin[source[j]] = "dead"
Denoted == Safe => InObjects /\ InCalls /\ InWrite

\* Who minds the handle i of the object o.
Minded(i, o) ==
  \/ fin[o] = i \/ Held(i) \/ o \in restored
  \/ writer = "copying" /\ \E j \in 1 .. Len(source) : saved[j] = i /\ source[j] = o

AllMinded == trap = "none" => \A i \in Indices, o \in Objects : slot[i] = o => Minded(i, o)

ObjectInv ==
  TypeOK /\ Finalizers /\ Parameters /\ Progress /\ Denoted /\ AllMinded /\ BorrowsEnd

LEMMA Distinct ==
  /\ "unborn" \notin Indices /\ "none" \notin Indices /\ "deleted" \notin Indices
  /\ "dead" \notin Indices /\ "malformed" \notin Indices /\ NoIndex \notin Indices
  /\ NoObject \notin Objects /\ NoObject \notin Things
  /\ \A o \in Objects : o \notin Things
<1>1. {"unborn", "none", "deleted", "dead", "malformed"} \cap Indices = {}
  BY HandlesAssumption
<1>2. \A i \in Indices : i \notin {"unborn", "none", "deleted", "dead", "malformed"}
  BY <1>1
<1> QED BY <1>2, HandlesAssumption

LEMMA InitObjects == Init => ObjectInv
<1> SUFFICES ASSUME Init PROVE ObjectInv
  OBVIOUS
<1> USE Distinct DEF Init
<1>1. TypeOK
  <2>1. /\ source \in Seq(Objects) /\ whole \in Seq(Objects) /\ saved \in Seq(Indices)
        /\ total \in 0 .. Len(whole)
    OBVIOUS
  <2>2. borrow \in [Exports -> [value : Objects \cup {NoObject}, handle : Indices \cup {NoIndex}]]
    OBVIOUS
  <2> QED BY <2>1, <2>2 DEF TypeOK
<1>2. Finalizers /\ Parameters /\ Progress
  BY DEF Finalizers, Parameters, Progress
<1>3. Denoted
  BY DEF Denoted, InObjects, InCalls, InWrite
<1>4. AllMinded
  BY DEF AllMinded
<1>5. BorrowsEnd
  BY DEF BorrowsEnd
<1> QED BY <1>1, <1>2, <1>3, <1>4, <1>5 DEF ObjectInv

\* The types that the steps need, without the lists.
LEMMA Types ==
  ASSUME ObjectInv
  PROVE  /\ slot \in [Indices -> Objects \cup Things \cup {NoObject}]
         /\ attr \in [Objects -> Indices \cup {"unborn", "none", "deleted"}]
         /\ fin \in [Objects -> Indices \cup {"dead", "malformed"}]
         /\ borrow \in [Exports -> [value : Objects \cup {NoObject}, handle : Indices \cup {NoIndex}]]
         /\ export \in [Exports -> {"new", "running", "returned"}]
         /\ borrowed \subseteq Indices
         /\ source \in Seq(Objects) /\ saved \in Seq(Indices) /\ Len(source) \in Nat
         /\ \A j \in 1 .. Len(source) : source[j] \in Objects
         /\ writer = "copying" => \A j \in 1 .. Len(source) : saved[j] \in Indices
<1>1. source \in Seq(Objects) /\ saved \in Seq(Indices)
  BY DEF ObjectInv, TypeOK
<1>2. /\ Len(source) \in Nat
      /\ \A j \in 1 .. Len(source) : source[j] \in Objects
      /\ \A j \in 1 .. Len(saved) : saved[j] \in Indices
  BY <1>1
<1>3. writer = "copying" => Len(saved) = Len(source)
  BY DEF ObjectInv, Progress
<1> QED BY <1>1, <1>2, <1>3 DEF ObjectInv, TypeOK

\* The host's operations.
LEMMA Dropped ==
  ASSUME ObjectInv, NEW i \in Indices, Drop(i)
  PROVE  /\ slot' \in [Indices -> Objects \cup Things \cup {NoObject}]
         /\ trap' \in {trap, "drop"} /\ borrowed' \subseteq borrowed
         /\ \/ trap' = "drop" /\ UNCHANGED <<slot, borrowed>>
            \/ /\ slot[i] \in Objects /\ borrowed' = borrowed \ {i} /\ UNCHANGED trap
               /\ \A k \in Indices : slot'[k] = IF k = i THEN NoObject ELSE slot[k]
BY Types DEF Drop

LEMMA Lifted ==
  ASSUME ObjectInv, NEW I \in SUBSET Indices, Lift(I)
  PROVE  /\ slot' \in [Indices -> Objects \cup Things \cup {NoObject}]
         /\ trap' \in {trap, "lift"}
         /\ \/ trap' = "lift" /\ UNCHANGED slot
            \/ /\ \A i \in I : slot[i] \in Objects /\ i \notin borrowed
               /\ UNCHANGED trap
               /\ \A k \in Indices : slot'[k] = IF k \in I THEN NoObject ELSE slot[k]
BY Types DEF Lift

\* Steps that leave the objects and their handles alone.
LEMMA Frame ==
  ASSUME ObjectInv, TypeOK', trap = "none", misuse \subseteq misuse',
         \A i \in Indices : slot'[i] = slot[i] \/ (slot[i] \notin Objects /\ slot'[i] \notin Objects),
         UNCHANGED <<borrowed, attr, fin, export, borrow>>,
         UNCHANGED <<writer, whole, source, total, saved, restored>>
  PROVE  ObjectInv'
<1> USE Distinct
<1>1. Finalizers' /\ Parameters' /\ Progress'
  BY DEF Finalizers, Parameters, Progress, ObjectInv
<1>2. Denoted'
  <2> SUFFICES ASSUME InObjects, InCalls, InWrite PROVE (InObjects /\ InCalls /\ InWrite)'
    BY DEF Denoted, Safe, ObjectInv
  <2>1. InObjects'
    BY Types DEF InObjects
  <2>2. InCalls'
    BY Types DEF InCalls, Parameters, ObjectInv
  <2>3. InWrite'
    BY Types DEF InWrite
  <2> QED BY <2>1, <2>2, <2>3
<1>3. AllMinded'
  BY DEF AllMinded, Minded, Held, ObjectInv
<1>4. BorrowsEnd'
  BY DEF BorrowsEnd, Held, ObjectInv
<1> QED BY <1>1, <1>2, <1>3, <1>4 DEF ObjectInv

-----------------------------------------------------------------------------
(* One lemma per action.                                                   *)

LEMMA PushOwnInv ==
  ASSUME ObjectInv, NEW o \in Objects, NEW i \in Indices, PushOwn(o, i)
  PROVE  ObjectInv'
<1> USE Distinct
<1>1. /\ attr[o] = "unborn" /\ fin[o] = "dead" /\ slot[i] = NoObject /\ trap = "none"
      /\ \A k \in Indices : slot[k] # o
      /\ UNCHANGED <<borrowed, lent, trap, export, borrow, misuse>>
      /\ UNCHANGED <<writer, whole, source, total, saved, readerDropped, restored>>
  BY DEF PushOwn, NewObject, Finalizers, ObjectInv, writeVars
<1>2. /\ \A k \in Indices : slot'[k] = IF k = i THEN o ELSE slot[k]
      /\ \A x \in Objects : /\ attr'[x] = IF x = o THEN i ELSE attr[x]
                            /\ fin'[x] = IF x = o THEN i ELSE fin[x]
  BY Types DEF PushOwn, NewObject
<1>3. TypeOK'
  BY <1>1 DEF TypeOK, PushOwn, NewObject, ObjectInv
<1>4. Finalizers'
  BY <1>1, <1>2, Types DEF Finalizers, ObjectInv
<1>5. Parameters'
  BY <1>1, <1>2, Types DEF Parameters, ObjectInv
<1>6. Progress'
  BY <1>1 DEF Progress, ObjectInv
<1>7. Denoted'
  <2> SUFFICES ASSUME Safe, InObjects, InCalls, InWrite PROVE (InObjects /\ InCalls /\ InWrite)'
    BY <1>1 DEF Denoted, Safe, ObjectInv
  <2>1. InObjects'
    BY <1>1, <1>2, Types DEF InObjects
  <2>2. InCalls'
    BY <1>1, <1>2, Types DEF InCalls, Parameters, ObjectInv
  <2>3. InWrite'
    BY <1>1, <1>2, Types DEF InWrite
  <2> QED BY <2>1, <2>2, <2>3
<1>8. AllMinded'
  <2> SUFFICES ASSUME NEW k \in Indices, NEW x \in Objects, slot'[k] = x
               PROVE  Minded(k, x)'
    BY DEF AllMinded
  <2>1. CASE k = i
    BY <1>1, <1>2, <2>1 DEF Minded
  <2>2. CASE k # i
    <3>1. Minded(k, x) /\ fin'[x] = fin[x]
      BY <1>1, <1>2, <2>2 DEF AllMinded, ObjectInv
    <3> QED BY <1>1, <1>2, <3>1 DEF Minded, Held
  <2> QED BY <2>1, <2>2
<1>9. BorrowsEnd'
  BY <1>1 DEF BorrowsEnd, Held, ObjectInv
<1> QED BY <1>3, <1>4, <1>5, <1>6, <1>7, <1>8, <1>9 DEF ObjectInv

LEMMA PushBorrowInv ==
  ASSUME ObjectInv, NEW t \in Exports, NEW o \in Objects, NEW i \in Indices, PushBorrow(t, o, i)
  PROVE  ObjectInv'
<1> USE Distinct
<1>1. /\ attr[o] = "unborn" /\ fin[o] = "dead" /\ slot[i] = NoObject /\ trap = "none"
      /\ \A k \in Indices : slot[k] # o
      /\ export[t] = "new" /\ borrowed' = borrowed \cup {i}
      /\ UNCHANGED <<lent, trap, misuse>>
      /\ UNCHANGED <<writer, whole, source, total, saved, readerDropped, restored>>
  BY DEF PushBorrow, NewObject, Finalizers, ObjectInv, writeVars
<1>2. /\ \A k \in Indices : slot'[k] = IF k = i THEN o ELSE slot[k]
      /\ \A x \in Objects : /\ attr'[x] = IF x = o THEN i ELSE attr[x]
                            /\ fin'[x] = IF x = o THEN i ELSE fin[x]
      /\ \A u \in Exports :
           /\ export'[u] = IF u = t THEN "running" ELSE export[u]
           /\ borrow'[u].value = IF u = t THEN o ELSE borrow[u].value
           /\ borrow'[u].handle = IF u = t THEN i ELSE borrow[u].handle
  BY Types DEF PushBorrow, NewObject
<1>3. TypeOK'
  BY <1>1 DEF TypeOK, PushBorrow, NewObject, ObjectInv
<1>4. Finalizers'
  BY <1>1, <1>2, Types DEF Finalizers, ObjectInv
<1>5. Parameters'
  BY <1>1, <1>2, Types DEF Parameters, ObjectInv
<1>6. Progress'
  BY <1>1 DEF Progress, ObjectInv
<1>7. Denoted'
  <2> SUFFICES ASSUME Safe, InObjects, InCalls, InWrite PROVE (InObjects /\ InCalls /\ InWrite)'
    BY <1>1 DEF Denoted, Safe, ObjectInv
  <2>1. InObjects'
    BY <1>1, <1>2, Types DEF InObjects
  <2>2. InCalls'
    BY <1>1, <1>2, Types DEF InCalls, Parameters, ObjectInv
  <2>3. InWrite'
    BY <1>1, <1>2, Types DEF InWrite
  <2> QED BY <2>1, <2>2, <2>3
<1>8. AllMinded'
  <2> SUFFICES ASSUME NEW k \in Indices, NEW x \in Objects, slot'[k] = x
               PROVE  Minded(k, x)'
    BY DEF AllMinded
  <2>1. CASE k = i
    BY <1>1, <1>2, <2>1 DEF Minded
  <2>2. CASE k # i
    <3>1. Minded(k, x) /\ fin'[x] = fin[x]
      BY <1>1, <1>2, <2>2 DEF AllMinded, ObjectInv
    <3> QED BY <1>1, <1>2, <3>1 DEF Minded, Held
  <2> QED BY <2>1, <2>2
<1>9. BorrowsEnd'
  BY <1>1, <1>2 DEF BorrowsEnd, Held, ObjectInv
<1> QED BY <1>3, <1>4, <1>5, <1>6, <1>7, <1>8, <1>9 DEF ObjectInv

LEMMA ExportReturnsInv ==
  ASSUME ObjectInv, NEW t \in Exports, ExportReturns(t)
  PROVE  ObjectInv'
<1> USE Distinct
<1> DEFINE o == borrow[t].value
           i == borrow[t].handle
<1>1. /\ trap = "none" /\ export[t] = "running" /\ misuse \subseteq misuse'
      /\ o \in Objects /\ i \in Indices /\ attr[o] # "unborn"
      /\ fin[o] \in Indices => fin[o] = i
      /\ \A u \in Exports : export'[u] = IF u = t THEN "returned" ELSE export[u]
      /\ UNCHANGED <<lent, refs, borrow>>
      /\ UNCHANGED <<writer, whole, source, total, saved, readerDropped, restored>>
  BY Types DEF ExportReturns, Parameters, ObjectInv, writeVars
<1>2. CASE attr[o] = "deleted"
  <2>1. trap' = "panic" /\ UNCHANGED <<attr, fin, slot, borrowed>>
    BY <1>2 DEF ExportReturns, ReleaseBorrows
  <2>2. TypeOK'
    BY <1>1, <2>1 DEF ExportReturns, ObjectInv, TypeOK
  <2>3. Finalizers' /\ Parameters' /\ Progress'
    BY <1>1, <2>1 DEF Finalizers, Parameters, Progress, ObjectInv
  <2> QED BY <2>1, <2>2, <2>3 DEF ObjectInv, Denoted, Safe, AllMinded, BorrowsEnd
<1>3. CASE attr[o] # "deleted"
  <2>1. /\ Drop(i)
        /\ attr' = [attr EXCEPT ![o] = "deleted"] /\ fin' = [fin EXCEPT ![o] = "dead"]
        /\ \A x \in Objects : /\ attr'[x] = IF x = o THEN "deleted" ELSE attr[x]
                              /\ fin'[x] = IF x = o THEN "dead" ELSE fin[x]
    BY <1>1, <1>3, Types DEF ExportReturns, ReleaseBorrows, DetachReleased
  <2> HIDE DEF o, i
  <2>2. /\ slot' \in [Indices -> Objects \cup Things \cup {NoObject}]
        /\ trap' \in {trap, "drop"} /\ borrowed' \subseteq borrowed
    BY <1>1, <2>1, Dropped
  <2>3. TypeOK'
    <3>1. misuse' \subseteq {"overlap", "early exit", "twice"} /\ export' \in [Exports -> {"new", "running", "returned"}]
      BY DEF ExportReturns, ObjectInv, TypeOK
    <3> QED BY <1>1, <2>1, <2>2, <3>1 DEF ObjectInv, TypeOK
  <2>4. Finalizers'
    <3>1. \A x \in Objects, k \in Indices : slot[k] # x => slot'[k] # x
      BY <1>1, <2>1, Dropped
    <3> QED BY <1>1, <2>1, <3>1 DEF Finalizers, ObjectInv
  <2>5. Parameters'
    BY <1>1, <2>1 DEF Parameters, ObjectInv
  <2>6. Progress'
    BY <1>1 DEF Progress, ObjectInv
  <2>7. CASE trap' = "drop"
    BY <2>3, <2>4, <2>5, <2>6, <2>7 DEF ObjectInv, Denoted, Safe, AllMinded, BorrowsEnd
  <2>8. CASE trap' # "drop"
    <3>1. /\ slot[i] \in Objects /\ borrowed' = borrowed \ {i} /\ UNCHANGED trap
          /\ \A k \in Indices : slot'[k] = IF k = i THEN NoObject ELSE slot[k]
      BY <1>1, <2>1, <2>8, Dropped
    <3>2. Denoted'
      <4> SUFFICES ASSUME InObjects, InCalls, InWrite PROVE (InObjects /\ InCalls /\ InWrite)'
        BY <1>1 DEF Denoted, Safe, ObjectInv
      <4>1. slot[i] = o
        BY <1>1 DEF InCalls, o, i
      <4>2. InObjects'
        BY <1>1, <2>1, <3>1, <4>1 DEF InObjects
      <4>3. InCalls'
        BY <1>1, <3>1, <4>1 DEF InCalls, Parameters, ObjectInv, o
      <4>4. InWrite'
        BY <1>1, <1>3, <2>1, <3>1, <4>1, Types DEF InWrite
      <4> QED BY <4>2, <4>3, <4>4
    <3>3. AllMinded'
      <4> SUFFICES ASSUME NEW k \in Indices, NEW x \in Objects, slot'[k] = x
                   PROVE  Minded(k, x)'
        BY DEF AllMinded
      <4>1. k # i /\ Minded(k, x)
        BY <1>1, <3>1 DEF AllMinded, ObjectInv
      <4>2. fin[x] = k => fin'[x] = k
        BY <1>1, <2>1, <4>1
      <4>3. Held(k) => Held(k)'
        BY <1>1, <4>1 DEF Held, i
      <4> QED BY <1>1, <4>1, <4>2, <4>3 DEF Minded
    <3>4. BorrowsEnd'
      BY <1>1, <3>1 DEF BorrowsEnd, Held, ObjectInv, i
    <3> QED BY <2>3, <2>4, <2>5, <2>6, <3>2, <3>3, <3>4 DEF ObjectInv
  <2> QED BY <2>7, <2>8
<1> QED BY <1>2, <1>3

LEMMA ImportsInv ==
  ASSUME ObjectInv, NEW c \in Imports,
         ImportReturns(c) \/ \E o \in Objects : CallImport(c, o)
  PROVE  ObjectInv'
<1> USE Distinct
<1>1. CASE ImportReturns(c)
  <2>1. TypeOK'
    BY <1>1 DEF ImportReturns, ObjectInv, TypeOK, guestVars, writeVars
  <2> QED BY <1>1, <2>1, Frame DEF ImportReturns, guestVars, writeVars
<1>2. CASE \E o \in Objects : CallImport(c, o)
  <2> PICK o \in Objects : CallImport(c, o)
    BY <1>2
  <2>1. /\ trap = "none" /\ trap' \in {"none", "lend", "panic"}
        /\ misuse' \in {misuse, misuse \cup {"overlap"}}
        /\ UNCHANGED <<slot, borrowed, refs, attr, fin, export, borrow>>
        /\ UNCHANGED <<writer, whole, source, total, saved, readerDropped, restored>>
    BY DEF CallImport, writeVars
  <2>2. lent \in [Imports -> Indices \cup {NoIndex}]
    BY DEF TypeOK, ObjectInv
  <2>3. lent' \in [Imports -> Indices \cup {NoIndex}]
    BY <2>2 DEF CallImport
  <2>4. TypeOK'
    BY <2>1, <2>3 DEF ObjectInv, TypeOK
  <2> QED BY <2>1, <2>4, Frame
<1> QED BY <1>1, <1>2

LEMMA ForgetInv ==
  ASSUME ObjectInv, NEW o \in Objects, Forget(o)
  PROVE  ObjectInv'
<1>1. TypeOK'
  BY DEF Forget, ObjectInv, TypeOK, hostVars, writeVars
<1> QED BY <1>1, Frame DEF Forget, hostVars, writeVars

LEMMA PopOwnInv ==
  ASSUME ObjectInv, NEW o \in Objects, PopOwn(o)
  PROVE  ObjectInv'
<1> USE Distinct
<1>1. /\ trap = "none" /\ misuse' \in {misuse, misuse \cup {"overlap"}}
      /\ UNCHANGED <<borrowed, lent, refs, export, borrow>>
      /\ UNCHANGED <<writer, whole, source, total, saved, readerDropped, restored>>
  BY DEF PopOwn, Panic, writeVars
<1>2. CASE attr[o] \notin Indices
  <2>1. trap' = "panic" /\ UNCHANGED <<slot, attr, fin>>
    BY <1>2 DEF PopOwn, Panic
  <2>2. TypeOK'
    BY <1>1, <2>1 DEF ObjectInv, TypeOK
  <2> QED BY <1>1, <2>1, <2>2, Frame
<1>3. CASE attr[o] \in Indices
  <2> DEFINE i == attr[o]
  <2>1. /\ i \in Indices /\ attr[o] = i /\ Lift({i})
        /\ attr' = [x \in Objects |-> IF x \in {o} THEN "deleted" ELSE attr[x]]
        /\ fin' = [x \in Objects |-> IF x \in {o} THEN "dead" ELSE fin[x]]
    BY <1>3 DEF PopOwn, Erase, Detach
  <2> HIDE DEF i
  <2>2. \A x \in Objects : /\ attr'[x] = IF x = o THEN "deleted" ELSE attr[x]
                          /\ fin'[x] = IF x = o THEN "dead" ELSE fin[x]
    BY <2>1
  <2>3. slot' \in [Indices -> Objects \cup Things \cup {NoObject}] /\ trap' \in {trap, "lift"}
    BY <2>1, Lifted
  <2>4. TypeOK'
    <3>1. /\ attr' \in [Objects -> Indices \cup {"unborn", "none", "deleted"}]
          /\ fin' \in [Objects -> Indices \cup {"dead", "malformed"}]
      BY <2>1, Types
    <3> QED BY <1>1, <2>3, <3>1 DEF ObjectInv, TypeOK
  <2>5. Finalizers'
    <3>1. \A x \in Objects, k \in Indices : slot[k] # x => slot'[k] # x
      BY <2>1, Lifted
    <3> QED BY <1>1, <2>2, <3>1 DEF Finalizers, ObjectInv
  <2>6. Parameters'
    BY <1>1, <2>2 DEF Parameters, ObjectInv
  <2>7. Progress'
    BY <1>1 DEF Progress, ObjectInv
  <2>8. BorrowsEnd'
    BY <1>1, <2>3 DEF BorrowsEnd, Held, ObjectInv
  <2>9. CASE trap' = "lift"
    BY <2>4, <2>5, <2>6, <2>7, <2>8, <2>9 DEF ObjectInv, Denoted, Safe, AllMinded
  <2>10. CASE trap' # "lift"
    <3>1. /\ slot[i] \in Objects /\ i \notin borrowed /\ UNCHANGED trap
          /\ \A k \in Indices : slot'[k] = IF k = i THEN NoObject ELSE slot[k]
      BY <2>1, <2>10, Lifted
    <3>2. Denoted'
      <4> SUFFICES ASSUME InObjects, InCalls, InWrite PROVE (InObjects /\ InCalls /\ InWrite)'
        BY <1>1, <3>1 DEF Denoted, Safe, ObjectInv
      <4>1. slot[i] = o
        BY <2>1 DEF InObjects
      <4>2. InObjects'
        BY <2>2, <3>1, <4>1 DEF InObjects
      <4>3. InCalls'
        BY <1>1, <3>1, <4>1 DEF InCalls, Parameters, ObjectInv
      <4>4. InWrite'
        BY <1>1, <2>1, <2>2, <3>1, <4>1, Types DEF InWrite
      <4> QED BY <4>2, <4>3, <4>4
    <3>3. AllMinded'
      <4> SUFFICES ASSUME NEW k \in Indices, NEW x \in Objects, slot'[k] = x
                   PROVE  Minded(k, x)'
        BY DEF AllMinded
      <4>1. k # i /\ Minded(k, x)
        BY <1>1, <3>1 DEF AllMinded, ObjectInv
      <4>2. fin[x] = k => fin'[x] = k
        BY <2>1, <2>2, <4>1 DEF Finalizers, ObjectInv
      <4>3. Held(k) => Held(k)'
        BY <1>1 DEF Held
      <4> QED BY <1>1, <4>1, <4>2, <4>3 DEF Minded
    <3> QED BY <2>4, <2>5, <2>6, <2>7, <2>8, <3>2, <3>3 DEF ObjectInv
  <2> QED BY <2>9, <2>10
<1> QED BY <1>2, <1>3

Misuses == {"overlap", "early exit", "twice"}

\* __exit__ and weakref.finalize: the finalizer drops the handle that it has.
LEMMA Reaped ==
  ASSUME ObjectInv, NEW o \in Objects, NEW a \in {"none", "deleted"},
         trap = "none", fin[o] # "dead",
         attr' \in [Objects -> Indices \cup {"unborn", "none", "deleted"}],
         fin' \in [Objects -> Indices \cup {"dead", "malformed"}],
         \A x \in Objects : attr'[x] = IF x = o THEN a ELSE attr[x],
         \A x \in Objects : fin'[x] = IF x = o THEN "dead" ELSE fin[x],
         fin[o] \in Indices => Drop(fin[o]),
         fin[o] \notin Indices => UNCHANGED <<slot, borrowed, trap>>,
         Safe' /\ trap' = trap => Safe, misuse' \subseteq Misuses,
         Safe' => \A t \in Exports : export[t] = "running" =>
                    borrow[t].value # o \/ borrow[t].handle # fin[o],
         UNCHANGED <<lent, refs, export, borrow>>,
         UNCHANGED <<writer, whole, source, total, saved, readerDropped, restored>>
  PROVE  ObjectInv'
<1> USE Distinct
<1>1. a \notin Indices /\ a # "unborn"
  OBVIOUS
<1>2. /\ slot' \in [Indices -> Objects \cup Things \cup {NoObject}]
      /\ trap' \in {trap, "drop"} /\ borrowed' \subseteq borrowed
      /\ \A x \in Objects, k \in Indices : slot[k] # x => slot'[k] # x
  BY Types, Dropped
<1>3. TypeOK'
  BY <1>1, <1>2 DEF ObjectInv, TypeOK, Misuses
<1>4. Finalizers' /\ Parameters' /\ Progress'
  <2>1. Finalizers'
    BY <1>1, <1>2 DEF Finalizers, ObjectInv
  <2>2. Parameters'
    BY <1>1 DEF Parameters, ObjectInv
  <2> QED BY <2>1, <2>2 DEF Progress, ObjectInv
<1>5. CASE trap' # "none"
  BY <1>3, <1>4, <1>5 DEF ObjectInv, Denoted, Safe, AllMinded, BorrowsEnd
<1>6. CASE trap' = "none" /\ fin[o] \notin Indices
  <2>1. UNCHANGED <<slot, borrowed, trap>> /\ o \in restored
    BY <1>6, Types DEF Finalizers, ObjectInv
  <2>2. Denoted'
    <3> SUFFICES ASSUME InObjects, InCalls, InWrite PROVE (InObjects /\ InCalls /\ InWrite)'
      BY <2>1 DEF Denoted, ObjectInv
    <3>1. InObjects' /\ InCalls'
      BY <1>1, <2>1 DEF InObjects, InCalls
    <3>2. InWrite'
      BY <1>1, <2>1, Types DEF InWrite
    <3> QED BY <3>1, <3>2
  <2>3. AllMinded'
    <3> SUFFICES ASSUME NEW k \in Indices, NEW x \in Objects, slot'[k] = x
                 PROVE  Minded(k, x)'
      BY DEF AllMinded
    <3>1. Minded(k, x)
      BY <2>1 DEF AllMinded, ObjectInv
    <3> QED BY <1>1, <2>1, <3>1 DEF Minded, Held
  <2>4. BorrowsEnd'
    BY <2>1 DEF BorrowsEnd, Held, ObjectInv
  <2> QED BY <1>3, <1>4, <2>2, <2>3, <2>4 DEF ObjectInv
<1>7. CASE trap' = "none" /\ fin[o] \in Indices
  <2> DEFINE i == fin[o]
  <2>1. /\ i \in Indices /\ fin[o] = i /\ attr[o] = i /\ Drop(i)
    BY <1>7 DEF Finalizers, ObjectInv
  <2> HIDE DEF i
  <2>2. /\ slot[i] \in Objects /\ borrowed' = borrowed \ {i} /\ UNCHANGED trap
        /\ \A k \in Indices : slot'[k] = IF k = i THEN NoObject ELSE slot[k]
    BY <1>7, <2>1, Dropped
  <2>3. Denoted'
    <3> SUFFICES ASSUME Safe', InObjects, InCalls, InWrite PROVE (InObjects /\ InCalls /\ InWrite)'
      BY <2>2 DEF Denoted, ObjectInv
    <3>1. slot[i] = o
      BY <2>1 DEF InObjects
    <3>2. \A t \in Exports : export[t] = "running" => borrow[t].handle # i
      BY <2>1, <3>1 DEF InCalls
    <3>3. InObjects'
      BY <1>1, <2>2, <3>1 DEF InObjects
    <3>4. InCalls'
      BY <2>2, <3>2 DEF InCalls, Parameters, ObjectInv
    <3>5. InWrite'
      BY <1>1, <2>1, <2>2, <3>1, Types DEF InWrite
    <3> QED BY <3>3, <3>4, <3>5
  <2>4. AllMinded'
    <3> SUFFICES ASSUME NEW k \in Indices, NEW x \in Objects, slot'[k] = x
                 PROVE  Minded(k, x)'
      BY DEF AllMinded
    <3>1. k # i /\ Minded(k, x)
      BY <2>2 DEF AllMinded, ObjectInv
    <3> QED BY <1>1, <2>1, <3>1 DEF Minded, Held
  <2>5. BorrowsEnd'
    BY <2>2 DEF BorrowsEnd, Held, ObjectInv
  <2> QED BY <1>3, <1>4, <2>3, <2>4, <2>5 DEF ObjectInv
<1> QED BY <1>5, <1>6, <1>7

LEMMA ExitInv ==
  ASSUME ObjectInv, NEW o \in Objects, Exit(o)
  PROVE  ObjectInv'
<1>1. misuse \subseteq misuse' /\ misuse' \subseteq Misuses
  BY DEF Exit, ObjectInv, TypeOK, Misuses
<1>2. Safe' => \A t \in Exports : export[t] = "running" =>
                 borrow[t].value # o \/ borrow[t].handle # fin[o]
  <2>1. Safe' => ~Held(attr[o])
    BY DEF Exit, Safe
  <2> QED BY <2>1 DEF Held, Parameters, Finalizers, ObjectInv
<1>3. /\ trap = "none" /\ fin[o] # "dead"
      /\ attr' = [attr EXCEPT ![o] = "none"] /\ fin' = [fin EXCEPT ![o] = "dead"]
      /\ fin[o] \in Indices => Drop(fin[o])
      /\ fin[o] \notin Indices => UNCHANGED <<slot, borrowed, trap>>
      /\ UNCHANGED <<lent, refs, export, borrow>>
      /\ UNCHANGED <<writer, whole, source, total, saved, readerDropped, restored>>
  BY DEF Exit, writeVars
<1>4. /\ attr' \in [Objects -> Indices \cup {"unborn", "none", "deleted"}]
      /\ fin' \in [Objects -> Indices \cup {"dead", "malformed"}]
      /\ \A x \in Objects : /\ attr'[x] = IF x = o THEN "none" ELSE attr[x]
                            /\ fin'[x] = IF x = o THEN "dead" ELSE fin[x]
  BY <1>3, Types
<1>5. Safe' /\ trap' = trap => Safe
  BY <1>1 DEF Safe
<1> QED BY <1>1, <1>2, <1>3, <1>4, <1>5, Reaped

LEMMA FinalizeInv ==
  ASSUME ObjectInv, NEW o \in Objects, Finalize(o)
  PROVE  ObjectInv'
<1>1. attr' = [attr EXCEPT ![o] = "deleted"]
  BY Types DEF Finalize, Erase
<1>2. \A t \in Exports : export[t] = "running" => borrow[t].value # o
  BY DEF Finalize, Kept
<1>3. /\ trap = "none" /\ fin[o] # "dead" /\ fin' = [fin EXCEPT ![o] = "dead"]
      /\ fin[o] \in Indices => Drop(fin[o])
      /\ fin[o] \notin Indices => UNCHANGED <<slot, borrowed, trap>>
      /\ UNCHANGED <<lent, refs, export, borrow, misuse>>
      /\ UNCHANGED <<writer, whole, source, total, saved, readerDropped, restored>>
  BY DEF Finalize, writeVars
<1>4. misuse' \subseteq Misuses
  BY <1>3 DEF ObjectInv, TypeOK, Misuses
<1>5. /\ attr' \in [Objects -> Indices \cup {"unborn", "none", "deleted"}]
      /\ fin' \in [Objects -> Indices \cup {"dead", "malformed"}]
      /\ \A x \in Objects : /\ attr'[x] = IF x = o THEN "deleted" ELSE attr[x]
                            /\ fin'[x] = IF x = o THEN "dead" ELSE fin[x]
  BY <1>1, <1>3, Types
<1>6. Safe' /\ trap' = trap => Safe
  BY <1>3 DEF Safe
<1> QED BY <1>2, <1>3, <1>4, <1>5, <1>6, Reaped

LEMMA WriteAllInv ==
  ASSUME ObjectInv, NEW b \in Batches, WriteAll(b)
  PROVE  ObjectInv'
<1>1. /\ trap = "none" /\ writer = "idle" /\ writer' = "writing" /\ whole' = b /\ source' = b
      /\ UNCHANGED <<total, saved, readerDropped, restored>>
      /\ UNCHANGED <<slot, borrowed, lent, trap, refs, attr, fin, export, borrow, misuse>>
  BY DEF WriteAll, hostVars, guestVars
<1>2. b \in Seq(Objects) /\ Len(b) \in Nat /\ total = 0
  BY <1>1, HandlesAssumption DEF Progress, ObjectInv
<1>3. TypeOK'
  <2>1. /\ whole' \in Seq(Objects) /\ source' \in Seq(Objects) /\ total' \in 0 .. Len(whole')
        /\ writer' \in {"idle", "writing", "copying", "done"}
    BY <1>1, <1>2
  <2>2. /\ UNCHANGED <<saved, readerDropped, restored>>
        /\ UNCHANGED <<slot, borrowed, lent, trap, refs, attr, fin, export, borrow, misuse>>
    BY <1>1
  <2> QED BY <2>1, <2>2 DEF TypeOK, ObjectInv
<1>4. Progress'
  BY <1>1, <1>2 DEF Progress
<1>5. Finalizers' /\ Parameters'
  BY <1>1 DEF Finalizers, Parameters, ObjectInv
<1>6. Denoted'
  BY <1>1 DEF Denoted, Safe, InObjects, InCalls, InWrite, ObjectInv
<1>7. AllMinded'
  <2> SUFFICES ASSUME NEW k \in Indices, NEW x \in Objects, slot'[k] = x
               PROVE  Minded(k, x)'
    BY DEF AllMinded
  <2>1. Minded(k, x) /\ writer # "copying"
    BY <1>1 DEF AllMinded, ObjectInv
  <2> QED BY <1>1, <2>1 DEF Minded, Held
<1>8. BorrowsEnd'
  BY <1>1 DEF BorrowsEnd, Held, ObjectInv
<1> QED BY <1>3, <1>4, <1>5, <1>6, <1>7, <1>8 DEF ObjectInv

LEMMA WriteAllReturnsInv ==
  ASSUME ObjectInv, WriteAllReturns
  PROVE  ObjectInv'
<1>1. /\ trap = "none" /\ writer = "writing" /\ writer' = "done"
      /\ UNCHANGED <<whole, source, total, saved, readerDropped, restored>>
      /\ UNCHANGED <<slot, borrowed, lent, trap, refs, attr, fin, export, borrow, misuse>>
  BY DEF WriteAllReturns, hostVars, guestVars
<1>2. TypeOK'
  BY <1>1 DEF TypeOK, ObjectInv
<1>3. Progress'
  BY <1>1 DEF Progress, ObjectInv
<1>4. Finalizers' /\ Parameters'
  BY <1>1 DEF Finalizers, Parameters, ObjectInv
<1>5. Denoted'
  BY <1>1 DEF Denoted, Safe, InObjects, InCalls, InWrite, ObjectInv
<1>6. AllMinded'
  BY <1>1 DEF AllMinded, Minded, Held, ObjectInv
<1>7. BorrowsEnd'
  BY <1>1 DEF BorrowsEnd, Held, ObjectInv
<1> QED BY <1>2, <1>3, <1>4, <1>5, <1>6, <1>7 DEF ObjectInv

LEMMA WriteInv ==
  ASSUME ObjectInv, Write
  PROVE  ObjectInv'
<1> USE Distinct
<1>1. /\ trap = "none" /\ writer = "writing" /\ misuse' \in {misuse, misuse \cup {"overlap"}}
      /\ UNCHANGED <<slot, borrowed, lent, refs, export, borrow>>
      /\ UNCHANGED <<whole, source, total, readerDropped, restored>>
  BY DEF Write, Panic
<1>2. CASE ~CanLower(source)
  <2>1. trap' = "panic" /\ UNCHANGED <<attr, fin, writer, saved>>
    BY <1>2 DEF Write, Panic
  <2>2. TypeOK'
    BY <1>1, <2>1 DEF TypeOK, ObjectInv
  <2> QED BY <1>1, <2>1, <2>2, Frame
<1>3. CASE CanLower(source)
  <2> DEFINE n == Len(source)
  <2>1. /\ DOMAIN source = 1 .. n /\ n \in Nat /\ IsInjective(source)
        /\ \A j \in 1 .. n : source[j] \in Objects /\ attr[source[j]] \in Indices
        /\ \A x \in Range(source) : \E j \in 1 .. n : source[j] = x
        /\ \A j \in 1 .. n : source[j] \in Range(source)
    BY <1>3, Types DEF CanLower, Range
  <2>2. /\ saved' = [j \in 1 .. n |-> attr[source[j]]] /\ writer' = "copying" /\ UNCHANGED trap
        /\ attr' = [x \in Objects |-> IF x \in Range(source) THEN "deleted" ELSE attr[x]]
        /\ fin' = [x \in Objects |-> IF x \in Range(source) THEN "dead" ELSE fin[x]]
    BY <1>3, <2>1 DEF Write, Erase, Detach
  <2>3. saved' \in Seq(Indices) /\ Len(saved') = n
    BY <2>1, <2>2
  <2>4. \A j \in 1 .. n : saved'[j] = attr[source[j]]
    BY <2>2
  <2>5. \A x \in Objects : /\ attr'[x] = IF x \in Range(source) THEN "deleted" ELSE attr[x]
                          /\ fin'[x] = IF x \in Range(source) THEN "dead" ELSE fin[x]
    BY <2>2
  <2>6. /\ attr' \in [Objects -> Indices \cup {"unborn", "none", "deleted"}]
        /\ fin' \in [Objects -> Indices \cup {"dead", "malformed"}]
    BY <2>2, Types
  <2>7. writer' = "copying" /\ UNCHANGED trap
    BY <2>2
  <2> HIDE DEF n
  <2>8. TypeOK'
    BY <1>1, <2>3, <2>6, <2>7 DEF TypeOK, ObjectInv
  <2>9. Finalizers' /\ Parameters'
    <3>1. Finalizers'
      BY <1>1, <2>1, <2>5 DEF Finalizers, ObjectInv
    <3>2. Parameters'
      BY <1>1, <2>1, <2>5 DEF Parameters, ObjectInv
    <3> QED BY <3>1, <3>2
  <2>10. Progress'
    BY <1>1, <2>1, <2>3, <2>7 DEF Progress, ObjectInv, n
  <2>11. Denoted'
    <3> SUFFICES ASSUME InObjects, InCalls, InWrite PROVE (InObjects /\ InCalls /\ InWrite)'
      BY <1>1, <2>7 DEF Denoted, Safe, ObjectInv
    <3>1. InObjects'
      BY <1>1, <2>5 DEF InObjects
    <3>2. InCalls'
      BY <1>1 DEF InCalls
    <3>3. InWrite'
      BY <1>1, <2>1, <2>4, <2>5 DEF InObjects, InWrite, n
    <3> QED BY <3>1, <3>2, <3>3
  <2>12. AllMinded'
    <3> SUFFICES ASSUME NEW k \in Indices, NEW x \in Objects, slot'[k] = x
                 PROVE  Minded(k, x)'
      BY DEF AllMinded
    <3>1. Minded(k, x) /\ writer # "copying"
      BY <1>1 DEF AllMinded, ObjectInv
    <3>2. CASE fin[x] = k /\ x \in Range(source)
      <4>1. PICK j \in 1 .. n : source[j] = x
        BY <2>1, <3>2
      <4>2. saved'[j] = k
        BY <2>4, <3>2, <4>1 DEF Finalizers, ObjectInv
      <4> QED BY <1>1, <2>7, <4>1, <4>2 DEF Minded, n
    <3>3. CASE ~(fin[x] = k /\ x \in Range(source))
      BY <1>1, <2>5, <3>1, <3>3 DEF Minded, Held
    <3> QED BY <3>2, <3>3
  <2>13. BorrowsEnd'
    BY <1>1, <2>7 DEF BorrowsEnd, Held, ObjectInv
  <2> QED BY <2>8, <2>9, <2>10, <2>11, <2>12, <2>13 DEF ObjectInv
<1> QED BY <1>2, <1>3

LEMMA SettleInv ==
  ASSUME ObjectInv, NEW n \in 0 .. Len(source), NEW dropped \in BOOLEAN, Settle(n, dropped)
  PROVE  ObjectInv'
<1> USE Distinct
<1> DEFINE m == Len(source)
           unread == {j \in DOMAIN source : j >= n + 1}
           back == {source[j] : j \in unread}
           handleOf == [o \in back |-> saved[CHOOSE j \in unread : source[j] = o]]
           moved == {saved[j] : j \in 1 .. n}
<1>1. /\ trap = "none" /\ writer = "copying" /\ writer' = "writing"
      /\ total' = total + n /\ saved' = <<>>
      /\ source' = SubSeq(source, n + 1, Len(source))
      /\ restored' = restored \cup back /\ Lift(moved)
      /\ UNCHANGED <<borrowed, lent, refs, export, borrow, misuse, whole>>
  BY DEF Settle, FirstUnread, Rest
<1>2. /\ DOMAIN source = 1 .. m /\ m \in Nat /\ IsInjective(source)
      /\ n \in Nat /\ n <= m /\ moved \in SUBSET Indices
      /\ \A j \in 1 .. m : source[j] \in Objects /\ saved[j] \in Indices
      /\ \A j, k \in 1 .. m : source[j] = source[k] => j = k
  <2>1. Len(saved) = m /\ IsInjective(source) /\ DOMAIN source = 1 .. m /\ m \in Nat
    BY <1>1, Types DEF Progress, ObjectInv
  <2>2. \A j \in 1 .. m : source[j] \in Objects /\ saved[j] \in Indices
    BY <1>1, Types
  <2>3. n \in Nat /\ n <= m /\ \A j \in 1 .. n : j \in 1 .. m
    BY <2>1
  <2> QED BY <2>1, <2>2, <2>3 DEF IsInjective
<1>3. \A j \in unread : handleOf[source[j]] = saved[j]
  <2> SUFFICES ASSUME NEW j \in unread PROVE handleOf[source[j]] = saved[j]
    OBVIOUS
  <2>1. \A k \in unread : source[k] = source[j] => k = j
    BY <1>2
  <2> QED BY <2>1
<1>4. /\ \A x \in back : \E j \in 1 .. m : j > n /\ x = source[j] /\ handleOf[x] = saved[j]
      /\ \A j \in 1 .. m : j > n => source[j] \in back
      /\ \A j \in 1 .. n : j \in 1 .. m /\ source[j] \notin back /\ saved[j] \in moved
      /\ \A i \in moved : \E j \in 1 .. n : saved[j] = i
      /\ back \subseteq Objects
  <2>1. /\ \A j \in unread : j \in 1 .. m /\ j > n
        /\ \A j \in 1 .. m : j > n => j \in unread
    BY <1>2
  <2> QED BY <1>2, <1>3, <2>1
<1>5. \A x \in back : handleOf[x] \in Indices
  BY <1>2, <1>4
<1>6. /\ attr' = [o \in Objects |-> IF o \in back THEN handleOf[o] ELSE attr[o]]
      /\ fin' = [o \in Objects |-> IF o \in back THEN "malformed" ELSE fin[o]]
  BY DEF Settle, FirstUnread, Restored
<1>7. /\ attr' \in [Objects -> Indices \cup {"unborn", "none", "deleted"}]
      /\ fin' \in [Objects -> Indices \cup {"dead", "malformed"}]
      /\ \A o \in Objects : /\ attr'[o] = IF o \in back THEN handleOf[o] ELSE attr[o]
                            /\ fin'[o] = IF o \in back THEN "malformed" ELSE fin[o]
  BY <1>5, <1>6, Types
<1>8. /\ source' \in Seq(Objects) /\ Len(source') = m - n /\ Len(source') \in Nat
      /\ \A j \in 1 .. Len(source') : source'[j] = source[n + j]
  <2>1. \A j \in n + 1 .. m : source[j] \in Objects
    BY <1>2
  <2> DEFINE rest == SubSeq(source, n + 1, m)
  <2>2. n + 1 \in Int /\ m \in Int
    BY <1>2
  <2> HIDE DEF m
  <2>3. /\ rest \in Seq(Objects)
        /\ Len(rest) = IF n + 1 <= m THEN m - (n + 1) + 1 ELSE 0
        /\ \A j \in 1 .. m - (n + 1) + 1 : rest[j] = source[n + 1 + j - 1]
    BY <2>1, <2>2, SubSeqProperties
  <2>4. source' = rest
    BY <1>1 DEF m
  <2> HIDE DEF rest
  <2>5. Len(rest) = m - n /\ m - n \in Nat /\ m - (n + 1) + 1 = m - n
    BY <1>2, <2>3
  <2>6. ASSUME NEW j \in 1 .. m - n PROVE rest[j] = source[n + j]
    <3>1. n + 1 + j - 1 = n + j
      BY <1>2
    <3> QED BY <2>3, <2>5, <3>1
  <2> QED BY <2>3, <2>4, <2>5, <2>6
<1>9. /\ Len(whole) \in Nat /\ total \in Nat /\ total + m = Len(whole)
      /\ \A j \in 1 .. m : source[j] = whole[total + j]
  <2>1. whole \in Seq(Objects) /\ total \in 0 .. Len(whole)
    BY DEF TypeOK, ObjectInv
  <2>2. total + m = Len(whole) /\ \A j \in 1 .. m : source[j] = whole[total + j]
    BY DEF Progress, ObjectInv
  <2> HIDE DEF m
  <2> QED BY <2>1, <2>2
<1> HIDE DEF m, unread, back, handleOf, moved
<1>10. /\ slot' \in [Indices -> Objects \cup Things \cup {NoObject}]
       /\ trap' \in {trap, "lift"}
       /\ \/ trap' = "lift" /\ UNCHANGED slot
          \/ /\ \A i \in moved : slot[i] \in Objects /\ i \notin borrowed
             /\ UNCHANGED trap
             /\ \A k \in Indices : slot'[k] = IF k \in moved THEN NoObject ELSE slot[k]
  BY <1>1, <1>2, Lifted
<1>11. TypeOK'
  <2>1. /\ saved' \in Seq(Indices) /\ restored' \subseteq Objects /\ readerDropped' \in BOOLEAN
        /\ trap' \in {"none", "drop", "lift", "lend", "panic"}
        /\ writer' \in {"idle", "writing", "copying", "done"}
    <3>1. readerDropped' = dropped
      BY DEF Settle
    <3>2. restored \subseteq Objects
      BY DEF TypeOK, ObjectInv
    <3>3. <<>> \in Seq(Indices)
      OBVIOUS
    <3> QED BY <1>1, <1>4, <1>10, <3>1, <3>2, <3>3
  <2>2. total' \in 0 .. Len(whole')
    BY <1>1, <1>2, <1>9
  <2>3. UNCHANGED <<borrowed, lent, refs, export, borrow, misuse, whole>>
    BY <1>1
  <2> QED BY <1>7, <1>8, <1>10, <2>1, <2>2, <2>3 DEF TypeOK, ObjectInv
<1>12. Finalizers'
  <2>1. \A x \in Objects, k \in Indices : slot[k] # x => slot'[k] # x
    BY <1>10
  <2> QED BY <1>1, <1>5, <1>7, <2>1 DEF Finalizers, ObjectInv
<1>13. Parameters'
  BY <1>1, <1>5, <1>7 DEF Parameters, ObjectInv
<1>14. Progress'
  <2>1. total' + Len(source') = Len(whole')
    <3>1. total' = total + n /\ Len(source') = m - n /\ whole' = whole
      BY <1>1, <1>8
    <3>2. (total + n) + (m - n) = Len(whole)
      BY <1>2, <1>9
    <3> QED BY <3>1, <3>2
  <2>2. ASSUME NEW j \in 1 .. Len(source') PROVE source'[j] = whole'[total' + j]
    <3>1. n + j \in 1 .. m /\ total + (n + j) = (total + n) + j
      BY <1>2, <1>8, <1>9
    <3> QED BY <1>1, <1>8, <1>9, <3>1
  <2> QED BY <1>1, <2>1, <2>2 DEF Progress
<1>15. BorrowsEnd'
  BY <1>1, <1>10 DEF BorrowsEnd, Held, ObjectInv
<1>16. CASE trap' = "lift"
  BY <1>11, <1>12, <1>13, <1>14, <1>15, <1>16 DEF ObjectInv, Denoted, Safe, AllMinded
<1>17. CASE trap' # "lift"
  <2>1. /\ \A i \in moved : slot[i] \in Objects /\ i \notin borrowed
        /\ UNCHANGED trap
        /\ \A k \in Indices : slot'[k] = IF k \in moved THEN NoObject ELSE slot[k]
    BY <1>10, <1>17
  <2>2. Denoted'
    <3> SUFFICES ASSUME InObjects, InCalls, InWrite PROVE (InObjects /\ InCalls /\ InWrite)'
      BY <1>1, <2>1 DEF Denoted, Safe, ObjectInv
    <3>1. \A j \in 1 .. m : slot[saved[j]] = source[j] /\ attr[source[j]] = "deleted"
      BY <1>1 DEF InWrite, m
    <3>2. \A x \in Objects : attr'[x] \in Indices => slot'[attr'[x]] = x
      <4> SUFFICES ASSUME NEW x \in Objects, attr'[x] \in Indices PROVE slot'[attr'[x]] = x
        OBVIOUS
      <4>1. CASE x \in back
        <5>1. PICK j \in 1 .. m : j > n /\ x = source[j] /\ attr'[x] = saved[j]
          BY <1>4, <1>7, <4>1
        <5>2. saved[j] \notin moved
          BY <1>2, <1>4, <3>1, <5>1
        <5> QED BY <1>2, <2>1, <3>1, <5>1, <5>2
      <4>2. CASE x \notin back
        <5>1. attr'[x] = attr[x] /\ slot[attr[x]] = x
          BY <1>7, <4>2 DEF InObjects
        <5>2. attr[x] \notin moved
          BY <1>4, <3>1, <5>1
        <5> QED BY <2>1, <5>1, <5>2
      <4> QED BY <4>1, <4>2
    <3>3. InCalls'
      BY <1>1, <2>1 DEF InCalls, Parameters, ObjectInv
    <3> QED BY <1>1, <3>2, <3>3 DEF InObjects, InWrite
  <2>3. AllMinded'
    <3> SUFFICES ASSUME NEW k \in Indices, NEW x \in Objects, slot'[k] = x
                 PROVE  Minded(k, x)'
      BY DEF AllMinded
    <3>1. k \notin moved /\ Minded(k, x)
      BY <1>1, <2>1 DEF AllMinded, ObjectInv
    <3>2. CASE x \in back
      BY <1>1, <3>2 DEF Minded
    <3>3. CASE x \notin back
      <4>1. ~\E j \in 1 .. Len(source) : saved[j] = k /\ source[j] = x
        BY <1>2, <1>4, <3>1, <3>3 DEF m
      <4> QED BY <1>1, <1>7, <3>1, <3>3, <4>1 DEF Minded, Held
    <3> QED BY <3>2, <3>3
  <2> QED BY <1>11, <1>12, <1>13, <1>14, <1>15, <2>2, <2>3 DEF ObjectInv
<1> QED BY <1>16, <1>17

LEMMA NextObjects == ASSUME ObjectInv, Next PROVE ObjectInv'
BY PushOwnInv, PushBorrowInv, ImportsInv, PopOwnInv, ExitInv, ForgetInv, FinalizeInv,
   ExportReturnsInv, WriteAllInv, WriteInv, WriteAllReturnsInv, SettleInv DEF Next

-----------------------------------------------------------------------------
(* The things, and what the steps of the objects leave alone.              *)

Pins ==
  /\ held \subseteq Things /\ pinned \subseteq Things /\ owned \subseteq pinned
  /\ \A x \in held \cup pinned : Exists(x)
  /\ \A x \in Things : index[x] \in Indices \/ reaper[x] \in Indices => x \in pinned
  /\ \A i \in Indices : slot[i] \in Things => slot[i] \in pinned

\* What is on its way is not with the host yet; what is the application's own, and
\* has a handle, has it in the table.
Sent ==
  \A x \in Things :
    /\ outgoing[x] # NoIndex =>
         slot[outgoing[x]] = x /\ index[x] = outgoing[x] /\ x \in given /\ x \notin owned
    /\ x \notin given => x \notin owned /\ (index[x] \in Indices => slot[index[x]] = x)

Proper == "twice" \notin misuse /\ trap = "none"

ThingInv ==
  /\ index \in [Things -> Indices \cup {"unmade", "none", "freed"}]
  /\ reaper \in [Things -> Indices \cup {"dead"}]
  /\ outgoing \in [Things -> Indices \cup {NoIndex}]
  /\ Pins /\ (Proper => Sent)

IInv == ObjectInv /\ ThingInv

LEMMA DistinctThings == "unmade" \notin Indices /\ "freed" \notin Indices
BY ThingsAssumption

LEMMA InitThings == TableInit => ThingInv
<1> SUFFICES ASSUME TableInit PROVE ThingInv
  OBVIOUS
<1> USE Distinct, DistinctThings
<1>1. /\ held = {} /\ pinned = {} /\ owned = {}
      /\ index = [x \in Things |-> "unmade"] /\ reaper = [x \in Things |-> "dead"]
      /\ outgoing = [x \in Things |-> NoIndex] /\ slot = [i \in Indices |-> NoObject]
  BY DEF TableInit, Init
<1>2. Pins
  BY <1>1 DEF Pins
<1>3. Sent
  BY <1>1 DEF Sent
<1> QED BY <1>1, <1>2, <1>3 DEF ThingInv

SameThings ==
  /\ \A i \in Indices : slot[i] \in Things \/ slot'[i] \in Things => slot'[i] = slot[i]
  /\ Proper' => Proper

LEMMA DropThings ==
  ASSUME ObjectInv, NEW i \in Indices, Drop(i)
  PROVE  \A k \in Indices : slot[k] \in Things \/ slot'[k] \in Things => slot'[k] = slot[k]
BY Dropped, Distinct

LEMMA LiftThings ==
  ASSUME ObjectInv, NEW I \in SUBSET Indices, Lift(I)
  PROVE  \A k \in Indices : slot[k] \in Things \/ slot'[k] \in Things => slot'[k] = slot[k]
BY Lifted, Distinct

LEMMA NextKeepsThings == ASSUME ObjectInv, Next PROVE SameThings
<1> USE Distinct
<1>1. ASSUME NEW o \in Objects, NEW i \in Indices, NewObject(o, i), UNCHANGED <<misuse, trap>>
      PROVE  SameThings
  BY <1>1, Types DEF NewObject, SameThings, Proper
<1>2. ASSUME NEW o \in Objects, NEW i \in Indices, PushOwn(o, i) PROVE SameThings
  BY <1>1, <1>2 DEF PushOwn
<1>3. ASSUME NEW o \in Objects, NEW i \in Indices, NEW t \in Exports, PushBorrow(t, o, i)
      PROVE  SameThings
  BY <1>1, <1>3 DEF PushBorrow
<1>4. ASSUME NEW c \in Imports, ImportReturns(c) \/ \E o \in Objects : CallImport(c, o)
      PROVE  SameThings
  BY <1>4 DEF ImportReturns, CallImport, guestVars, SameThings, Proper
<1>5. ASSUME NEW o \in Objects, PopOwn(o) PROVE SameThings
  BY <1>5, LiftThings DEF PopOwn, Panic, SameThings, Proper
<1>6. ASSUME NEW o \in Objects, Exit(o) \/ Finalize(o) PROVE SameThings
  BY <1>6, DropThings DEF Exit, Finalize, SameThings, Proper
<1>7. ASSUME NEW o \in Objects, Forget(o) PROVE SameThings
  BY <1>7 DEF Forget, hostVars, SameThings, Proper
<1>8. ASSUME NEW t \in Exports, ExportReturns(t) PROVE SameThings
  <2>1. Proper' => Proper
    BY <1>8 DEF ExportReturns, Proper
  <2>2. borrow[t].handle \in Indices
    BY <1>8 DEF ExportReturns, Parameters, ObjectInv
  <2> QED BY <1>8, <2>1, <2>2, DropThings DEF ExportReturns, ReleaseBorrows, SameThings
<1>9. ASSUME NEW b \in Batches, WriteAll(b) PROVE SameThings
  BY <1>9 DEF WriteAll, hostVars, guestVars, SameThings, Proper
<1>10. ASSUME Write \/ WriteAllReturns PROVE SameThings
  BY <1>10 DEF Write, Panic, WriteAllReturns, hostVars, guestVars, SameThings, Proper
<1>11. ASSUME NEW n \in 0 .. Len(source), NEW dropped \in BOOLEAN, Settle(n, dropped)
       PROVE  SameThings
  <2>1. {saved[j] : j \in 1 .. n} \in SUBSET Indices
    BY <1>11, Types DEF Settle
  <2>2. Lift({saved[j] : j \in 1 .. n}) /\ trap = "none" /\ misuse' = misuse
    BY <1>11 DEF Settle
  <2> QED BY <2>1, <2>2, LiftThings DEF SameThings, Proper
<1> QED BY <1>2, <1>3, <1>4, <1>5, <1>6, <1>7, <1>8, <1>9, <1>10, <1>11 DEF Next

LEMMA NextThings == ASSUME ObjectInv, ThingInv, Next, UNCHANGED thingVars PROVE ThingInv'
<1>1. UNCHANGED <<held, index, reaper, pinned, outgoing, owned, given>> /\ SameThings
  BY NextKeepsThings DEF thingVars
<1>2. Pins'
  BY <1>1, Types DEF Pins, Exists, ThingInv, SameThings
<1>3. ASSUME Proper' PROVE Sent'
  <2>1. Sent
    BY <1>1, <1>3 DEF SameThings, ThingInv
  <2> QED BY <1>1, <2>1 DEF Sent, SameThings, ThingInv
<1> QED BY <1>1, <1>2, <1>3 DEF ThingInv

-----------------------------------------------------------------------------
(* The steps of the things.                                                *)

\* Steps that leave the host's table alone.
LEMMA QuietThingInv ==
  ASSUME IInv, NEW x \in Things,
         MakeThing(x) \/ LeftUnread(x) \/ CallMethod(x) \/ HostDrops(x) \/ ForgetThing(x)
  PROVE  IInv'
<1> USE Distinct, DistinctThings DEF IInv
<1>1. /\ trap = "none" /\ UNCHANGED <<slot, borrowed, lent, trap, refs, attr, fin, export, borrow, misuse>>
      /\ UNCHANGED <<writer, whole, source, total, saved, readerDropped, restored>>
      /\ UNCHANGED <<reaper, pinned>>
  BY DEF MakeThing, LeftUnread, CallMethod, HostDrops, ForgetThing, vars, hostVars, guestVars, writeVars
<1>2. ObjectInv'
  <2>1. TypeOK'
    BY <1>1 DEF TypeOK, ObjectInv
  <2> QED BY <1>1, <2>1, Frame
<1>3. /\ index' \in [Things -> Indices \cup {"unmade", "none", "freed"}]
      /\ outgoing' \in [Things -> Indices \cup {NoIndex}]
  BY DEF MakeThing, LeftUnread, CallMethod, HostDrops, ForgetThing, ThingInv
<1>4. Pins'
  <2>1. CASE MakeThing(x)
    BY <1>1, <2>1 DEF MakeThing, Pins, Exists, ThingInv
  <2>2. CASE ~MakeThing(x)
    <3>1. index' = index /\ owned' \subseteq owned /\ held' \subseteq held \cup owned
      BY <2>2 DEF LeftUnread, CallMethod, HostDrops, ForgetThing
    <3> QED BY <1>1, <3>1 DEF Pins, Exists, ThingInv
  <2> QED BY <2>1, <2>2
<1>5. ASSUME Sent PROVE Sent'
  <2>1. CASE MakeThing(x)
    BY <1>1, <1>5, <2>1 DEF MakeThing, Sent, ThingInv
  <2>2. CASE LeftUnread(x)
    BY <1>1, <1>5, <2>2 DEF LeftUnread, Sent, ThingInv
  <2>3. CASE CallMethod(x) \/ HostDrops(x) \/ ForgetThing(x)
    BY <1>1, <1>5, <2>3 DEF CallMethod, HostDrops, ForgetThing, Sent
  <2> QED BY <2>1, <2>2, <2>3
<1> QED BY <1>1, <1>2, <1>3, <1>4, <1>5 DEF ThingInv, Proper

LEMMA LowerInv ==
  ASSUME IInv, NEW x \in Things, NEW i \in Indices, Lower(x, i)
  PROVE  IInv'
<1> USE Distinct, DistinctThings DEF IInv
<1>1. /\ trap = "none" /\ x \in held /\ outgoing[x] = NoIndex
      /\ misuse' \in {misuse, misuse \cup {"twice"}} /\ (Proper' => Proper /\ x \notin given)
      /\ UNCHANGED <<borrowed, lent, trap, refs, attr, fin, export, borrow, held, owned>>
      /\ UNCHANGED <<writer, whole, source, total, saved, readerDropped, restored>>
      /\ given' = given \cup {x} /\ outgoing' = [outgoing EXCEPT ![x] = i]
  BY DEF Lower, Proper, writeVars
<1>2. \/ index[x] = i /\ UNCHANGED <<slot, index, reaper, pinned>>
      \/ /\ index[x] \notin Indices /\ slot[i] = NoObject
         /\ slot' = [slot EXCEPT ![i] = x] /\ index' = [index EXCEPT ![x] = i]
         /\ reaper' = [reaper EXCEPT ![x] = i] /\ pinned' = pinned \cup {x}
  BY DEF Lower, Pinned
<1>3. /\ slot' \in [Indices -> Objects \cup Things \cup {NoObject}]
      /\ \A k \in Indices : slot'[k] = slot[k] \/ (slot[k] \notin Objects /\ slot'[k] \notin Objects)
  BY <1>2, Types
<1>4. ObjectInv'
  <2>1. TypeOK'
    BY <1>1, <1>3 DEF TypeOK, ObjectInv
  <2> QED BY <1>1, <1>3, <2>1, Frame
<1>5. /\ index' \in [Things -> Indices \cup {"unmade", "none", "freed"}]
      /\ reaper' \in [Things -> Indices \cup {"dead"}]
      /\ outgoing' \in [Things -> Indices \cup {NoIndex}]
  BY <1>1, <1>2 DEF ThingInv
<1>6. Pins'
  <2>1. \A k \in Indices : slot'[k] \in Things => slot'[k] \in pinned'
    BY <1>1, <1>2, Types DEF Pins, ThingInv
  <2>2. /\ held' \subseteq Things /\ pinned' \subseteq Things /\ owned' \subseteq pinned'
        /\ \A y \in held' \cup pinned' : Exists(y)'
    BY <1>1, <1>2, Types DEF Pins, Exists, ThingInv
  <2>3. \A y \in Things : index'[y] \in Indices \/ reaper'[y] \in Indices => y \in pinned'
    BY <1>1, <1>2 DEF Pins, ThingInv
  <2> QED BY <2>1, <2>2, <2>3 DEF Pins
<1>7. ASSUME Sent, x \notin given PROVE Sent'
  <2>1. CASE index[x] = i
    BY <1>1, <1>2, <1>7, <2>1 DEF Sent, ThingInv
  <2>2. CASE index[x] # i
    BY <1>1, <1>2, <1>7, <2>2, Types DEF Sent, ThingInv
  <2> QED BY <2>1, <2>2
<1> QED BY <1>1, <1>4, <1>5, <1>6, <1>7 DEF ThingInv

LEMMA TakeInv ==
  ASSUME IInv, NEW x \in Things, Take(x)
  PROVE  IInv'
<1> USE Distinct, DistinctThings DEF IInv
<1> DEFINE i == outgoing[x]
<1>1. /\ trap = "none" /\ outgoing[x] = i /\ i \in Indices /\ trap' \in {"none", "lift"}
      /\ outgoing' = [outgoing EXCEPT ![x] = NoIndex]
      /\ UNCHANGED <<borrowed, lent, refs, attr, fin, export, borrow, misuse>>
      /\ UNCHANGED <<writer, whole, source, total, saved, readerDropped, restored>>
      /\ UNCHANGED <<held, index, reaper, pinned, given>>
  BY DEF Take, ThingInv, guestVars, writeVars
<1>2. \/ /\ slot[i] \in Things /\ slot' = [slot EXCEPT ![i] = NoObject]
         /\ owned' = owned \cup {slot[i]} /\ UNCHANGED trap
      \/ slot[i] \notin Things /\ trap' = "lift" /\ UNCHANGED <<slot, owned>>
  BY DEF Take
<1> HIDE DEF i
<1>3. /\ slot' \in [Indices -> Objects \cup Things \cup {NoObject}]
      /\ \A k \in Indices : slot'[k] = slot[k] \/ (slot[k] \notin Objects /\ slot'[k] \notin Objects)
  BY <1>1, <1>2, Types
<1>4. ObjectInv'
  <2>1. TypeOK'
    BY <1>1, <1>3 DEF TypeOK, ObjectInv
  <2> QED BY <1>1, <1>3, <2>1, Frame
<1>5. outgoing' \in [Things -> Indices \cup {NoIndex}]
  BY <1>1 DEF ThingInv
<1>6. Pins'
  <2>1. owned' \subseteq pinned
    BY <1>1, <1>2 DEF Pins, ThingInv
  <2>2. \A k \in Indices : slot'[k] \in Things => slot[k] = slot'[k]
    BY <1>1, <1>2, Types
  <2> QED BY <1>1, <2>1, <2>2 DEF Pins, Exists, ThingInv
<1>7. ASSUME Sent, trap' = "none" PROVE Sent'
  <2>1. /\ slot[i] = x /\ slot' = [slot EXCEPT ![i] = NoObject] /\ owned' = owned \cup {x}
    BY <1>1, <1>2, <1>7 DEF Sent
  <2> QED BY <1>1, <1>7, <2>1, Types DEF Sent, ThingInv
<1> QED BY <1>1, <1>4, <1>5, <1>6, <1>7 DEF ThingInv, Proper

LEMMA GiveBackInv ==
  ASSUME IInv, NEW x \in Things, NEW i \in Indices, GiveBack(x, i)
  PROVE  IInv'
<1> USE Distinct, DistinctThings DEF IInv
<1>1. /\ trap = "none" /\ x \in owned /\ slot[i] = NoObject /\ trap' \in {"none", "panic"}
      /\ slot' = [slot EXCEPT ![i] = x] /\ owned' = owned \ {x}
      /\ held' = held \cup {x} /\ given' = given \ {x}
      /\ UNCHANGED <<borrowed, lent, refs, attr, fin, export, borrow, misuse, pinned, outgoing>>
      /\ UNCHANGED <<writer, whole, source, total, saved, readerDropped, restored>>
  BY DEF GiveBack, guestVars, writeVars
<1>2. \/ /\ UNCHANGED trap /\ index' = [index EXCEPT ![x] = "none"]
         /\ reaper' = [reaper EXCEPT ![x] = "dead"]
      \/ trap' = "panic" /\ UNCHANGED <<index, reaper>>
  BY DEF GiveBack, Unmark
<1>3. /\ slot' \in [Indices -> Objects \cup Things \cup {NoObject}]
      /\ \A k \in Indices : slot'[k] = slot[k] \/ (slot[k] \notin Objects /\ slot'[k] \notin Objects)
  BY <1>1, Types
<1>4. ObjectInv'
  <2>1. TypeOK'
    BY <1>1, <1>3 DEF TypeOK, ObjectInv
  <2> QED BY <1>1, <1>3, <2>1, Frame
<1>5. /\ index' \in [Things -> Indices \cup {"unmade", "none", "freed"}]
      /\ reaper' \in [Things -> Indices \cup {"dead"}]
  BY <1>2 DEF ThingInv
<1>6. Pins'
  <2>1. \A k \in Indices : slot'[k] \in Things => slot'[k] \in pinned'
    BY <1>1, <1>2, Types DEF Pins, ThingInv
  <2>2. /\ held' \subseteq Things /\ pinned' \subseteq Things /\ owned' \subseteq pinned'
        /\ \A y \in held' \cup pinned' : Exists(y)'
    BY <1>1, <1>2, Types DEF Pins, Exists, ThingInv
  <2>3. \A y \in Things : index'[y] \in Indices \/ reaper'[y] \in Indices => y \in pinned'
    BY <1>1, <1>2 DEF Pins, ThingInv
  <2> QED BY <2>1, <2>2, <2>3 DEF Pins
<1>7. ASSUME Sent, trap' = "none" PROVE Sent'
  <2>1. index' = [index EXCEPT ![x] = "none"] /\ outgoing[x] = NoIndex
    BY <1>1, <1>2, <1>7 DEF Sent
  <2> QED BY <1>1, <1>7, <2>1, Types DEF Sent, ThingInv
<1> QED BY <1>1, <1>4, <1>5, <1>6, <1>7 DEF ThingInv, Proper

\* A thing with a handle is pinned, so that the finalizer finds none.
LEMMA CollectInv ==
  ASSUME IInv, NEW x \in Things, Collect(x)
  PROVE  IInv'
<1> USE Distinct, DistinctThings DEF IInv
<1>1. /\ trap = "none" /\ x \notin held \cup pinned /\ outgoing[x] = NoIndex
      /\ index' = [index EXCEPT ![x] = "freed"] /\ reaper' = [reaper EXCEPT ![x] = "dead"]
      /\ UNCHANGED <<borrowed, lent, refs, attr, fin, export, borrow, misuse>>
      /\ UNCHANGED <<writer, whole, source, total, saved, readerDropped, restored>>
      /\ UNCHANGED <<held, pinned, outgoing, owned, given>>
  BY DEF Collect, guestVars, writeVars
<1>2. index[x] \notin Indices /\ UNCHANGED <<slot, trap>>
  BY <1>1 DEF Collect, Pins, ThingInv
<1>3. ObjectInv'
  <2>1. TypeOK'
    BY <1>1, <1>2 DEF TypeOK, ObjectInv
  <2> QED BY <1>1, <1>2, <2>1, Frame
<1>4. /\ index' \in [Things -> Indices \cup {"unmade", "none", "freed"}]
      /\ reaper' \in [Things -> Indices \cup {"dead"}]
  BY <1>1 DEF ThingInv
<1>5. Pins'
  BY <1>1, <1>2, Types DEF Pins, Exists, ThingInv
<1>6. ASSUME Sent PROVE Sent'
  BY <1>1, <1>2, <1>6 DEF Sent, ThingInv
<1> QED BY <1>1, <1>2, <1>3, <1>4, <1>5, <1>6 DEF ThingInv, Proper

-----------------------------------------------------------------------------
(* The theorems.                                                           *)

LEMMA TableInv == TableSpec => []IInv
<1>1. TableInit => IInv
  BY InitObjects, InitThings DEF TableInit, IInv
<1>2. IInv /\ [TableNext]_<<vars, thingVars>> => IInv'
  <2> SUFFICES ASSUME IInv, [TableNext]_<<vars, thingVars>> PROVE IInv'
    OBVIOUS
  <2>1. CASE Next /\ UNCHANGED thingVars
    BY <2>1, NextObjects, NextThings DEF IInv
  <2>2. ASSUME NEW x \in Things,
               \/ MakeThing(x) \/ Take(x) \/ LeftUnread(x) \/ CallMethod(x)
               \/ HostDrops(x) \/ ForgetThing(x) \/ Collect(x)
               \/ \E i \in Indices : Lower(x, i) \/ GiveBack(x, i)
        PROVE  IInv'
    BY <2>2, QuietThingInv, TakeInv, CollectInv, LowerInv, GiveBackInv
  <2>3. CASE UNCHANGED <<vars, thingVars>>
    <3>1. /\ UNCHANGED <<slot, borrowed, lent, trap, refs, attr, fin, export, borrow, misuse>>
          /\ UNCHANGED <<writer, whole, source, total, saved, readerDropped, restored>>
          /\ UNCHANGED <<held, index, reaper, pinned, outgoing, owned, given>>
      BY <2>3 DEF vars, hostVars, guestVars, writeVars, thingVars
    <3>2. TypeOK' /\ Progress'
      BY <3>1 DEF IInv, ObjectInv, TypeOK, Progress
    <3>3. Finalizers' /\ Parameters' /\ BorrowsEnd'
      BY <3>1 DEF IInv, ObjectInv, Finalizers, Parameters, BorrowsEnd, Held
    <3>4. Denoted'
      BY <3>1 DEF IInv, ObjectInv, Denoted, Safe, InObjects, InCalls, InWrite
    <3>5. AllMinded'
      BY <3>1 DEF IInv, ObjectInv, AllMinded, Minded, Held
    <3>6. ThingInv'
      BY <3>1 DEF IInv, ThingInv, Pins, Exists, Sent, Proper
    <3> QED BY <3>2, <3>3, <3>4, <3>5, <3>6 DEF IInv, ObjectInv
  <2> QED BY <2>1, <2>2, <2>3 DEF TableNext
<1> QED BY <1>1, <1>2, PTL DEF TableSpec

\* The variables of the table always have their types.
THEOREM TypeCorrect == TableSpec => []TypeOK
<1>1. IInv => TypeOK
  BY DEF IInv, ObjectInv
<1> QED BY <1>1, TableInv, PTL

\* Unless a with block of a borrowed parameter was left early, the handle in an
\* object denotes the object's own resource, however often indices are reused, and
\* the finalizer has the same handle.
THEOREM HandlesDenoteTheirObjects == TableSpec => []HandleDenotes
<1>1. IInv => HandleDenotes
  BY DEF IInv, ObjectInv, Denoted, Safe, InObjects, Finalizers, HandleDenotes
<1> QED BY <1>1, TableInv, PTL

\* Whatever the application does, every handle has someone who drops or moves it.
THEOREM HandlesAreMinded == TableSpec => []NoHandleIsLost
<1>1. IInv => NoHandleIsLost
  <2> SUFFICES ASSUME IInv PROVE NoHandleIsLost
    OBVIOUS
  <2>1. writer = "copying" => DOMAIN saved = 1 .. Len(source)
    BY Types DEF IInv, ObjectInv, Progress
  <2> QED BY <2>1 DEF IInv, ObjectInv, AllMinded, Minded, NoHandleIsLost
<1> QED BY <1>1, TableInv, PTL

\* Whatever the application does, no borrow outlives its call.
THEOREM BorrowsAreReleased == TableSpec => []BorrowsEnd
<1>1. IInv => BorrowsEnd
  BY DEF IInv, ObjectInv
<1> QED BY <1>1, TableInv, PTL

\* The host and the table only know things that exist, and a thing that is sent out
\* is what its handle denotes, if the application owns what it sends.
THEOREM ThingsAreAlive == TableSpec => []ThingsAreWhatTheySeem
<1>1. IInv => ThingsAreWhatTheySeem
  BY DEF IInv, ThingInv, Pins, Proper, Sent, ThingsAreWhatTheySeem
<1> QED BY <1>1, TableInv, PTL

-----------------------------------------------------------------------------
(* An application that misuses nothing.                                    *)

\* A resource is in the table once, and what is being written is not written twice.
Single == \A i, k \in Indices : slot[i] = slot[k] /\ slot[i] \in Objects => i = k
Distinctive ==
  writer = "copying" \/ total > 0 =>
    \A j, k \in 1 .. Len(whole) : whole[j] = whole[k] => j = k

\* What is on loan or borrowed is still in its object.
Loans ==
  \A c \in Imports : lent[c] \in Indices =>
    slot[lent[c]] \in Objects /\ attr[slot[lent[c]]] = lent[c]
Lending == \A t \in Exports : export[t] = "running" => attr[borrow[t].value] = borrow[t].handle

\* What was delivered is gone for good, and what is left to write after a partial
\* write is the application's own again.
Gone(o) ==
  attr[o] \notin Indices /\ attr[o] # "unborn" /\ fin[o] = "dead" /\ \A i \in Indices : slot[i] # o
Delivered == \A j \in 1 .. total : Gone(whole[j])
Left ==
  writer = "writing" /\ total > 0 => \A j \in 1 .. Len(source) :
    /\ attr[source[j]] \in Indices
    /\ \A t \in Exports : export[t] = "running" => borrow[t].value # source[j]

Honoured == trap = "none" /\ Loans /\ Lending /\ Delivered /\ Left

Orderly == Single /\ Distinctive /\ (misuse = {} => Honoured)

LEMMA Lists ==
  ASSUME ObjectInv
  PROVE  /\ Len(whole) \in Nat /\ Len(source) \in Nat /\ total \in Nat
         /\ total + Len(source) = Len(whole)
         /\ \A j \in 1 .. total : j \in 1 .. Len(whole) /\ whole[j] \in Objects
         /\ \A j \in 1 .. Len(source) : source[j] \in Objects /\ source[j] = whole[total + j]
         /\ lent \in [Imports -> Indices \cup {NoIndex}]
<1>1. whole \in Seq(Objects) /\ total \in 0 .. Len(whole) /\ source \in Seq(Objects)
  BY DEF ObjectInv, TypeOK
<1>2. /\ total + Len(source) = Len(whole)
      /\ \A j \in 1 .. Len(source) : source[j] = whole[total + j]
  BY DEF ObjectInv, Progress
<1>3. Len(whole) \in Nat /\ Len(source) \in Nat /\ total \in Nat /\ total <= Len(whole)
  BY <1>1
<1>4. \A j \in 1 .. total : j \in 1 .. Len(whole) /\ whole[j] \in Objects
  BY <1>1, <1>3
<1>5. \A j \in 1 .. Len(source) : source[j] \in Objects
  BY <1>1
<1>6. lent \in [Imports -> Indices \cup {NoIndex}]
  BY DEF ObjectInv, TypeOK
<1> QED BY <1>2, <1>3, <1>4, <1>5, <1>6

\* What every step may rely on.
LEMMA Honest ==
  ASSUME ObjectInv, Orderly, misuse = {}
  PROVE  trap = "none" /\ Loans /\ Lending /\ Delivered /\ Left /\ InObjects /\ InCalls /\ InWrite
BY DEF Orderly, Honoured, ObjectInv, Denoted, Safe

\* Steps that only give handles up keep them apart.
LEMMA StillSingle ==
  ASSUME Orderly, \A k \in Indices : slot'[k] = slot[k] \/ slot'[k] \notin Objects
  PROVE  Single'
BY DEF Orderly, Single

LEMMA InitOrderly == Init => Orderly
<1> SUFFICES ASSUME Init PROVE Orderly
  OBVIOUS
<1> USE Distinct DEF Init
<1>1. Single /\ Distinctive
  BY DEF Single, Distinctive
<1>2. Loans /\ Lending /\ Delivered /\ Left
  BY DEF Loans, Lending, Delivered, Left
<1> QED BY <1>1, <1>2 DEF Orderly, Honoured

\* Steps that leave the objects and their handles alone.
LEMMA OrderlyFrame ==
  ASSUME ObjectInv, Orderly, misuse \subseteq misuse', misuse' = {} => trap' = "none",
         \A i \in Indices : slot'[i] = slot[i] \/ (slot[i] \notin Objects /\ slot'[i] \notin Objects),
         UNCHANGED <<attr, fin, export, borrow>>,
         UNCHANGED <<writer, whole, source, total>>,
         \A c \in Imports : \/ lent'[c] = lent[c] \/ lent'[c] = NoIndex
                            \/ slot[lent'[c]] \in Objects /\ attr[slot[lent'[c]]] = lent'[c]
  PROVE  Orderly'
<1> USE Distinct
<1>1. Single' /\ Distinctive'
  <2>1. Single'
    BY StillSingle
  <2> QED BY <2>1 DEF Orderly, Distinctive
<1>2. ASSUME misuse' = {} PROVE Honoured'
  <2>1. Loans /\ Lending /\ Delivered /\ Left /\ trap' = "none"
    BY <1>2, Honest
  <2>2. Loans'
    BY <2>1 DEF Loans
  <2>3. Lending' /\ Left'
    BY <2>1 DEF Lending, Left
  <2>4. Delivered'
    BY <2>1, Lists DEF Delivered, Gone
  <2> QED BY <2>1, <2>2, <2>3, <2>4 DEF Honoured
<1> QED BY <1>1, <1>2 DEF Orderly

LEMMA NewObjectOrderly ==
  ASSUME ObjectInv, Orderly, NEW o \in Objects, NEW i \in Indices,
         PushOwn(o, i) \/ \E t \in Exports : PushBorrow(t, o, i)
  PROVE  Orderly'
<1> USE Distinct
<1>1. /\ attr[o] = "unborn" /\ fin[o] = "dead" /\ slot[i] = NoObject /\ trap = "none"
      /\ \A k \in Indices : slot[k] # o
      /\ UNCHANGED <<lent, trap, misuse>> /\ UNCHANGED <<writer, whole, source, total>>
  BY DEF PushOwn, PushBorrow, NewObject, Finalizers, ObjectInv, writeVars
<1>2. /\ \A k \in Indices : slot'[k] = IF k = i THEN o ELSE slot[k]
      /\ \A x \in Objects : /\ attr'[x] = IF x = o THEN i ELSE attr[x]
                            /\ fin'[x] = IF x = o THEN i ELSE fin[x]
  BY Types DEF PushOwn, PushBorrow, NewObject
<1>3. \A t \in Exports : export'[t] = "running" =>
        \/ borrow'[t].value = o /\ borrow'[t].handle = i
        \/ export[t] = "running" /\ borrow'[t] = borrow[t]
  BY Types DEF PushOwn, PushBorrow
<1>4. Single' /\ Distinctive'
  <2>1. Single'
    BY <1>1, <1>2 DEF Orderly, Single
  <2> QED BY <1>1, <2>1 DEF Orderly, Distinctive
<1>5. ASSUME misuse' = {} PROVE Honoured'
  <2>1. Loans /\ Lending /\ Delivered /\ Left /\ trap' = "none"
    BY <1>1, <1>5, Honest
  <2>2. Loans'
    BY <1>1, <1>2, <2>1 DEF Loans
  <2>3. Lending'
    BY <1>1, <1>2, <1>3, <2>1 DEF Lending, Parameters, ObjectInv
  <2>4. Delivered'
    BY <1>1, <1>2, <2>1, Lists DEF Delivered, Gone
  <2>5. Left'
    <3> SUFFICES ASSUME writer = "writing", total > 0, NEW j \in 1 .. Len(source)
                 PROVE  /\ attr'[source[j]] \in Indices
                        /\ \A t \in Exports : export'[t] = "running" => borrow'[t].value # source[j]
      BY <1>1 DEF Left
    <3>1. /\ source[j] \in Objects /\ attr[source[j]] \in Indices
          /\ \A t \in Exports : export[t] = "running" => borrow[t].value # source[j]
      BY <2>1, Lists DEF Left
    <3> QED BY <1>1, <1>2, <1>3, <3>1
  <2> QED BY <2>1, <2>2, <2>3, <2>4, <2>5 DEF Honoured
<1> QED BY <1>4, <1>5 DEF Orderly

LEMMA ImportsOrderly ==
  ASSUME ObjectInv, Orderly, NEW c \in Imports,
         ImportReturns(c) \/ \E o \in Objects : CallImport(c, o)
  PROVE  Orderly'
<1> USE Distinct
<1>1. CASE ImportReturns(c)
  <2>1. /\ UNCHANGED <<slot, trap, attr, fin, export, borrow, misuse>> /\ UNCHANGED <<writer, whole, source, total>>
        /\ \A d \in Imports : lent'[d] \in {lent[d], NoIndex}
    BY <1>1, Lists DEF ImportReturns, guestVars, writeVars
  <2> QED BY <2>1, OrderlyFrame, Honest
<1>2. CASE \E o \in Objects : CallImport(c, o)
  <2> PICK o \in Objects : CallImport(c, o)
    BY <1>2
  <2>1. /\ misuse \subseteq misuse' /\ UNCHANGED <<slot, attr, fin, export, borrow>>
        /\ UNCHANGED <<writer, whole, source, total>>
    BY DEF CallImport, writeVars
  <2>2. CASE trap' = trap
    <3>1. attr[o] \in Indices /\ slot[attr[o]] \in Objects /\ lent' = [lent EXCEPT ![c] = attr[o]]
      BY <2>2 DEF CallImport
    <3>2. slot[attr[o]] = o \/ misuse' # {}
      BY <2>1, <3>1, Honest DEF InObjects
    <3>3. CASE misuse' # {}
      <4>1. Single' /\ Distinctive'
        BY <2>1, StillSingle DEF Orderly, Distinctive
      <4> QED BY <3>3, <4>1 DEF Orderly
    <3>4. CASE misuse' = {}
      <4>1. \A d \in Imports : \/ lent'[d] = lent[d] \/ lent'[d] = NoIndex
                               \/ slot[lent'[d]] \in Objects /\ attr[slot[lent'[d]]] = lent'[d]
        BY <3>1, <3>2, <3>4, Lists
      <4> QED BY <2>1, <2>2, <4>1, OrderlyFrame DEF CallImport
    <3> QED BY <3>3, <3>4
  <2>3. CASE trap' # trap
    <3>1. misuse' # {}
      <4> SUFFICES ASSUME misuse' = {} PROVE FALSE
        OBVIOUS
      <4>1. attr[o] \in Indices /\ slot[attr[o]] = o
        BY <2>1, Honest DEF CallImport, InObjects
      <4> QED BY <2>3, <4>1 DEF CallImport
    <3>2. Single' /\ Distinctive'
      BY <2>1, StillSingle DEF Orderly, Distinctive
    <3> QED BY <3>1, <3>2 DEF Orderly
  <2> QED BY <2>2, <2>3
<1> QED BY <1>1, <1>2

\* An object that gives up its handle: in __exit__, in its finalizer, as an own
\* handle that goes out, and as a borrow that is released.
LEMMA Retired ==
  ASSUME ObjectInv, Orderly, NEW o \in Objects, NEW a \in {"none", "deleted"},
         \A x \in Objects : attr'[x] = IF x = o THEN a ELSE attr[x],
         \A x \in Objects : fin'[x] = IF x = o THEN "dead" ELSE fin[x],
         \A k \in Indices : slot'[k] = slot[k] \/ slot'[k] \notin Objects,
         misuse \subseteq misuse', misuse' = {} => trap' = "none",
         misuse' = {} => \A c \in Imports : lent[c] \in Indices =>
                           slot[lent[c]] # o /\ slot'[lent[c]] = slot[lent[c]],
         misuse' = {} => \A t \in Exports : export'[t] = "running" =>
                           /\ export[t] = "running" /\ borrow'[t] = borrow[t]
                           /\ borrow[t].value # o,
         misuse' = {} /\ writer = "writing" /\ total > 0 =>
           \A j \in 1 .. Len(source) : source[j] # o,
         UNCHANGED <<lent, writer, whole, source, total>>
  PROVE  Orderly'
<1> USE Distinct
<1>1. a \notin Indices /\ a # "unborn"
  OBVIOUS
<1>2. Single' /\ Distinctive'
  BY StillSingle DEF Orderly, Distinctive
<1>3. ASSUME misuse' = {} PROVE Honoured'
  <2>1. Loans /\ Lending /\ Delivered /\ Left /\ trap' = "none"
    BY <1>3, Honest
  <2>2. Loans'
    BY <1>3, <2>1, Lists DEF Loans
  <2>3. Lending'
    BY <1>3, <2>1 DEF Lending, Parameters, ObjectInv
  <2>4. Delivered'
    BY <1>1, <2>1, Lists DEF Delivered, Gone
  <2>5. Left'
    <3> SUFFICES ASSUME writer = "writing", total > 0, NEW j \in 1 .. Len(source)
                 PROVE  /\ attr'[source[j]] \in Indices
                        /\ \A t \in Exports : export'[t] = "running" => borrow'[t].value # source[j]
      BY DEF Left
    <3>1. source[j] # o /\ source[j] \in Objects
      BY <1>3, Lists
    <3> QED BY <1>3, <2>1, <3>1 DEF Left
  <2> QED BY <2>1, <2>2, <2>3, <2>4, <2>5 DEF Honoured
<1> QED BY <1>2, <1>3 DEF Orderly

LEMMA ExportReturnsOrderly ==
  ASSUME ObjectInv, Orderly, NEW t \in Exports, ExportReturns(t)
  PROVE  Orderly'
<1> USE Distinct
<1> DEFINE o == borrow[t].value
           i == borrow[t].handle
<1>1. /\ trap = "none" /\ export[t] = "running" /\ misuse \subseteq misuse'
      /\ o \in Objects /\ i \in Indices /\ (misuse' = {} => ~Lent(i))
      /\ \A u \in Exports : export'[u] = IF u = t THEN "returned" ELSE export[u]
      /\ UNCHANGED <<lent, borrow, writer, whole, source, total>>
  BY Types DEF ExportReturns, Parameters, ObjectInv, writeVars
<1>2. misuse' = {} => attr[o] = i /\ slot[i] = o
  BY <1>1, Honest DEF Lending, InCalls
<1>3. CASE attr[o] = "deleted"
  <2>1. UNCHANGED slot
    BY <1>3 DEF ExportReturns, ReleaseBorrows
  <2>2. Single' /\ Distinctive'
    BY <1>1, <2>1, StillSingle DEF Orderly, Distinctive
  <2> QED BY <1>1, <1>2, <1>3, <2>2 DEF Orderly
<1>4. CASE attr[o] # "deleted"
  <2>1. /\ Drop(i)
        /\ \A x \in Objects : /\ attr'[x] = IF x = o THEN "deleted" ELSE attr[x]
                              /\ fin'[x] = IF x = o THEN "dead" ELSE fin[x]
    BY <1>1, <1>4, Types DEF ExportReturns, ReleaseBorrows, DetachReleased
  <2> HIDE DEF o, i
  <2>2. misuse' = {} => trap' = "none"
    BY <1>1, <1>2, <2>1 DEF Drop
  <2>3. \A k \in Indices : slot'[k] = slot[k] \/ (k = i /\ slot'[k] \notin Objects)
    BY <1>1, <2>1, Dropped
  <2>4. misuse' = {} => \A c \in Imports : lent[c] \in Indices =>
                          slot[lent[c]] # o /\ slot'[lent[c]] = slot[lent[c]]
    BY <1>1, <1>2, <2>3, Honest DEF Loans, Lent
  <2>5. \A u \in Exports : export'[u] = "running" =>
          export[u] = "running" /\ borrow'[u] = borrow[u] /\ borrow[u].value # o
    BY <1>1 DEF Parameters, ObjectInv, o
  <2>6. misuse' = {} /\ writer = "writing" /\ total > 0 =>
          \A j \in 1 .. Len(source) : source[j] # o
    BY <1>1, Honest DEF Left, o
  <2> QED BY <1>1, <2>1, <2>2, <2>3, <2>4, <2>5, <2>6, Retired
<1> QED BY <1>3, <1>4

LEMMA ForgetOrderly ==
  ASSUME ObjectInv, Orderly, NEW o \in Objects, Forget(o)
  PROVE  Orderly'
<1>1. /\ UNCHANGED <<slot, trap, attr, fin, export, borrow, misuse, lent>>
      /\ UNCHANGED <<writer, whole, source, total>>
  BY DEF Forget, hostVars, writeVars
<1> QED BY <1>1, OrderlyFrame, Honest

\* What is listed for the write in progress.
LEMMA NotListed ==
  ASSUME ObjectInv, NEW o \in Objects, ~Listed(o), writer = "writing"
  PROVE  \A j \in 1 .. Len(source) : source[j] # o
<1>1. \A j \in 1 .. Len(source) : source[j] \in Range(source)
  BY Types DEF Range
<1> QED BY <1>1 DEF Listed

LEMMA PopOwnOrderly ==
  ASSUME ObjectInv, Orderly, NEW o \in Objects, PopOwn(o)
  PROVE  Orderly'
<1> USE Distinct
<1>1. /\ misuse \subseteq misuse'
      /\ UNCHANGED <<borrowed, lent, export, borrow, writer, whole, source, total>>
  BY DEF PopOwn, Panic, writeVars
<1>2. CASE attr[o] \notin Indices
  <2>1. misuse' # {} /\ UNCHANGED slot
    BY <1>2 DEF PopOwn, Panic
  <2>2. Single' /\ Distinctive'
    BY <1>1, <2>1, StillSingle DEF Orderly, Distinctive
  <2> QED BY <2>1, <2>2 DEF Orderly
<1>3. CASE attr[o] \in Indices
  <2> DEFINE i == attr[o]
  <2>1. /\ i \in Indices /\ attr[o] = i /\ Lift({i})
        /\ \A x \in Objects : /\ attr'[x] = IF x = o THEN "deleted" ELSE attr[x]
                              /\ fin'[x] = IF x = o THEN "dead" ELSE fin[x]
        /\ misuse' = {} => i \notin borrowed /\ ~Lent(i) /\ ~Listed(o)
    BY <1>3 DEF PopOwn, Erase, Detach
  <2> HIDE DEF i
  <2>2. misuse' = {} => slot[i] = o
    BY <1>1, <2>1, Honest DEF InObjects
  <2>3. misuse' = {} => trap' = "none"
    BY <1>1, <2>1, <2>2, Honest DEF Lift
  <2>4. \A k \in Indices : slot'[k] = slot[k] \/ (k = i /\ slot'[k] \notin Objects)
    BY <2>1, Lifted
  <2>5. misuse' = {} => \A c \in Imports : lent[c] \in Indices =>
                          slot[lent[c]] # o /\ slot'[lent[c]] = slot[lent[c]]
    BY <1>1, <2>1, <2>4, Honest DEF Loans, Lent
  <2>6. misuse' = {} => \A t \in Exports : export'[t] = "running" =>
                          export[t] = "running" /\ borrow'[t] = borrow[t] /\ borrow[t].value # o
    BY <1>1, <2>1, Honest DEF Lending, InCalls
  <2>7. misuse' = {} /\ writer = "writing" /\ total > 0 =>
          \A j \in 1 .. Len(source) : source[j] # o
    BY <2>1, NotListed
  <2> QED BY <1>1, <2>1, <2>3, <2>4, <2>5, <2>6, <2>7, Retired
<1> QED BY <1>2, <1>3

LEMMA ReapedOrderly ==
  ASSUME ObjectInv, Orderly, NEW o \in Objects, NEW a \in {"none", "deleted"},
         \A x \in Objects : attr'[x] = IF x = o THEN a ELSE attr[x],
         \A x \in Objects : fin'[x] = IF x = o THEN "dead" ELSE fin[x],
         fin[o] \in Indices => Drop(fin[o]),
         fin[o] \notin Indices => UNCHANGED <<slot, trap>>,
         misuse \subseteq misuse',
         misuse' = {} => \A c \in Imports : lent[c] \in Indices =>
                           lent[c] # attr[o] \/ slot[lent[c]] # o,
         misuse' = {} => \A t \in Exports : export[t] = "running" => borrow[t].value # o,
         misuse' = {} => ~Listed(o),
         UNCHANGED <<lent, export, borrow, writer, whole, source, total>>
  PROVE  Orderly'
<1> USE Distinct
<1>1. misuse' = {} => /\ trap = "none" /\ (fin[o] \in Indices => attr[o] = fin[o] /\ slot[fin[o]] = o)
                      /\ \A c \in Imports : lent[c] \in Indices =>
                           slot[lent[c]] # o /\ (fin[o] \in Indices => lent[c] # fin[o])
  BY Honest DEF Loans, InObjects, Finalizers, ObjectInv
<1>2. misuse' = {} => trap' = "none"
  <2>1. misuse' = {} /\ fin[o] \in Indices => ~Lent(fin[o])
    BY <1>1 DEF Lent
  <2> QED BY <1>1, <2>1 DEF Drop
<1>3. \A k \in Indices : slot'[k] = slot[k] \/ (k = fin[o] /\ slot'[k] \notin Objects)
  <2>1. CASE fin[o] \in Indices
    BY <2>1, Dropped
  <2>2. CASE fin[o] \notin Indices
    BY <2>2
  <2> QED BY <2>1, <2>2
<1>4. misuse' = {} => \A c \in Imports : lent[c] \in Indices =>
                        slot[lent[c]] # o /\ slot'[lent[c]] = slot[lent[c]]
  BY <1>1, <1>3
<1>5. misuse' = {} /\ writer = "writing" /\ total > 0 =>
        \A j \in 1 .. Len(source) : source[j] # o
  BY NotListed
<1> QED BY <1>2, <1>3, <1>4, <1>5, Retired

LEMMA ExitOrderly ==
  ASSUME ObjectInv, Orderly, NEW o \in Objects, Exit(o)
  PROVE  Orderly'
<1>1. /\ misuse \subseteq misuse'
      /\ attr' = [attr EXCEPT ![o] = "none"] /\ fin' = [fin EXCEPT ![o] = "dead"]
      /\ fin[o] \in Indices => Drop(fin[o])
      /\ fin[o] \notin Indices => UNCHANGED <<slot, trap>>
      /\ misuse' = {} => ~Held(attr[o]) /\ ~Lent(attr[o]) /\ ~Listed(o)
      /\ UNCHANGED <<lent, export, borrow, writer, whole, source, total>>
  BY DEF Exit, writeVars
<1>2. misuse' = {} => \A t \in Exports : export[t] = "running" => borrow[t].value # o
  BY <1>1, Honest DEF Held, Lending
<1>3. misuse' = {} => \A c \in Imports : lent[c] # attr[o]
  BY <1>1 DEF Lent
<1>4. \A x \in Objects : /\ attr'[x] = IF x = o THEN "none" ELSE attr[x]
                         /\ fin'[x] = IF x = o THEN "dead" ELSE fin[x]
  BY <1>1, Types
<1> QED BY <1>1, <1>2, <1>3, <1>4, ReapedOrderly

\* The interpreter does not free what an import, an export or a write still uses.
LEMMA FinalizeOrderly ==
  ASSUME ObjectInv, Orderly, NEW o \in Objects, Finalize(o)
  PROVE  Orderly'
<1> USE Distinct
<1>1. /\ misuse' = misuse /\ ~Kept(o)
      /\ attr' = [x \in Objects |-> IF x \in {o} THEN "deleted" ELSE attr[x]]
      /\ fin' = [fin EXCEPT ![o] = "dead"]
      /\ fin[o] \in Indices => Drop(fin[o])
      /\ fin[o] \notin Indices => UNCHANGED <<slot, trap>>
      /\ UNCHANGED <<lent, export, borrow, writer, whole, source, total>>
  BY DEF Finalize, Erase, writeVars
<1>2. /\ \A t \in Exports : export[t] = "running" => borrow[t].value # o
      /\ \A c \in Imports : lent[c] \in Indices => slot[lent[c]] # o
      /\ ~Listed(o)
  BY <1>1 DEF Kept
<1>3. \A x \in Objects : /\ attr'[x] = IF x = o THEN "deleted" ELSE attr[x]
                         /\ fin'[x] = IF x = o THEN "dead" ELSE fin[x]
  BY <1>1, Types
<1> QED BY <1>1, <1>2, <1>3, ReapedOrderly

LEMMA WriteAllOrderly ==
  ASSUME ObjectInv, Orderly,
         WriteAllReturns \/ \E b \in Batches : WriteAll(b)
  PROVE  Orderly'
<1>1. /\ total' = total /\ writer' # "copying" /\ (writer' = "writing" => total = 0)
      /\ total = 0 \/ whole' = whole
      /\ UNCHANGED <<slot, trap, lent, attr, fin, export, borrow, misuse>>
  BY DEF WriteAll, WriteAllReturns, hostVars, guestVars, Progress, ObjectInv
<1>2. Single' /\ Distinctive'
  <2>1. Single'
    BY <1>1, StillSingle
  <2>2. Distinctive'
    BY <1>1, Lists DEF Orderly, Distinctive
  <2> QED BY <2>1, <2>2
<1>3. ASSUME misuse' = {} PROVE Honoured'
  <2>1. Loans /\ Lending /\ Delivered /\ trap' = "none"
    BY <1>1, <1>3, Honest
  <2>2. Loans' /\ Lending'
    BY <1>1, <2>1 DEF Loans, Lending
  <2>3. Delivered'
    <3>1. CASE total = 0
      BY <1>1, <3>1 DEF Delivered
    <3>2. CASE whole' = whole
      BY <1>1, <2>1, <3>2 DEF Delivered, Gone
    <3> QED BY <1>1, <3>1, <3>2
  <2>4. Left'
    BY <1>1 DEF Left
  <2> QED BY <2>1, <2>2, <2>3, <2>4 DEF Honoured
<1> QED BY <1>2, <1>3 DEF Orderly

LEMMA WriteOrderly ==
  ASSUME ObjectInv, Orderly, Write
  PROVE  Orderly'
<1> USE Distinct
<1>1. /\ misuse \subseteq misuse' /\ writer = "writing"
      /\ UNCHANGED <<slot, lent, export, borrow, whole, source, total>>
  BY DEF Write, Panic
<1>2. Single'
  BY <1>1, StillSingle
<1>3. CASE ~CanLower(source)
  <2>1. misuse' # {} /\ UNCHANGED writer
    BY <1>3 DEF Write, Panic
  <2> QED BY <1>1, <1>2, <2>1 DEF Orderly, Distinctive
<1>4. CASE CanLower(source)
  <2>1. /\ \A j, k \in 1 .. Len(source) : source[j] = source[k] => j = k
        /\ \A x \in Range(source) : attr[x] \in Indices
    BY <1>4, Types DEF CanLower, IsInjective
  <2>2. /\ writer' = "copying" /\ UNCHANGED trap
        /\ \A x \in Objects : /\ attr'[x] = IF x \in Range(source) THEN "deleted" ELSE attr[x]
                              /\ fin'[x] = IF x \in Range(source) THEN "dead" ELSE fin[x]
        /\ misuse' = {} => \A x \in Range(source) : attr[x] \notin borrowed /\ ~Lent(attr[x])
    BY <1>4 DEF Write, Erase, Detach
  <2>3. Distinctive'
    <3>1. CASE total > 0
      BY <1>1, <3>1 DEF Orderly, Distinctive
    <3>2. CASE ~(total > 0)
      <4>1. total = 0 /\ Len(source) = Len(whole)
        BY <3>2, Lists
      <4>2. \A j \in 1 .. Len(whole) : source[j] = whole[j]
        BY <4>1, Lists
      <4> QED BY <1>1, <2>1, <4>1, <4>2 DEF Distinctive
    <3> QED BY <3>1, <3>2
  <2>4. ASSUME misuse' = {} PROVE Honoured'
    <3>1. Loans /\ Lending /\ Delivered /\ InCalls /\ trap' = "none"
      BY <1>1, <2>2, <2>4, Honest
    <3>2. Loans'
      BY <1>1, <2>2, <2>4, <3>1 DEF Loans, Lent
    <3>3. Lending'
      <4>1. \A t \in Exports : export[t] = "running" =>
              borrow[t].value \in Objects /\ borrow[t].value \notin Range(source)
        BY <2>2, <2>4, <3>1 DEF Lending, InCalls, Parameters, ObjectInv
      <4> QED BY <1>1, <2>2, <3>1, <4>1 DEF Lending
    <3>4. Delivered'
      BY <1>1, <2>2, <3>1, Lists DEF Delivered, Gone
    <3>5. Left'
      BY <2>2 DEF Left
    <3> QED BY <3>1, <3>2, <3>3, <3>4, <3>5 DEF Honoured
  <2> QED BY <1>2, <2>3, <2>4 DEF Orderly
<1> QED BY <1>3, <1>4

\* What was read has left its object for good; what was not read has its handle again.
LEMMA Settled ==
  ASSUME ObjectInv, NEW n \in 0 .. Len(source), NEW dropped \in BOOLEAN, Settle(n, dropped)
  PROVE  /\ \A j \in n + 1 .. Len(source) : attr'[source[j]] = saved[j]
         /\ \A x \in Objects : (\A j \in n + 1 .. Len(source) : source[j] # x) =>
              attr'[x] = attr[x] /\ fin'[x] = fin[x]
         /\ \A j, k \in 1 .. Len(source) : source[j] = source[k] => j = k
<1> DEFINE unread == {j \in DOMAIN source : j >= n + 1}
           back == {source[j] : j \in unread}
           handleOf == [o \in back |-> saved[CHOOSE j \in unread : source[j] = o]]
<1>1. DOMAIN source = 1 .. Len(source) /\ Len(source) \in Nat /\ IsInjective(source)
  BY Types DEF Settle, Progress, ObjectInv
<1>2. \A j, k \in 1 .. Len(source) : source[j] = source[k] => j = k
  BY <1>1 DEF IsInjective
<1>3. \A j \in 1 .. Len(source) : j \in unread <=> j \in n + 1 .. Len(source)
  BY <1>1
<1>4. \A j \in n + 1 .. Len(source) : j \in 1 .. Len(source) /\ j \in unread
  BY <1>1
<1>5. /\ attr' = [o \in Objects |-> IF o \in back THEN handleOf[o] ELSE attr[o]]
      /\ fin' = [o \in Objects |-> IF o \in back THEN "malformed" ELSE fin[o]]
  BY DEF Settle, FirstUnread, Restored
<1>6. \A j \in unread : handleOf[source[j]] = saved[j]
  <2> SUFFICES ASSUME NEW j \in unread PROVE handleOf[source[j]] = saved[j]
    OBVIOUS
  <2>1. \A k \in unread : source[k] = source[j] => k = j
    BY <1>1, <1>2
  <2> QED BY <2>1
<1>7. \A x \in back : \E j \in n + 1 .. Len(source) : source[j] = x
  BY <1>1, <1>3
<1>8. \A j \in n + 1 .. Len(source) : source[j] \in back /\ source[j] \in Objects
  BY <1>4, Types
<1> HIDE DEF unread, back, handleOf
<1>9. \A j \in n + 1 .. Len(source) : attr'[source[j]] = saved[j]
  BY <1>4, <1>5, <1>6, <1>8
<1>10. \A x \in Objects : (\A j \in n + 1 .. Len(source) : source[j] # x) =>
         attr'[x] = attr[x] /\ fin'[x] = fin[x]
  BY <1>5, <1>7
<1> QED BY <1>2, <1>9, <1>10

LEMMA SettleOrderly ==
  ASSUME ObjectInv, Orderly, NEW n \in 0 .. Len(source), NEW dropped \in BOOLEAN, Settle(n, dropped)
  PROVE  Orderly'
<1> USE Distinct
<1> DEFINE m == Len(source)
           moved == {saved[j] : j \in 1 .. n}
<1>1. /\ trap = "none" /\ writer = "copying" /\ writer' = "writing"
      /\ total' = total + n /\ Lift(moved)
      /\ UNCHANGED <<lent, export, borrow, misuse, whole>>
  BY DEF Settle
<1>2. /\ m \in Nat /\ n \in Nat /\ n <= m /\ total \in Nat /\ total + m = Len(whole)
      /\ \A j \in 1 .. m : /\ source[j] \in Objects /\ source[j] = whole[total + j]
                           /\ saved[j] \in Indices
      /\ \A k \in 1 .. total : k \in 1 .. Len(whole) /\ whole[k] \in Objects
  <2>1. \A j \in 1 .. m : saved[j] \in Indices
    BY <1>1, Types
  <2> QED BY <2>1, Lists
<1>3. /\ Len(source') = m - n
      /\ \A j \in 1 .. m - n : source'[j] = source[n + j]
  <2>1. ObjectInv'
    BY SettleInv
  <2>2. /\ total' + Len(source') = Len(whole)
        /\ \A j \in 1 .. Len(source') : source'[j] = whole[total' + j]
    BY <1>1, <2>1 DEF Progress, ObjectInv
  <2>3. Len(source') \in Nat
    <3>1. source' \in Seq(Objects)
      BY <2>1 DEF TypeOK, ObjectInv
    <3> QED BY <3>1
  <2>4. Len(source') = m - n
    BY <1>1, <1>2, <2>2, <2>3
  <2>5. ASSUME NEW j \in 1 .. m - n PROVE source'[j] = source[n + j]
    <3>1. n + j \in 1 .. m /\ (total + n) + j = total + (n + j)
      BY <1>2
    <3> QED BY <1>1, <1>2, <2>2, <2>4, <3>1
  <2> QED BY <2>4, <2>5
<1>4. \A j \in 1 .. n : j \in 1 .. m /\ total + j \in 1 .. Len(whole)
  BY <1>2
<1>5. moved \in SUBSET Indices
  BY <1>2, <1>4
<1>6. /\ \A j \in n + 1 .. m : attr'[source[j]] = saved[j]
      /\ \A x \in Objects : (\A j \in n + 1 .. m : source[j] # x) => attr'[x] = attr[x] /\ fin'[x] = fin[x]
      /\ \A j, k \in 1 .. m : source[j] = source[k] => j = k
  BY Settled
<1>7. /\ \A i \in moved : \E j \in 1 .. n : saved[j] = i
      /\ \A j \in 1 .. n : saved[j] \in moved
      /\ \A j \in n + 1 .. m : j \in 1 .. m
  BY <1>2
<1> HIDE DEF m, moved
<1>8. /\ \A k \in Indices : slot'[k] = slot[k] \/ slot'[k] \notin Objects
      /\ \A k \in Indices : k \notin moved => slot'[k] = slot[k] \/ trap' # "none"
      /\ \A k \in moved : slot'[k] = NoObject \/ trap' # "none"
  BY <1>1, <1>5, Lifted
<1>9. Single' /\ Distinctive'
  <2>1. Single'
    BY <1>8, StillSingle
  <2> QED BY <1>1, <2>1 DEF Orderly, Distinctive
<1>10. ASSUME misuse' = {} PROVE Honoured'
  <2>1. /\ Loans /\ Lending /\ Delivered /\ InCalls /\ InObjects
        /\ \A j \in 1 .. m : /\ slot[saved[j]] = source[j]
                             /\ attr[source[j]] = "deleted" /\ fin[source[j]] = "dead"
    BY <1>1, <1>10, Honest DEF InWrite, m
  <2>2. \A c \in Imports : lent[c] \in Indices =>
          lent[c] \notin moved /\ \A j \in 1 .. m : slot[lent[c]] # source[j]
    BY <1>4, <1>7, <2>1 DEF Loans
  <2>3. \A t \in Exports : export[t] = "running" =>
          \A j \in 1 .. m : borrow[t].value # source[j]
    BY <2>1 DEF Lending, Parameters, ObjectInv
  <2>4. \A i \in moved : slot[i] \in Objects /\ i \notin borrowed /\ ~Lent(i)
    <3> SUFFICES ASSUME NEW i \in moved PROVE slot[i] \in Objects /\ i \notin borrowed /\ ~Lent(i)
      OBVIOUS
    <3>1. PICK j \in 1 .. n : saved[j] = i
      BY <1>7
    <3>2. slot[i] = source[j] /\ source[j] \in Objects
      BY <1>2, <1>4, <2>1, <3>1
    <3>3. i \notin borrowed
      <4> SUFFICES ASSUME i \in borrowed PROVE FALSE
        OBVIOUS
      <4>1. PICK t \in Exports : export[t] = "running" /\ borrow[t].handle = i
        BY <1>1 DEF BorrowsEnd, Held, ObjectInv
      <4>2. borrow[t].value = source[j]
        BY <2>1, <3>2, <4>1 DEF InCalls
      <4> QED BY <1>4, <2>3, <4>1, <4>2
    <3> QED BY <1>5, <2>2, <3>2, <3>3 DEF Lent
  <2>5. trap' = "none"
    BY <1>1, <2>4 DEF Lift
  <2>6. Loans'
    <3> SUFFICES ASSUME NEW c \in Imports, lent[c] \in Indices
                 PROVE  slot'[lent[c]] \in Objects /\ attr'[slot'[lent[c]]] = lent[c]
      BY <1>1 DEF Loans
    <3>1. slot[lent[c]] \in Objects /\ attr[slot[lent[c]]] = lent[c] /\ slot'[lent[c]] = slot[lent[c]]
      BY <1>8, <2>1, <2>2, <2>5 DEF Loans
    <3>2. \A j \in n + 1 .. m : source[j] # slot[lent[c]]
      BY <1>7, <2>2
    <3> QED BY <1>6, <3>1, <3>2
  <2>7. Lending'
    <3> SUFFICES ASSUME NEW t \in Exports, export[t] = "running"
                 PROVE  attr'[borrow[t].value] = borrow[t].handle
      BY <1>1 DEF Lending
    <3>1. borrow[t].value \in Objects /\ \A j \in n + 1 .. m : source[j] # borrow[t].value
      BY <1>7, <2>3 DEF Parameters, ObjectInv
    <3> QED BY <1>6, <2>1, <3>1 DEF Lending
  <2>8. Delivered'
    <3> SUFFICES ASSUME NEW k \in 1 .. total + n PROVE Gone(whole[k])'
      BY <1>1 DEF Delivered
    <3>1. k \in 1 .. Len(whole) /\ \A j \in n + 1 .. m : total + j \in 1 .. Len(whole) /\ total + j # k
      BY <1>2
    <3>2. \A j \in n + 1 .. m : source[j] # whole[k]
      BY <1>1, <1>2, <1>7, <3>1 DEF Orderly, Distinctive
    <3>3. CASE k <= total
      <4>1. Gone(whole[k]) /\ whole[k] \in Objects
        BY <1>2, <2>1, <3>3 DEF Delivered
      <4>2. \A i \in Indices : slot'[i] # whole[k]
        BY <1>8, <4>1 DEF Gone
      <4> QED BY <1>1, <1>6, <3>2, <4>1, <4>2 DEF Gone
    <3>4. CASE ~(k <= total)
      <4>1. k - total \in 1 .. n /\ total + (k - total) = k
        BY <1>2, <3>4
      <4>2. PICK j \in 1 .. n : k = total + j
        BY <4>1
      <4>3. j \in 1 .. m /\ source[j] = whole[k] /\ whole[k] \in Objects
        BY <1>2, <1>4, <4>2
      <4>4. attr'[whole[k]] = "deleted" /\ fin'[whole[k]] = "dead"
        BY <1>6, <2>1, <3>2, <4>3
      <4>5. \A i \in Indices : slot'[i] # whole[k]
        <5> SUFFICES ASSUME NEW i \in Indices, slot'[i] = whole[k] PROVE FALSE
          OBVIOUS
        <5>1. slot[i] = whole[k] /\ slot[saved[j]] = whole[k] /\ saved[j] \in Indices
          BY <1>2, <1>8, <2>1, <4>3
        <5>2. i = saved[j]
          BY <4>3, <5>1 DEF Orderly, Single
        <5>3. slot'[i] = NoObject
          BY <1>7, <1>8, <2>5, <5>2
        <5> QED BY <4>3, <5>3
      <4> QED BY <1>1, <4>4, <4>5 DEF Gone
    <3> QED BY <3>3, <3>4
  <2>9. Left'
    <3> SUFFICES ASSUME NEW j \in 1 .. m - n
                 PROVE  /\ attr'[source'[j]] \in Indices
                        /\ \A t \in Exports : export[t] = "running" => borrow[t].value # source'[j]
      BY <1>1, <1>3 DEF Left
    <3>1. n + j \in n + 1 .. m /\ n + j \in 1 .. m /\ source'[j] = source[n + j]
      BY <1>2, <1>3
    <3> QED BY <1>2, <1>6, <2>3, <3>1
  <2> QED BY <2>5, <2>6, <2>7, <2>8, <2>9 DEF Honoured
<1> QED BY <1>9, <1>10 DEF Orderly

LEMMA NextOrderly == ASSUME ObjectInv, Orderly, Next PROVE Orderly'
<1>1. ASSUME NEW o \in Objects,
             \/ \E i \in Indices : PushOwn(o, i) \/ \E t \in Exports : PushBorrow(t, o, i)
             \/ PopOwn(o) \/ Exit(o) \/ Forget(o) \/ Finalize(o)
      PROVE  Orderly'
  BY <1>1, NewObjectOrderly, PopOwnOrderly, ExitOrderly, ForgetOrderly, FinalizeOrderly
<1>2. ASSUME NEW c \in Imports, ImportReturns(c) \/ \E o \in Objects : CallImport(c, o)
      PROVE  Orderly'
  BY <1>2, ImportsOrderly
<1> QED BY <1>1, <1>2, ExportReturnsOrderly, WriteAllOrderly, WriteOrderly, SettleOrderly DEF Next

\* The host owns only what it has a handle for.
Marked == misuse = {} => \A x \in owned : index[x] \in Indices

OrderlyInv == IInv /\ Orderly /\ Marked

LEMMA QuietThingOrderly ==
  ASSUME OrderlyInv, NEW x \in Things,
         \/ MakeThing(x) \/ LeftUnread(x) \/ CallMethod(x)
         \/ HostDrops(x) \/ ForgetThing(x) \/ Collect(x)
  PROVE  Orderly' /\ Marked'
<1> USE Distinct, DistinctThings DEF OrderlyInv, IInv
<1>1. /\ UNCHANGED <<lent, attr, fin, export, borrow, misuse>>
      /\ UNCHANGED <<writer, whole, source, total>>
  BY DEF MakeThing, LeftUnread, CallMethod, HostDrops, ForgetThing, Collect, vars, hostVars,
         guestVars, writeVars
<1>2. UNCHANGED <<slot, trap>>
  <2>1. CASE Collect(x)
    BY <2>1 DEF Collect, Pins, ThingInv
  <2>2. CASE ~Collect(x)
    BY <2>2 DEF MakeThing, LeftUnread, CallMethod, HostDrops, ForgetThing, vars, hostVars
  <2> QED BY <2>1, <2>2
<1>3. Orderly'
  BY <1>1, <1>2, OrderlyFrame, Honest
<1>4. Marked'
  <2>1. owned' \subseteq owned
    BY DEF MakeThing, LeftUnread, CallMethod, HostDrops, ForgetThing, Collect
  <2>2. \A y \in Things : y # x => index'[y] = index[y]
    BY DEF MakeThing, LeftUnread, CallMethod, HostDrops, ForgetThing, Collect, ThingInv
  <2>3. misuse = {} /\ x \in owned => index'[x] = index[x]
    <3>1. x \in owned => x \in pinned
      BY DEF Pins, ThingInv
    <3> QED BY <3>1 DEF MakeThing, LeftUnread, CallMethod, HostDrops, ForgetThing, Collect,
                        Marked
  <2>4. owned \subseteq Things
    BY DEF Pins, ThingInv
  <2> QED BY <1>1, <2>1, <2>2, <2>3, <2>4 DEF Marked
<1> QED BY <1>3, <1>4

LEMMA LowerOrderly ==
  ASSUME OrderlyInv, NEW x \in Things, NEW i \in Indices, Lower(x, i)
  PROVE  Orderly' /\ Marked'
<1> USE Distinct, DistinctThings DEF OrderlyInv, IInv
<1>1. /\ misuse \subseteq misuse' /\ UNCHANGED <<lent, trap, attr, fin, export, borrow, owned>>
      /\ UNCHANGED <<writer, whole, source, total>>
      /\ \A k \in Indices : slot'[k] = slot[k] \/ (slot[k] \notin Objects /\ slot'[k] \notin Objects)
  BY Types DEF Lower, writeVars
<1>2. Orderly'
  BY <1>1, OrderlyFrame, Honest
<1>3. \A y \in Things : index[y] \in Indices => index'[y] \in Indices
  BY DEF Lower, ThingInv
<1> QED BY <1>1, <1>2, <1>3 DEF Marked, Pins, ThingInv

\* The handle that was sent out denotes its thing, so that the host can take it.
LEMMA TakeOrderly ==
  ASSUME OrderlyInv, NEW x \in Things, Take(x)
  PROVE  Orderly' /\ Marked'
<1> USE Distinct, DistinctThings DEF OrderlyInv, IInv
<1>1. /\ UNCHANGED <<lent, attr, fin, export, borrow, misuse, index>>
      /\ UNCHANGED <<writer, whole, source, total>>
      /\ outgoing[x] # NoIndex /\ outgoing[x] \in Indices
  BY DEF Take, guestVars, writeVars, ThingInv
<1>2. \A k \in Indices : slot'[k] = slot[k] \/ (slot[k] \notin Objects /\ slot'[k] \notin Objects)
  BY <1>1, Types DEF Take
<1>3. misuse = {} => /\ UNCHANGED trap /\ trap = "none" /\ owned' = owned \cup {x}
                     /\ index[x] \in Indices
  <2> SUFFICES ASSUME misuse = {}
               PROVE  UNCHANGED trap /\ trap = "none" /\ owned' = owned \cup {x} /\ index[x] \in Indices
    OBVIOUS
  <2>1. trap = "none" /\ Sent
    BY Honest DEF ThingInv, Proper
  <2>2. slot[outgoing[x]] = x /\ index[x] = outgoing[x]
    BY <1>1, <2>1 DEF Sent
  <2> QED BY <1>1, <2>1, <2>2 DEF Take
<1>4. Orderly'
  BY <1>1, <1>2, <1>3, OrderlyFrame
<1>5. Marked'
  BY <1>1, <1>3 DEF Marked
<1> QED BY <1>4, <1>5

LEMMA GiveBackOrderly ==
  ASSUME OrderlyInv, NEW x \in Things, NEW i \in Indices, GiveBack(x, i)
  PROVE  Orderly' /\ Marked'
<1> USE Distinct, DistinctThings DEF OrderlyInv, IInv
<1>1. /\ UNCHANGED <<lent, attr, fin, export, borrow, misuse>>
      /\ UNCHANGED <<writer, whole, source, total>>
      /\ x \in owned /\ owned' = owned \ {x} /\ trap = "none"
      /\ \A y \in Things : y # x => index'[y] = index[y]
  BY DEF GiveBack, Unmark, guestVars, writeVars, ThingInv
<1>2. \A k \in Indices : slot'[k] = slot[k] \/ (slot[k] \notin Objects /\ slot'[k] \notin Objects)
  BY Types DEF GiveBack
<1>3. misuse = {} => UNCHANGED trap
  BY <1>1 DEF GiveBack, Marked
<1>4. Orderly'
  BY <1>1, <1>2, <1>3, OrderlyFrame
<1>5. Marked'
  BY <1>1 DEF Marked, Pins, ThingInv
<1> QED BY <1>4, <1>5

LEMMA TableOrderly == TableSpec => []OrderlyInv
<1>1. TableInit => OrderlyInv
  BY InitObjects, InitThings, InitOrderly DEF TableInit, IInv, OrderlyInv, Marked
<1>2. OrderlyInv /\ IInv' /\ [TableNext]_<<vars, thingVars>> => OrderlyInv'
  <2> SUFFICES ASSUME OrderlyInv, [TableNext]_<<vars, thingVars>> PROVE Orderly' /\ Marked'
    BY DEF OrderlyInv
  <2>1. CASE Next /\ UNCHANGED thingVars
    <3>1. Orderly'
      BY <2>1, NextOrderly DEF OrderlyInv, IInv
    <3>2. misuse \subseteq misuse' /\ UNCHANGED <<owned, index>>
      BY <2>1 DEF thingVars, Next, PushOwn, PushBorrow, CallImport, PopOwn, Panic, Exit, Forget,
                  Finalize, ImportReturns, ExportReturns, WriteAll, Write, WriteAllReturns, Settle,
                  guestVars
    <3> QED BY <3>1, <3>2 DEF OrderlyInv, Marked
  <2>2. ASSUME NEW x \in Things,
               \/ MakeThing(x) \/ Take(x) \/ LeftUnread(x) \/ CallMethod(x)
               \/ HostDrops(x) \/ ForgetThing(x) \/ Collect(x)
               \/ \E i \in Indices : Lower(x, i) \/ GiveBack(x, i)
        PROVE  Orderly' /\ Marked'
    BY <2>2, QuietThingOrderly, TakeOrderly, LowerOrderly, GiveBackOrderly
  <2>3. CASE UNCHANGED <<vars, thingVars>>
    <3>1. /\ UNCHANGED <<slot, lent, trap, attr, fin, export, borrow, misuse>>
          /\ UNCHANGED <<writer, whole, source, total, owned, index>>
      BY <2>3 DEF vars, hostVars, guestVars, writeVars, thingVars
    <3>2. Orderly'
      BY <3>1, OrderlyFrame, Honest DEF OrderlyInv, IInv
    <3> QED BY <3>1, <3>2 DEF OrderlyInv, Marked
  <2> QED BY <2>1, <2>2, <2>3 DEF TableNext
<1> QED BY <1>1, <1>2, TableInv, PTL DEF TableSpec

\* An application that uses no object it gave away, lent or returned, and gives no
\* object of its own twice, runs into no trap and no panic of the runtime.
THEOREM NothingTraps == TableSpec => []NeverTraps
<1>1. OrderlyInv => NeverTraps
  BY DEF OrderlyInv, Orderly, Honoured, NeverTraps
<1> QED BY <1>1, TableOrderly, PTL

\* write_all delivers a prefix of its list: what it counted has left the application
\* for good, and what it still has to write is the application's again.
THEOREM WritesAreOrderly == TableSpec => []WritesPrefix
<1>1. OrderlyInv => WritesPrefix
  <2> SUFFICES ASSUME OrderlyInv PROVE WritesPrefix
    OBVIOUS
  <2>1. DOMAIN source = 1 .. Len(source)
    BY Types DEF OrderlyInv, IInv
  <2> QED BY <2>1 DEF OrderlyInv, IInv, ObjectInv, Progress, Orderly, Honoured, Delivered, Gone,
                      Left, WritesPrefix
<1> QED BY <1>1, TableOrderly, PTL
=============================================================================
