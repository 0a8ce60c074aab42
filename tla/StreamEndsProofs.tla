-------------------------- MODULE StreamEndsProofs --------------------------
(***************************************************************************)
(* Who owns a handle, for any number of objects of any class, any number   *)
(* of calls, and whatever the application does; and that careful           *)
(* applications neither trap nor leak.                                     *)
(***************************************************************************)
EXTENDS MCStreamEnds, TLAPS

-----------------------------------------------------------------------------
(* The inductive invariant: an end is used by one owner at a time.          *)

\* The object: what it holds is free.
Held == \A o \in Objects : handle[o] = "set" /\ ~Unreachable(o) => end[o] = "open"

\* A running call: it alone uses the end that it copies on.
Copies ==
  \A k \in Calls : op[k] = "copying" =>
    /\ end[target[k]] = "copying" /\ handle[target[k]] = "none"
    /\ \A j \in Calls : op[j] = "copying" /\ target[j] = target[k] => j = k

\* The finalizer: it still knows a handle, perhaps the one of a running call.
Finalizers ==
  \A o \in finalizer :
    /\ IsStream(o) => end[o] \in {"open", "copying"}
    /\ ~IsStream(o) => end[o] = "open" /\ handle[o] = "set"

\* The write of a default: it comes after the object and its finalizer.
Defaults ==
  \A o \in Objects : default[o] # "none" =>
    /\ Unreachable(o) /\ o \notin finalizer
    /\ default[o] = "new" => end[o] = "open"
    /\ default[o] = "copying" => end[o] = "copying"

\* A busy end is in use, or its call was cancelled.
Users ==
  \A o \in Objects : end[o] = "copying" =>
    \/ default[o] = "copying"
    \/ \E k \in Calls : target[k] = o /\ op[k] \in {"copying", "lost"}

\* A value that is being written: it keeps the handles of its readers, which are open.
Unsettled ==
  \A o \in sent :
    /\ handle[o] = "deleted" /\ end[o] = "open" /\ default[o] = "none"
    /\ o \notin finalizer

IInv ==
  /\ TypeOK /\ Held /\ Copies /\ Finalizers /\ Defaults /\ Users /\ Unsettled
  /\ CopiesAreLegal /\ DropsAreLegal

THEOREM InitInv == Init => IInv
  BY EndsAssumption
     DEF Init, IInv, TypeOK, Held, Copies, Finalizers, Defaults, Users,
         Unsettled, CopiesAreLegal, DropsAreLegal, IsStream

-----------------------------------------------------------------------------
(* One lemma per action.  Its step u says that what was unreachable stays so. *)

\* A call is made: by the application (Call), or by __exit__ of a FutureWriter.
LEMMA NewCallInv ==
  ASSUME IInv, NEW k \in Calls, NEW o \in refs, NewCall(k, o),
         spawned' \subseteq spawned \cup {k},
         UNCHANGED <<refs, handle, finalizer, restored, sent, closed, end, default, trap>>
  PROVE  IInv'
<1> USE EndsAssumption DEF IInv
<1>1. /\ o \in Objects /\ op[k] = "none" /\ target[k] = NoObject
      /\ op' = [op EXCEPT ![k] = "new"] /\ target' = [target EXCEPT ![k] = o]
  BY DEF NewCall, TypeOK
<1>u. \A x \in Objects : Unreachable(x) => Unreachable(x)'
  BY <1>1 DEF Unreachable, Busy, TypeOK
<1>2. TypeOK'
  BY <1>1 DEF TypeOK
<1>3. Held'
  BY <1>u DEF Held
<1>4. Copies'
  BY <1>1 DEF Copies, TypeOK
<1>5. Finalizers'
  BY DEF Finalizers, IsStream
<1>6. Defaults'
  BY <1>u DEF Defaults
<1>7. Users'
  BY <1>1 DEF Users, TypeOK
<1>9. Unsettled'
  BY DEF Unsettled
<1>8. CopiesAreLegal' /\ DropsAreLegal'
  BY <1>1 DEF CopiesAreLegal, DropsAreLegal, TypeOK
<1> QED BY <1>2, <1>3, <1>4, <1>5, <1>6, <1>7, <1>8, <1>9

LEMMA CallInv ==
  ASSUME IInv, NEW k \in Calls, NEW o \in Objects, Call(k, o)
  PROVE  IInv'
  BY NewCallInv DEF Call

LEMMA StartInv ==
  ASSUME IInv, NEW k \in Calls, Start(k)
  PROVE  IInv'
<1> USE EndsAssumption DEF IInv
<1> DEFINE o == target[k]
<1>1. /\ op[k] = "new" /\ o \in Objects /\ ~Unreachable(o) /\ default[o] = "none"
      /\ trap = "none" /\ UNCHANGED <<refs, sent, target, spawned, default>>
  BY DEF Start, TypeOK, Unreachable, Busy, Defaults
<1>2. \/ /\ op' = [op EXCEPT ![k] = "copying"]                   \* blocked
         /\ handle[o] = "set" /\ handle' = [handle EXCEPT ![o] = "none"]
         /\ end[o] = "open" /\ end' = [end EXCEPT ![o] = "copying"]
         /\ finalizer' = IF IsStream(o) THEN finalizer ELSE finalizer \ {o}
      \/ /\ op' = [op EXCEPT ![k] = "done"] /\ IsStream(o)        \* over at once
         /\ UNCHANGED <<handle, end, finalizer>>
      \/ /\ op' = [op EXCEPT ![k] = "done"] /\ ~IsStream(o)
         /\ handle[o] = "set" /\ handle' = [handle EXCEPT ![o] = "none"]
         /\ end[o] = "open" /\ end' = [end EXCEPT ![o] = "dropped"]
         /\ finalizer' = finalizer \ {o}
      \/ /\ op' = [op EXCEPT ![k] = "error"] /\ UNCHANGED end       \* refused
         /\ \/ handle' = handle
            \/ handle[o] = "set" /\ handle' = [handle EXCEPT ![o] = "none"]
         /\ finalizer' = IF IsStream(o) THEN finalizer ELSE finalizer \ {o}
  <2>1. handle[o] = "set" => end[o] = "open"
    BY <1>1 DEF Held
  <2>2. CASE StartStream(k, o)
    <3> USE <2>2
    <3>1. CASE o \in closed \/ ~HasHandle(o)
      BY <3>1 DEF StartStream, HasHandle, Result, Raise
    <3>2. CASE HasHandle(o) /\ o \notin closed
      <4>1. [end EXCEPT ![o] = "open"] = end
        BY <2>1, <3>2 DEF HasHandle, TypeOK
      <4> QED
        BY <1>1, <2>1, <3>2, <4>1 DEF StartStream, HasHandle, Result, Raise, TakeHandle, Copy,
           AfterCopy
    <3> QED BY <3>1, <3>2
  <2>3. CASE StartFuture(k, o)
    BY <1>1, <2>1, <2>3 DEF StartFuture, HasHandle, Result, Raise, TakeHandle, Detach, Copy,
       AfterCopy
  <2> QED BY <2>2, <2>3 DEF Start
<1>3. /\ trap' \in {"none", "panic"}
      /\ closed' \subseteq Objects /\ restored' \subseteq Objects
  <2>1. handle[o] = "set" => end[o] = "open"
    BY <1>1 DEF Held
  <2> QED
    BY <1>1, <2>1 DEF Start, StartStream, StartFuture, HasHandle, Result, Raise, TakeHandle, Detach, Copy, TypeOK
<1>o. o = target[k]
  OBVIOUS
<1> HIDE DEF o
<1>u. \A x \in Objects : Unreachable(x) => Unreachable(x)'
  BY <1>1, <1>2, <1>o DEF Unreachable, Busy, TypeOK
<1>4. TypeOK'
  BY <1>1, <1>2, <1>3 DEF TypeOK
<1>5. Held'
  BY <1>1, <1>2, <1>u DEF Held, TypeOK
<1>6. Copies'
  <2>1. \A j \in Calls : op[j] = "copying" /\ handle[o] = "set" => target[j] # o
    BY DEF Copies
  <2>2. \A j \in Calls : op[j] = "copying" /\ target[j] = o => end[o] = "copying"
    BY DEF Copies
  <2>3. \A j \in Calls : op'[j] = "copying" => j = k \/ op[j] = "copying"
    BY <1>2 DEF TypeOK
  <2>4. \A j \in Calls : op[j] = "copying" => target[j] \in Objects
    BY DEF TypeOK
  <2>5. ASSUME NEW j \in Calls, op'[j] = "copying", j # k
        PROVE  /\ end'[target[j]] = "copying" /\ handle'[target[j]] = "none"
               /\ op'[k] = "copying" => target[j] # o
    BY <1>1, <1>2, <2>1, <2>2, <2>3, <2>4, <2>5 DEF Copies, TypeOK
  <2>6. op'[k] = "copying" => end'[o] = "copying" /\ handle'[o] = "none"
    BY <1>1, <1>2 DEF TypeOK
  <2>7. \A i, j \in Calls :
          op[i] = "copying" /\ op[j] = "copying" /\ target[i] = target[j] => i = j
    BY DEF Copies
  <2> QED BY <1>1, <1>o, <2>3, <2>5, <2>6, <2>7 DEF Copies
<1>7. Finalizers'
  BY <1>1, <1>2 DEF Finalizers, IsStream, TypeOK
<1>8. Defaults'
  BY <1>1, <1>2, <1>u DEF Defaults, TypeOK
<1>9. Users'
  <2>1. ASSUME NEW x \in Objects, end'[x] = "copying"
        PROVE  \/ default[x] = "copying"
               \/ \E j \in Calls : target[j] = x /\ op'[j] \in {"copying", "lost"}
    <3>1. CASE x = o /\ op' = [op EXCEPT ![k] = "copying"]
      BY <1>o, <3>1 DEF TypeOK
    <3>2. CASE x # o \/ op' # [op EXCEPT ![k] = "copying"]
      <4>1. end[x] = "copying"
        BY <1>1, <1>2, <2>1, <3>2 DEF TypeOK
      <4>2. \A j \in Calls : op[j] \in {"copying", "lost"} => op'[j] = op[j]
        BY <1>1, <1>2 DEF TypeOK
      <4> QED BY <4>1, <4>2 DEF Users
    <3> QED BY <3>1, <3>2
  <2> QED BY <1>1, <2>1 DEF Users
<1>11. Unsettled'
  <2>1. handle[o] = "set" => o \notin sent
    BY DEF Unsettled
  <2>2. o \in sent => UNCHANGED end
    BY <1>2, <2>1
  <2>3. o \in sent => handle'[o] = handle[o]
    BY <1>2 DEF Unsettled
  <2> QED BY <1>1, <1>2, <2>1, <2>2, <2>3 DEF Unsettled, TypeOK
<1>10. CopiesAreLegal' /\ DropsAreLegal'
  BY <1>3 DEF CopiesAreLegal, DropsAreLegal
<1> QED BY <1>4, <1>5, <1>6, <1>7, <1>8, <1>9, <1>10, <1>11

LEMMA CompleteInv ==
  ASSUME IInv, NEW k \in Calls, Complete(k)
  PROVE  IInv'
<1> USE EndsAssumption DEF IInv
<1> DEFINE o == target[k]
<1>1. /\ op[k] = "copying" /\ o \in Objects /\ ~Unreachable(o) /\ default[o] = "none"
      /\ end[o] = "copying" /\ handle[o] = "none"
      /\ \A j \in Calls : op[j] = "copying" /\ target[j] = o => j = k
  BY DEF Complete, Copies, TypeOK, Unreachable, Busy, Defaults
<1>2. /\ op' = [op EXCEPT ![k] = "done"]
      /\ end' = [end EXCEPT ![o] = IF IsStream(o) THEN "open" ELSE "dropped"]
      /\ handle' = IF IsStream(o) THEN [handle EXCEPT ![o] = "set"] ELSE handle
      /\ UNCHANGED <<refs, finalizer, restored, sent, target, spawned, default, trap>>
      /\ closed' \subseteq Objects /\ trap = "none"
  BY <1>1 DEF Complete, Result, AfterCopy, TypeOK
<1>o. o = target[k]
  OBVIOUS
<1> HIDE DEF o
<1>u. \A x \in Objects : Unreachable(x) => Unreachable(x)'
  BY <1>2 DEF Unreachable, Busy, TypeOK
<1>3. TypeOK'
  BY <1>1, <1>2 DEF TypeOK
<1>4. Held'
  BY <1>1, <1>2, <1>u DEF Held, TypeOK
<1>5. Copies'
  <2>1. \A j \in Calls : op'[j] = "copying" =>
          op[j] = "copying" /\ j # k /\ target[j] # o /\ target[j] \in Objects
    BY <1>1, <1>2 DEF TypeOK
  <2> QED BY <1>1, <1>2, <2>1 DEF Copies, TypeOK
<1>6. Finalizers'
  <2>1. o \in finalizer => IsStream(o)
    BY <1>1 DEF Finalizers
  <2> QED BY <1>1, <1>2, <2>1 DEF Finalizers, IsStream, TypeOK
<1>7. Defaults'
  BY <1>1, <1>2, <1>u DEF Defaults, TypeOK
<1>8. Users'
  <2>1. \A x \in Objects : end'[x] = "copying" => x # o /\ end[x] = "copying"
    BY <1>1, <1>2 DEF TypeOK
  <2>2. \A j \in Calls : target[j] # o => op'[j] = op[j]
    BY <1>1, <1>2, <1>o DEF TypeOK
  <2> QED BY <1>2, <2>1, <2>2 DEF Users
<1>10. Unsettled'
  BY <1>1, <1>2 DEF Unsettled, TypeOK
<1>9. CopiesAreLegal' /\ DropsAreLegal'
  BY <1>2 DEF CopiesAreLegal, DropsAreLegal
<1> QED BY <1>3, <1>4, <1>5, <1>6, <1>7, <1>8, <1>9, <1>10

LEMMA CancelInv ==
  ASSUME IInv, NEW k \in Calls, Cancel(k)
  PROVE  IInv'
<1> USE EndsAssumption DEF IInv
<1>1. /\ op[k] \in {"new", "copying"} /\ op' = [op EXCEPT ![k] = "lost"]
      /\ trap = "none"
      /\ UNCHANGED <<refs, handle, finalizer, restored, sent, closed, end, target, spawned,
                     default, trap>>
  BY DEF Cancel, Result
<1>u. \A x \in Objects : Unreachable(x) => Unreachable(x)'
  BY <1>1 DEF Unreachable, Busy, TypeOK
<1>2. TypeOK'
  BY <1>1 DEF TypeOK
<1>3. Held'
  BY <1>1, <1>u DEF Held
<1>4. Copies'
  BY <1>1 DEF Copies, TypeOK
<1>5. Finalizers'
  BY <1>1 DEF Finalizers, IsStream
<1>6. Defaults'
  BY <1>1, <1>u DEF Defaults
<1>7. Users'
  <2>1. \A j \in Calls : op[j] \in {"copying", "lost"} => op'[j] \in {"copying", "lost"}
    BY <1>1 DEF TypeOK
  <2> QED BY <1>1, <2>1 DEF Users
<1>9. Unsettled'
  BY <1>1 DEF Unsettled
<1>8. CopiesAreLegal' /\ DropsAreLegal'
  BY <1>1 DEF CopiesAreLegal, DropsAreLegal
<1> QED BY <1>2, <1>3, <1>4, <1>5, <1>6, <1>7, <1>8, <1>9

\* The instance ends: nothing changes any more.
LEMMA TrapInv ==
  ASSUME IInv, trap' \in {"set_result", "panic"},
         UNCHANGED <<refs, handle, finalizer, restored, sent, closed, end, op, target, spawned,
                     default>>
  PROVE  IInv'
<1>1. TypeOK'
  BY DEF IInv, TypeOK
<1>2. Held' /\ Copies' /\ Finalizers' /\ Defaults' /\ Users' /\ Unsettled'
  BY DEF IInv, Held, Copies, Finalizers, Defaults, Users, Unsettled, Unreachable, Busy, IsStream
<1>3. CopiesAreLegal' /\ DropsAreLegal'
  BY DEF CopiesAreLegal, DropsAreLegal
<1> QED BY <1>1, <1>2, <1>3 DEF IInv

LEMMA LateAnswerInv ==
  ASSUME IInv, NEW k \in Calls, LateAnswer(k)
  PROVE  IInv'
  BY TrapInv DEF LateAnswer

\* The object gives its handle up, to the host (dropped, moved) or at all.
LEMMA GiveUpInv ==
  ASSUME IInv, NEW o \in refs, NEW s \in {"dropped", "moved"}, NEW h \in {"none", "deleted"},
         handle[o] = "set",
         handle' = [handle EXCEPT ![o] = h], end' = [end EXCEPT ![o] = s],
         finalizer' = finalizer \ {o}, restored' = restored \ {o},
         UNCHANGED <<refs, sent, closed, op, target, spawned, default, trap>>
  PROVE  IInv'
<1> USE EndsAssumption DEF IInv
<1>1. /\ o \in Objects /\ ~Unreachable(o) /\ end[o] = "open" /\ default[o] = "none"
      /\ \A k \in Calls : op[k] = "copying" => target[k] \in Objects /\ target[k] # o
  BY DEF TypeOK, Unreachable, Held, Defaults, Copies
<1>u. \A x \in Objects : Unreachable(x) <=> Unreachable(x)'
  BY DEF Unreachable, Busy
<1>2. TypeOK'
  BY <1>1 DEF TypeOK
<1>3. Held'
  BY <1>1, <1>u DEF Held, TypeOK
<1>4. Copies'
  BY <1>1 DEF Copies, TypeOK
<1>5. Finalizers'
  BY <1>1 DEF Finalizers, IsStream, TypeOK
<1>6. Defaults'
  BY <1>1, <1>u DEF Defaults, TypeOK
<1>7. Users'
  BY <1>1 DEF Users, TypeOK
<1>9. Unsettled'
  BY <1>1 DEF Unsettled, TypeOK
<1>8. CopiesAreLegal' /\ DropsAreLegal'
  BY DEF CopiesAreLegal, DropsAreLegal
<1> QED BY <1>2, <1>3, <1>4, <1>5, <1>6, <1>7, <1>8, <1>9

LEMMA StutterInv ==
  ASSUME IInv, UNCHANGED vars
  PROVE  IInv'
  BY DEF vars, IInv, TypeOK, Held, Copies, Finalizers, Defaults, Users, Unsettled, Unreachable, Busy,
         IsStream, CopiesAreLegal, DropsAreLegal

LEMMA ExitInv ==
  ASSUME IInv, NEW o \in Objects, Exit(o)
  PROVE  IInv'
<1> USE EndsAssumption DEF IInv
<1>1. o \in refs /\ trap = "none" /\ UNCHANGED <<refs, sent, closed, default>>
  BY DEF Exit
<1>2. handle[o] = "set" => end[o] = "open"
  BY <1>1 DEF Held, Unreachable
<1>3. CASE ExitStream(o) \/ ExitFutureReader(o)
  <2>1. CASE handle[o] = "set"
    <3>1. /\ handle' = [handle EXCEPT ![o] = "none"] /\ end' = [end EXCEPT ![o] = "dropped"]
          /\ finalizer' = finalizer \ {o} /\ restored' = restored \ {o}
          /\ UNCHANGED <<op, target, spawned, trap>>
      BY <1>1, <1>2, <1>3, <2>1
         DEF ExitStream, ExitFutureReader, HasHandle, TakeHandle, Detach, Drop
    <3> QED BY <1>1, <2>1, <3>1, GiveUpInv
  <2>2. CASE handle[o] # "set"
    <3>1. /\ finalizer' \subseteq finalizer /\ restored' \subseteq restored
          /\ UNCHANGED <<refs, handle, sent, closed, end, op, target, spawned, default, trap>>
      BY <1>1, <1>3, <2>2 DEF ExitStream, ExitFutureReader, HasHandle, Detach
    <3>2. TypeOK'
      BY <3>1 DEF TypeOK
    <3>3. Held' /\ Copies' /\ Finalizers' /\ Defaults' /\ Users' /\ Unsettled'
      BY <3>1 DEF Held, Copies, Finalizers, Defaults, Users, Unsettled, Unreachable,
         Busy, IsStream
    <3>4. CopiesAreLegal' /\ DropsAreLegal'
      BY <1>1, <3>1 DEF CopiesAreLegal, DropsAreLegal
    <3> QED BY <3>2, <3>3, <3>4
  <2> QED BY <2>1, <2>2
<1>4. CASE ExitFutureWriter(o)
  <2>1. CASE handle[o] = "set"
    <3>1. PICK k \in Calls : NewCall(k, o) /\ spawned' = spawned \cup {k}
      BY <1>4, <2>1 DEF ExitFutureWriter, HasHandle
    <3> QED BY <1>1, <1>4, <3>1, NewCallInv DEF ExitFutureWriter
  <2>2. CASE handle[o] # "set"
    <3>1. UNCHANGED vars
      BY <1>1, <1>4, <2>2 DEF ExitFutureWriter, HasHandle, vars
    <3> QED BY <3>1, StutterInv
  <2> QED BY <2>1, <2>2
<1> QED BY <1>3, <1>4 DEF Exit

LEMMA TransferInv ==
  ASSUME IInv, NEW o \in Objects, Transfer(o)
  PROVE  IInv'
<1>1. o \in refs /\ UNCHANGED <<refs, closed, op, target, spawned, default>>
  BY DEF Transfer
<1>2. CASE NothingToGive(o)
  BY <1>1, <1>2, TrapInv DEF NothingToGive
<1>3. CASE ~NothingToGive(o)
  BY <1>1, <1>3, GiveUpInv DEF Transfer, GiveAway, Detach
<1> QED BY <1>2, <1>3

LEMMA SendInv ==
  ASSUME IInv, NEW o \in Objects, Send(o)
  PROVE  IInv'
<1> USE EndsAssumption DEF IInv
<1>1. o \in refs /\ UNCHANGED <<refs, closed, op, target, spawned, default>>
  BY DEF Send
<1>2. CASE NothingToGive(o)
  BY <1>1, <1>2, TrapInv DEF NothingToGive
<1>3. CASE ~NothingToGive(o)
  <2>1. /\ handle[o] = "set" /\ handle' = [handle EXCEPT ![o] = "deleted"]
        /\ finalizer' = finalizer \ {o} /\ restored' = restored \ {o} /\ UNCHANGED end
        /\ sent' = sent \/ sent' = sent \cup {o}
        /\ trap' \in {"none", "panic"}
    BY <1>3 DEF Send, GiveAway, Detach
  <2>2. ~Unreachable(o) /\ end[o] = "open" /\ default[o] = "none"
    BY <1>1, <2>1 DEF Unreachable, Held, Defaults
  <2>u. \A x \in Objects : Unreachable(x) <=> Unreachable(x)'
    BY <1>1, <2>1 DEF Unreachable, Busy
  <2>3. TypeOK'
    BY <1>1, <2>1 DEF TypeOK
  <2>4. Held'
    BY <2>1, <2>u DEF Held, TypeOK
  <2>5. Copies'
    BY <1>1, <2>1, <2>2 DEF Copies, TypeOK
  <2>6. Finalizers'
    BY <2>1 DEF Finalizers, IsStream, TypeOK
  <2>7. Defaults'
    BY <1>1, <2>1, <2>u DEF Defaults
  <2>8. Users'
    BY <1>1, <2>1 DEF Users
  <2>9. Unsettled'
    BY <1>1, <2>1, <2>2 DEF Unsettled, TypeOK
  <2>10. CopiesAreLegal' /\ DropsAreLegal'
    BY <2>1 DEF CopiesAreLegal, DropsAreLegal
  <2> QED BY <2>3, <2>4, <2>5, <2>6, <2>7, <2>8, <2>9, <2>10
<1> QED BY <1>2, <1>3

LEMMA SettleInv ==
  ASSUME IInv, NEW o \in Objects, Settle(o)
  PROVE  IInv'
<1> USE EndsAssumption DEF IInv
<1>1. /\ o \in sent /\ sent' = sent \ {o} /\ trap = "none"
      /\ UNCHANGED <<refs, finalizer, closed, op, target, spawned, default, trap>>
      /\ handle[o] = "deleted" /\ end[o] = "open" /\ default[o] = "none"
      /\ o \notin finalizer
  BY DEF Settle, Unsettled
<1>2. \/ end' = [end EXCEPT ![o] = "moved"] /\ UNCHANGED <<handle, restored>>
      \/ /\ handle' = [handle EXCEPT ![o] = "set"]
         /\ restored' = restored \cup {o} /\ UNCHANGED end
  BY DEF Settle
<1>u. \A x \in Objects : Unreachable(x) => Unreachable(x)'
  BY <1>1 DEF Unreachable, Busy
<1>3. TypeOK'
  BY <1>1, <1>2 DEF TypeOK
<1>4. Held'
  BY <1>1, <1>2, <1>u DEF Held, TypeOK
<1>5. Copies'
  BY <1>1, <1>2 DEF Copies, TypeOK
<1>6. Finalizers'
  BY <1>1, <1>2 DEF Finalizers, IsStream, TypeOK
<1>7. Defaults'
  BY <1>1, <1>2, <1>u DEF Defaults, TypeOK
<1>8. Users'
  BY <1>1, <1>2 DEF Users, TypeOK
<1>9. Unsettled'
  BY <1>1, <1>2 DEF Unsettled, TypeOK
<1>10. CopiesAreLegal' /\ DropsAreLegal'
  BY <1>1 DEF CopiesAreLegal, DropsAreLegal
<1> QED BY <1>3, <1>4, <1>5, <1>6, <1>7, <1>8, <1>9, <1>10

LEMMA ForgetInv ==
  ASSUME IInv, NEW o \in Objects, Forget(o)
  PROVE  IInv'
<1>1. /\ refs' = refs \ {o}
      /\ UNCHANGED <<handle, finalizer, restored, sent, closed, end, op, target, spawned,
                     default, trap>>
  BY DEF Forget
<1>u. \A x \in Objects : Unreachable(x) => Unreachable(x)'
  BY <1>1 DEF Unreachable, Busy
<1>2. TypeOK'
  BY <1>1 DEF IInv, TypeOK
<1>3. Held' /\ Defaults'
  BY <1>1, <1>u DEF IInv, Held, Defaults
<1>4. Copies' /\ Finalizers' /\ Users' /\ Unsettled' /\ CopiesAreLegal' /\ DropsAreLegal'
  BY <1>1 DEF IInv, Copies, Finalizers, Users, Unsettled, IsStream, CopiesAreLegal,
     DropsAreLegal
<1> QED BY <1>2, <1>3, <1>4 DEF IInv

LEMMA FinalizeInv ==
  ASSUME IInv, NEW o \in Objects, Finalize(o)
  PROVE  IInv'
<1> USE EndsAssumption DEF IInv
<1>1. /\ Unreachable(o) /\ o \in finalizer /\ finalizer' = finalizer \ {o} /\ trap = "none"
      /\ UNCHANGED <<refs, handle, restored, sent, closed, op, target, spawned>>
      /\ default[o] = "none"
  BY DEF Finalize, Defaults
<1>2. \/ /\ end[o] = "open" /\ end' = [end EXCEPT ![o] = "dropped"]    \* dropped
         /\ UNCHANGED <<default, trap>>
      \/ /\ end[o] = "copying" /\ trap' = "drop"                       \* in use
         /\ UNCHANGED <<default, end>>
      \/ /\ end[o] = "open" /\ default' = [default EXCEPT ![o] = "new"] \* default
         /\ UNCHANGED <<end, trap>>
      \/ UNCHANGED <<default, end, trap>>                              \* lost
  <2>1. end[o] \in {"open", "copying"} /\ (~IsStream(o) => end[o] = "open")
    BY <1>1 DEF Finalizers
  <2>2. KindOf[o] = "future_writer" => ~IsStream(o)
    BY DEF IsStream
  <2> QED BY <1>1, <2>1, <2>2 DEF Finalize, Drop
<1>u. \A x \in Objects : Unreachable(x) <=> Unreachable(x)'
  BY <1>1 DEF Unreachable, Busy
<1>3. \A k \in Calls : op[k] = "copying" => target[k] # o /\ target[k] \in Objects
  BY <1>1 DEF Unreachable, Busy, Copies, TypeOK
<1>4. TypeOK'
  BY <1>1, <1>2 DEF TypeOK
<1>5. Held'
  BY <1>1, <1>2, <1>u DEF Held, TypeOK
<1>6. Copies'
  BY <1>1, <1>2, <1>3 DEF Copies, TypeOK
<1>7. Finalizers'
  BY <1>1, <1>2 DEF Finalizers, IsStream, TypeOK
<1>8. Defaults'
  BY <1>1, <1>2, <1>u DEF Defaults, TypeOK
<1>9. Users'
  BY <1>1, <1>2 DEF Users, TypeOK
<1>12. Unsettled'
  BY <1>1, <1>2 DEF Unsettled, TypeOK
<1>10. CopiesAreLegal'
  BY <1>1, <1>2 DEF CopiesAreLegal
<1>11. DropsAreLegal'
  <2>1. end[o] = "copying" => \E k \in Calls : op[k] = "lost"
    BY <1>1 DEF Users, Unreachable, Busy
  <2> QED BY <1>1, <1>2, <2>1 DEF DropsAreLegal
<1> QED BY <1>4, <1>5, <1>6, <1>7, <1>8, <1>9, <1>10, <1>11, <1>12

\* The write of a default starts, or ends.
LEMMA DefaultInv ==
  ASSUME IInv, NEW o \in Objects, StartDefault(o) \/ CompleteDefault(o)
  PROVE  IInv'
<1> USE EndsAssumption DEF IInv
<1>n. CASE StartDefault(o) /\ trap' = "panic" /\ UNCHANGED <<end, default>>
  BY <1>n, TrapInv DEF StartDefault
<1> SUFFICES ASSUME ~(StartDefault(o) /\ trap' = "panic" /\ UNCHANGED <<end, default>>)
             PROVE  IInv'
  BY <1>n
<1>1. /\ default[o] # "none" /\ Unreachable(o) /\ o \notin finalizer /\ trap = "none"
      /\ UNCHANGED <<refs, handle, finalizer, restored, sent, closed, op, target, spawned>>
      /\ \A k \in Calls : op[k] = "copying" => target[k] # o /\ target[k] \in Objects
  BY DEF StartDefault, CompleteDefault, Defaults, Unreachable, Busy, TypeOK
<1>2. \E d \in {"copying", "done"} :
        /\ default' = [default EXCEPT ![o] = d]
        /\ \E e \in {"copying", "open", "dropped"} :
             end' = [end EXCEPT ![o] = e] /\ (e = "copying" <=> d = "copying")
        /\ trap' = "none"
  <2>1. CASE StartDefault(o)
    <3>1. end[o] = "open"
      BY <2>1 DEF StartDefault, Defaults
    <3> QED BY <1>1, <2>1, <3>1 DEF StartDefault, Copy, AfterCopy
  <2>2. CASE CompleteDefault(o)
    BY <1>1, <2>2 DEF CompleteDefault, AfterCopy
  <2> QED BY <2>1, <2>2
<1>u. \A x \in Objects : Unreachable(x) <=> Unreachable(x)'
  BY <1>1 DEF Unreachable, Busy
<1>3. TypeOK'
  BY <1>1, <1>2 DEF TypeOK
<1>4. Held'
  BY <1>1, <1>2, <1>u DEF Held, TypeOK
<1>5. Copies'
  BY <1>1, <1>2 DEF Copies, TypeOK
<1>6. Finalizers'
  BY <1>1, <1>2 DEF Finalizers, IsStream, TypeOK
<1>7. Defaults'
  BY <1>1, <1>2, <1>u DEF Defaults, TypeOK
<1>8. Users'
  BY <1>1, <1>2 DEF Users, TypeOK
<1>10. Unsettled'
  BY <1>1, <1>2 DEF Unsettled, TypeOK
<1>9. CopiesAreLegal' /\ DropsAreLegal'
  BY <1>2 DEF CopiesAreLegal, DropsAreLegal
<1> QED BY <1>3, <1>4, <1>5, <1>6, <1>7, <1>8, <1>9, <1>10

-----------------------------------------------------------------------------
(* The theorems.                                                           *)

THEOREM NextInv == IInv /\ [Next]_vars => IInv'
<1> SUFFICES ASSUME IInv, [Next]_vars PROVE IInv'
  OBVIOUS
<1>1. ASSUME NEW k \in Calls, NEW o \in Objects, Call(k, o) PROVE IInv'
  BY <1>1, CallInv
<1>2. ASSUME NEW k \in Calls, CallStep(k) \/ Cancel(k) \/ LateAnswer(k) PROVE IInv'
  BY <1>2, StartInv, CompleteInv, CancelInv, LateAnswerInv DEF CallStep
<1>3. ASSUME NEW o \in Objects, Exit(o) \/ Transfer(o) \/ Send(o) \/ Settle(o) \/ Forget(o)
      PROVE  IInv'
  BY <1>3, ExitInv, TransferInv, SendInv, SettleInv, ForgetInv
<1>4. ASSUME NEW o \in Objects, CloseStep(o) PROVE IInv'
  BY <1>4, FinalizeInv, DefaultInv DEF CloseStep
<1>5. CASE Halt \/ UNCHANGED vars
  BY <1>5, StutterInv DEF Halt
<1> QED BY <1>1, <1>2, <1>3, <1>4, <1>5 DEF Next

THEOREM InductiveInvariant == Spec => []IInv
  BY InitInv, NextInv, PTL DEF Spec

\* Every reachable state is well typed (the objects, their finalizers, the ends).
THEOREM TypeCorrect == Spec => []TypeOK
<1>1. IInv => TypeOK
  BY DEF IInv
<1> QED BY <1>1, InductiveInvariant, PTL

\* The host is never asked to copy on an end that is busy, dropped or given away,
\* for any number of objects and calls, overlapping and cancelled ones included:
\* no two of object, call, finalizer and default write use a handle at once
\* (read, write and __exit__ of streams.py and futures.py).
THEOREM NoIllegalCopy == Spec => []CopiesAreLegal
<1>1. IInv => CopiesAreLegal
  BY DEF IInv
<1> QED BY <1>1, InductiveInvariant, PTL

\* No end is dropped twice, after a transfer or while busy, as long as no call was
\* cancelled (__exit__ and the finalizers).
THEOREM NoIllegalDrop == Spec => []DropsAreLegal
<1>1. IInv => DropsAreLegal
  BY DEF IInv
<1> QED BY <1>1, InductiveInvariant, PTL

\* What an object in use holds is an open end that no call and no default write
\* uses (self.handle).
THEOREM HandlesAreFree == Spec => []HandleIsFree
<1>1. IInv => HandleIsFree
  BY DEF IInv, Held, Defaults, Copies, HandleIsFree, TypeOK
<1> QED BY <1>1, InductiveInvariant, PTL

-----------------------------------------------------------------------------
(* Careful applications: what also holds until a call is cancelled, an      *)
(* object is closed or given away in the middle of a call, a buffer cannot  *)
(* be had, or a default is lost.                                           *)

Uncancelled == \A k \in Calls : op[k] # "lost"

Copied(o) == \E k \in Calls : target[k] = o /\ op[k] = "copying"

\* Somebody is there to close each end: its finalizer, the write of its default, or,
\* for a future, the call that consumes it.  A reader in a value that is being written
\* may become the host's; what is restored is the application's to close.
Closers ==
  \A o \in Objects :
    \/ end[o] \in {"dropped", "moved"} \/ o \in finalizer \cup restored \cup sent
    \/ default[o] \in {"new", "copying"}
    \/ ~IsStream(o) /\ Copied(o)

\* A handle that the object no longer has is with a running call or write, or was closed;
\* of the objects that were restored, only streams in a call have none.
Away ==
  \A o \in Objects : handle[o] # "set" =>
    \/ o \notin restored /\ (end[o] \in {"dropped", "moved"} \/ o \in sent \/ Copied(o))
    \/ IsStream(o) /\ Copied(o)

Writers == \A o \in Objects : default[o] # "none" => KindOf[o] = "future_writer"

\* A write that __exit__ spawned will find its handle: nothing else is about to take it.
Spawned ==
  \A k \in spawned : op[k] = "new" =>
    /\ handle[target[k]] = "set"
    /\ \A j \in Calls : op[j] = "new" /\ target[j] = target[k] => j = k

Tidy == trap = "none" /\ Uncancelled /\ Closers /\ Away /\ Writers /\ Spawned

LEMMA NewCallTidy ==
  ASSUME IInv, Tidy, NEW k \in Calls, NEW o \in refs, NewCall(k, o),
         \/ UNCHANGED spawned /\ \A j \in spawned : op[j] = "new" => target[j] # o
         \/ spawned' = spawned \cup {k} /\ handle[o] = "set" /\ ~Busy(o),
         UNCHANGED <<refs, handle, finalizer, restored, sent, closed, end, default, trap>>
  PROVE  Tidy'
<1>1. op[k] = "none" /\ op' = [op EXCEPT ![k] = "new"] /\ target' = [target EXCEPT ![k] = o]
  BY DEF NewCall
<1>2. \A j \in Calls : j # k => op'[j] = op[j] /\ target'[j] = target[j]
  BY <1>1 DEF IInv, TypeOK
<1>3. op'[k] = "new" /\ target'[k] = o
  BY <1>1 DEF IInv, TypeOK
<1>4. Uncancelled'
  BY <1>1 DEF Tidy, Uncancelled, IInv, TypeOK
<1>5. \A x \in Objects : Copied(x) => Copied(x)'
  BY <1>1, <1>2 DEF Copied
<1>6. Closers' /\ Away'
  BY <1>5 DEF Tidy, Closers, Away, IsStream
<1>7. Spawned'
  <2>1. \A j \in Calls : op[j] = "new" /\ target[j] = o => Busy(o)
    BY DEF Busy
  <2>2. spawned' \subseteq Calls /\ \A j \in spawned : j # k => j \in Calls
    BY DEF IInv, TypeOK
  <2>3. ASSUME NEW j \in spawned', op'[j] = "new", j # k
        PROVE  /\ handle[target'[j]] = "set" /\ target'[j] # o
               /\ \A i \in Calls : op'[i] = "new" /\ target'[i] = target'[j] => i = j
    BY <1>2, <1>3, <2>1, <2>2, <2>3 DEF Tidy, Spawned
  <2>4. k \in spawned' => handle[o] = "set" /\ ~Busy(o)
    BY <1>1 DEF Tidy, Spawned, IInv, TypeOK
  <2> QED BY <1>2, <1>3, <2>1, <2>2, <2>3, <2>4 DEF Spawned
<1> QED BY <1>4, <1>6, <1>7 DEF Tidy, Writers

LEMMA StartTidy ==
  ASSUME IInv, Tidy, NEW k \in Calls, Start(k),
         op'[k] = "error" => ~HasHandle(target[k])
  PROVE  Tidy'
<1> USE EndsAssumption DEF IInv, TypeOK
<1> PICK o \in Objects : o = target[k]
  BY DEF Start
<1>1. /\ op[k] = "new" /\ ~Unreachable(o) /\ default[o] = "none"
      /\ trap = "none" /\ UNCHANGED <<refs, sent, target, spawned, default>>
  BY DEF Start, Unreachable, Busy, Defaults
<1>2. handle[o] = "set" => end[o] = "open" /\ o \in finalizer \cup restored /\ o \notin sent
  <2>1. handle[o] = "set" => end[o] = "open"
    BY <1>1 DEF Held
  <2>2. handle[o] = "set" => ~\E j \in Calls : target[j] = o /\ op[j] = "copying"
    BY DEF Copies
  <2> QED BY <1>1, <2>1, <2>2 DEF Tidy, Closers, Copied, Unsettled
<1>3. \/ /\ op' = [op EXCEPT ![k] = "copying"] /\ handle[o] = "set"
         /\ handle' = [handle EXCEPT ![o] = "none"] /\ end' = [end EXCEPT ![o] = "copying"]
      \/ /\ op' = [op EXCEPT ![k] = "done"] /\ IsStream(o)
         /\ UNCHANGED <<handle, end>>
      \/ /\ op' = [op EXCEPT ![k] = "done"] /\ ~IsStream(o)
         /\ handle' = [handle EXCEPT ![o] = "none"] /\ end' = [end EXCEPT ![o] = "dropped"]
      \/ /\ op' = [op EXCEPT ![k] = "error"] /\ handle[o] # "set"
         /\ UNCHANGED <<handle, end>>
  <2>1. CASE StartStream(k, o)
    <3> USE <2>1
    <3>1. CASE o \in closed \/ ~HasHandle(o)
      BY <3>1 DEF StartStream, HasHandle, Result, Raise
    <3>2. CASE HasHandle(o) /\ o \notin closed
      <4>1. [end EXCEPT ![o] = "open"] = end
        BY <1>2, <3>2 DEF HasHandle
      <4> QED
        BY <1>2, <3>2, <4>1 DEF StartStream, HasHandle, Result, Raise, TakeHandle, Copy,
           AfterCopy
    <3> QED BY <3>1, <3>2
  <2>2. CASE StartFuture(k, o)
    BY <1>2, <2>2 DEF StartFuture, HasHandle, Result, Raise, TakeHandle, Copy, AfterCopy
  <2> QED BY <2>1, <2>2 DEF Start
<1>4. trap' = "none"
  <2>1. k \in spawned => handle[o] = "set"
    BY <1>1 DEF Tidy, Spawned
  <2> QED
    BY <1>1, <1>2, <2>1 DEF Start, StartStream, StartFuture, HasHandle, Result, Raise,
       TakeHandle, Copy
<1>5. \A j \in Calls : op[j] = "copying" => op'[j] = "copying"
  BY <1>1, <1>3
<1>6. Uncancelled'
  BY <1>3 DEF Tidy, Uncancelled
<1>d. IF IsStream(o) THEN UNCHANGED <<finalizer, restored>> ELSE Detach(o)
  BY DEF Start, StartStream, StartFuture
<1>c. /\ \A x \in Objects : Copied(x) => Copied(x)'
      /\ op'[k] = "copying" => Copied(o)'
  BY <1>1, <1>5 DEF Copied
<1>7. Closers'
  <2> SUFFICES ASSUME NEW x \in Objects
               PROVE  \/ end'[x] \in {"dropped", "moved"}
                      \/ x \in finalizer' \cup restored' \cup sent
                      \/ default[x] \in {"new", "copying"}
                      \/ ~IsStream(x) /\ Copied(x)'
    BY <1>1 DEF Closers, IsStream
  <2>1. CASE x # o
    BY <1>3, <1>c, <1>d, <2>1 DEF Tidy, Closers, Detach
  <2>2. CASE x = o /\ handle[o] = "set"
    BY <1>2, <1>3, <1>c, <1>d, <2>2
  <2>3. CASE x = o /\ handle[o] # "set"
    BY <1>3, <1>c, <1>d, <2>3 DEF Tidy, Closers, Away
  <2> QED BY <2>1, <2>2, <2>3
<1>8. Away'
  <2> SUFFICES ASSUME NEW x \in Objects, handle'[x] # "set"
               PROVE  \/ /\ x \notin restored'
                         /\ end'[x] \in {"dropped", "moved"} \/ x \in sent \/ Copied(x)'
                      \/ IsStream(x) /\ Copied(x)'
    BY <1>1 DEF Away, IsStream
  <2>1. CASE handle[x] # "set"
    <3>1. end'[x] \in {"dropped", "moved"} \/ end[x] \notin {"dropped", "moved"}
      BY <1>2, <1>3, <2>1
    <3>2. x \notin restored => x \notin restored'
      BY <1>d DEF Detach
    <3> QED BY <1>c, <2>1, <3>1, <3>2 DEF Tidy, Away
  <2>2. CASE handle[x] = "set"
    <3>1. x = o
      BY <1>3, <2>2
    <3>2. op'[k] = "copying" \/ (~IsStream(o) /\ end'[o] = "dropped")
      BY <1>3, <2>2, <3>1
    <3>3. ~IsStream(o) => o \notin restored'
      BY <1>d DEF Detach
    <3> QED BY <1>c, <3>1, <3>2, <3>3
  <2> QED BY <2>1, <2>2
<1>9. Spawned'
  <2>1. \A j \in Calls : op'[j] = "new" => op[j] = "new" /\ j # k
    BY <1>3
  <2>2. ASSUME NEW j \in spawned, op'[j] = "new" PROVE handle'[target[j]] = "set"
    <3>1. op[j] = "new" /\ j \in Calls /\ j # k /\ target[j] \in Objects
      BY <2>1, <2>2
    <3>2. handle[target[j]] = "set" /\ target[j] # o
      BY <1>1, <3>1 DEF Tidy, Spawned
    <3> QED BY <1>3, <3>1, <3>2
  <2> QED BY <1>1, <2>1, <2>2 DEF Tidy, Spawned
<1> QED BY <1>1, <1>4, <1>6, <1>7, <1>8, <1>9 DEF Tidy, Writers

LEMMA CompleteTidy ==
  ASSUME IInv, Tidy, NEW k \in Calls, Complete(k)
  PROVE  Tidy'
<1> USE EndsAssumption DEF IInv, TypeOK
<1> PICK o \in Objects : o = target[k]
  BY DEF Complete
<1>1. /\ op[k] = "copying" /\ op' = [op EXCEPT ![k] = "done"]
      /\ end' = [end EXCEPT ![o] = IF IsStream(o) THEN "open" ELSE "dropped"]
      /\ handle' = IF IsStream(o) THEN [handle EXCEPT ![o] = "set"] ELSE handle
      /\ UNCHANGED <<refs, finalizer, restored, sent, target, spawned, default, trap>>
  BY DEF Complete, Result, AfterCopy
<1>2. end[o] = "copying" /\ default[o] = "none"
  BY <1>1 DEF Copies, Defaults, Unreachable, Busy
<1>3. \A x \in Objects : x # o /\ Copied(x) => Copied(x)'
  BY <1>1 DEF Copied
<1>4. Uncancelled'
  BY <1>1 DEF Tidy, Uncancelled
<1>5. Closers'
  BY <1>1, <1>2, <1>3 DEF Tidy, Closers, IsStream
<1>6. Away'
  <2>1. ~IsStream(o) => o \notin restored
    BY <1>1 DEF Tidy, Away, Copies
  <2> QED BY <1>1, <1>3, <2>1 DEF Tidy, Away, IsStream
<1>7. Spawned'
  <2>1. \A j \in Calls : op'[j] = "new" => op[j] = "new"
    BY <1>1
  <2> QED BY <1>1, <2>1 DEF Tidy, Spawned
<1> QED BY <1>1, <1>4, <1>5, <1>6, <1>7 DEF Tidy, Writers

LEMMA GiveUpTidy ==
  ASSUME IInv, Tidy, NEW o \in Objects, NEW s \in {"dropped", "moved"}, NEW h \in {"none", "deleted"},
         handle' = [handle EXCEPT ![o] = h], end' = [end EXCEPT ![o] = s],
         ~Busy(o), Detach(o),
         UNCHANGED <<sent, op, target, spawned, default, trap>>
  PROVE  Tidy'
<1> USE DEF IInv, TypeOK
<1>1. Closers'
  BY DEF Tidy, Closers, Copied, Detach, IsStream
<1>2. Away'
  BY DEF Tidy, Away, Copied, Detach, IsStream
<1>3. Spawned'
  BY DEF Tidy, Spawned, Busy
<1> QED BY <1>1, <1>2, <1>3 DEF Tidy, Uncancelled, Writers

LEMMA ExitTidy ==
  ASSUME IInv, Tidy, NEW o \in Objects, Exit(o), ~Busy(o)
  PROVE  Tidy'
<1> USE EndsAssumption DEF IInv
<1>1. o \in refs /\ trap = "none" /\ UNCHANGED <<refs, sent, closed, default>>
  BY DEF Exit
<1>2. handle[o] = "set" => end[o] = "open"
  BY <1>1 DEF Held, Unreachable
<1>3. CASE ExitStream(o) \/ ExitFutureReader(o)
  <2>1. CASE handle[o] = "set"
    <3>1. /\ handle' = [handle EXCEPT ![o] = "none"] /\ end' = [end EXCEPT ![o] = "dropped"]
          /\ Detach(o) /\ UNCHANGED <<op, target, spawned, trap>>
      BY <1>1, <1>2, <1>3, <2>1 DEF ExitStream, ExitFutureReader, HasHandle, TakeHandle, Drop
    <3> QED BY <1>1, <3>1, GiveUpTidy
  <2>2. CASE handle[o] # "set"
    <3>1. /\ Detach(o) \/ UNCHANGED <<finalizer, restored>>
          /\ UNCHANGED <<refs, handle, sent, closed, end, op, target, spawned, default, trap>>
      BY <1>1, <1>3, <2>2 DEF ExitStream, ExitFutureReader, HasHandle
    <3>2. end[o] \in {"dropped", "moved"} \/ o \in sent
      BY <2>2 DEF Tidy, Away, Busy, Copied
    <3>3. Closers' /\ Away'
      BY <3>1, <3>2 DEF Tidy, Closers, Away, Copied, Detach, IsStream
    <3> QED BY <3>1, <3>3 DEF Tidy, Uncancelled, Spawned, Writers
  <2> QED BY <2>1, <2>2
<1>4. CASE ExitFutureWriter(o)
  <2>1. CASE handle[o] = "set"
    <3>1. PICK k \in Calls : NewCall(k, o) /\ spawned' = spawned \cup {k}
      BY <1>4, <2>1 DEF ExitFutureWriter, HasHandle
    <3>2. UNCHANGED <<refs, handle, finalizer, restored, sent, closed, end, default, trap>>
      BY <1>1, <1>4 DEF ExitFutureWriter
    <3> QED BY <1>1, <2>1, <3>1, <3>2, NewCallTidy
  <2>2. CASE handle[o] # "set"
    BY <1>1, <1>4, <2>2 DEF ExitFutureWriter, HasHandle, Tidy, Uncancelled, Closers, IsStream,
       Copied, Away, Writers, Spawned
  <2> QED BY <2>1, <2>2
<1> QED BY <1>3, <1>4 DEF Exit

LEMMA FinalizeTidy ==
  ASSUME IInv, Tidy, NEW o \in Objects, Finalize(o),
         KindOf[o] = "future_writer" => default'[o] # "none"
  PROVE  Tidy'
<1> USE EndsAssumption DEF IInv, TypeOK
<1>1. /\ Unreachable(o) /\ o \in finalizer /\ finalizer' = finalizer \ {o} /\ trap = "none"
      /\ UNCHANGED <<refs, handle, restored, sent, closed, op, target, spawned>> /\ default[o] = "none"
  BY DEF Finalize, Defaults
<1>2. end[o] = "open"
  <2>1. end[o] \in {"open", "copying"}
    BY <1>1 DEF Finalizers
  <2>2. end[o] # "copying"
    BY <1>1 DEF Users, Unreachable, Busy, Tidy, Uncancelled
  <2> QED BY <2>1, <2>2
<1>3. \/ /\ end' = [end EXCEPT ![o] = "dropped"] /\ UNCHANGED <<default, trap>>
      \/ /\ KindOf[o] = "future_writer" /\ default' = [default EXCEPT ![o] = "new"]
         /\ UNCHANGED <<end, trap>>
  BY <1>1, <1>2 DEF Finalize, Drop
<1>4. Closers'
  BY <1>1, <1>3 DEF Tidy, Closers, Copied, IsStream
<1>5. Away'
  BY <1>1, <1>3 DEF Tidy, Away, Copied, IsStream
<1>6. Writers'
  BY <1>3 DEF Tidy, Writers
<1> QED BY <1>1, <1>3, <1>4, <1>5, <1>6 DEF Tidy, Uncancelled, Spawned

LEMMA DefaultTidy ==
  ASSUME IInv, Tidy, NEW o \in Objects, StartDefault(o) \/ CompleteDefault(o),
         StartDefault(o) => default'[o] # "new"
  PROVE  Tidy'
<1> USE EndsAssumption DEF IInv, TypeOK
<1>1. /\ default[o] \in {"new", "copying"} /\ ~IsStream(o)
      /\ UNCHANGED <<refs, handle, finalizer, restored, sent, closed, op, target, spawned>>
  BY DEF StartDefault, CompleteDefault, Tidy, Writers, IsStream
<1>2. /\ trap' = "none"
      /\ \/ /\ default' = [default EXCEPT ![o] = "copying"]
            /\ end[o] = "open" /\ end' = [end EXCEPT ![o] = "copying"]
         \/ /\ default' = [default EXCEPT ![o] = "done"]
            /\ end' = [end EXCEPT ![o] = "dropped"]
  <2>1. CASE StartDefault(o)
    <3>1. end[o] = "open"
      BY <2>1 DEF StartDefault, Defaults
    <3> QED BY <1>1, <2>1, <3>1 DEF StartDefault, Copy, AfterCopy
  <2>2. CASE CompleteDefault(o)
    BY <1>1, <2>2 DEF CompleteDefault, AfterCopy
  <2> QED BY <2>1, <2>2
<1>3. Closers'
  BY <1>1, <1>2 DEF Tidy, Closers, Copied, IsStream
<1>4. Away'
  <2>1. o \notin sent
    BY <1>1 DEF Unsettled
  <2>2. end[o] = "open" => ~Copied(o)
    BY DEF Copies, Copied
  <2>3. end[o] = "open" => handle[o] = "set"
    BY <1>1, <2>1, <2>2 DEF Tidy, Away
  <2>4. \A x \in Objects : Copied(x) => Copied(x)'
    BY <1>1 DEF Copied
  <2> QED BY <1>1, <1>2, <2>1, <2>3, <2>4 DEF Tidy, Away, IsStream
<1>5. Writers'
  BY <1>1, <1>2 DEF Tidy, Writers
<1> QED BY <1>1, <1>2, <1>3, <1>4, <1>5 DEF Tidy, Uncancelled, Spawned

LEMMA SendTidy ==
  ASSUME IInv, Tidy, NEW o \in Objects, Send(o), ~Busy(o), handle[o] = "set"
  PROVE  Tidy'
<1> USE EndsAssumption DEF IInv, TypeOK
<1>1. /\ o \in refs /\ handle' = [handle EXCEPT ![o] = "deleted"] /\ Detach(o)
      /\ UNCHANGED <<refs, end, closed, op, target, spawned, default>>
  BY DEF Send, NothingToGive, GiveAway
<1>2. o \in finalizer \cup restored
  <2>1. end[o] = "open" /\ default[o] = "none" /\ o \notin sent /\ ~Copied(o)
    BY <1>1 DEF Held, Unreachable, Defaults, Unsettled, Copied, Busy
  <2> QED BY <2>1 DEF Tidy, Closers
<1>3. sent' = sent \cup {o} /\ trap' = "none"
  BY <1>2 DEF Send, NothingToGive, Tidy
<1>4. \A x \in Objects : Copied(x) <=> Copied(x)'
  BY <1>1 DEF Copied
<1>5. Closers'
  BY <1>1, <1>3, <1>4 DEF Tidy, Closers, Detach, IsStream
<1>6. Away'
  BY <1>1, <1>3, <1>4 DEF Tidy, Away, Detach, IsStream
<1>7. Spawned'
  BY <1>1 DEF Tidy, Spawned, Busy
<1> QED BY <1>1, <1>3, <1>5, <1>6, <1>7 DEF Tidy, Uncancelled, Writers

LEMMA SettleTidy ==
  ASSUME IInv, Tidy, NEW o \in Objects, Settle(o)
  PROVE  Tidy'
<1> USE EndsAssumption DEF IInv, TypeOK
<1>1. /\ o \in sent /\ sent' = sent \ {o} /\ handle[o] = "deleted"
      /\ UNCHANGED <<refs, finalizer, closed, op, target, spawned, default, trap>>
  BY DEF Settle, Unsettled
<1>2. \/ end' = [end EXCEPT ![o] = "moved"] /\ UNCHANGED <<handle, restored>>
      \/ /\ handle' = [handle EXCEPT ![o] = "set"]
         /\ restored' = restored \cup {o} /\ UNCHANGED end
  BY DEF Settle
<1>3. ~Copied(o) /\ o \notin restored
  BY <1>1 DEF Copies, Copied, Tidy, Away
<1>4. \A x \in Objects : Copied(x) <=> Copied(x)'
  BY <1>1 DEF Copied
<1>5. Closers'
  BY <1>1, <1>2, <1>4 DEF Tidy, Closers, IsStream
<1>6. Away'
  BY <1>1, <1>2, <1>3, <1>4 DEF Tidy, Away, IsStream
<1>7. Spawned'
  BY <1>1, <1>2 DEF Tidy, Spawned
<1> QED BY <1>1, <1>5, <1>6, <1>7 DEF Tidy, Uncancelled, Writers

LEMMA CarefulStep ==
  ASSUME IInv, careful => Tidy, [MCNext]_mcvars
  PROVE  (careful => Tidy)'
<1> SUFFICES ASSUME careful' PROVE Tidy'
  OBVIOUS
<1>0. /\ Tidy /\ [Next]_vars
      /\ ~UNCHANGED mcvars => ~Misstep
  BY DEF MCNext, Watch, mcvars
<1>1. CASE UNCHANGED vars
  BY <1>0, <1>1 DEF vars, Tidy, Uncancelled, Closers, Copied, Away, Writers, Spawned, IsStream
<1> SUFFICES ASSUME Next, ~Misstep PROVE Tidy'
  BY <1>0, <1>1 DEF mcvars
<1>2. ASSUME NEW k \in Calls, NEW o \in Objects, Call(k, o) PROVE Tidy'
  <2>1. \A j \in spawned : op[j] = "new" => target[j] # o
    BY <1>2 DEF Misstep
  <2> QED BY <1>0, <1>2, <2>1, NewCallTidy DEF Call
<1>3. ASSUME NEW k \in Calls, CallStep(k) PROVE Tidy'
  <2>1. op'[k] = "error" /\ Start(k) => ~HasHandle(target[k])
    BY DEF Misstep, Start
  <2> QED BY <1>0, <1>3, <2>1, StartTidy, CompleteTidy DEF CallStep
<1>4. \A k \in Calls : ~Cancel(k) /\ ~LateAnswer(k)
  BY <1>0 DEF Misstep, LateAnswer, Tidy, Uncancelled
<1>5. ASSUME NEW o \in Objects, Exit(o) PROVE Tidy'
  BY <1>0, <1>5, ExitTidy DEF Misstep
<1>6. ASSUME NEW o \in Objects, Transfer(o) PROVE Tidy'
  <2>1. handle[o] = "set" /\ ~Busy(o)
    BY <1>6 DEF Misstep, HasHandle
  <2>2. /\ handle' = [handle EXCEPT ![o] = "deleted"] /\ end' = [end EXCEPT ![o] = "moved"]
        /\ Detach(o) /\ UNCHANGED <<sent, op, target, spawned, default, trap>>
    BY <1>6, <2>1 DEF Transfer, NothingToGive, GiveAway
  <2> QED BY <1>0, <2>1, <2>2, GiveUpTidy
<1>s. ASSUME NEW o \in Objects, Send(o) PROVE Tidy'
  BY <1>0, <1>s, SendTidy DEF Misstep, HasHandle
<1>t. ASSUME NEW o \in Objects, Settle(o) PROVE Tidy'
  BY <1>0, <1>t, SettleTidy
<1>7. ASSUME NEW o \in Objects, Forget(o) PROVE Tidy'
  BY <1>0, <1>7 DEF Forget, Tidy, Uncancelled, Closers, Copied, Away, Writers, Spawned, IsStream
<1>8. ASSUME NEW o \in Objects, CloseStep(o) PROVE Tidy'
  <2>1. /\ Finalize(o) /\ KindOf[o] = "future_writer" => default'[o] # "none"
        /\ StartDefault(o) => default'[o] # "new"
    BY DEF Misstep
  <2> QED BY <1>0, <1>8, <2>1, FinalizeTidy, DefaultTidy DEF CloseStep
<1> QED BY <1>1, <1>2, <1>3, <1>4, <1>5, <1>6, <1>s, <1>t, <1>7, <1>8 DEF Next, Halt

LEMMA CarefulIsTidy == MCSpec => [](IInv /\ (careful => Tidy))
<1>1. MCInit => IInv /\ (careful => Tidy)
  <2> SUFFICES ASSUME MCInit PROVE IInv /\ Tidy
    OBVIOUS
  <2>1. Init
    BY DEF MCInit
  <2> QED BY <2>1, InitInv DEF Init, Tidy, Uncancelled, Closers, Away, Writers, Spawned
<1>2. IInv /\ (careful => Tidy) /\ [MCNext]_mcvars => IInv' /\ (careful => Tidy)'
  <2>1. [MCNext]_mcvars => [Next]_vars
    BY DEF MCNext, mcvars
  <2> QED BY <2>1, NextInv, CarefulStep
<1> QED BY <1>1, <1>2, PTL DEF MCSpec

\* Code that neither overlaps nor cancels the calls of an object, and gives away only
\* ends it has, is never trapped by the host and never panics, for any number of ends
\* and calls (read, write, __exit__, pop_stream, pop_future).
THEOREM CarefulCodeNeverTraps == MCSpec => []CarefulNeverTraps
<1>1. (careful => Tidy) => CarefulNeverTraps
  BY DEF Tidy, CarefulNeverTraps
<1> QED BY <1>1, CarefulIsTidy, PTL

\* ... and every end whose object it can no longer reach is closed, or its finalizer or
\* the write of its default will close it (weakref.finalize, FutureWriter.__exit__), but
\* for readers that a write gave back, of which the application still had the handle
\* (EmptyResource.restore).
THEOREM CarefulCodeNeverLeaks == MCSpec => []CarefulNeverLeaks
<1>1. IInv /\ (careful => Tidy) => CarefulNeverLeaks
  <2>1. IInv /\ Tidy => NoLeak
    BY DEF Tidy, Closers, Copied, NoLeak, Unreachable, Busy
  <2>2. IInv /\ Tidy => \A o \in restored : handle[o] = "set" \/ Copied(o)
    BY DEF IInv, TypeOK, Tidy, Away
  <2> QED BY <2>1, <2>2 DEF CarefulNeverLeaks, Copied
<1> QED BY <1>1, CarefulIsTidy, PTL
=============================================================================
