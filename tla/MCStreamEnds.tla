---------------------------- MODULE MCStreamEnds ----------------------------
(***************************************************************************)
(* Instances of StreamEnds for TLC, with a history variable: whether the   *)
(* application has been careful so far, which is what the properties that   *)
(* need its cooperation depend on.                                         *)
(***************************************************************************)
EXTENDS StreamEnds

CONSTANTS sr, fr, fw, k1, k2

Classes ==
  [o \in Objects |-> CASE o = sr -> "stream_reader"
                       [] o = fr -> "future_reader"
                       [] o = fw -> "future_writer"]

VARIABLE careful
mcvars == <<vars, careful>>

\* An object is closed or given away in the middle of a call, or given away when it
\* has no end to give; a writer is used before the write that its __exit__ spawned has
\* begun; a call is cancelled, a buffer cannot be had, or a default is lost.
Misstep ==
  \/ \E o \in Objects :
       \/ Busy(o) /\ Exit(o)
       \/ (Busy(o) \/ ~HasHandle(o)) /\ (Transfer(o) \/ Send(o))
       \/ Finalize(o) /\ KindOf[o] = "future_writer" /\ default'[o] = "none"
       \/ StartDefault(o) /\ default'[o] = "new"
  \/ \E k \in Calls :
       \/ Cancel(k) \/ (op'[k] = "error" /\ op[k] = "new" /\ HasHandle(target[k]))
       \/ \E j \in spawned : op[j] = "new" /\ Call(k, target[j])

Watch == careful' = (careful /\ ~Misstep)

MCInit == Init /\ careful = TRUE

MCNext == Next /\ Watch

MCSpec ==
  /\ MCInit
  /\ [][MCNext]_mcvars
  /\ \A k \in Calls : WF_mcvars(CallStep(k) /\ Watch)
  /\ \A o \in Objects : WF_mcvars(CloseStep(o) /\ Watch)

\* An application that neither overlaps nor cancels calls causes no trap and no
\* panic (read, write, __exit__, pop_stream, pop_future).
CarefulNeverTraps == careful => trap = "none"

\* ... and loses no end: the object, its finalizer or the spawned default is there
\* to close it (weakref.finalize, FutureWriter.__exit__).  A reader that was left unread
\* is lost when the application forgets it unclosed (EmptyResource.restore), but until
\* then it can be closed: it has its handle again, but for the time of a call.
CarefulNeverLeaks ==
  careful =>
    /\ NoLeak
    /\ \A o \in restored :
         handle[o] = "set" \/ \E k \in Calls : target[k] = o /\ op[k] = "copying"

\* What a careful application forgets is closed in the end, by its finalizer, a
\* FutureWriter's after its reader got some value.  This is not promised for readers
\* that were restored (EmptyResource.restore).
ForgottenIsClosed ==
  \A o \in Objects :
    Unreachable(o) ~> ~careful \/ o \in restored \/ end[o] \in {"dropped", "moved"}
=============================================================================
