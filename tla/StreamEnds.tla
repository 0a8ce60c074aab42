------------------------------ MODULE StreamEnds ------------------------------
(***************************************************************************)
(* The Python objects that own the guest's ends of streams and futures     *)
(* (componentize_py_async_support/streams.py and futures.py): who holds    *)
(* the handle of an end, and who drops the end.                            *)
(*                                                                         *)
(* A method takes self.handle away while it runs.  Besides the object, a   *)
(* weakref.finalize holds the handle, to close the end when the object     *)
(* becomes unreachable.  The host traps when a copy is started on an end   *)
(* that is closed or busy, and when such an end is dropped.                *)
(*                                                                         *)
(* A reader in a value that is written to another end is the host's only   *)
(* when the value is read; otherwise it is put back into its object, with  *)
(* a finalizer that does not work.                                         *)
(*                                                                         *)
(* The byte and the generic streams have the same code.                    *)
(***************************************************************************)
EXTENDS Naturals, FiniteSets

CONSTANTS
  Objects,   \* ends handed to the application, each wrapped in its object
  KindOf,    \* the class of each object
  Calls,     \* bound: calls of read and write, by the application or __exit__
  NoObject,
  Ops        \* what may happen besides undisturbed reads and writes

Kinds == {"stream_reader", "stream_writer", "future_reader", "future_writer"}

\* "with": __exit__;  "transfer": a reader is passed to the host;  "send": a
\* reader is part of a value that is written;  "overlap": one of these three while
\* a call of the same object is unfinished;  "cancel": the task
\* of a call is cancelled;  "nomem": the buffer cannot be allocated;  "lost
\* default": a finalizer runs outside any task, or its default() raises.
OpNames == {"with", "transfer", "send", "overlap", "cancel", "nomem", "lost default"}

ASSUME EndsAssumption ==
  /\ KindOf \in [Objects -> Kinds]
  /\ NoObject \notin Objects
  /\ Ops \subseteq OpNames

VARIABLES
  refs,       \* the objects that the application refers to
  handle,     \* self.handle: "set", "none", or "deleted" when it is given away
  finalizer,  \* the finalizers that are alive, as __init__ made them
  restored,   \* those that restore made, which fail when they run
  sent,       \* the readers in values being written
  closed,     \* the streams with writer_dropped or reader_dropped
  end,        \* the end as the host sees it
  op,         \* the progress of each call
  target,     \* the object of each call
  spawned,    \* the calls that __exit__ spawned
  default,    \* the progress of the write that a FutureWriter's finalizer spawns
  trap

vars == <<refs, handle, finalizer, restored, sent, closed, end, op, target, spawned,
          default, trap>>

IsStream(o) == KindOf[o] \in {"stream_reader", "stream_writer"}
IsReader(o) == KindOf[o] \in {"stream_reader", "future_reader"}
Busy(o)     == \E k \in Calls : target[k] = o /\ op[k] \in {"new", "copying"}

\* A finalizer runs when nothing refers to its object: no application code, no method
\* that is running, no write that may have to restore it.
Unreachable(o) == o \notin refs /\ ~Busy(o) /\ o \notin sent

Init ==
  /\ refs = Objects
  /\ handle = [o \in Objects |-> "set"]
  /\ finalizer = Objects
  /\ restored = {} /\ sent = {} /\ spawned = {}
  /\ closed = {}
  /\ end = [o \in Objects |-> "open"]
  /\ op = [k \in Calls |-> "none"]
  /\ target = [k \in Calls |-> NoObject]
  /\ default = [o \in Objects |-> "none"]
  /\ trap = "none"

-----------------------------------------------------------------------------
(* The host's side.                                                        *)

Drop(o) ==
  IF end[o] = "open"
    THEN end' = [end EXCEPT ![o] = "dropped"] /\ UNCHANGED trap
    ELSE trap' = "drop" /\ UNCHANGED end

\* The end after a copy: a stream stays open, a future is dropped by the method.
AfterCopy_mut_never_dropped(o) == "open"
AfterCopy(o) == IF IsStream(o) THEN "open" ELSE "dropped"

\* stream_read, stream_write, future_read and future_write: the copy traps, is
\* blocked, or is over at once.
Copy(o, blocked) ==
  IF end[o] # "open"
    THEN trap' = "copy" /\ UNCHANGED end
    ELSE /\ end' = [end EXCEPT ![o] = IF blocked THEN "copying" ELSE AfterCopy(o)]
         /\ UNCHANGED trap

-----------------------------------------------------------------------------
(* Calls of read and write.                                                *)

NewCall(k, o) ==
  /\ op[k] = "none"
  /\ op' = [op EXCEPT ![k] = "new"]
  /\ target' = [target EXCEPT ![k] = o]

Call(k, o) ==
  /\ trap = "none" /\ o \in refs
  /\ NewCall(k, o)
  /\ UNCHANGED <<refs, handle, finalizer, restored, sent, closed, end, spawned, default, trap>>

Result_mut_forgotten(k, s) == op' = [op EXCEPT ![k] = "none"]
Result(k, s) == op' = [op EXCEPT ![k] = s]

\* A call without a handle raises AssertionError.
HasHandle_mut_unchecked(o) == handle[o] # "deleted"
HasHandle(o) == handle[o] = "set"

TakeHandle(o) == handle' = [handle EXCEPT ![o] = "none"]
Detach(o) == finalizer' = finalizer \ {o} /\ restored' = restored \ {o}

\* An exception goes to the caller, who may catch it.  That of a spawned call is
\* recorded by _wrap_spawned and raised by poll, where the runtime panics.
Raise(k) ==
  /\ Result(k, "error")
  /\ trap' = IF k \in spawned THEN "panic" ELSE trap

\* read and write of a stream: the handle comes back with the result.
StartStream(k, o) ==
  /\ IsStream(o) /\ UNCHANGED <<finalizer, restored>>
  /\ \/ /\ o \in closed
        /\ Result(k, "done") /\ UNCHANGED <<handle, closed, end, trap>>
     \/ /\ o \notin closed /\ ~HasHandle(o)
        /\ Raise(k) /\ UNCHANGED <<handle, closed, end>>
     \/ /\ o \notin closed /\ HasHandle(o)
        /\ \/ /\ TakeHandle(o) /\ Copy(o, TRUE)
              /\ Result(k, "copying") /\ UNCHANGED closed
           \/ /\ UNCHANGED handle /\ Copy(o, FALSE)
              /\ Result(k, "done") /\ closed' \in {closed, closed \cup {o}}
           \/ /\ "nomem" \in Ops
              /\ TakeHandle(o) /\ Raise(k) /\ UNCHANGED <<closed, end>>

\* read and write of a future consume the object: the finalizer goes first, and
\* once the value is copied the end is dropped.
StartFuture(k, o) ==
  /\ ~IsStream(o) /\ UNCHANGED closed
  /\ Detach(o)
  /\ \/ /\ ~HasHandle(o)
        /\ Raise(k) /\ UNCHANGED <<handle, end>>
     \/ /\ HasHandle(o) /\ TakeHandle(o)
        /\ \/ Copy(o, TRUE) /\ Result(k, "copying")
           \/ Copy(o, FALSE) /\ Result(k, "done")
           \/ "nomem" \in Ops /\ Raise(k) /\ UNCHANGED end

Start(k) ==
  /\ trap = "none" /\ op[k] = "new"
  /\ StartStream(k, target[k]) \/ StartFuture(k, target[k])
  /\ UNCHANGED <<refs, sent, target, spawned, default>>

\* The answer to a blocked operation resumes the call.
Complete(k) ==
  LET o == target[k] IN
  /\ trap = "none" /\ op[k] = "copying"
  /\ Result(k, "done")
  /\ end' = [end EXCEPT ![o] = AfterCopy(o)]
  /\ IF IsStream(o)
       THEN /\ handle' = [handle EXCEPT ![o] = "set"]
            /\ closed' \in {closed, closed \cup {o}}
       ELSE UNCHANGED <<handle, closed>>
  /\ UNCHANGED <<refs, finalizer, restored, sent, target, spawned, default, trap>>

\* The task of the call is cancelled: the handle stays with the lost call, and
\* the host is not told.
Cancel(k) ==
  /\ "cancel" \in Ops /\ trap = "none"
  /\ op[k] \in {"new", "copying"}
  /\ Result(k, "lost")
  /\ UNCHANGED <<refs, handle, finalizer, restored, sent, closed, end, target, spawned,
                 default, trap>>

\* The answer to a lost call finds its future cancelled (AsyncTasks!SetResult).
LateAnswer(k) ==
  /\ trap = "none" /\ op[k] = "lost" /\ end[target[k]] = "copying"
  /\ trap' = "set_result"
  /\ UNCHANGED <<refs, handle, finalizer, restored, sent, closed, end, op, target, spawned,
                 default>>

-----------------------------------------------------------------------------
(* __exit__, readers given away, and finalization.                         *)

Undisturbed(o) == "overlap" \in Ops \/ ~Busy(o)

\* ByteStreamReader, ByteStreamWriter, StreamReader and StreamWriter detach the
\* finalizer even when the handle is away.
ExitStream(o) ==
  /\ IsStream(o) /\ Detach(o)
  /\ IF HasHandle(o)
       THEN TakeHandle(o) /\ Drop(o)
       ELSE UNCHANGED <<handle, end, trap>>
  /\ UNCHANGED <<op, target, spawned>>

ExitFutureReader(o) ==
  /\ KindOf[o] = "future_reader"
  /\ IF HasHandle(o)
       THEN Detach(o) /\ TakeHandle(o) /\ Drop(o)
       ELSE UNCHANGED <<finalizer, restored, handle, end, trap>>
  /\ UNCHANGED <<op, target, spawned>>

\* FutureWriter spawns a write of the default, which takes the handle only when
\* its first step runs.
ExitFutureWriter(o) ==
  /\ KindOf[o] = "future_writer"
  /\ IF HasHandle(o)
       THEN \E k \in Calls : NewCall(k, o) /\ spawned' = spawned \cup {k}
       ELSE UNCHANGED <<op, target, spawned>>
  /\ UNCHANGED <<finalizer, restored, handle, end, trap>>

Exit(o) ==
  /\ "with" \in Ops /\ trap = "none"
  /\ o \in refs /\ Undisturbed(o)
  /\ ExitStream(o) \/ ExitFutureReader(o) \/ ExitFutureWriter(o)
  /\ UNCHANGED <<refs, sent, closed, default>>

\* pop_stream and pop_future take handle and finalizer out of a reader, in any
\* value that is lowered.  Without a handle they panic.
GiveAway(o) ==
  /\ handle[o] = "set" /\ handle' = [handle EXCEPT ![o] = "deleted"]
  /\ Detach(o)

NothingToGive(o) ==
  /\ handle[o] # "set" /\ trap' = "panic"
  /\ UNCHANGED <<handle, finalizer, restored, sent, end>>

\* In a result or a parameter the reader becomes the host's.
Transfer(o) ==
  /\ "transfer" \in Ops /\ trap = "none"
  /\ o \in refs /\ IsReader(o) /\ Undisturbed(o)
  /\ \/ NothingToGive(o)
     \/ /\ GiveAway(o) /\ end' = [end EXCEPT ![o] = "moved"]
        /\ UNCHANGED <<sent, trap>>
  /\ UNCHANGED <<refs, closed, op, target, spawned, default>>

\* stream_write and future_write keep the object and what detach returns, which is
\* None if the finalizer was detached before: a panic.
Send(o) ==
  /\ "send" \in Ops /\ trap = "none"
  /\ o \in refs /\ IsReader(o) /\ Undisturbed(o)
  /\ \/ NothingToGive(o)
     \/ /\ GiveAway(o) /\ UNCHANGED end
        /\ IF o \in finalizer \cup restored
             THEN sent' = sent \cup {o} /\ UNCHANGED trap
             ELSE trap' = "panic" /\ UNCHANGED sent
  /\ UNCHANGED <<refs, closed, op, target, spawned, default>>

\* The write is answered.  A reader in what was not read is restored; its new
\* finalizer is called with a tuple and a dict for type and handle, and drops nothing.
Settle(o) ==
  /\ trap = "none" /\ o \in sent
  /\ sent' = sent \ {o}
  /\ \/ end' = [end EXCEPT ![o] = "moved"] /\ UNCHANGED <<handle, restored>>
     \/ /\ handle' = [handle EXCEPT ![o] = "set"]
        /\ restored' = restored \cup {o} /\ UNCHANGED end
  /\ UNCHANGED <<refs, finalizer, closed, op, target, spawned, default, trap>>

Forget(o) ==
  /\ trap = "none" /\ o \in refs
  /\ refs' = refs \ {o}
  /\ UNCHANGED <<handle, finalizer, restored, sent, closed, end, op, target, spawned,
                 default, trap>>

\* The finalizer drops the end.  For a FutureWriter it spawns the write of the
\* default instead, in the task that happens to run; spawn fails outside a task.
Finalize(o) ==
  /\ trap = "none" /\ Unreachable(o) /\ o \in finalizer
  /\ finalizer' = finalizer \ {o}
  /\ IF KindOf[o] # "future_writer"
       THEN Drop(o) /\ UNCHANGED default
       ELSE /\ \/ default' = [default EXCEPT ![o] = "new"]
               \/ "lost default" \in Ops /\ UNCHANGED default
            /\ UNCHANGED <<end, trap>>
  /\ UNCHANGED <<refs, handle, restored, sent, closed, op, target, spawned>>

\* _write, which is spawned: the value is copied and the end dropped, without an
\* object.  Without a buffer it raises MemoryError, which is a panic.
StartDefault(o) ==
  /\ trap = "none" /\ default[o] = "new"
  /\ \/ \E blocked \in BOOLEAN :
          /\ Copy(o, blocked)
          /\ default' = [default EXCEPT ![o] = IF blocked THEN "copying" ELSE "done"]
     \/ "nomem" \in Ops /\ trap' = "panic" /\ UNCHANGED <<end, default>>
  /\ UNCHANGED <<refs, handle, finalizer, restored, sent, closed, op, target, spawned>>

CompleteDefault(o) ==
  /\ trap = "none" /\ default[o] = "copying"
  /\ default' = [default EXCEPT ![o] = "done"]
  /\ end' = [end EXCEPT ![o] = AfterCopy(o)]
  /\ UNCHANGED <<refs, handle, finalizer, restored, sent, closed, op, target, spawned, trap>>

Halt ==
  /\ trap # "none" \/ refs = {}
  /\ UNCHANGED vars

CallStep(k) == Start(k) \/ Complete(k)
CloseStep(o) == Finalize(o) \/ StartDefault(o) \/ CompleteDefault(o)

Next ==
  \/ \E k \in Calls :
       \/ \E o \in Objects : Call(k, o)
       \/ CallStep(k) \/ Cancel(k) \/ LateAnswer(k)
  \/ \E o \in Objects :
       \/ Exit(o) \/ Transfer(o) \/ Send(o) \/ Settle(o)
       \/ Forget(o) \/ CloseStep(o)
  \/ Halt

Spec == Init /\ [][Next]_vars

-----------------------------------------------------------------------------
(* Properties.                                                             *)

TypeOK ==
  /\ refs \subseteq Objects
  /\ handle \in [Objects -> {"set", "none", "deleted"}]
  /\ finalizer \subseteq Objects /\ restored \subseteq Objects
  /\ sent \subseteq Objects /\ closed \subseteq Objects
  /\ spawned \subseteq {k \in Calls : op[k] # "none"}
  /\ end \in [Objects -> {"open", "copying", "dropped", "moved"}]
  /\ op \in [Calls -> {"none", "new", "copying", "done", "error", "lost"}]
  /\ target \in [Calls -> Objects \cup {NoObject}]
  /\ \A k \in Calls : op[k] = "none" <=> target[k] = NoObject
  /\ default \in [Objects -> {"none", "new", "copying", "done"}]
  /\ trap \in {"none", "copy", "drop", "set_result", "panic"}

\* Whatever the application does, the host is never asked to copy on an end that
\* is busy, dropped or given away: the object, a running call, and the write of a
\* default never hold the same handle at once (read, write, _write).
CopiesAreLegal == trap # "copy"

\* A handle in the object is a handle to an open end that no operation uses.
HandleIsFree ==
  \A o \in Objects : handle[o] = "set" /\ ~Unreachable(o) =>
    /\ end[o] = "open" /\ default[o] = "none"
    /\ \A k \in Calls : target[k] = o => op[k] # "copying"

\* An end is never dropped twice or while busy, unless a call was cancelled.
DropsAreLegal == trap = "drop" => \E k \in Calls : op[k] = "lost"

\* "If the object becomes unreachable without being closed, it will be closed
\* via finalization": an end whose object is unreachable is closed, or something
\* is left that will close it (weakref.finalize, _write_default).  Not so an end
\* whose finalizer was made by EmptyResource.restore.
NoLeak ==
  \A o \in Objects : Unreachable(o) =>
    \/ end[o] \in {"dropped", "moved"}
    \/ o \in finalizer \cup restored \/ default[o] \in {"new", "copying"}
=============================================================================
