---------------------------- MODULE MCAsyncTasks ----------------------------
(* Instances of AsyncTasks for TLC, and the refinement of ExportLifecycle. *)
EXTENDS AsyncTasks

CONSTANTS e1, e2, w1, s1

OwnLocks == [t \in Exports |-> t]
OneLock  == [t \in Exports |-> e1]

\* The status of a call as its caller sees it.
Status(t) ==
  IF phase[t] \in {"new", "exited"} THEN phase[t]
  ELSE IF returned[t] THEN "returned" ELSE "open"

Lifecycle == INSTANCE ExportLifecycle WITH
  Work <- Coros,
  status <- [t \in Exports |-> Status(t)],
  work <- [t \in Exports |-> Live(t)],
  failed <- exception

\* The event loop implements the promise made to the caller: in particular the
\* count that decides about exiting agrees with the work itself, and a failure
\* is never followed by an exit.
ImplementsLifecycle == Lifecycle!Spec
=============================================================================
