--------------------------- MODULE ExportLifecycle ---------------------------
(***************************************************************************)
(* What the runtime promises to the caller of an async export, without     *)
(* event loop, handles or counters: a call returns one value; work spawned *)
(* before it exits extends its lifetime; the call exits when it has        *)
(* returned and no work is left; and once some work failed no call exits.  *)
(***************************************************************************)
EXTENDS FiniteSets

CONSTANTS Exports, Work

VARIABLES
  status,   \* "new", "open", "returned" or "exited"
  work,     \* the unfinished work of each call
  failed    \* has any work failed?

avars == <<status, work, failed>>

TypeOK ==
  /\ status \in [Exports -> {"new", "open", "returned", "exited"}]
  /\ work \in [Exports -> SUBSET Work]
  /\ failed \in BOOLEAN

Init ==
  /\ status = [t \in Exports |-> "new"]
  /\ work = [t \in Exports |-> {}]
  /\ failed = FALSE

Fresh(c) == \A t \in Exports : c \notin work[t]

Begin(t, c) ==
  /\ ~failed /\ status[t] = "new" /\ Fresh(c)
  /\ status' = [status EXCEPT ![t] = "open"]
  /\ work' = [work EXCEPT ![t] = {c}]
  /\ UNCHANGED failed

Extend(t, c) ==
  /\ status[t] \in {"open", "returned"} /\ Fresh(c)
  /\ work' = [work EXCEPT ![t] = @ \cup {c}]
  /\ UNCHANGED <<status, failed>>

Return(t, c) ==
  /\ status[t] = "open" /\ c \in work[t]
  /\ status' = [status EXCEPT ![t] = "returned"]
  /\ work' = [work EXCEPT ![t] = @ \ {c}]
  /\ UNCHANGED failed

\* Until the value is returned, some work remains to return it.
Complete(t, c) ==
  /\ c \in work[t]
  /\ status[t] = "open" => work[t] # {c}
  /\ work' = [work EXCEPT ![t] = @ \ {c}]
  /\ UNCHANGED <<status, failed>>

Fail(t, c) ==
  /\ c \in work[t]
  /\ work' = [work EXCEPT ![t] = @ \ {c}]
  /\ failed' = TRUE
  /\ UNCHANGED status

\* Something that is no work of any call failed.
FailOutside ==
  /\ failed' = TRUE
  /\ UNCHANGED <<status, work>>

Exit(t) ==
  /\ ~failed /\ status[t] = "returned" /\ work[t] = {}
  /\ status' = [status EXCEPT ![t] = "exited"]
  /\ UNCHANGED <<work, failed>>

Next ==
  \/ FailOutside
  \/ \E t \in Exports :
       \/ Exit(t)
       \/ \E c \in Work : \/ Begin(t, c) \/ Extend(t, c) \/ Return(t, c)
                          \/ Complete(t, c) \/ Fail(t, c)

Spec == Init /\ [][Next]_avars
=============================================================================
