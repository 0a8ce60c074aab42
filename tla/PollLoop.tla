------------------------------ MODULE PollLoop ------------------------------
(***************************************************************************)
(* poll_loop.py: the asyncio event loop of wasi:http@0.2 components, built *)
(* on wasi:io/poll, with the coroutines that wait on it: send() for a      *)
(* response, Stream.next() for body chunks, Sink.send() and close() for an *)
(* outgoing body.  A Main coroutine starts one child per Fetcher, Reader   *)
(* and Writer, may wait for a response of its own, may cancel children and *)
(* may gather them.  asyncio's Task, Handle and gather are external and    *)
(* modelled from how the loop calls them; so is the host.                  *)
(***************************************************************************)
EXTENDS Integers, Sequences, FiniteSets, SequencesExt

CONSTANTS
  Main,                          \* the coroutine given to run_until_complete
  Fetchers, Readers, Writers,    \* children: send(), Stream and Sink users
  ChunkLen,                      \* bytes a Writer sends in one Sink.send
  MaxPermit,                     \* most bytes check_write grants at once
  MaxChunks,                     \* chunks the host puts in a Reader's body
  Ops                            \* subset of {"own", "cancel", "raise", "break"}

Children == Fetchers \cup Readers \cup Writers
Tasks == Children \cup {Main}
NoTask == "no task"

ASSUME ConstantsAssumption ==
  /\ ChunkLen \in Nat /\ MaxPermit \in Nat \ {0} /\ MaxChunks \in Nat
  /\ Ops \subseteq {"own", "cancel", "raise", "break"}
  /\ IsFiniteSet(Children) /\ Main \notin Children /\ NoTask \notin Tasks
  /\ Fetchers \cap Readers = {} /\ Writers \cap (Fetchers \cup Readers) = {}

VARIABLES
  phase,      \* run_until_complete: "run", "poll", or how it ended
  handles,    \* self.handles
  batch,      \* the handles of this iteration still to be run
  wakers,     \* self.wakers: [task, live]; live = the future is not cancelled
  exception,  \* self.exception is set
  raised,     \* history: a callback has raised
  current,    \* the task that is running, or NoTask
  state,      \* of each task
  cancelling, \* tasks that get CancelledError at their next step
  plan,       \* where Main is: "start", "own", "after", "gather"
  gathered,   \* children whose done callback has run
  resp,       \* response of a Fetcher, or of Main
  body,       \* input stream of a Reader
  sink,       \* output stream of a Writer
  alive       \* host objects not dropped yet, by task

loopVars == <<phase, handles, batch, wakers, exception, raised>>
taskVars == <<current, state, cancelling, plan, gathered>>
hostVars == <<resp, body, sink, alive>>
vars == <<loopVars, taskVars, hostVars>>

Ended == {"done", "failed", "cancelled"}
Step(t) == [kind |-> "step", task |-> t]
Done(t) == [kind |-> "done", task |-> t]
Raise == [kind |-> "raise", task |-> Main]

Init ==
  /\ phase = "run" /\ handles = <<>> /\ batch = <<Step(Main)>> /\ wakers = <<>>
  /\ exception = FALSE /\ raised = FALSE
  /\ current = NoTask
  /\ state = [t \in Tasks |-> IF t = Main THEN "ready" ELSE "new"]
  /\ cancelling = {} /\ plan = "start" /\ gathered = {}
  /\ resp = [t \in Fetchers \cup {Main} |-> "pending"]
  /\ body = [t \in Readers |-> [avail |-> 0, total |-> 0, read |-> 0, status |-> "open"]]
  /\ sink = [t \in Writers |-> [permit |-> 0, written |-> 0, flushed |-> 0,
                                busy |-> FALSE, asked |-> FALSE, broken |-> FALSE]]
  /\ alive = Tasks

-----------------------------------------------------------------------------
(* The host: what a pollable of an object reports, and what may happen.    *)

CheckWrite(t) == IF sink[t].busy THEN 0 ELSE sink[t].permit

Ready(t) ==
  CASE t \in Readers -> body[t].avail > 0 \/ body[t].status # "open"
    [] t \in Writers -> CheckWrite(t) > 0 \/ sink[t].broken
    [] OTHER -> resp[t] # "pending"

BodySent == \A t \in Writers : state[t] \in Ended

\* A child's request is answered once its body has been sent; Main's own
\* response depends on nobody.
Respond(t) ==
  /\ resp[t] = "pending" /\ (t = Main \/ BodySent)
  /\ \E r \in {"ready"} \cup (IF "break" \in Ops THEN {"error"} ELSE {}) :
       resp' = [resp EXCEPT ![t] = r]
  /\ UNCHANGED <<body, sink>>

Produce(t) ==
  /\ body[t].status = "open"
  /\ \/ /\ body[t].total < MaxChunks
        /\ body' = [body EXCEPT ![t].avail = @ + 1, ![t].total = @ + 1]
     \/ \E s \in {"closed"} \cup (IF "break" \in Ops THEN {"broken"} ELSE {}) :
          body' = [body EXCEPT ![t].status = s]
  /\ UNCHANGED <<resp, sink>>

Accept(t) ==
  /\ CheckWrite(t) = 0 /\ ~sink[t].broken
  /\ \/ \E n \in 1..MaxPermit :
          sink' = [sink EXCEPT ![t].permit = n, ![t].flushed = sink[t].written,
                               ![t].busy = FALSE]
     \/ "break" \in Ops /\ sink' = [sink EXCEPT ![t].broken = TRUE]
  /\ UNCHANGED <<resp, body>>

Host(t) ==
  /\ IF t \in Readers THEN Produce(t) ELSE IF t \in Writers THEN Accept(t) ELSE Respond(t)
  /\ UNCHANGED <<loopVars, taskVars, alive>>

\* Dropping an object of which a pollable is left traps.
HasPollable(t) == \E i \in DOMAIN wakers : wakers[i].task = t
Drop(t) ==
  /\ alive' = alive \ {t}
  /\ phase' = IF HasPollable(t) THEN "trap" ELSE phase

\* The application lets go of what an ended child held: its finalizer runs.
Forget(t) ==
  /\ phase \in {"run", "poll"} /\ state[t] \in Ended /\ t \in alive
  /\ Drop(t)
  /\ UNCHANGED <<handles, batch, wakers, exception, raised, taskVars, resp, body, sink>>

-----------------------------------------------------------------------------
(* Coroutines.                                                             *)

\* register: a new future is added to the wakers and awaited.
Register(t) ==
  /\ wakers' = Append(wakers, [task |-> t, live |-> TRUE])
  /\ state' = [state EXCEPT ![t] = "waiting"]
  /\ current' = NoTask
  /\ UNCHANGED <<handles, phase, alive>>

\* A child's coroutine ends; gather's callback is scheduled if Main waits.
End(t, how) ==
  /\ state' = [state EXCEPT ![t] = how]
  /\ current' = NoTask
  /\ handles' = IF plan = "gather" THEN Append(handles, Done(t)) ELSE handles
  /\ UNCHANGED wakers

Running(t) == phase = "run" /\ current = t

Fetch(t) ==
  /\ Running(t) /\ (t # Main \/ plan = "own")
  /\ \/ resp[t] = "pending" /\ Register(t) /\ UNCHANGED <<resp, plan>>
     \/ /\ resp[t] # "pending"
        /\ resp' = [resp EXCEPT ![t] = "taken"]
        /\ IF t # Main
             THEN End(t, IF resp[t] = "ready" THEN "done" ELSE "failed") /\ UNCHANGED plan
             ELSE /\ plan' = "after"
                  /\ UNCHANGED <<handles, wakers, state, current>>
        /\ Drop(t)
  /\ UNCHANGED <<batch, exception, raised, cancelling, gathered, body, sink>>

\* Stream.next until it returns None
EndOfStream_mut_any_error(t) == body[t].status # "open"
EndOfStream(t) == body[t].status = "closed"

ReadBody(t) ==
  /\ Running(t)
  /\ \/ /\ body[t].avail > 0
        /\ body' = [body EXCEPT ![t].avail = 0, ![t].read = @ + body[t].avail]
        /\ UNCHANGED <<handles, phase, wakers, state, current, alive>>
     \/ /\ body[t].avail = 0 /\ UNCHANGED body
        /\ \/ body[t].status = "open" /\ Register(t)
           \/ body[t].status # "open" /\ EndOfStream(t) /\ End(t, "done") /\ Drop(t)
           \/ /\ body[t].status # "open" /\ ~EndOfStream(t)
              /\ End(t, "failed") /\ UNCHANGED <<phase, alive>>
  /\ UNCHANGED <<batch, exception, raised, cancelling, plan, gathered, resp, sink>>

\* Sink.send: how many bytes to write, and when the chunk has been sent
Portion_mut_rest(t) == ChunkLen - sink[t].written
Portion(t) ==
  IF CheckWrite(t) < ChunkLen - sink[t].written
    THEN CheckWrite(t) ELSE ChunkLen - sink[t].written
Sent_mut_unflushed(t) == sink[t].written = ChunkLen
Sent_mut_reflush(t) == FALSE
Sent(t) == sink[t].written = ChunkLen /\ sink[t].asked

\* wasi:io traps on a write that check_write did not permit.
Put(t, n) ==
  /\ sink' = [sink EXCEPT ![t].permit = @ - n, ![t].written = @ + n]
  /\ phase' = IF n > CheckWrite(t) THEN "trap" ELSE phase

WriteBody(t) ==
  /\ Running(t)
  /\ \/ sink[t].broken /\ End(t, "failed") /\ UNCHANGED <<sink, phase, alive>>
     \/ ~sink[t].broken /\ CheckWrite(t) = 0 /\ Register(t) /\ UNCHANGED sink
     \/ /\ ~sink[t].broken /\ CheckWrite(t) > 0 /\ Sent(t)
        /\ End(t, "done") /\ Drop(t) /\ UNCHANGED sink
     \/ /\ ~sink[t].broken /\ CheckWrite(t) > 0 /\ ~Sent(t)
        /\ IF sink[t].written = ChunkLen
             THEN /\ sink' = [sink EXCEPT ![t].busy = TRUE, ![t].asked = TRUE]
                  /\ UNCHANGED phase
             ELSE Put(t, Portion(t))
        /\ UNCHANGED <<handles, wakers, state, current, alive>>
  /\ UNCHANGED <<batch, exception, raised, cancelling, plan, gathered, resp, body>>

MainStart ==
  /\ Running(Main) /\ plan = "start"
  /\ \E callback \in {<<>>} \cup (IF "raise" \in Ops THEN {<<Raise>>} ELSE {}) :
       LET started == [t \in Tasks |-> IF t = Main THEN "joining" ELSE "ready"]
           h == callback \o SetToSeq({Step(t) : t \in Children})
       IN  \/ state' = started /\ current' = NoTask /\ plan' = "gather" /\ handles' = h
           \/ /\ "own" \in Ops
              /\ state' = [started EXCEPT ![Main] = "running"]
              /\ plan' = "own" /\ handles' = h /\ UNCHANGED current
  /\ UNCHANGED <<phase, batch, wakers, exception, raised, cancelling, gathered, hostVars>>

\* task.cancel(): a pending waker future is cancelled, which wakes the task.
MainContinues(S) ==
  /\ Running(Main) /\ plan = "after"
  /\ S # {} => "cancel" \in Ops /\ \A t \in S : state[t] \in {"ready", "waiting"}
  /\ LET woken == {t \in S : state[t] = "waiting"}
         h == handles \o SetToSeq({Step(t) : t \in woken})
     IN  /\ wakers' = [i \in DOMAIN wakers |->
                         IF wakers[i].task \in woken THEN [wakers[i] EXCEPT !.live = FALSE]
                                                     ELSE wakers[i]]
         /\ cancelling' = cancelling \cup S
         /\ current' = NoTask
         /\ \E join \in BOOLEAN :
              /\ plan' = IF join THEN "gather" ELSE "after"
              /\ state' = [t \in Tasks |-> IF t \in woken THEN "ready"
                                           ELSE IF t # Main THEN state[t]
                                           ELSE IF join THEN "joining" ELSE "done"]
              /\ handles' = IF ~join THEN h
                            ELSE h \o SetToSeq({Done(t) : t \in {c \in Children : state[c] \in Ended}})
  /\ UNCHANGED <<phase, batch, exception, raised, gathered, hostVars>>

\* Main is woken from its gather: it returns, or raises a child's exception.
MainEnds ==
  /\ Running(Main) /\ plan = "gather"
  /\ state' = [state EXCEPT ![Main] =
                 IF \A t \in Children : state[t] = "done" THEN "done" ELSE "failed"]
  /\ current' = NoTask
  /\ UNCHANGED <<loopVars, cancelling, plan, gathered, hostVars>>

-----------------------------------------------------------------------------
(* run_until_complete.                                                     *)

\* A cancelled task's coroutine gets CancelledError, which nothing in
\* poll_loop.py catches.
RunStep(t) ==
  IF t \in cancelling
    THEN /\ End(t, "cancelled")
         /\ cancelling' = cancelling \ {t}
         /\ UNCHANGED <<exception, raised, gathered>>
    ELSE /\ current' = t
         /\ state' = [state EXCEPT ![t] = "running"]
         /\ UNCHANGED <<handles, wakers, exception, raised, cancelling, gathered>>

\* gather is complete with its first failure, or when all are done.
RunDone(t) ==
  /\ gathered' = gathered \cup {t}
  /\ IF state[Main] = "joining" /\ (state[t] # "done" \/ gathered' = Children)
       THEN handles' = Append(handles, Step(Main)) /\ state' = [state EXCEPT ![Main] = "ready"]
       ELSE UNCHANGED <<handles, state>>
  /\ UNCHANGED <<wakers, exception, raised, cancelling, current>>

\* call_exception_handler, from Handle._run
RunRaise_mut_silent ==
  raised' = TRUE /\ UNCHANGED <<exception, handles, wakers, state, cancelling, gathered, current>>
RunRaise ==
  /\ exception' = TRUE /\ raised' = TRUE
  /\ UNCHANGED <<handles, wakers, state, cancelling, gathered, current>>

RunHandle ==
  /\ phase = "run" /\ current = NoTask /\ batch # <<>>
  /\ batch' = Tail(batch)
  /\ LET h == Head(batch)
     IN  CASE h.kind = "step" -> RunStep(h.task)
           [] h.kind = "done" -> RunDone(h.task)
           [] OTHER -> RunRaise
  /\ UNCHANGED <<phase, plan, hostVars>>

\* After the poll: a recorded exception is raised, a result is returned, or
\* the next iteration takes the handles scheduled so far.
Continue(h) ==
  \/ exception /\ phase' = "exception" /\ handles' = h /\ batch' = <<>>
  \/ /\ ~exception /\ state[Main] \in Ended
     /\ phase' = "returned" /\ handles' = h /\ batch' = <<>>
  \/ /\ ~exception /\ state[Main] \notin Ended
     /\ phase' = "run" /\ handles' = <<>> /\ batch' = h

EndBatch ==
  /\ phase = "run" /\ current = NoTask /\ batch = <<>>
  /\ IF wakers # <<>> THEN phase' = "poll" /\ UNCHANGED <<handles, batch>> ELSE Continue(handles)
  /\ UNCHANGED <<wakers, exception, raised, taskVars, hostVars>>

\* The elements of s at the indices I, in their order.
Elements(s, I) ==
  [k \in 1 .. Cardinality(I) |-> s[CHOOSE i \in I : Cardinality({j \in I : j <= i}) = k]]

Fired == {i \in DOMAIN wakers : Ready(wakers[i].task)}
Remaining_mut_kept == wakers
Remaining == Elements(wakers, DOMAIN wakers \ Fired)

\* poll blocks until a pollable is ready, whatever handles are scheduled.  Each
\* ready pollable is dropped and its waker set, which schedules the task;
\* set_result on a cancelled future raises InvalidStateError out of the loop.
Poll ==
  /\ phase = "poll" /\ Fired # {}
  /\ LET ready == Elements(wakers, Fired)
         steps == [k \in DOMAIN ready |-> Step(ready[k].task)]
         woken == {wakers[i].task : i \in Fired}
     IN  IF \A i \in Fired : wakers[i].live
           THEN /\ wakers' = Remaining
                /\ Continue(handles \o steps)
                /\ state' = [t \in Tasks |-> IF t \in woken THEN "ready" ELSE state[t]]
           ELSE /\ phase' = "invalid_state"
                /\ UNCHANGED <<wakers, handles, batch, state>>
  /\ UNCHANGED <<exception, raised, current, cancelling, plan, gathered, hostVars>>

Resting == phase \notin {"run", "poll"} /\ UNCHANGED vars

Loop ==
  \/ RunHandle \/ EndBatch \/ Poll
  \/ MainStart \/ MainEnds \/ \E S \in SUBSET Children : MainContinues(S)
  \/ \E t \in Fetchers \cup {Main} : Fetch(t)
  \/ \E t \in Readers : ReadBody(t)
  \/ \E t \in Writers : WriteBody(t)

Next == Loop \/ Resting \/ \E t \in Tasks : Host(t) \/ Forget(t)

Spec == Init /\ [][Next]_vars

\* The loop runs until it blocks in poll; the host answers every object.
FairSpec == Spec /\ WF_vars(Loop) /\ \A t \in Tasks : WF_vars(Host(t))

-----------------------------------------------------------------------------
(* Properties.                                                             *)

Watchers(t) == {i \in DOMAIN wakers : wakers[i].task = t /\ wakers[i].live}
Turns(t) == {i \in DOMAIN (batch \o handles) : (batch \o handles)[i] = Step(t)}
Cancelled == {t \in Children : t \in cancelling \/ state[t] = "cancelled"}

\* No wakeup is lost or doubled: a task that waits in register has exactly one
\* pending waker, one that is to run has exactly one handle, no other task has
\* either.
WaitersAreWatched ==
  phase \in {"run", "poll"} =>
    \A t \in Tasks :
      /\ Cardinality(Watchers(t)) = IF state[t] = "waiting" THEN 1 ELSE 0
      /\ Cardinality(Turns(t)) = IF state[t] = "ready" THEN 1 ELSE 0

\* Without cancellation the loop never sets a future twice, never drops an
\* object before its pollables and never writes more than check_write allows.
OnlyCancelBreaks == phase \in {"invalid_state", "trap"} => Cancelled # {}

\* When Sink.send and close have returned, the whole chunk has been written and
\* flushed, once, in spite of the backpressure.
SentIsFlushed ==
  \A t \in Writers :
    state[t] = "done" => sink[t].written = ChunkLen /\ sink[t].flushed = ChunkLen

\* Stream.next returns None only when every byte of the body has been returned
\* and the body ended rather than broke.
NoneIsTheEnd ==
  \A t \in Readers :
    state[t] = "done" => body[t].status = "closed" /\ body[t].read = body[t].total

\* A callback's exception comes out of run_until_complete: no result is returned
\* and no further iteration starts after the one that raised it.
ExceptionSurfaces ==
  [][raised => phase' # "returned" /\ (batch = <<>> => batch' = <<>>)]_vars

\* run_until_complete ends when the host answers every object, although a
\* response may wait for another task to send the body.
EventuallyEnds == <>(phase \notin {"run", "poll"})
=============================================================================
