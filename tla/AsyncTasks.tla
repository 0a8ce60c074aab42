------------------------------ MODULE AsyncTasks ------------------------------
(***************************************************************************)
(* The event loop that runs the async exports of a component               *)
(* (bundled/componentize_py_async_support/__init__.py) together with the   *)
(* host that calls first_poll and callback.                                *)
(*                                                                         *)
(* Each call of an async export is a Component Model task.  It owns one    *)
(* _FutureState: a waitable set, the futures that await imports, a list of *)
(* scheduled handles and a count of the work that must end before the task *)
(* may exit.  The Python tasks ("coroutines" here) of every export share   *)
(* one _Loop, one interpreter and one thread; an export is re-entered only *)
(* by the host, with one event at a time.                                  *)
(*                                                                         *)
(* A coroutine runs without interruption until it suspends.  Application   *)
(* code is arbitrary, so a running coroutine picks its next operation      *)
(* nondeterministically among those in Ops.                                *)
(***************************************************************************)
EXTENDS Integers, Sequences, FiniteSets

CONSTANTS
  Exports,      \* the calls of async exports that the host may make
  NoExport,     \* a waitable that is in no waitable set
  NumCoros,     \* bound: Python tasks ever created
  Waitables,    \* handles of subtasks and of stream and future ends
  NoWaitable,   \* a coroutine that awaits no waitable
  Ends,         \* the waitables that are stream or future ends
  Locks,        \* asyncio.Lock objects of the application
  LockOf,       \* the lock that the coroutines of an export use
  MaxOps,       \* bound: imports, yields and acquires of one coroutine
  Ops           \* what the application and the host do beyond awaiting imports

Coros == 1 .. NumCoros
NoCoro == 0

OpNames == {"spawn", "plain", "yield", "join", "lock", "raise", "cancel", "unsupported"}

ASSUME ConstantsAssumption ==
  /\ NoExport \notin Exports
  /\ NoWaitable \notin Waitables
  /\ Ends \subseteq Waitables
  /\ NumCoros \in Nat
  /\ MaxOps \in Nat
  /\ LockOf \in [Exports -> Locks]
  /\ Ops \subseteq OpNames

VARIABLES
  \* what the host knows of each export call and of each waitable
  phase,        \* "new", "running" (inside the guest), "waiting" or "exited"
  returned,     \* has task.return been called for it?
  slot,         \* does its context slot hold the _FutureState?
  joined,       \* the export whose waitable set a waitable is in
  call,         \* "free", "starting" or "started": a waitable's use
  trap,         \* "none", or why the instance was aborted
  \* _FutureState
  wset,         \* is waitable_set not None?
  futures,      \* per export and waitable: the coroutine awaiting its future
  handles,      \* scheduled steps
  pending,      \* pending_count
  \* _Loop
  exception,    \* is self.exception set?
  batch,        \* the handles taken by the current iteration of _Loop.poll
  active,       \* the coroutine being stepped
  \* the Python tasks
  kind,         \* "none", "return" (_return_result), "spawned", "plain"
  owner,        \* the export whose context the coroutine runs in
  st,           \* see Statuses
  awaits,       \* the waitable whose future it awaits
  joiner,       \* the coroutine that awaits its result
  thrown,       \* the coroutines that CancelledError was thrown into
  fuel,         \* operations left, see MaxOps
  holder,       \* per lock: the coroutine holding it
  queue         \* per lock: the coroutines waiting for it

hostVars  == <<phase, returned, slot, joined, call, trap>>
stateVars == <<wset, futures, handles, pending>>
loopVars  == <<exception, batch, active>>
coroVars  == <<kind, owner, st, awaits, joiner, thrown, fuel>>
lockVars  == <<holder, queue>>
vars == <<hostVars, stateVars, loopVars, coroVars, lockVars>>

\* A coroutine is scheduled ("ready"), being stepped ("running"), or suspended
\* on an import, on another coroutine's end, or on a lock.
Statuses == {"unborn", "ready", "running", "importing", "joining", "locking", "done"}

Counted(c) == kind[c] \in {"return", "spawned"}
Alive(c)   == st[c] \notin {"unborn", "done"}
Live(t)    == {c \in Coros : Counted(c) /\ Alive(c) /\ owner[c] = t}

Init ==
  /\ phase = [t \in Exports |-> "new"]
  /\ returned = [t \in Exports |-> FALSE]
  /\ slot = [t \in Exports |-> FALSE]
  /\ joined = [w \in Waitables |-> NoExport]
  /\ call = [w \in Waitables |-> "free"]
  /\ trap = "none"
  /\ wset = [t \in Exports |-> FALSE]
  /\ futures = [t \in Exports |-> [w \in Waitables |-> NoCoro]]
  /\ handles = [t \in Exports |-> <<>>]
  /\ pending = [t \in Exports |-> 0]
  /\ exception = FALSE
  /\ batch = <<>>
  /\ active = NoCoro
  /\ kind = [c \in Coros |-> "none"]
  /\ owner = [c \in Coros |-> NoExport]
  /\ st = [c \in Coros |-> "unborn"]
  /\ awaits = [c \in Coros |-> NoWaitable]
  /\ joiner = [c \in Coros |-> NoCoro]
  /\ thrown = {}
  /\ fuel = [c \in Coros |-> MaxOps]
  /\ holder = [l \in Locks |-> NoCoro]
  /\ queue = [l \in Locks |-> <<>>]

-----------------------------------------------------------------------------
(* Scheduling.  call_soon appends to the handles of the _FutureState found *)
(* in the context it is given, which for a Task is the Task's own.         *)

CallSoon(c) == handles' = [handles EXCEPT ![owner[c]] = Append(@, c)]

Resume(c, s) ==          \* in the coroutine statuses s, c becomes ready
  /\ st' = [s EXCEPT ![c] = "ready"]
  /\ CallSoon(c)

\* asyncio.Task(coroutine, loop=_loop): the new Task inherits the context t
\* and schedules its first step.
CreateTask(c, t, k) ==
  /\ st[c] = "unborn"
  /\ \A d \in Coros : d < c => st[d] # "unborn"
  /\ st' = [st EXCEPT ![c] = "ready"]
  /\ kind' = [kind EXCEPT ![c] = k]
  /\ owner' = [owner EXCEPT ![c] = t]
  /\ handles' = [handles EXCEPT ![t] = Append(@, c)]
  /\ UNCHANGED <<awaits, joiner, thrown, fuel>>

GuestIdle == trap = "none" /\ \A t \in Exports : phase[t] # "running"

-----------------------------------------------------------------------------
(* The host's entries: first_poll and callback.                            *)

FirstPoll(t, c) ==
  /\ GuestIdle
  /\ phase[t] = "new"
  /\ phase' = [phase EXCEPT ![t] = "running"]
  /\ pending' = [pending EXCEPT ![t] = 1]
  /\ CreateTask(c, t, "return")
  /\ UNCHANGED <<returned, slot, joined, call, trap, wset, futures, loopVars, lockVars>>

\* callback takes the _FutureState back out of the context slot.
Enter(t) ==
  /\ GuestIdle
  /\ phase[t] = "waiting"
  /\ phase' = [phase EXCEPT ![t] = "running"]
  /\ slot' = [slot EXCEPT ![t] = FALSE]

\* SUBTASK event with status STARTED: nothing to do but poll again.
SubtaskStarted(t, w) ==
  /\ joined[w] = t /\ w \notin Ends /\ call[w] = "starting"
  /\ Enter(t)
  /\ call' = [call EXCEPT ![w] = "started"]
  /\ UNCHANGED <<returned, joined, trap, stateVars, loopVars, coroVars, lockVars>>

\* futures.pop(w)
PopFuture_mut_get(t, w) == UNCHANGED futures
PopFuture(t, w) == futures' = [futures EXCEPT ![t][w] = NoCoro]

\* futures.pop(w).set_result(...): KeyError without an entry, InvalidStateError
\* when the future was cancelled; either one escapes from callback.
SetResult(t, w) ==
  LET c == futures[t][w] IN
  /\ PopFuture(t, w)
  /\ IF c # NoCoro /\ awaits[c] = w
       THEN /\ Resume(c, st)
            /\ awaits' = [awaits EXCEPT ![c] = NoWaitable]
            /\ UNCHANGED trap
       ELSE /\ trap' = "set_result"
            /\ UNCHANGED <<handles, st, awaits>>

\* An event that completes the operation on w: w leaves the waitable set (and
\* a subtask is dropped), and the awaiting coroutine gets the result.
Answer(t, w) ==
  /\ joined[w] = t
  /\ Enter(t)
  /\ joined' = [joined EXCEPT ![w] = NoExport]
  /\ call' = [call EXCEPT ![w] = "free"]
  /\ SetResult(t, w)
  /\ UNCHANGED <<returned, wset, pending, loopVars, kind, owner, joiner, thrown, fuel, lockVars>>

\* SUBTASK event with status RETURNED; STARTED need not be delivered first.
SubtaskReturned(t, w) == w \notin Ends /\ Answer(t, w)

\* STREAM_READ, STREAM_WRITE, FUTURE_READ and FUTURE_WRITE events.
EndReady(t, w) == w \in Ends /\ Answer(t, w)

\* Events the code answers with NotImplementedError: the cancellation of the
\* export by its caller, and a subtask that ended cancelled.
UnsupportedEvent(t) ==
  /\ "unsupported" \in Ops
  /\ Enter(t)
  /\ trap' = "unsupported"
  /\ UNCHANGED <<returned, joined, call, stateVars, loopVars, coroVars, lockVars>>

-----------------------------------------------------------------------------
(* _Loop.poll and the end of _poll.                                        *)

Polling(t) == trap = "none" /\ phase[t] = "running" /\ active = NoCoro

TakeHandles_mut_kept(t) ==
  /\ Polling(t) /\ batch = <<>> /\ ~exception
  /\ handles[t] # <<>>
  /\ batch' = handles[t]
  /\ UNCHANGED <<hostVars, stateVars, exception, active, coroVars, lockVars>>

TakeHandles(t) ==
  /\ Polling(t) /\ batch = <<>> /\ ~exception
  /\ handles[t] # <<>>
  /\ batch' = handles[t]
  /\ handles' = [handles EXCEPT ![t] = <<>>]
  /\ UNCHANGED <<hostVars, wset, futures, pending, exception, active, coroVars, lockVars>>

RunHandle(t) ==
  /\ Polling(t) /\ batch # <<>>
  /\ active' = Head(batch)
  /\ batch' = Tail(batch)
  /\ st' = [st EXCEPT ![Head(batch)] = "running"]
  /\ UNCHANGED <<hostVars, stateVars, exception, kind, owner, awaits, joiner, thrown, fuel, lockVars>>

\* Only after the whole batch has run is a recorded exception raised; it leaves
\* callback, and the runtime turns it into an abort of the instance.
PollRaises(t) ==
  /\ Polling(t) /\ batch = <<>> /\ exception
  /\ trap' = "exception"
  /\ UNCHANGED <<phase, returned, slot, joined, call, stateVars, loopVars, coroVars, lockVars>>

PollDone_mut_handles_left(t) == Polling(t) /\ batch = <<>> /\ ~exception
PollDone_mut_no_raise(t) == Polling(t) /\ batch = <<>> /\ handles[t] = <<>>
PollDone(t) == Polling(t) /\ batch = <<>> /\ ~exception /\ handles[t] = <<>>

\* waitable-set.drop traps when a waitable is still in the set.
DropWaitableSet_mut_leaked(t) ==
  /\ phase' = [phase EXCEPT ![t] = "exited"]
  /\ UNCHANGED <<trap, wset>>

DropWaitableSet(t) ==
  IF \E w \in Waitables : joined[w] = t
    THEN trap' = "set_drop" /\ UNCHANGED <<phase, wset>>
    ELSE /\ wset' = [wset EXCEPT ![t] = FALSE]
         /\ phase' = [phase EXCEPT ![t] = "exited"]
         /\ UNCHANGED trap

WorkDone(t) == pending[t] = 0

Exit(t) ==
  /\ PollDone(t) /\ WorkDone(t)
  /\ IF wset[t]
       THEN DropWaitableSet(t)
       ELSE phase' = [phase EXCEPT ![t] = "exited"] /\ UNCHANGED <<trap, wset>>
  /\ UNCHANGED <<returned, slot, joined, call, futures, handles, pending, loopVars, coroVars, lockVars>>

Wait(t) ==
  /\ PollDone(t) /\ ~WorkDone(t)
  /\ IF wset[t]
       THEN /\ slot' = [slot EXCEPT ![t] = TRUE]
            /\ phase' = [phase EXCEPT ![t] = "waiting"]
            /\ UNCHANGED trap
       ELSE trap' = "assert_waitable_set" /\ UNCHANGED <<slot, phase>>
  /\ UNCHANGED <<returned, joined, call, stateVars, loopVars, coroVars, lockVars>>

-----------------------------------------------------------------------------
(* What a running coroutine does.                                          *)

Running(c) == trap = "none" /\ active = c
HasFuel(c) == fuel[c] > 0
Burn(c) == fuel' = [fuel EXCEPT ![c] = @ - 1]
Suspend(c, s) == st' = [st EXCEPT ![c] = s] /\ active' = NoCoro
HoldsLock(c) == \E l \in Locks : holder[l] = c

\* The waitable joins the set of the export, which is created on first use.
JoinSet_mut_no_set(t, w) == joined' = [joined EXCEPT ![w] = t] /\ UNCHANGED wset
JoinSet(t, w) ==
  /\ wset' = [wset EXCEPT ![t] = TRUE]
  /\ joined' = [joined EXCEPT ![w] = t]

\* await_result of an import, read or write that did not complete at once.
AwaitResult(c, w, status) ==
  /\ Running(c) /\ HasFuel(c)
  /\ call[w] = "free" /\ (w \in Ends => status = "started")
  /\ call' = [call EXCEPT ![w] = status]
  /\ futures' = [futures EXCEPT ![owner[c]][w] = c]
  /\ JoinSet(owner[c], w)
  /\ awaits' = [awaits EXCEPT ![c] = w]
  /\ Suspend(c, "importing") /\ Burn(c)
  /\ UNCHANGED <<phase, returned, slot, trap, handles, pending, exception, batch,
                 kind, owner, joiner, thrown, lockVars>>

Count_mut_uncounted(t) == UNCHANGED pending
Count(t) == pending' = [pending EXCEPT ![t] = @ + 1]

\* componentize_py_async_support.spawn
Spawn(c, d) ==
  /\ "spawn" \in Ops /\ Running(c)
  /\ Count(owner[c])
  /\ CreateTask(d, owner[c], "spawned")
  /\ UNCHANGED <<hostVars, wset, futures, loopVars, lockVars>>

\* asyncio.create_task called by the application itself: not counted.
CreatePlainTask(c, d) ==
  /\ "plain" \in Ops /\ Running(c)
  /\ CreateTask(d, owner[c], "plain")
  /\ UNCHANGED <<hostVars, wset, futures, pending, loopVars, lockVars>>

\* await asyncio.sleep(0)
YieldNow(c) ==
  /\ "yield" \in Ops /\ Running(c) /\ HasFuel(c)
  /\ Resume(c, st) /\ active' = NoCoro /\ Burn(c)
  /\ UNCHANGED <<hostVars, wset, futures, pending, exception, batch,
                 kind, owner, awaits, joiner, thrown, lockVars>>

\* Await another task of the same export (spawned work by the future it sets
\* last).  The application does not build cycles (it awaits younger tasks) nor
\* await a task with a lock in hand.
Join(c, d) ==
  /\ "join" \in Ops /\ Running(c) /\ ~HoldsLock(c)
  /\ c < d /\ Alive(d) /\ owner[d] = owner[c] /\ joiner[d] = NoCoro
  /\ joiner' = [joiner EXCEPT ![d] = c]
  /\ Suspend(c, "joining")
  /\ UNCHANGED <<hostVars, stateVars, exception, batch,
                 kind, owner, awaits, thrown, fuel, lockVars>>

\* async with lock: a free lock is taken, else the coroutine queues up.
Acquire(c) ==
  LET l == LockOf[owner[c]] IN
  /\ "lock" \in Ops /\ Running(c) /\ HasFuel(c) /\ ~HoldsLock(c)
  /\ Burn(c)
  /\ IF holder[l] = NoCoro
       THEN holder' = [holder EXCEPT ![l] = c] /\ UNCHANGED <<queue, st, active>>
       ELSE queue' = [queue EXCEPT ![l] = Append(@, c)] /\ Suspend(c, "locking") /\ UNCHANGED holder
  /\ UNCHANGED <<hostVars, stateVars, exception, batch,
                 kind, owner, awaits, joiner, thrown>>

\* The end of the async with block: the first waiter gets the lock, and its
\* step is scheduled in the waiter's own context.
Release(c) ==
  LET l == LockOf[owner[c]] IN
  /\ Running(c) /\ holder[l] = c
  /\ IF queue[l] = <<>>
       THEN holder' = [holder EXCEPT ![l] = NoCoro] /\ UNCHANGED <<queue, st, handles>>
       ELSE /\ holder' = [holder EXCEPT ![l] = Head(queue[l])]
            /\ queue' = [queue EXCEPT ![l] = Tail(@)]
            /\ Resume(Head(queue[l]), st)
  /\ UNCHANGED <<hostVars, wset, futures, pending, loopVars,
                 kind, owner, awaits, joiner, thrown, fuel>>

\* task.cancel() on a task that awaits an import: the future is cancelled, not
\* removed from futures, and the waitable stays in the set.
CancelTask(c, d) ==
  /\ "cancel" \in Ops /\ Running(c)
  /\ owner[d] = owner[c] /\ st[d] = "importing"
  /\ awaits' = [awaits EXCEPT ![d] = NoWaitable]
  /\ thrown' = thrown \cup {d}
  /\ Resume(d, st)
  /\ UNCHANGED <<hostVars, wset, futures, pending, loopVars,
                 kind, owner, joiner, fuel, lockVars>>

-----------------------------------------------------------------------------
(* The end of a coroutine: its result wakes the coroutine that awaits it.  *)

EndTask(c) ==
  /\ Running(c) /\ ~HoldsLock(c)
  /\ active' = NoCoro
  /\ IF joiner[c] = NoCoro
       THEN st' = [st EXCEPT ![c] = "done"] /\ UNCHANGED handles
       ELSE Resume(joiner[c], [st EXCEPT ![c] = "done"])
  /\ UNCHANGED <<phase, slot, joined, call, trap, wset, futures, batch,
                 kind, owner, awaits, joiner, fuel, lockVars>>

Uncount_mut_forgotten(c) == UNCHANGED pending
Uncount(c) == pending' = [pending EXCEPT ![owner[c]] = @ - 1]

\* _return_result: the export returned a value or raised Err.
ReturnResult(c) ==
  /\ kind[c] = "return" /\ EndTask(c)
  /\ returned' = [returned EXCEPT ![owner[c]] = TRUE]
  /\ Uncount(c)
  /\ UNCHANGED <<exception, thrown>>

\* _wrap_spawned: the spawned work completed.
FinishSpawned(c) ==
  /\ kind[c] = "spawned" /\ EndTask(c)
  /\ Uncount(c)
  /\ UNCHANGED <<returned, exception, thrown>>

FinishPlain(c) ==
  /\ kind[c] = "plain" /\ EndTask(c)
  /\ UNCHANGED <<returned, pending, exception, thrown>>

\* Any other Exception in the export or in spawned work is recorded for
\* _Loop.poll to raise, and the work counts as ended.
RaiseException(c) ==
  /\ "raise" \in Ops /\ Counted(c) /\ EndTask(c)
  /\ exception' = TRUE
  /\ Uncount(c)
  /\ UNCHANGED <<returned, thrown>>

\* A plain task that fails with nobody awaiting it reports "exception was never
\* retrieved" to call_exception_handler when it is collected (while something
\* still refers to it, it ends as in FinishPlain).
PlainRaises(c) ==
  /\ "raise" \in Ops /\ kind[c] = "plain" /\ joiner[c] = NoCoro /\ EndTask(c)
  /\ exception' = TRUE
  /\ UNCHANGED <<returned, pending, thrown>>

\* CancelledError is no Exception: no except clause of _return_result or
\* _wrap_spawned sees it, and pending_count is not decremented.
EndCancelled(c) ==
  /\ c \in thrown /\ EndTask(c)
  /\ thrown' = IF joiner[c] = NoCoro THEN thrown ELSE thrown \cup {joiner[c]}
  /\ UNCHANGED <<returned, exception, pending>>

-----------------------------------------------------------------------------

Stopped == trap # "none" \/ \A t \in Exports : phase[t] \in {"new", "exited"}
Halt == Stopped /\ UNCHANGED vars

Deliver(t) ==
  \E w \in Waitables : SubtaskReturned(t, w) \/ EndReady(t, w)

Poll(t) == TakeHandles(t) \/ RunHandle(t) \/ PollRaises(t) \/ Exit(t) \/ Wait(t)

Step(c) ==
  \/ \E w \in Waitables, s \in {"starting", "started"} : AwaitResult(c, w, s)
  \/ \E d \in Coros : \/ Spawn(c, d) \/ CreatePlainTask(c, d)
                      \/ Join(c, d) \/ CancelTask(c, d)
  \/ YieldNow(c) \/ Acquire(c) \/ Release(c)
  \/ ReturnResult(c) \/ FinishSpawned(c) \/ FinishPlain(c)
  \/ RaiseException(c) \/ PlainRaises(c) \/ EndCancelled(c)

Next ==
  \/ \E t \in Exports :
       \/ \E c \in Coros : FirstPoll(t, c)
       \/ \E w \in Waitables : SubtaskStarted(t, w)
       \/ Deliver(t) \/ UnsupportedEvent(t) \/ Poll(t)
  \/ \E c \in Coros : Step(c)
  \/ Halt

Spec == Init /\ [][Next]_vars

\* The interpreter runs the guest to its next return, and the host completes
\* what the guest waits for; nothing obliges the host to call an export.
Fairness ==
  /\ WF_vars(\E c \in Coros : Step(c))
  /\ \A t \in Exports : WF_vars(Poll(t)) /\ SF_vars(Deliver(t))

FairSpec == Spec /\ Fairness

-----------------------------------------------------------------------------
(* Properties.                                                             *)

Traps == {"none", "set_result", "unsupported", "exception", "set_drop",
          "assert_waitable_set"}

HostTypeOK ==
  /\ phase \in [Exports -> {"new", "running", "waiting", "exited"}]
  /\ returned \in [Exports -> BOOLEAN]
  /\ slot \in [Exports -> BOOLEAN]
  /\ joined \in [Waitables -> Exports \cup {NoExport}]
  /\ call \in [Waitables -> {"free", "starting", "started"}]
  /\ trap \in Traps

StateTypeOK ==
  /\ wset \in [Exports -> BOOLEAN]
  /\ futures \in [Exports -> [Waitables -> Coros \cup {NoCoro}]]
  /\ handles \in [Exports -> Seq(Coros)]
  /\ pending \in [Exports -> Nat]

LoopTypeOK ==
  /\ exception \in BOOLEAN
  /\ batch \in Seq(Coros)
  /\ active \in Coros \cup {NoCoro}

CoroTypeOK ==
  /\ kind \in [Coros -> {"none", "return", "spawned", "plain"}]
  /\ owner \in [Coros -> Exports \cup {NoExport}]
  /\ st \in [Coros -> Statuses]
  /\ awaits \in [Coros -> Waitables \cup {NoWaitable}]
  /\ joiner \in [Coros -> Coros \cup {NoCoro}]
  /\ thrown \in SUBSET Coros
  /\ fuel \in [Coros -> 0 .. MaxOps]

LockTypeOK ==
  /\ holder \in [Locks -> Coros \cup {NoCoro}]
  /\ queue \in [Locks -> Seq(Coros)]

\* The type invariant of the model.  That pending is never negative rests on
\* every decrement having had its increment.
TypeOK == HostTypeOK /\ StateTypeOK /\ LoopTypeOK /\ CoroTypeOK /\ LockTypeOK

In(c, seq) == \E i \in DOMAIN seq : seq[i] = c
Distinct(seq) == \A i, j \in DOMAIN seq : seq[i] = seq[j] => i = j

\* Every coroutine that is ready to run is scheduled exactly once, with the
\* export whose context it carries, and a batch is only run for that export:
\* one export's poll never steps, and never drops, a coroutine of another
\* export (call_soon, poll).
ScheduledOnce ==
  /\ Distinct(batch) /\ \A t \in Exports : Distinct(handles[t])
  /\ \A c \in Coros :
       /\ st[c] = "ready" <=> In(c, batch) \/ \E t \in Exports : In(c, handles[t])
       /\ In(c, batch) => phase[owner[c]] = "running"
       /\ \A t \in Exports : In(c, handles[t]) => owner[c] = t /\ ~In(c, batch)

\* A waitable with an operation in flight is in exactly one waitable set, that
\* of the export which has a future for it, so an event always finds its
\* future; and a coroutine that awaits an import is the one that future will
\* wake (await_result, callback).
WaitablesRouted ==
  /\ \A w \in Waitables : joined[w] = NoExport <=> call[w] = "free"
  /\ \A t \in Exports, w \in Waitables :
       /\ joined[w] = t <=> futures[t][w] # NoCoro
       /\ joined[w] = t => wset[t] /\ owner[futures[t][w]] = t
  /\ \A c \in Coros :
       /\ awaits[c] # NoWaitable <=> st[c] = "importing"
       /\ awaits[c] # NoWaitable => futures[owner[c]][awaits[c]] = c

\* pending_count is the number of counted coroutines still alive, whatever
\* was spawned by what and however each one ended.
PendingIsLiveWork ==
  \A t \in Exports : pending[t] = Cardinality(Live(t))

\* The assertions of _return_result and _wrap_spawned: pending_count is positive
\* whenever counted work is about to end, cancelled work or not.
AssertPendingCount ==
  \A c \in Coros : st[c] = "running" /\ Counted(c) => pending[owner[c]] > 0

\* An export only waits on the host when an event can still reach it, with no
\* step left unrun and its state in the context slot (_poll, callback).
WaitHasCause ==
  \A t \in Exports :
    /\ phase[t] = "waiting" =>
         handles[t] = <<>> /\ \E w \in Waitables : joined[w] = t
    /\ slot[t] <=> phase[t] = "waiting"

\* An export that exited returned a value, finished all its work and left
\* nothing with the host: no waitable set, no subtask, no context (_poll).
ExitIsClean ==
  \A t \in Exports : phase[t] = "exited" =>
    /\ returned[t] /\ ~wset[t] /\ ~slot[t]
    /\ \A w \in Waitables : joined[w] # t
    /\ \A c \in Coros : owner[c] = t => st[c] = "done"

\* Code that neither cancels nor abandons tasks aborts the instance only by an
\* exception that escapes from the work of an export: every event finds its
\* future, and no assertion of the loop fails (callback, _poll).
NeverAborts == trap # "none" => trap = "exception" /\ exception

\* An export that was called eventually exits, if the host completes what it
\* waits for, unless an exception aborts the instance.
EventuallyExits ==
  \A t \in Exports : phase[t] = "running" ~> phase[t] = "exited" \/ exception

\* Cancellation may keep an export from exiting, but never makes it exit with
\* counted work unfinished.
NoEarlyExit == \A t \in Exports : phase[t] = "exited" => Live(t) = {}

\* The assertion in _poll: an export with pending work has a waitable set.
AssertWaitableSet == trap # "assert_waitable_set"
=============================================================================
