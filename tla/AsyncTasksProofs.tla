-------------------------- MODULE AsyncTasksProofs --------------------------
(***************************************************************************)
(* Safety of the event loop for any number of exports, coroutines,         *)
(* waitables and locks, and whatever the application does.  If nothing is  *)
(* cancelled, the loop implements ExportLifecycle.  If moreover the        *)
(* exports share no lock, an export only ever waits on the host with an    *)
(* event to come, it leaves nothing behind when it exits, and nothing but  *)
(* an exception of its own work aborts the instance.                       *)
(***************************************************************************)
EXTENDS MCAsyncTasks, FiniteSetTheorems, WellFoundedInduction, TLAPS

-----------------------------------------------------------------------------
(* The inductive invariant.                                                *)

\* Who runs: at most one export is inside the guest, and the coroutine being
\* stepped belongs to it.
Roles ==
  /\ \A t, u \in Exports : phase[t] = "running" /\ phase[u] = "running" => t = u
  /\ \A c \in Coros : st[c] = "running" <=> active = c
  /\ \A c \in Coros : st[c] = "unborn" <=> owner[c] = NoExport
  /\ \A c \in Coros : owner[c] # NoExport => phase[owner[c]] # "new"
  /\ active # NoCoro => phase[owner[active]] = "running"

\* Who waits for whom: a suspended coroutine is woken by one cause only.
Joins ==
  /\ \A d \in Coros : st[d] = "unborn" => joiner[d] = NoCoro
  /\ \A d \in Coros : joiner[d] # NoCoro /\ Alive(d) => st[joiner[d]] = "joining"
  /\ \A c, d \in Coros :
       joiner[c] = joiner[d] /\ joiner[c] # NoCoro /\ Alive(c) /\ Alive(d) => c = d

Queues ==
  \A l \in Locks :
    /\ Distinct(queue[l])
    /\ \A c \in Coros : In(c, queue[l]) => st[c] = "locking" /\ LockOf[owner[c]] = l

\* The count may exceed the live work (cancelled work is never discounted) but
\* never falls short of it.
PendingCovers == \A t \in Exports : pending[t] >= Cardinality(Live(t))

IInv ==
  /\ TypeOK /\ Roles /\ Joins /\ Queues
  /\ ScheduledOnce /\ WaitablesRouted /\ PendingCovers

-----------------------------------------------------------------------------
(* Sequences as queues.                                                    *)

LEMMA AppendIn ==
  ASSUME NEW S, NEW seq \in Seq(S), NEW c \in S
  PROVE  /\ \A x : In(x, Append(seq, c)) <=> In(x, seq) \/ x = c
         /\ Distinct(seq) /\ ~In(c, seq) => Distinct(Append(seq, c))
<1> DEFINE app == Append(seq, c)
<1>1. /\ app \in Seq(S) /\ Len(app) = Len(seq) + 1
      /\ \A i \in 1 .. Len(seq) : app[i] = seq[i]
      /\ app[Len(seq) + 1] = c
      /\ DOMAIN app = 1 .. (Len(seq) + 1) /\ DOMAIN seq = 1 .. Len(seq)
      /\ Len(seq) \in Nat
  OBVIOUS
<1> HIDE DEF app
<1>2. \A x : In(x, app) <=> In(x, seq) \/ x = c
  BY <1>1 DEF In
<1>3. Distinct(seq) /\ ~In(c, seq) => Distinct(app)
  BY <1>1 DEF In, Distinct
<1> QED
  BY <1>2, <1>3 DEF app

LEMMA TailIn ==
  ASSUME NEW S, NEW seq \in Seq(S), seq # <<>>
  PROVE  /\ Head(seq) \in S /\ In(Head(seq), seq) /\ Tail(seq) \in Seq(S)
         /\ Distinct(seq) =>
              /\ Distinct(Tail(seq))
              /\ \A x : In(x, Tail(seq)) <=> In(x, seq) /\ x # Head(seq)
<1> DEFINE rest == Tail(seq)
<1>1. /\ rest \in Seq(S) /\ Len(seq) \in Nat \ {0} /\ Len(rest) = Len(seq) - 1
      /\ \A i \in 1 .. Len(rest) : rest[i] = seq[i + 1]
      /\ DOMAIN rest = 1 .. Len(rest) /\ DOMAIN seq = 1 .. Len(seq)
      /\ Head(seq) = seq[1] /\ Head(seq) \in S
  OBVIOUS
<1> HIDE DEF rest
<1>2. In(Head(seq), seq)
  BY <1>1 DEF In
<1>3. ASSUME Distinct(seq) PROVE Distinct(rest)
  <2> SUFFICES ASSUME NEW i \in DOMAIN rest, NEW j \in DOMAIN rest, rest[i] = rest[j]
               PROVE  i = j
    BY DEF Distinct
  <2>1. /\ i + 1 \in DOMAIN seq /\ j + 1 \in DOMAIN seq
        /\ seq[i + 1] = seq[j + 1] /\ i \in Int /\ j \in Int
    BY <1>1
  <2>2. i + 1 = j + 1
    BY <1>3, <2>1 DEF Distinct
  <2> QED BY <2>1, <2>2
<1>4. ASSUME Distinct(seq), NEW x
      PROVE  In(x, rest) <=> In(x, seq) /\ x # Head(seq)
  <2>1. ASSUME NEW i \in DOMAIN seq, seq[i] = x, x # Head(seq) PROVE In(x, rest)
    <3>1. i # 1 /\ i - 1 \in DOMAIN rest /\ rest[i - 1] = x
      BY <1>1, <2>1
    <3> QED BY <3>1 DEF In
  <2>2. ASSUME NEW i \in DOMAIN rest, rest[i] = x PROVE In(x, seq) /\ x # Head(seq)
    <3>1. i + 1 \in DOMAIN seq /\ seq[i + 1] = x /\ i + 1 # 1 /\ 1 \in DOMAIN seq
      BY <1>1, <2>2
    <3> QED BY <3>1, <1>1, <1>4 DEF In, Distinct
  <2> QED BY <2>1, <2>2 DEF In
<1> QED
  BY <1>1, <1>2, <1>3, <1>4 DEF rest

LEMMA EmptyIn == Distinct(<<>>) /\ \A x : ~In(x, <<>>)
BY DEF Distinct, In
-----------------------------------------------------------------------------
(* Scheduling, types and the live work.                                    *)

LEMMA CoroFacts ==
  /\ NoCoro \notin Coros /\ NoExport \notin Exports /\ NoWaitable \notin Waitables
  /\ LockOf \in [Exports -> Locks] /\ MaxOps \in Nat
BY ConstantsAssumption DEF ConstantsAssumption, Coros, NoCoro

\* A step that schedules one coroutine that was not ready.
LEMMA ScheduleOne ==
  ASSUME TypeOK, Roles, ScheduledOnce, NEW c \in Coros, NEW t \in Exports,
         st[c] # "ready", st'[c] = "ready", owner'[c] = t, batch' = batch,
         \A d \in Coros \ {c} : (st'[d] = "ready" <=> st[d] = "ready") /\ owner'[d] = owner[d],
         handles' = [handles EXCEPT ![t] = Append(@, c)],
         \A u \in Exports : phase[u] = "running" => phase'[u] = "running"
  PROVE  ScheduledOnce'
<1>1. /\ handles \in [Exports -> Seq(Coros)] /\ handles[t] \in Seq(Coros)
      /\ owner \in [Coros -> Exports \cup {NoExport}]
      /\ \A d \in Coros : st[d] = "ready" => owner[d] \in Exports
  BY CoroFacts DEF TypeOK, StateTypeOK, CoroTypeOK, Roles
<1>2. ~In(c, batch) /\ \A u \in Exports : ~In(c, handles[u])
  BY DEF ScheduledOnce
<1>3. /\ \A u \in Exports : \A x : In(x, handles'[u]) <=> In(x, handles[u]) \/ (u = t /\ x = c)
      /\ \A u \in Exports : Distinct(handles'[u])
  <2>1. \A u \in Exports \ {t} : handles'[u] = handles[u]
    BY <1>1
  <2>2. handles'[t] = Append(handles[t], c)
    BY <1>1
  <2>3. Distinct(handles[t]) /\ ~In(c, handles[t])
    BY <1>2 DEF ScheduledOnce
  <2>4. /\ \A x : In(x, Append(handles[t], c)) <=> In(x, handles[t]) \/ x = c
        /\ Distinct(Append(handles[t], c))
    BY <2>3, <1>1, AppendIn
  <2>5. \A u \in Exports : Distinct(handles[u])
    BY DEF ScheduledOnce
  <2> QED BY <2>1, <2>2, <2>4, <2>5
<1>4. \A d \in Coros : In(d, batch) => owner[d] \in Exports /\ phase'[owner[d]] = "running"
  BY <1>1 DEF ScheduledOnce
<1>5. \A d \in Coros : st'[d] = "ready" <=> In(d, batch) \/ \E u \in Exports : In(d, handles'[u])
  BY <1>3 DEF ScheduledOnce
<1>6. \A d \in Coros : In(d, batch) => phase'[owner'[d]] = "running"
  BY <1>2, <1>4
<1>7. \A d \in Coros, u \in Exports : In(d, handles'[u]) => owner'[d] = u /\ ~In(d, batch)
  BY <1>2, <1>3 DEF ScheduledOnce
<1> QED
  BY <1>3, <1>5, <1>6, <1>7 DEF ScheduledOnce

\* A step that schedules nothing and unschedules nothing.
LEMMA ScheduleNone ==
  ASSUME TypeOK, Roles, ScheduledOnce, batch' = batch, handles' = handles,
         \A d \in Coros : (st'[d] = "ready" <=> st[d] = "ready")
                          /\ (st[d] = "ready" => owner'[d] = owner[d]),
         \/ batch = <<>>
         \/ \A u \in Exports : phase[u] = "running" => phase'[u] = "running"
  PROVE  ScheduledOnce'
<1>1. \A d \in Coros : st[d] = "ready" => owner[d] \in Exports
  BY CoroFacts DEF TypeOK, CoroTypeOK, Roles
<1>2. \A d \in Coros : In(d, batch) => phase'[owner'[d]] = "running"
  BY <1>1, EmptyIn DEF ScheduledOnce
<1> QED BY <1>2 DEF ScheduledOnce

\* The coroutine being stepped.
LEMMA Stepped ==
  ASSUME IInv, NEW c \in Coros, Running(c)
  PROVE  /\ active = c /\ st[c] = "running" /\ c # NoCoro
         /\ owner[c] \in Exports /\ phase[owner[c]] = "running"
BY CoroFacts DEF IInv, TypeOK, CoroTypeOK, Roles, Running

LEMMA LiveFinite ==
  \A t \in Exports : IsFiniteSet(Live(t)) /\ Cardinality(Live(t)) \in Nat
<1>1. IsFiniteSet(Coros)
  BY ConstantsAssumption, FS_Interval DEF Coros, ConstantsAssumption
<1> QED BY <1>1, FS_Subset, FS_CardinalityType DEF Live

LEMMA LiveFinitePrimed ==
  \A t \in Exports : IsFiniteSet(Live(t)') /\ Cardinality(Live(t)') \in Nat
<1>1. IsFiniteSet(Coros)
  BY ConstantsAssumption, FS_Interval DEF Coros, ConstantsAssumption
<1> QED BY <1>1, FS_Subset, FS_CardinalityType DEF Live

\* A step after which no counted work is alive that was not alive before.
LEMMA CountKept ==
  ASSUME PendingCovers, pending' = pending, \A t \in Exports : Live(t)' \subseteq Live(t),
         TypeOK
  PROVE  PendingCovers'
<1> SUFFICES ASSUME NEW t \in Exports PROVE pending[t] >= Cardinality(Live(t)')
  BY DEF PendingCovers
<1>1. Cardinality(Live(t)') <= Cardinality(Live(t))
  BY LiveFinite, FS_Subset
<1>2. pending[t] \in Nat /\ pending[t] >= Cardinality(Live(t))
  BY DEF PendingCovers, TypeOK, StateTypeOK
<1> QED BY <1>1, <1>2, LiveFinite, LiveFinitePrimed

\* The assertion of _return_result and _wrap_spawned.
LEMMA RunningIsCounted ==
  ASSUME IInv, NEW c \in Coros, st[c] = "running", Counted(c)
  PROVE  /\ owner[c] \in Exports /\ c \in Live(owner[c])
         /\ pending[owner[c]] \in Nat \ {0}
<1>1. owner[c] \in Exports
  BY CoroFacts DEF IInv, Roles, TypeOK, CoroTypeOK
<1>2. c \in Live(owner[c])
  BY <1>1 DEF Live, Alive
<1>3. Cardinality(Live(owner[c])) # 0
  BY <1>1, <1>2, LiveFinite, FS_EmptySet
<1>4. pending[owner[c]] \in Nat /\ pending[owner[c]] >= Cardinality(Live(owner[c]))
  BY <1>1 DEF IInv, PendingCovers, TypeOK, StateTypeOK
<1> QED BY <1>1, <1>2, <1>3, <1>4, LiveFinite

-----------------------------------------------------------------------------
(* The initial states.                                                     *)

LEMMA InitInv == Init => IInv
<1> SUFFICES ASSUME Init PROVE IInv OBVIOUS
<1>1. TypeOK
  <2>1. HostTypeOK BY DEF Init, HostTypeOK, Traps
  <2>2. StateTypeOK BY DEF Init, StateTypeOK
  <2>3. exception \in BOOLEAN /\ active \in Coros \cup {NoCoro} BY DEF Init
  <2>4. batch \in Seq(Coros) BY DEF Init
  <2>5. CoroTypeOK BY CoroFacts DEF Init, CoroTypeOK, Statuses
  <2>6. LockTypeOK BY DEF Init, LockTypeOK
  <2> QED BY <2>1, <2>2, <2>3, <2>4, <2>5, <2>6 DEF TypeOK, LoopTypeOK
<1>2. Roles
  BY CoroFacts DEF Init, Roles
<1>3. Joins
  BY CoroFacts DEF Init, Joins, Alive
<1>4. Queues
  BY EmptyIn DEF Init, Queues
<1>5. ScheduledOnce
  BY EmptyIn DEF Init, ScheduledOnce
<1>6. WaitablesRouted
  BY CoroFacts DEF Init, WaitablesRouted
<1>7. PendingCovers
  <2>1. \A t \in Exports : Live(t) = {} BY DEF Init, Live, Alive
  <2>2. \A t \in Exports : pending[t] = 0 BY DEF Init
  <2> QED BY <2>1, <2>2, FS_EmptySet DEF PendingCovers
<1> QED BY <1>1, <1>2, <1>3, <1>4, <1>5, <1>6, <1>7 DEF IInv

-----------------------------------------------------------------------------
(* One lemma per action.                                                   *)

LEMMA SubtaskStartedInv ==
  ASSUME IInv, NEW t \in Exports, NEW w \in Waitables, SubtaskStarted(t, w)
  PROVE  IInv'
<1> USE DEF IInv, TypeOK
<1>t1. HostTypeOK'
  BY CoroFacts DEF HostTypeOK, SubtaskStarted, Enter, GuestIdle, stateVars, loopVars, coroVars, lockVars, Statuses, Traps
<1>t2. StateTypeOK'
  BY CoroFacts DEF StateTypeOK, SubtaskStarted, Enter, GuestIdle, stateVars, loopVars, coroVars, lockVars
<1>t3. LoopTypeOK'
  BY CoroFacts DEF LoopTypeOK, SubtaskStarted, Enter, GuestIdle, stateVars, loopVars, coroVars, lockVars
<1>t4. CoroTypeOK'
  BY CoroFacts DEF CoroTypeOK, SubtaskStarted, Enter, GuestIdle, stateVars, loopVars, coroVars, lockVars, Statuses, Traps
<1>t5. LockTypeOK'
  BY CoroFacts DEF LockTypeOK, SubtaskStarted, Enter, GuestIdle, stateVars, loopVars, coroVars, lockVars
<1>r. Roles'
  BY CoroFacts DEF Roles, HostTypeOK, LoopTypeOK, CoroTypeOK, SubtaskStarted, Enter, GuestIdle, stateVars, loopVars, coroVars, lockVars
<1>j. Joins'
  BY CoroFacts DEF Joins, Alive, Roles, CoroTypeOK, LoopTypeOK, SubtaskStarted, Enter, GuestIdle, stateVars, loopVars, coroVars, lockVars
<1>q. Queues'
  BY CoroFacts DEF Queues, Roles, LockTypeOK, CoroTypeOK, LoopTypeOK, SubtaskStarted, Enter, GuestIdle, stateVars, loopVars, coroVars, lockVars
<1>s. ScheduledOnce'
  BY ScheduleNone, CoroFacts DEF HostTypeOK, CoroTypeOK, Roles, SubtaskStarted, Enter, GuestIdle, stateVars, loopVars, coroVars, lockVars
<1>w. WaitablesRouted'
  BY CoroFacts DEF WaitablesRouted, Roles, HostTypeOK, StateTypeOK, CoroTypeOK, LoopTypeOK, SubtaskStarted, Enter, GuestIdle, stateVars, loopVars, coroVars, lockVars
<1>p. PendingCovers'
  <2>1. pending' = pending
    BY DEF SubtaskStarted, Enter, GuestIdle, stateVars, loopVars, coroVars, lockVars
  <2>2. ASSUME NEW x \in Exports PROVE Live(x)' \subseteq Live(x)
    BY DEF Live, Counted, Alive, CoroTypeOK, SubtaskStarted, Enter, GuestIdle, stateVars, loopVars, coroVars, lockVars
  <2> QED BY <2>1, <2>2, CountKept
<1> QED
  BY <1>t1, <1>t2, <1>t3, <1>t4, <1>t5, <1>r, <1>j, <1>q, <1>s, <1>w, <1>p

LEMMA UnsupportedEventInv ==
  ASSUME IInv, NEW t \in Exports, UnsupportedEvent(t)
  PROVE  IInv'
<1> USE DEF IInv, TypeOK
<1>t1. HostTypeOK'
  BY CoroFacts DEF HostTypeOK, UnsupportedEvent, Enter, GuestIdle, stateVars, loopVars, coroVars, lockVars, Statuses, Traps
<1>t2. StateTypeOK'
  BY CoroFacts DEF StateTypeOK, UnsupportedEvent, Enter, GuestIdle, stateVars, loopVars, coroVars, lockVars
<1>t3. LoopTypeOK'
  BY CoroFacts DEF LoopTypeOK, UnsupportedEvent, Enter, GuestIdle, stateVars, loopVars, coroVars, lockVars
<1>t4. CoroTypeOK'
  BY CoroFacts DEF CoroTypeOK, UnsupportedEvent, Enter, GuestIdle, stateVars, loopVars, coroVars, lockVars, Statuses, Traps
<1>t5. LockTypeOK'
  BY CoroFacts DEF LockTypeOK, UnsupportedEvent, Enter, GuestIdle, stateVars, loopVars, coroVars, lockVars
<1>r. Roles'
  BY CoroFacts DEF Roles, HostTypeOK, LoopTypeOK, CoroTypeOK, UnsupportedEvent, Enter, GuestIdle, stateVars, loopVars, coroVars, lockVars
<1>j. Joins'
  BY CoroFacts DEF Joins, Alive, Roles, CoroTypeOK, LoopTypeOK, UnsupportedEvent, Enter, GuestIdle, stateVars, loopVars, coroVars, lockVars
<1>q. Queues'
  BY CoroFacts DEF Queues, Roles, LockTypeOK, CoroTypeOK, LoopTypeOK, UnsupportedEvent, Enter, GuestIdle, stateVars, loopVars, coroVars, lockVars
<1>s. ScheduledOnce'
  BY ScheduleNone, CoroFacts DEF HostTypeOK, CoroTypeOK, Roles, UnsupportedEvent, Enter, GuestIdle, stateVars, loopVars, coroVars, lockVars
<1>w. WaitablesRouted'
  BY CoroFacts DEF WaitablesRouted, Roles, HostTypeOK, StateTypeOK, CoroTypeOK, LoopTypeOK, UnsupportedEvent, Enter, GuestIdle, stateVars, loopVars, coroVars, lockVars
<1>p. PendingCovers'
  <2>1. pending' = pending
    BY DEF UnsupportedEvent, Enter, GuestIdle, stateVars, loopVars, coroVars, lockVars
  <2>2. ASSUME NEW x \in Exports PROVE Live(x)' \subseteq Live(x)
    BY DEF Live, Counted, Alive, CoroTypeOK, UnsupportedEvent, Enter, GuestIdle, stateVars, loopVars, coroVars, lockVars
  <2> QED BY <2>1, <2>2, CountKept
<1> QED
  BY <1>t1, <1>t2, <1>t3, <1>t4, <1>t5, <1>r, <1>j, <1>q, <1>s, <1>w, <1>p

LEMMA PollRaisesInv ==
  ASSUME IInv, NEW t \in Exports, PollRaises(t)
  PROVE  IInv'
<1> USE DEF IInv, TypeOK
<1>t1. HostTypeOK'
  BY CoroFacts DEF HostTypeOK, PollRaises, Polling, stateVars, loopVars, coroVars, lockVars, Statuses, Traps
<1>t2. StateTypeOK'
  BY CoroFacts DEF StateTypeOK, PollRaises, Polling, stateVars, loopVars, coroVars, lockVars
<1>t3. LoopTypeOK'
  BY CoroFacts DEF LoopTypeOK, PollRaises, Polling, stateVars, loopVars, coroVars, lockVars
<1>t4. CoroTypeOK'
  BY CoroFacts DEF CoroTypeOK, PollRaises, Polling, stateVars, loopVars, coroVars, lockVars, Statuses, Traps
<1>t5. LockTypeOK'
  BY CoroFacts DEF LockTypeOK, PollRaises, Polling, stateVars, loopVars, coroVars, lockVars
<1>r. Roles'
  BY CoroFacts DEF Roles, HostTypeOK, LoopTypeOK, CoroTypeOK, PollRaises, Polling, stateVars, loopVars, coroVars, lockVars
<1>j. Joins'
  BY CoroFacts DEF Joins, Alive, Roles, CoroTypeOK, LoopTypeOK, PollRaises, Polling, stateVars, loopVars, coroVars, lockVars
<1>q. Queues'
  BY CoroFacts DEF Queues, Roles, LockTypeOK, CoroTypeOK, LoopTypeOK, PollRaises, Polling, stateVars, loopVars, coroVars, lockVars
<1>s. ScheduledOnce'
  BY ScheduleNone, CoroFacts DEF HostTypeOK, CoroTypeOK, Roles, PollRaises, Polling, stateVars, loopVars, coroVars, lockVars
<1>w. WaitablesRouted'
  BY CoroFacts DEF WaitablesRouted, Roles, HostTypeOK, StateTypeOK, CoroTypeOK, LoopTypeOK, PollRaises, Polling, stateVars, loopVars, coroVars, lockVars
<1>p. PendingCovers'
  <2>1. pending' = pending
    BY DEF PollRaises, Polling, stateVars, loopVars, coroVars, lockVars
  <2>2. ASSUME NEW x \in Exports PROVE Live(x)' \subseteq Live(x)
    BY DEF Live, Counted, Alive, CoroTypeOK, PollRaises, Polling, stateVars, loopVars, coroVars, lockVars
  <2> QED BY <2>1, <2>2, CountKept
<1> QED
  BY <1>t1, <1>t2, <1>t3, <1>t4, <1>t5, <1>r, <1>j, <1>q, <1>s, <1>w, <1>p

LEMMA ExitInv ==
  ASSUME IInv, NEW t \in Exports, Exit(t)
  PROVE  IInv'
<1> USE DEF IInv, TypeOK
<1>t1. HostTypeOK'
  BY CoroFacts DEF HostTypeOK, Exit, WorkDone, PollDone, Polling, DropWaitableSet, loopVars, coroVars, lockVars, Statuses, Traps
<1>t2. StateTypeOK'
  BY CoroFacts DEF StateTypeOK, Exit, WorkDone, PollDone, Polling, DropWaitableSet, loopVars, coroVars, lockVars
<1>t3. LoopTypeOK'
  BY CoroFacts DEF LoopTypeOK, Exit, WorkDone, PollDone, Polling, DropWaitableSet, loopVars, coroVars, lockVars
<1>t4. CoroTypeOK'
  BY CoroFacts DEF CoroTypeOK, Exit, WorkDone, PollDone, Polling, DropWaitableSet, loopVars, coroVars, lockVars, Statuses, Traps
<1>t5. LockTypeOK'
  BY CoroFacts DEF LockTypeOK, Exit, WorkDone, PollDone, Polling, DropWaitableSet, loopVars, coroVars, lockVars
<1>r. Roles'
  <2>1. phase' \in {phase, [phase EXCEPT ![t] = "exited"]}
    BY DEF Exit, WorkDone, DropWaitableSet
  <2>2. active = NoCoro /\ UNCHANGED <<active, st, owner>> /\ phase[t] = "running"
    BY DEF Exit, WorkDone, PollDone, Polling, loopVars, coroVars
  <2> QED BY <2>1, <2>2 DEF Roles, HostTypeOK, CoroTypeOK
<1>j. Joins'
  BY CoroFacts DEF Joins, Alive, Roles, CoroTypeOK, LoopTypeOK, Exit, WorkDone, PollDone, Polling, DropWaitableSet, loopVars, coroVars, lockVars
<1>q. Queues'
  BY CoroFacts DEF Queues, Roles, LockTypeOK, CoroTypeOK, LoopTypeOK, Exit, WorkDone, PollDone, Polling, DropWaitableSet, loopVars, coroVars, lockVars
<1>s. ScheduledOnce'
  BY ScheduleNone, CoroFacts DEF HostTypeOK, CoroTypeOK, Roles, Exit, WorkDone, PollDone, Polling, DropWaitableSet, loopVars, coroVars, lockVars
<1>w. WaitablesRouted'
  BY CoroFacts DEF WaitablesRouted, Roles, HostTypeOK, StateTypeOK, CoroTypeOK, LoopTypeOK, Exit, WorkDone, PollDone, Polling, DropWaitableSet, loopVars, coroVars, lockVars
<1>p. PendingCovers'
  <2>1. pending' = pending
    BY DEF Exit, WorkDone, PollDone, Polling, DropWaitableSet, loopVars, coroVars, lockVars
  <2>2. ASSUME NEW x \in Exports PROVE Live(x)' \subseteq Live(x)
    BY DEF Live, Counted, Alive, CoroTypeOK, Exit, WorkDone, PollDone, Polling, DropWaitableSet, loopVars, coroVars, lockVars
  <2> QED BY <2>1, <2>2, CountKept
<1> QED
  BY <1>t1, <1>t2, <1>t3, <1>t4, <1>t5, <1>r, <1>j, <1>q, <1>s, <1>w, <1>p

LEMMA WaitInv ==
  ASSUME IInv, NEW t \in Exports, Wait(t)
  PROVE  IInv'
<1> USE DEF IInv, TypeOK
<1>t1. HostTypeOK'
  BY CoroFacts DEF HostTypeOK, Wait, WorkDone, PollDone, Polling, stateVars, loopVars, coroVars, lockVars, Statuses, Traps
<1>t2. StateTypeOK'
  BY CoroFacts DEF StateTypeOK, Wait, WorkDone, PollDone, Polling, stateVars, loopVars, coroVars, lockVars
<1>t3. LoopTypeOK'
  BY CoroFacts DEF LoopTypeOK, Wait, WorkDone, PollDone, Polling, stateVars, loopVars, coroVars, lockVars
<1>t4. CoroTypeOK'
  BY CoroFacts DEF CoroTypeOK, Wait, WorkDone, PollDone, Polling, stateVars, loopVars, coroVars, lockVars, Statuses, Traps
<1>t5. LockTypeOK'
  BY CoroFacts DEF LockTypeOK, Wait, WorkDone, PollDone, Polling, stateVars, loopVars, coroVars, lockVars
<1>r. Roles'
  BY CoroFacts DEF Roles, HostTypeOK, LoopTypeOK, CoroTypeOK, Wait, WorkDone, PollDone, Polling, stateVars, loopVars, coroVars, lockVars
<1>j. Joins'
  BY CoroFacts DEF Joins, Alive, Roles, CoroTypeOK, LoopTypeOK, Wait, WorkDone, PollDone, Polling, stateVars, loopVars, coroVars, lockVars
<1>q. Queues'
  BY CoroFacts DEF Queues, Roles, LockTypeOK, CoroTypeOK, LoopTypeOK, Wait, WorkDone, PollDone, Polling, stateVars, loopVars, coroVars, lockVars
<1>s. ScheduledOnce'
  BY ScheduleNone, CoroFacts DEF HostTypeOK, CoroTypeOK, Roles, Wait, WorkDone, PollDone, Polling, stateVars, loopVars, coroVars, lockVars
<1>w. WaitablesRouted'
  BY CoroFacts DEF WaitablesRouted, Roles, HostTypeOK, StateTypeOK, CoroTypeOK, LoopTypeOK, Wait, WorkDone, PollDone, Polling, stateVars, loopVars, coroVars, lockVars
<1>p. PendingCovers'
  <2>1. pending' = pending
    BY DEF Wait, WorkDone, PollDone, Polling, stateVars, loopVars, coroVars, lockVars
  <2>2. ASSUME NEW x \in Exports PROVE Live(x)' \subseteq Live(x)
    BY DEF Live, Counted, Alive, CoroTypeOK, Wait, WorkDone, PollDone, Polling, stateVars, loopVars, coroVars, lockVars
  <2> QED BY <2>1, <2>2, CountKept
<1> QED
  BY <1>t1, <1>t2, <1>t3, <1>t4, <1>t5, <1>r, <1>j, <1>q, <1>s, <1>w, <1>p

LEMMA TakeHandlesInv ==
  ASSUME IInv, NEW t \in Exports, TakeHandles(t)
  PROVE  IInv'
<1> USE DEF IInv, TypeOK
<1>t1. HostTypeOK'
  BY CoroFacts DEF HostTypeOK, TakeHandles, Polling, hostVars, coroVars, lockVars, Statuses, Traps
<1>t2. StateTypeOK'
  BY CoroFacts DEF StateTypeOK, TakeHandles, Polling, hostVars, coroVars, lockVars
<1>t3. LoopTypeOK'
  BY DEF LoopTypeOK, StateTypeOK, TakeHandles
<1>t4. CoroTypeOK'
  BY CoroFacts DEF CoroTypeOK, TakeHandles, Polling, hostVars, coroVars, lockVars, Statuses, Traps
<1>t5. LockTypeOK'
  BY CoroFacts DEF LockTypeOK, TakeHandles, Polling, hostVars, coroVars, lockVars
<1>r. Roles'
  BY CoroFacts DEF Roles, HostTypeOK, LoopTypeOK, CoroTypeOK, TakeHandles, Polling, hostVars, coroVars, lockVars
<1>j. Joins'
  BY CoroFacts DEF Joins, Alive, Roles, CoroTypeOK, LoopTypeOK, TakeHandles, Polling, hostVars, coroVars, lockVars
<1>q. Queues'
  BY CoroFacts DEF Queues, Roles, LockTypeOK, CoroTypeOK, LoopTypeOK, TakeHandles, Polling, hostVars, coroVars, lockVars
<1>s. ScheduledOnce'
  <2>1. /\ batch = <<>> /\ batch' = handles[t] /\ phase' = phase /\ st' = st /\ owner' = owner
        /\ handles \in [Exports -> Seq(Coros)]
        /\ handles' = [handles EXCEPT ![t] = <<>>]
        /\ phase[t] = "running"
    BY DEF TakeHandles, Polling, hostVars, coroVars, StateTypeOK
  <2>2. handles'[t] = <<>> /\ \A u \in Exports \ {t} : handles'[u] = handles[u]
    BY <2>1
  <2>3. \A x : ~In(x, batch)
    BY <2>1, EmptyIn
  <2>4. \A x : ~In(x, handles'[t])
    BY <2>2, EmptyIn
  <2>5. Distinct(batch') /\ \A u \in Exports : Distinct(handles'[u])
    BY <2>1, <2>2, EmptyIn DEF ScheduledOnce
  <2> QED
    BY <2>1, <2>2, <2>3, <2>4, <2>5 DEF ScheduledOnce
<1>w. WaitablesRouted'
  BY CoroFacts DEF WaitablesRouted, Roles, HostTypeOK, StateTypeOK, CoroTypeOK, LoopTypeOK, TakeHandles, Polling, hostVars, coroVars, lockVars
<1>p. PendingCovers'
  <2>1. pending' = pending
    BY DEF TakeHandles, Polling, hostVars, coroVars, lockVars
  <2>2. ASSUME NEW x \in Exports PROVE Live(x)' \subseteq Live(x)
    BY DEF Live, Counted, Alive, CoroTypeOK, TakeHandles, Polling, hostVars, coroVars, lockVars
  <2> QED BY <2>1, <2>2, CountKept
<1> QED
  BY <1>t1, <1>t2, <1>t3, <1>t4, <1>t5, <1>r, <1>j, <1>q, <1>s, <1>w, <1>p

LEMMA RunHandleInv ==
  ASSUME IInv, NEW t \in Exports, RunHandle(t)
  PROVE  IInv'
<1> USE DEF IInv, TypeOK
<1> DEFINE c == Head(batch)
<1>0. /\ c \in Coros /\ c # NoCoro /\ In(c, batch) /\ Tail(batch) \in Seq(Coros)
      /\ Distinct(Tail(batch))
      /\ \A x : In(x, Tail(batch)) <=> In(x, batch) /\ x # c
  BY TailIn, CoroFacts DEF RunHandle, IInv, TypeOK, LoopTypeOK, ScheduledOnce
<1>1. /\ active' = c /\ batch' = Tail(batch) /\ active = NoCoro
      /\ st' = [st EXCEPT ![c] = "running"] /\ phase[t] = "running"
  BY DEF RunHandle, Polling
<1> HIDE DEF c
<1>2. st[c] = "ready" /\ phase[owner[c]] = "running"
  BY <1>0 DEF IInv, ScheduledOnce
<1>3. owner[c] = t
  BY <1>0, <1>1, <1>2, CoroFacts DEF IInv, TypeOK, Roles, CoroTypeOK
<1>4. st \in [Coros -> Statuses]
  BY DEF IInv, TypeOK, CoroTypeOK
<1>t1. HostTypeOK'
  BY CoroFacts DEF HostTypeOK, RunHandle, Polling, hostVars, stateVars, lockVars, Statuses, Traps
<1>t2. StateTypeOK'
  BY CoroFacts DEF StateTypeOK, RunHandle, Polling, hostVars, stateVars, lockVars
<1>t3. LoopTypeOK'
  BY <1>0, <1>1 DEF LoopTypeOK, RunHandle
<1>t4. CoroTypeOK'
  BY <1>0, <1>1 DEF CoroTypeOK, Statuses, RunHandle
<1>t5. LockTypeOK'
  BY CoroFacts DEF LockTypeOK, RunHandle, Polling, hostVars, stateVars, lockVars
<1>r. Roles'
  BY <1>0, <1>1, <1>2, <1>3, <1>4, CoroFacts DEF Roles, RunHandle, hostVars
<1>j. Joins'
  BY <1>0, <1>1, <1>2, <1>4, CoroFacts DEF Joins, Alive, RunHandle, CoroTypeOK
<1>q. Queues'
  BY <1>0, <1>1, <1>2, <1>4 DEF Queues, RunHandle, lockVars
<1>s. ScheduledOnce'
  <2>1. \A x \in Coros : st'[x] = "ready" <=> In(x, batch') \/ \E u \in Exports : In(x, handles[u])
    BY <1>0, <1>1, <1>2, <1>4 DEF ScheduledOnce
  <2>2. phase' = phase /\ owner' = owner /\ handles' = handles
    BY DEF RunHandle, hostVars, stateVars
  <2> QED BY <1>0, <1>1, <2>1, <2>2 DEF ScheduledOnce
<1>w. WaitablesRouted'
  <2>1. \A x \in Coros : st'[x] = "importing" <=> st[x] = "importing"
    BY <1>0, <1>1, <1>2, <1>4
  <2>2. UNCHANGED <<joined, call, futures, wset, owner, awaits>>
    BY DEF RunHandle, hostVars, stateVars
  <2> QED BY <2>1, <2>2 DEF WaitablesRouted
<1>p. PendingCovers'
  <2>1. pending' = pending /\ kind' = kind /\ owner' = owner
    BY DEF RunHandle, stateVars
  <2>2. \A x \in Exports : Live(x)' \subseteq Live(x)
    BY <2>1, <1>0, <1>1, <1>2, <1>4 DEF Live, Counted, Alive
  <2> QED BY <2>1, <2>2, CountKept
<1> QED
  BY <1>t1, <1>t2, <1>t3, <1>t4, <1>t5, <1>r, <1>j, <1>q, <1>s, <1>w, <1>p

LEMMA FirstPollInv ==
  ASSUME IInv, NEW t \in Exports, NEW c \in Coros, FirstPoll(t, c)
  PROVE  IInv'
<1> USE DEF IInv, TypeOK
<1>1. st[c] = "unborn" /\ kind' = [kind EXCEPT ![c] = "return"] /\ pending' = [pending EXCEPT ![t] = 1]
      /\ phase[t] = "new"
  BY DEF FirstPoll, CreateTask
<1>t1. HostTypeOK'
  BY CoroFacts DEF HostTypeOK, FirstPoll, CreateTask, GuestIdle, loopVars, lockVars, Statuses, Traps
<1>t2. StateTypeOK'
  BY CoroFacts DEF StateTypeOK, FirstPoll, CreateTask, GuestIdle, loopVars, lockVars
<1>t3. LoopTypeOK'
  BY CoroFacts DEF LoopTypeOK, FirstPoll, CreateTask, GuestIdle, loopVars, lockVars
<1>t4. CoroTypeOK'
  BY CoroFacts DEF CoroTypeOK, FirstPoll, CreateTask, GuestIdle, loopVars, lockVars, Statuses, Traps
<1>t5. LockTypeOK'
  BY CoroFacts DEF LockTypeOK, FirstPoll, CreateTask, GuestIdle, loopVars, lockVars
<1>r. Roles'
  BY CoroFacts DEF Roles, HostTypeOK, LoopTypeOK, CoroTypeOK, FirstPoll, CreateTask, GuestIdle, loopVars, lockVars
<1>j. Joins'
  BY CoroFacts DEF Joins, Alive, Roles, CoroTypeOK, LoopTypeOK, FirstPoll, CreateTask, GuestIdle, loopVars, lockVars
<1>q. Queues'
  BY CoroFacts DEF Queues, Roles, LockTypeOK, CoroTypeOK, LoopTypeOK, FirstPoll, CreateTask, GuestIdle, loopVars, lockVars
<1>s. ScheduledOnce'
  <2>1. /\ st[c] # "ready" /\ st'[c] = "ready" /\ owner'[c] = t /\ batch' = batch
        /\ \A x \in Coros \ {c} : (st'[x] = "ready" <=> st[x] = "ready") /\ owner'[x] = owner[x]
        /\ handles' = [handles EXCEPT ![t] = Append(@, c)]
    BY <1>1 DEF CoroTypeOK, FirstPoll, CreateTask, GuestIdle, loopVars, lockVars
  <2>2. \A u \in Exports : phase[u] = "running" => phase'[u] = "running"
    BY DEF HostTypeOK, FirstPoll, CreateTask, GuestIdle, loopVars, lockVars
  <2> QED BY <2>1, <2>2, ScheduleOne
<1>w. WaitablesRouted'
  BY CoroFacts DEF WaitablesRouted, Roles, HostTypeOK, StateTypeOK, CoroTypeOK, LoopTypeOK, FirstPoll, CreateTask, GuestIdle, loopVars, lockVars
<1>p. PendingCovers'
  <2>1. Live(t)' = Live(t) \cup {c} /\ c \notin Live(t)
        /\ \A x \in Exports \ {t} : Live(x)' = Live(x)
    BY <1>1, CoroFacts DEF Live, Counted, Alive, Roles, CoroTypeOK, FirstPoll, CreateTask
  <2>2. Cardinality(Live(t)') = Cardinality(Live(t)) + 1
    BY <2>1, LiveFinite, FS_AddElement
  <2>3. Live(t) = {}
    BY <1>1, CoroFacts DEF Live, Alive, Roles, CoroTypeOK
  <2>4. pending'[t] = 1 /\ Cardinality(Live(t)') = 1
    BY <1>1, <2>2, <2>3, FS_EmptySet DEF StateTypeOK
  <2>5. \A x \in Exports \ {t} : pending'[x] = pending[x] /\ pending[x] >= Cardinality(Live(x)')
    BY <1>1, <2>1 DEF PendingCovers, StateTypeOK
  <2> QED BY <2>4, <2>5 DEF PendingCovers
<1> QED
  BY <1>t1, <1>t2, <1>t3, <1>t4, <1>t5, <1>r, <1>j, <1>q, <1>s, <1>w, <1>p

LEMMA SpawnInv ==
  ASSUME IInv, NEW c \in Coros, NEW d \in Coros, Spawn(c, d)
  PROVE  IInv'
<1> USE DEF IInv, TypeOK
<1>0. /\ active = c /\ st[c] = "running" /\ c # NoCoro
      /\ owner[c] \in Exports /\ phase[owner[c]] = "running"
  BY Stepped DEF Spawn, Count
<1>1. st[d] = "unborn" /\ kind' = [kind EXCEPT ![d] = "spawned"]
      /\ pending' = [pending EXCEPT ![owner[c]] = @ + 1]
  BY DEF Spawn, Count, CreateTask
<1>t1. HostTypeOK'
  BY <1>0, CoroFacts DEF HostTypeOK, Spawn, Count, CreateTask, Running, hostVars, loopVars, lockVars, Statuses, Traps
<1>t2. StateTypeOK'
  BY <1>0, CoroFacts DEF StateTypeOK, Spawn, Count, CreateTask, Running, hostVars, loopVars, lockVars
<1>t3. LoopTypeOK'
  BY <1>0, CoroFacts DEF LoopTypeOK, Spawn, Count, CreateTask, Running, hostVars, loopVars, lockVars
<1>t4. CoroTypeOK'
  BY <1>0, CoroFacts DEF CoroTypeOK, Spawn, Count, CreateTask, Running, hostVars, loopVars, lockVars, Statuses, Traps
<1>t5. LockTypeOK'
  BY <1>0, CoroFacts DEF LockTypeOK, Spawn, Count, CreateTask, Running, hostVars, loopVars, lockVars
<1>r. Roles'
  BY <1>0, CoroFacts DEF Roles, HostTypeOK, LoopTypeOK, CoroTypeOK, Spawn, Count, CreateTask, Running, hostVars, loopVars, lockVars
<1>j. Joins'
  BY <1>0, CoroFacts DEF Joins, Alive, Roles, CoroTypeOK, LoopTypeOK, Spawn, Count, CreateTask, Running, hostVars, loopVars, lockVars
<1>q. Queues'
  BY <1>0, CoroFacts DEF Queues, Roles, LockTypeOK, CoroTypeOK, LoopTypeOK, Spawn, Count, CreateTask, Running, hostVars, loopVars, lockVars
<1>s. ScheduledOnce'
  <2>1. /\ st[d] # "ready" /\ st'[d] = "ready" /\ owner'[d] = owner[c] /\ batch' = batch
        /\ \A x \in Coros \ {d} : (st'[x] = "ready" <=> st[x] = "ready") /\ owner'[x] = owner[x]
        /\ handles' = [handles EXCEPT ![owner[c]] = Append(@, d)]
    BY <1>0, <1>1 DEF CoroTypeOK, Spawn, Count, CreateTask, Running, hostVars, loopVars, lockVars
  <2>2. \A u \in Exports : phase[u] = "running" => phase'[u] = "running"
    BY DEF HostTypeOK, Spawn, Count, CreateTask, Running, hostVars, loopVars, lockVars
  <2> QED BY <1>0, <2>1, <2>2, ScheduleOne
<1>w. WaitablesRouted'
  BY <1>0, CoroFacts DEF WaitablesRouted, Roles, HostTypeOK, StateTypeOK, CoroTypeOK, LoopTypeOK, Spawn, Count, CreateTask, Running, hostVars, loopVars, lockVars
<1>p. PendingCovers'
  <2> PICK t \in Exports : t = owner[c]
    BY <1>0
  <2>1. Live(t)' = Live(t) \cup {d} /\ d \notin Live(t)
        /\ \A x \in Exports \ {t} : Live(x)' = Live(x)
    BY <1>0, <1>1, CoroFacts DEF Live, Counted, Alive, Roles, CoroTypeOK, Spawn, Count, CreateTask
  <2>2. Cardinality(Live(t)') = Cardinality(Live(t)) + 1
    BY <1>0, <2>1, LiveFinite, FS_AddElement
  <2>3. pending'[t] = pending[t] + 1 /\ pending'[t] >= Cardinality(Live(t)')
    BY <1>1, <2>2, LiveFinite DEF PendingCovers, StateTypeOK
  <2>4. \A x \in Exports \ {t} : pending'[x] >= Cardinality(Live(x)')
    BY <1>1, <2>1 DEF PendingCovers, StateTypeOK
  <2> QED BY <2>3, <2>4 DEF PendingCovers
<1> QED
  BY <1>t1, <1>t2, <1>t3, <1>t4, <1>t5, <1>r, <1>j, <1>q, <1>s, <1>w, <1>p

LEMMA CreatePlainTaskInv ==
  ASSUME IInv, NEW c \in Coros, NEW d \in Coros, CreatePlainTask(c, d)
  PROVE  IInv'
<1> USE DEF IInv, TypeOK
<1>0. /\ active = c /\ st[c] = "running" /\ c # NoCoro
      /\ owner[c] \in Exports /\ phase[owner[c]] = "running"
  BY Stepped DEF CreatePlainTask
<1>1. st[d] = "unborn" /\ kind' = [kind EXCEPT ![d] = "plain"]
  BY DEF CreatePlainTask, CreateTask
<1>t1. HostTypeOK'
  BY <1>0, CoroFacts DEF HostTypeOK, CreatePlainTask, CreateTask, Running, hostVars, loopVars, lockVars, Statuses, Traps
<1>t2. StateTypeOK'
  BY <1>0, CoroFacts DEF StateTypeOK, CreatePlainTask, CreateTask, Running, hostVars, loopVars, lockVars
<1>t3. LoopTypeOK'
  BY <1>0, CoroFacts DEF LoopTypeOK, CreatePlainTask, CreateTask, Running, hostVars, loopVars, lockVars
<1>t4. CoroTypeOK'
  BY <1>0, CoroFacts DEF CoroTypeOK, CreatePlainTask, CreateTask, Running, hostVars, loopVars, lockVars, Statuses, Traps
<1>t5. LockTypeOK'
  BY <1>0, CoroFacts DEF LockTypeOK, CreatePlainTask, CreateTask, Running, hostVars, loopVars, lockVars
<1>r. Roles'
  BY <1>0, CoroFacts DEF Roles, HostTypeOK, LoopTypeOK, CoroTypeOK, CreatePlainTask, CreateTask, Running, hostVars, loopVars, lockVars
<1>j. Joins'
  BY <1>0, CoroFacts DEF Joins, Alive, Roles, CoroTypeOK, LoopTypeOK, CreatePlainTask, CreateTask, Running, hostVars, loopVars, lockVars
<1>q. Queues'
  BY <1>0, CoroFacts DEF Queues, Roles, LockTypeOK, CoroTypeOK, LoopTypeOK, CreatePlainTask, CreateTask, Running, hostVars, loopVars, lockVars
<1>s. ScheduledOnce'
  <2>1. /\ st[d] # "ready" /\ st'[d] = "ready" /\ owner'[d] = owner[c] /\ batch' = batch
        /\ \A x \in Coros \ {d} : (st'[x] = "ready" <=> st[x] = "ready") /\ owner'[x] = owner[x]
        /\ handles' = [handles EXCEPT ![owner[c]] = Append(@, d)]
    BY <1>0, <1>1 DEF CoroTypeOK, CreatePlainTask, CreateTask, Running, hostVars, loopVars, lockVars
  <2>2. \A u \in Exports : phase[u] = "running" => phase'[u] = "running"
    BY DEF HostTypeOK, CreatePlainTask, CreateTask, Running, hostVars, loopVars, lockVars
  <2> QED BY <1>0, <2>1, <2>2, ScheduleOne
<1>w. WaitablesRouted'
  BY <1>0, CoroFacts DEF WaitablesRouted, Roles, HostTypeOK, StateTypeOK, CoroTypeOK, LoopTypeOK, CreatePlainTask, CreateTask, Running, hostVars, loopVars, lockVars
<1>p. PendingCovers'
  <2>1. pending' = pending
    BY DEF CreatePlainTask, CreateTask, Running, hostVars, loopVars, lockVars
  <2>2. ASSUME NEW x \in Exports PROVE Live(x)' \subseteq Live(x)
    BY <1>0 DEF Live, Counted, Alive, CoroTypeOK, CreatePlainTask, CreateTask, Running, hostVars, loopVars, lockVars
  <2> QED BY <2>1, <2>2, CountKept
<1> QED
  BY <1>t1, <1>t2, <1>t3, <1>t4, <1>t5, <1>r, <1>j, <1>q, <1>s, <1>w, <1>p

LEMMA AwaitResultInv ==
  ASSUME IInv, NEW c \in Coros, NEW w \in Waitables, NEW s \in {"starting", "started"}, AwaitResult(c, w, s)
  PROVE  IInv'
<1> USE DEF IInv, TypeOK
<1>0. /\ active = c /\ st[c] = "running" /\ c # NoCoro
      /\ owner[c] \in Exports /\ phase[owner[c]] = "running"
  BY Stepped DEF AwaitResult, JoinSet
<1>t1. HostTypeOK'
  BY <1>0, CoroFacts DEF HostTypeOK, AwaitResult, JoinSet, Running, HasFuel, Suspend, Burn, lockVars, Statuses, Traps
<1>t2. StateTypeOK'
  BY <1>0, CoroFacts DEF StateTypeOK, AwaitResult, JoinSet, Running, HasFuel, Suspend, Burn, lockVars
<1>t3. LoopTypeOK'
  BY <1>0, CoroFacts DEF LoopTypeOK, AwaitResult, JoinSet, Running, HasFuel, Suspend, Burn, lockVars
<1>t4. CoroTypeOK'
  BY <1>0, CoroFacts DEF CoroTypeOK, AwaitResult, JoinSet, Running, HasFuel, Suspend, Burn, lockVars, Statuses, Traps
<1>t5. LockTypeOK'
  BY <1>0, CoroFacts DEF LockTypeOK, AwaitResult, JoinSet, Running, HasFuel, Suspend, Burn, lockVars
<1>r. Roles'
  BY <1>0, CoroFacts DEF Roles, HostTypeOK, LoopTypeOK, CoroTypeOK, AwaitResult, JoinSet, Running, HasFuel, Suspend, Burn, lockVars
<1>j. Joins'
  BY <1>0, CoroFacts DEF Joins, Alive, Roles, CoroTypeOK, LoopTypeOK, AwaitResult, JoinSet, Running, HasFuel, Suspend, Burn, lockVars
<1>q. Queues'
  BY <1>0, CoroFacts DEF Queues, Roles, LockTypeOK, CoroTypeOK, LoopTypeOK, AwaitResult, JoinSet, Running, HasFuel, Suspend, Burn, lockVars
<1>s. ScheduledOnce'
  BY ScheduleNone, <1>0, CoroFacts DEF HostTypeOK, CoroTypeOK, Roles, AwaitResult, JoinSet, Running, HasFuel, Suspend, Burn, lockVars
<1>w. WaitablesRouted'
  BY <1>0, CoroFacts DEF WaitablesRouted, Roles, HostTypeOK, StateTypeOK, CoroTypeOK, LoopTypeOK, AwaitResult, JoinSet, Running, HasFuel, Suspend, Burn, lockVars
<1>p. PendingCovers'
  <2>1. pending' = pending
    BY DEF AwaitResult, JoinSet, Running, HasFuel, Suspend, Burn, lockVars
  <2>2. ASSUME NEW x \in Exports PROVE Live(x)' \subseteq Live(x)
    BY <1>0 DEF Live, Counted, Alive, CoroTypeOK, AwaitResult, JoinSet, Running, HasFuel, Suspend, Burn, lockVars
  <2> QED BY <2>1, <2>2, CountKept
<1> QED
  BY <1>t1, <1>t2, <1>t3, <1>t4, <1>t5, <1>r, <1>j, <1>q, <1>s, <1>w, <1>p

LEMMA YieldNowInv ==
  ASSUME IInv, NEW c \in Coros, YieldNow(c)
  PROVE  IInv'
<1> USE DEF IInv, TypeOK
<1>0. /\ active = c /\ st[c] = "running" /\ c # NoCoro
      /\ owner[c] \in Exports /\ phase[owner[c]] = "running"
  BY Stepped DEF YieldNow
<1>t1. HostTypeOK'
  BY <1>0, CoroFacts DEF HostTypeOK, YieldNow, Running, HasFuel, Resume, CallSoon, Burn, hostVars, lockVars, Statuses, Traps
<1>t2. StateTypeOK'
  BY <1>0, CoroFacts DEF StateTypeOK, YieldNow, Running, HasFuel, Resume, CallSoon, Burn, hostVars, lockVars
<1>t3. LoopTypeOK'
  BY <1>0, CoroFacts DEF LoopTypeOK, YieldNow, Running, HasFuel, Resume, CallSoon, Burn, hostVars, lockVars
<1>t4. CoroTypeOK'
  BY <1>0, CoroFacts DEF CoroTypeOK, YieldNow, Running, HasFuel, Resume, CallSoon, Burn, hostVars, lockVars, Statuses, Traps
<1>t5. LockTypeOK'
  BY <1>0, CoroFacts DEF LockTypeOK, YieldNow, Running, HasFuel, Resume, CallSoon, Burn, hostVars, lockVars
<1>r. Roles'
  BY <1>0, CoroFacts DEF Roles, HostTypeOK, LoopTypeOK, CoroTypeOK, YieldNow, Running, HasFuel, Resume, CallSoon, Burn, hostVars, lockVars
<1>j. Joins'
  BY <1>0, CoroFacts DEF Joins, Alive, Roles, CoroTypeOK, LoopTypeOK, YieldNow, Running, HasFuel, Resume, CallSoon, Burn, hostVars, lockVars
<1>q. Queues'
  BY <1>0, CoroFacts DEF Queues, Roles, LockTypeOK, CoroTypeOK, LoopTypeOK, YieldNow, Running, HasFuel, Resume, CallSoon, Burn, hostVars, lockVars
<1>s. ScheduledOnce'
  <2>1. /\ st[c] # "ready" /\ st'[c] = "ready" /\ owner'[c] = owner[c] /\ batch' = batch
        /\ \A x \in Coros \ {c} : (st'[x] = "ready" <=> st[x] = "ready") /\ owner'[x] = owner[x]
        /\ handles' = [handles EXCEPT ![owner[c]] = Append(@, c)]
    BY <1>0, CoroFacts DEF CoroTypeOK, YieldNow, Running, HasFuel, Resume, CallSoon, Burn, hostVars, lockVars
  <2>2. \A u \in Exports : phase[u] = "running" => phase'[u] = "running"
    BY DEF HostTypeOK, YieldNow, Running, HasFuel, Resume, CallSoon, Burn, hostVars, lockVars
  <2> QED BY <1>0, <2>1, <2>2, ScheduleOne
<1>w. WaitablesRouted'
  BY <1>0, CoroFacts DEF WaitablesRouted, Roles, HostTypeOK, StateTypeOK, CoroTypeOK, LoopTypeOK, YieldNow, Running, HasFuel, Resume, CallSoon, Burn, hostVars, lockVars
<1>p. PendingCovers'
  <2>1. pending' = pending
    BY DEF YieldNow, Running, HasFuel, Resume, CallSoon, Burn, hostVars, lockVars
  <2>2. ASSUME NEW x \in Exports PROVE Live(x)' \subseteq Live(x)
    BY <1>0 DEF Live, Counted, Alive, CoroTypeOK, YieldNow, Running, HasFuel, Resume, CallSoon, Burn, hostVars, lockVars
  <2> QED BY <2>1, <2>2, CountKept
<1> QED
  BY <1>t1, <1>t2, <1>t3, <1>t4, <1>t5, <1>r, <1>j, <1>q, <1>s, <1>w, <1>p

LEMMA JoinInv ==
  ASSUME IInv, NEW c \in Coros, NEW d \in Coros, Join(c, d)
  PROVE  IInv'
<1> USE DEF IInv, TypeOK
<1>0. /\ active = c /\ st[c] = "running" /\ c # NoCoro
      /\ owner[c] \in Exports /\ phase[owner[c]] = "running"
  BY Stepped DEF Join
<1>t1. HostTypeOK'
  BY <1>0, CoroFacts DEF HostTypeOK, Join, Running, Suspend, hostVars, stateVars, lockVars, Statuses, Traps
<1>t2. StateTypeOK'
  BY <1>0, CoroFacts DEF StateTypeOK, Join, Running, Suspend, hostVars, stateVars, lockVars
<1>t3. LoopTypeOK'
  BY <1>0, CoroFacts DEF LoopTypeOK, Join, Running, Suspend, hostVars, stateVars, lockVars
<1>t4. CoroTypeOK'
  BY <1>0, CoroFacts DEF CoroTypeOK, Join, Running, Suspend, hostVars, stateVars, lockVars, Statuses, Traps
<1>t5. LockTypeOK'
  BY <1>0, CoroFacts DEF LockTypeOK, Join, Running, Suspend, hostVars, stateVars, lockVars
<1>r. Roles'
  BY <1>0, CoroFacts DEF Roles, HostTypeOK, LoopTypeOK, CoroTypeOK, Join, Running, Suspend, hostVars, stateVars, lockVars
<1>j. Joins'
  BY <1>0, CoroFacts DEF Joins, Alive, Roles, CoroTypeOK, LoopTypeOK, Join, Running, Suspend, hostVars, stateVars, lockVars
<1>q. Queues'
  BY <1>0, CoroFacts DEF Queues, Roles, LockTypeOK, CoroTypeOK, LoopTypeOK, Join, Running, Suspend, hostVars, stateVars, lockVars
<1>s. ScheduledOnce'
  BY ScheduleNone, <1>0, CoroFacts DEF HostTypeOK, CoroTypeOK, Roles, Join, Running, Suspend, hostVars, stateVars, lockVars
<1>w. WaitablesRouted'
  BY <1>0, CoroFacts DEF WaitablesRouted, Roles, HostTypeOK, StateTypeOK, CoroTypeOK, LoopTypeOK, Join, Running, Suspend, hostVars, stateVars, lockVars
<1>p. PendingCovers'
  <2>1. pending' = pending
    BY DEF Join, Running, Suspend, hostVars, stateVars, lockVars
  <2>2. ASSUME NEW x \in Exports PROVE Live(x)' \subseteq Live(x)
    BY <1>0 DEF Live, Counted, Alive, CoroTypeOK, Join, Running, Suspend, hostVars, stateVars, lockVars
  <2> QED BY <2>1, <2>2, CountKept
<1> QED
  BY <1>t1, <1>t2, <1>t3, <1>t4, <1>t5, <1>r, <1>j, <1>q, <1>s, <1>w, <1>p

LEMMA CancelTaskInv ==
  ASSUME IInv, NEW c \in Coros, NEW d \in Coros, CancelTask(c, d)
  PROVE  IInv'
<1> USE DEF IInv, TypeOK
<1>0. /\ active = c /\ st[c] = "running" /\ c # NoCoro
      /\ owner[c] \in Exports /\ phase[owner[c]] = "running"
  BY Stepped DEF CancelTask
<1>1. st[d] = "importing" /\ owner[d] = owner[c]
  BY DEF CancelTask
<1>t1. HostTypeOK'
  BY <1>0, CoroFacts DEF HostTypeOK, CancelTask, Running, Resume, CallSoon, hostVars, loopVars, lockVars, Statuses, Traps
<1>t2. StateTypeOK'
  BY <1>0, <1>1 DEF StateTypeOK, CancelTask, Resume, CallSoon
<1>t3. LoopTypeOK'
  BY <1>0, CoroFacts DEF LoopTypeOK, CancelTask, Running, Resume, CallSoon, hostVars, loopVars, lockVars
<1>t4. CoroTypeOK'
  BY <1>0, CoroFacts DEF CoroTypeOK, CancelTask, Running, Resume, CallSoon, hostVars, loopVars, lockVars, Statuses, Traps
<1>t5. LockTypeOK'
  BY <1>0, CoroFacts DEF LockTypeOK, CancelTask, Running, Resume, CallSoon, hostVars, loopVars, lockVars
<1>r. Roles'
  BY <1>0, CoroFacts DEF Roles, HostTypeOK, LoopTypeOK, CoroTypeOK, CancelTask, Running, Resume, CallSoon, hostVars, loopVars, lockVars
<1>j. Joins'
  BY <1>0, CoroFacts DEF Joins, Alive, Roles, CoroTypeOK, LoopTypeOK, CancelTask, Running, Resume, CallSoon, hostVars, loopVars, lockVars
<1>q. Queues'
  BY <1>0, CoroFacts DEF Queues, Roles, LockTypeOK, CoroTypeOK, LoopTypeOK, CancelTask, Running, Resume, CallSoon, hostVars, loopVars, lockVars
<1>s. ScheduledOnce'
  <2>1. /\ st[d] # "ready" /\ st'[d] = "ready" /\ owner'[d] = owner[c] /\ batch' = batch
        /\ \A x \in Coros \ {d} : (st'[x] = "ready" <=> st[x] = "ready") /\ owner'[x] = owner[x]
        /\ handles' = [handles EXCEPT ![owner[c]] = Append(@, d)]
    BY <1>0, <1>1 DEF CoroTypeOK, CancelTask, Running, Resume, CallSoon, hostVars, loopVars, lockVars
  <2>2. \A u \in Exports : phase[u] = "running" => phase'[u] = "running"
    BY DEF HostTypeOK, CancelTask, Running, Resume, CallSoon, hostVars, loopVars, lockVars
  <2> QED BY <1>0, <2>1, <2>2, ScheduleOne
<1>w. WaitablesRouted'
  BY <1>0, CoroFacts DEF WaitablesRouted, Roles, HostTypeOK, StateTypeOK, CoroTypeOK, LoopTypeOK, CancelTask, Running, Resume, CallSoon, hostVars, loopVars, lockVars
<1>p. PendingCovers'
  <2>1. pending' = pending
    BY DEF CancelTask, Running, Resume, CallSoon, hostVars, loopVars, lockVars
  <2>2. ASSUME NEW x \in Exports PROVE Live(x)' \subseteq Live(x)
    BY <1>0 DEF Live, Counted, Alive, CoroTypeOK, CancelTask, Running, Resume, CallSoon, hostVars, loopVars, lockVars
  <2> QED BY <2>1, <2>2, CountKept
<1> QED
  BY <1>t1, <1>t2, <1>t3, <1>t4, <1>t5, <1>r, <1>j, <1>q, <1>s, <1>w, <1>p

LEMMA AnswerInv ==
  ASSUME IInv, NEW t \in Exports, NEW w \in Waitables, Answer(t, w)
  PROVE  IInv'
<1> USE DEF IInv, TypeOK
<1> DEFINE c == futures[t][w]
<1>1. /\ joined[w] = t /\ joined' = [joined EXCEPT ![w] = NoExport]
      /\ call' = [call EXCEPT ![w] = "free"]
      /\ futures' = [futures EXCEPT ![t][w] = NoCoro]
      /\ phase' = [phase EXCEPT ![t] = "running"] /\ slot' = [slot EXCEPT ![t] = FALSE]
      /\ \A u \in Exports : phase[u] # "running"
      /\ UNCHANGED <<returned, wset, pending, exception, batch, active,
                     kind, owner, joiner, thrown, fuel, holder, queue>>
  BY DEF Answer, Enter, GuestIdle, SetResult, PopFuture, loopVars, lockVars
<1>2. c \in Coros /\ c # NoCoro /\ owner[c] = t
  BY <1>1, CoroFacts DEF WaitablesRouted, StateTypeOK
<1>3. \/ /\ awaits[c] = w /\ trap' = trap
         /\ st' = [st EXCEPT ![c] = "ready"] /\ awaits' = [awaits EXCEPT ![c] = NoWaitable]
         /\ handles' = [handles EXCEPT ![t] = Append(@, c)]
      \/ /\ awaits[c] # w /\ trap' = "set_result"
         /\ UNCHANGED <<handles, st, awaits>>
  BY <1>2 DEF Answer, SetResult, PopFuture, Resume, CallSoon
<1> HIDE DEF c
<1>4. awaits[c] = w => st[c] = "importing"
  BY <1>2, CoroFacts DEF WaitablesRouted, CoroTypeOK
<1>t1. HostTypeOK'
  BY <1>1, <1>3 DEF HostTypeOK, Traps
<1>t2. StateTypeOK'
  <2>1. wset' \in [Exports -> BOOLEAN] /\ pending' \in [Exports -> Nat]
    BY <1>1 DEF StateTypeOK
  <2>2. futures' \in [Exports -> [Waitables -> Coros \cup {NoCoro}]]
    BY <1>1 DEF StateTypeOK
  <2>3. handles' \in [Exports -> Seq(Coros)]
    <3>1. handles \in [Exports -> Seq(Coros)] /\ Append(handles[t], c) \in Seq(Coros)
      BY <1>2 DEF StateTypeOK
    <3> QED BY <1>3, <3>1
  <2> QED BY <2>1, <2>2, <2>3 DEF StateTypeOK
<1>t3. LoopTypeOK'
  BY <1>1 DEF LoopTypeOK
<1>t4. CoroTypeOK'
  BY <1>1, <1>2, <1>3 DEF CoroTypeOK, Statuses
<1>t5. LockTypeOK'
  BY <1>1 DEF LockTypeOK
<1>r. Roles'
  <2>1. active = NoCoro
    BY <1>1, CoroFacts DEF Roles, CoroTypeOK, LoopTypeOK
  <2>2. \A x \in Coros : st[x] # "running" /\ st'[x] # "running"
    BY <2>1, <1>2, <1>3, CoroFacts DEF Roles, CoroTypeOK
  <2>3. \A x \in Coros : st'[x] = "unborn" <=> st[x] = "unborn"
    BY <1>2, <1>3, <1>4 DEF CoroTypeOK
  <2> QED BY <1>1, <2>1, <2>2, <2>3, CoroFacts DEF Roles, HostTypeOK, CoroTypeOK
<1>j. Joins'
  <2>1. \A x \in Coros : /\ Alive(x)' <=> Alive(x)
                         /\ st'[x] = "unborn" <=> st[x] = "unborn"
                         /\ st[x] = "joining" => st'[x] = "joining"
    <3>1. CASE awaits[c] = w
      BY <1>2, <1>3, <1>4, <3>1 DEF CoroTypeOK, Alive
    <3>2. CASE awaits[c] # w
      BY <1>3, <3>2 DEF Alive
    <3> QED BY <3>1, <3>2
  <2>2. joiner' = joiner /\ \A x \in Coros : joiner[x] # NoCoro => joiner[x] \in Coros
    BY <1>1 DEF CoroTypeOK
  <2> QED BY <2>1, <2>2 DEF Joins
<1>q. Queues'
  <2>1. \A x \in Coros : st[x] = "locking" => st'[x] = "locking"
    BY <1>2, <1>3, <1>4 DEF CoroTypeOK
  <2> QED BY <2>1, <1>1 DEF Queues
<1>s. ScheduledOnce'
  <2>1. \A u \in Exports : phase[u] = "running" => phase'[u] = "running"
    BY <1>1
  <2>2. CASE awaits[c] # w
    <3>1. batch' = batch /\ handles' = handles /\ st' = st /\ owner' = owner
      BY <1>1, <1>3, <2>2
    <3> QED BY <2>1, <3>1, ScheduleNone
  <2>3. CASE awaits[c] = w
    <3>1. /\ st[c] # "ready" /\ st'[c] = "ready" /\ owner'[c] = t /\ batch' = batch
          /\ \A x \in Coros \ {c} : (st'[x] = "ready" <=> st[x] = "ready") /\ owner'[x] = owner[x]
          /\ handles' = [handles EXCEPT ![t] = Append(@, c)]
      BY <1>1, <1>2, <1>3, <1>4, <2>3 DEF CoroTypeOK
    <3> QED BY <1>2, <2>1, <3>1, ScheduleOne
  <2> QED BY <2>2, <2>3
<1>w. WaitablesRouted'
  <2>1. /\ joined \in [Waitables -> Exports \cup {NoExport}] /\ joined'[w] = NoExport
        /\ \A x \in Waitables \ {w} : joined'[x] = joined[x] /\ call'[x] = call[x]
        /\ call'[w] = "free"
    BY <1>1 DEF HostTypeOK
  <2>2. /\ futures'[t][w] = NoCoro
        /\ \A u \in Exports, x \in Waitables : u # t \/ x # w => futures'[u][x] = futures[u][x]
    BY <1>1 DEF StateTypeOK
  <2>3. \A u \in Exports : futures'[u][w] = NoCoro
    BY <1>1, <2>2, CoroFacts DEF WaitablesRouted
  <2>4. /\ \A x \in Coros : awaits'[x] # NoWaitable => awaits'[x] = awaits[x] /\ awaits[x] # w
        /\ \A x \in Coros : awaits'[x] # NoWaitable <=> st'[x] = "importing"
    <3>1. \A x \in Coros : awaits[x] = w => x = c
      <4> SUFFICES ASSUME NEW x \in Coros, awaits[x] = w PROVE x = c
        OBVIOUS
      <4>1. futures[owner[x]][w] = x /\ st[x] = "importing" /\ owner[x] \in Exports
        BY CoroFacts DEF WaitablesRouted, Roles, CoroTypeOK
      <4>2. owner[x] = t
        BY <4>1, <1>1, CoroFacts DEF WaitablesRouted
      <4> QED BY <4>1, <4>2 DEF c
    <3> QED BY <3>1, <1>2, <1>3, <1>4, CoroFacts DEF CoroTypeOK, WaitablesRouted
  <2>5. \A x \in Coros : awaits'[x] # NoWaitable => futures'[owner'[x]][awaits'[x]] = x
    <3> SUFFICES ASSUME NEW x \in Coros, awaits'[x] # NoWaitable
                 PROVE  futures'[owner'[x]][awaits'[x]] = x
      OBVIOUS
    <3>1. awaits'[x] = awaits[x] /\ awaits[x] # w /\ awaits[x] \in Waitables
      BY <2>4 DEF CoroTypeOK
    <3>2. owner'[x] = owner[x] /\ owner[x] \in Exports
      BY <1>1, <3>1, CoroFacts DEF WaitablesRouted, Roles, CoroTypeOK
    <3>3. futures[owner[x]][awaits[x]] = x
      BY <2>4, <3>1 DEF WaitablesRouted
    <3> QED BY <2>2, <3>1, <3>2, <3>3
  <2>6. wset' = wset /\ owner' = owner
    BY <1>1
  <2> QED BY <2>1, <2>2, <2>3, <2>4, <2>5, <2>6, CoroFacts DEF WaitablesRouted
<1>p. PendingCovers'
  <2>1. \A x \in Coros : (Alive(x)' => Alive(x)) /\ (Counted(x)' <=> Counted(x))
    BY <1>1, <1>2, <1>3, <1>4 DEF CoroTypeOK, Alive, Counted
  <2>2. \A x \in Exports : Live(x)' \subseteq Live(x)
    BY <1>1, <2>1 DEF Live
  <2> QED BY <1>1, <2>2, CountKept
<1> QED
  BY <1>t1, <1>t2, <1>t3, <1>t4, <1>t5, <1>r, <1>j, <1>q, <1>s, <1>w, <1>p

\* Every way a coroutine can end leaves scheduling, waiting and routing in
\* order, and takes exactly that coroutine out of the live work.
LEMMA EndTaskKeeps ==
  ASSUME IInv, NEW c \in Coros, EndTask(c)
  PROVE  /\ handles' \in [Exports -> Seq(Coros)]
         /\ st' \in [Coros -> Statuses]
         /\ Roles' /\ Joins' /\ Queues' /\ ScheduledOnce' /\ WaitablesRouted'
         /\ \A t \in Exports : Live(t)' = Live(t) \ {c}
<1> USE DEF IInv, TypeOK
<1>0. /\ active = c /\ st[c] = "running" /\ c # NoCoro
      /\ owner[c] \in Exports /\ phase[owner[c]] = "running"
  BY Stepped DEF EndTask
<1> PICK j \in Coros \cup {NoCoro} : j = joiner[c]
  BY DEF CoroTypeOK
<1>1. /\ active' = NoCoro
      /\ UNCHANGED <<phase, joined, call, wset, futures, batch, kind, owner, awaits, joiner, queue>>
      /\ \/ j = NoCoro /\ st' = [st EXCEPT ![c] = "done"] /\ handles' = handles
         \/ /\ j # NoCoro /\ st' = [[st EXCEPT ![c] = "done"] EXCEPT ![j] = "ready"]
            /\ handles' = [handles EXCEPT ![owner[j]] = Append(@, j)]
  BY DEF EndTask, Resume, CallSoon, lockVars
<1>2. j # NoCoro => j \in Coros /\ st[j] = "joining" /\ j # c /\ owner[j] \in Exports
  BY <1>0, CoroFacts DEF Joins, Alive, Roles, CoroTypeOK
<1>3. /\ st'[c] = "done" /\ (j # NoCoro => st'[j] = "ready")
      /\ \A x \in Coros : x # c /\ x # j => st'[x] = st[x]
      /\ st' \in [Coros -> Statuses]
  BY <1>1, <1>2 DEF CoroTypeOK, Statuses
<1>4. handles' \in [Exports -> Seq(Coros)]
  <2>1. CASE j = NoCoro
    BY <1>1, <2>1 DEF StateTypeOK
  <2>2. CASE j # NoCoro
    <3>1. handles \in [Exports -> Seq(Coros)] /\ Append(handles[owner[j]], j) \in Seq(Coros)
      BY <1>2, <2>2 DEF StateTypeOK
    <3> QED BY <1>1, <2>2, <3>1
  <2> QED BY <2>1, <2>2
<1>5. \A x \in Coros : /\ Alive(x)' <=> Alive(x) /\ x # c
                       /\ st'[x] = "unborn" <=> st[x] = "unborn"
                       /\ st[x] = "joining" /\ x # j => st'[x] = "joining"
                       /\ st[x] = "locking" => st'[x] = "locking"
                       /\ st'[x] = "importing" <=> st[x] = "importing"
                       /\ st'[x] # "running"
  BY <1>0, <1>2, <1>3, CoroFacts DEF Alive, Roles
<1>6. Roles'
  BY <1>1, <1>5, CoroFacts DEF Roles
<1>7. Joins'
  <2>1. joiner' = joiner /\ joiner \in [Coros -> Coros \cup {NoCoro}]
    BY <1>1 DEF CoroTypeOK
  <2>2. \A d \in Coros : st'[d] = "unborn" => joiner'[d] = NoCoro
    BY <1>5, <2>1 DEF Joins
  <2>3. ASSUME NEW d \in Coros, joiner[d] # NoCoro, Alive(d)' PROVE st'[joiner[d]] = "joining"
    <3>1. Alive(d) /\ d # c /\ st[joiner[d]] = "joining" /\ joiner[d] \in Coros
      BY <1>5, <2>1, <2>3 DEF Joins
    <3>2. joiner[d] # j
      BY <3>1, <2>3, <1>0 DEF Joins, Alive
    <3> QED BY <3>1, <3>2, <1>5
  <2>4. \A d, e \in Coros :
          joiner[d] = joiner[e] /\ joiner[d] # NoCoro /\ Alive(d)' /\ Alive(e)' => d = e
    BY <1>5 DEF Joins
  <2> QED BY <2>1, <2>2, <2>3, <2>4 DEF Joins
<1>8. Queues'
  BY <1>1, <1>5 DEF Queues
<1>9. ScheduledOnce'
  <2>1. \A u \in Exports : phase[u] = "running" => phase'[u] = "running"
    BY <1>1
  <2>2. CASE j = NoCoro
    <3>1. \A x \in Coros : (st'[x] = "ready" <=> st[x] = "ready") /\ owner'[x] = owner[x]
      BY <1>0, <1>1, <1>3, <2>2, CoroFacts
    <3> QED BY <1>1, <2>1, <2>2, <3>1, ScheduleNone
  <2>3. CASE j # NoCoro
    <3>1. /\ st[j] # "ready" /\ st'[j] = "ready" /\ owner'[j] = owner[j] /\ batch' = batch
          /\ \A x \in Coros \ {j} : (st'[x] = "ready" <=> st[x] = "ready") /\ owner'[x] = owner[x]
          /\ handles' = [handles EXCEPT ![owner[j]] = Append(@, j)]
      BY <1>0, <1>1, <1>2, <1>3, <2>3
    <3> QED BY <1>2, <2>1, <2>3, <3>1, ScheduleOne
  <2> QED BY <2>2, <2>3
<1>10. WaitablesRouted'
  BY <1>1, <1>5 DEF WaitablesRouted
<1>11. \A t \in Exports : Live(t)' = Live(t) \ {c}
  BY <1>1, <1>5 DEF Live, Counted
<1> QED
  BY <1>3, <1>4, <1>6, <1>7, <1>8, <1>9, <1>10, <1>11

\* Discounting one coroutine that was alive and counted.
LEMMA CountDropped ==
  ASSUME TypeOK, PendingCovers, NEW c \in Coros, NEW t \in Exports, c \in Live(t),
         \A x \in Exports : Live(x)' = Live(x) \ {c},
         pending' = [pending EXCEPT ![t] = @ - 1]
  PROVE  PendingCovers' /\ pending' \in [Exports -> Nat]
<1>1. pending \in [Exports -> Nat] /\ \A x \in Exports : pending[x] >= Cardinality(Live(x))
  BY DEF TypeOK, StateTypeOK, PendingCovers
<1>2. Cardinality(Live(t)') = Cardinality(Live(t)) - 1
  BY LiveFinite, FS_RemoveElement
<1>3. pending'[t] \in Nat /\ pending'[t] >= Cardinality(Live(t)')
  BY <1>1, <1>2, LiveFinite, LiveFinitePrimed
<1>4. \A x \in Exports \ {t} : pending'[x] = pending[x] /\ pending'[x] >= Cardinality(Live(x)')
  <2> TAKE x \in Exports \ {t}
  <2>1. Cardinality(Live(x)') <= Cardinality(Live(x))
    BY LiveFinite, FS_Subset
  <2> QED BY <1>1, <2>1, LiveFinite, LiveFinitePrimed
<1> QED BY <1>1, <1>3, <1>4 DEF PendingCovers

LEMMA ReturnResultInv ==
  ASSUME IInv, NEW c \in Coros, ReturnResult(c)
  PROVE  IInv'
<1> USE DEF IInv, TypeOK
<1>0. /\ EndTask(c) /\ c \in Coros /\ st[c] = "running" /\ owner[c] \in Exports
  BY Stepped DEF ReturnResult, EndTask
<1>1. /\ handles' \in [Exports -> Seq(Coros)] /\ st' \in [Coros -> Statuses]
      /\ Roles' /\ Joins' /\ Queues' /\ ScheduledOnce' /\ WaitablesRouted'
      /\ \A x \in Exports : Live(x)' = Live(x) \ {c}
  BY <1>0, EndTaskKeeps
<1>2. PendingCovers' /\ pending' \in [Exports -> Nat]
  <2> PICK t \in Exports : t = owner[c]
    BY <1>0
  <2>1. c \in Live(t) /\ pending' = [pending EXCEPT ![t] = @ - 1]
    BY <1>0 DEF ReturnResult, Uncount, Counted, Live, Alive
  <2> QED BY <1>1, <2>1, CountDropped
<1>3. HostTypeOK'
  BY <1>0 DEF HostTypeOK, ReturnResult, EndTask
<1>4. StateTypeOK'
  BY <1>0, <1>1, <1>2 DEF StateTypeOK, EndTask
<1>5. LoopTypeOK'
  BY <1>0 DEF LoopTypeOK, ReturnResult, EndTask
<1>6. CoroTypeOK'
  BY <1>0, <1>1 DEF CoroTypeOK, ReturnResult, EndTask
<1>7. LockTypeOK'
  BY <1>0 DEF LockTypeOK, EndTask, lockVars
<1> QED
  BY <1>1, <1>2, <1>3, <1>4, <1>5, <1>6, <1>7

LEMMA FinishSpawnedInv ==
  ASSUME IInv, NEW c \in Coros, FinishSpawned(c)
  PROVE  IInv'
<1> USE DEF IInv, TypeOK
<1>0. /\ EndTask(c) /\ c \in Coros /\ st[c] = "running" /\ owner[c] \in Exports
  BY Stepped DEF FinishSpawned, EndTask
<1>1. /\ handles' \in [Exports -> Seq(Coros)] /\ st' \in [Coros -> Statuses]
      /\ Roles' /\ Joins' /\ Queues' /\ ScheduledOnce' /\ WaitablesRouted'
      /\ \A x \in Exports : Live(x)' = Live(x) \ {c}
  BY <1>0, EndTaskKeeps
<1>2. PendingCovers' /\ pending' \in [Exports -> Nat]
  <2> PICK t \in Exports : t = owner[c]
    BY <1>0
  <2>1. c \in Live(t) /\ pending' = [pending EXCEPT ![t] = @ - 1]
    BY <1>0 DEF FinishSpawned, Uncount, Counted, Live, Alive
  <2> QED BY <1>1, <2>1, CountDropped
<1>3. HostTypeOK'
  BY <1>0 DEF HostTypeOK, FinishSpawned, EndTask
<1>4. StateTypeOK'
  BY <1>0, <1>1, <1>2 DEF StateTypeOK, EndTask
<1>5. LoopTypeOK'
  BY <1>0 DEF LoopTypeOK, FinishSpawned, EndTask
<1>6. CoroTypeOK'
  BY <1>0, <1>1 DEF CoroTypeOK, FinishSpawned, EndTask
<1>7. LockTypeOK'
  BY <1>0 DEF LockTypeOK, EndTask, lockVars
<1> QED
  BY <1>1, <1>2, <1>3, <1>4, <1>5, <1>6, <1>7

LEMMA FinishPlainInv ==
  ASSUME IInv, NEW c \in Coros, FinishPlain(c)
  PROVE  IInv'
<1> USE DEF IInv, TypeOK
<1>0. /\ EndTask(c) /\ c \in Coros /\ st[c] = "running" /\ owner[c] \in Exports
  BY Stepped DEF FinishPlain, EndTask
<1>1. /\ handles' \in [Exports -> Seq(Coros)] /\ st' \in [Coros -> Statuses]
      /\ Roles' /\ Joins' /\ Queues' /\ ScheduledOnce' /\ WaitablesRouted'
      /\ \A x \in Exports : Live(x)' = Live(x) \ {c}
  BY <1>0, EndTaskKeeps
<1>2. PendingCovers' /\ pending' \in [Exports -> Nat]
  <2>1. pending' = pending /\ \A x \in Exports : Live(x)' \subseteq Live(x)
    BY <1>1 DEF FinishPlain
  <2> QED BY <2>1, CountKept DEF StateTypeOK
<1>3. HostTypeOK'
  BY <1>0 DEF HostTypeOK, FinishPlain, EndTask
<1>4. StateTypeOK'
  BY <1>0, <1>1, <1>2 DEF StateTypeOK, EndTask
<1>5. LoopTypeOK'
  BY <1>0 DEF LoopTypeOK, FinishPlain, EndTask
<1>6. CoroTypeOK'
  BY <1>0, <1>1 DEF CoroTypeOK, FinishPlain, EndTask
<1>7. LockTypeOK'
  BY <1>0 DEF LockTypeOK, EndTask, lockVars
<1> QED
  BY <1>1, <1>2, <1>3, <1>4, <1>5, <1>6, <1>7

LEMMA RaiseExceptionInv ==
  ASSUME IInv, NEW c \in Coros, RaiseException(c)
  PROVE  IInv'
<1> USE DEF IInv, TypeOK
<1>0. /\ EndTask(c) /\ c \in Coros /\ st[c] = "running" /\ owner[c] \in Exports
  BY Stepped DEF RaiseException, EndTask
<1>1. /\ handles' \in [Exports -> Seq(Coros)] /\ st' \in [Coros -> Statuses]
      /\ Roles' /\ Joins' /\ Queues' /\ ScheduledOnce' /\ WaitablesRouted'
      /\ \A x \in Exports : Live(x)' = Live(x) \ {c}
  BY <1>0, EndTaskKeeps
<1>2. PendingCovers' /\ pending' \in [Exports -> Nat]
  <2> PICK t \in Exports : t = owner[c]
    BY <1>0
  <2>1. c \in Live(t) /\ pending' = [pending EXCEPT ![t] = @ - 1]
    BY <1>0 DEF RaiseException, Uncount, Counted, Live, Alive
  <2> QED BY <1>1, <2>1, CountDropped
<1>3. HostTypeOK'
  BY <1>0 DEF HostTypeOK, RaiseException, EndTask
<1>4. StateTypeOK'
  BY <1>0, <1>1, <1>2 DEF StateTypeOK, EndTask
<1>5. LoopTypeOK'
  BY <1>0 DEF LoopTypeOK, RaiseException, EndTask
<1>6. CoroTypeOK'
  BY <1>0, <1>1 DEF CoroTypeOK, RaiseException, EndTask
<1>7. LockTypeOK'
  BY <1>0 DEF LockTypeOK, EndTask, lockVars
<1> QED
  BY <1>1, <1>2, <1>3, <1>4, <1>5, <1>6, <1>7

LEMMA PlainRaisesInv ==
  ASSUME IInv, NEW c \in Coros, PlainRaises(c)
  PROVE  IInv'
<1> USE DEF IInv, TypeOK
<1>0. /\ EndTask(c) /\ c \in Coros /\ st[c] = "running" /\ owner[c] \in Exports
  BY Stepped DEF PlainRaises, EndTask
<1>1. /\ handles' \in [Exports -> Seq(Coros)] /\ st' \in [Coros -> Statuses]
      /\ Roles' /\ Joins' /\ Queues' /\ ScheduledOnce' /\ WaitablesRouted'
      /\ \A x \in Exports : Live(x)' = Live(x) \ {c}
  BY <1>0, EndTaskKeeps
<1>2. PendingCovers' /\ pending' \in [Exports -> Nat]
  <2>1. pending' = pending /\ \A x \in Exports : Live(x)' \subseteq Live(x)
    BY <1>1 DEF PlainRaises
  <2> QED BY <2>1, CountKept DEF StateTypeOK
<1>3. HostTypeOK'
  BY <1>0 DEF HostTypeOK, PlainRaises, EndTask
<1>4. StateTypeOK'
  BY <1>0, <1>1, <1>2 DEF StateTypeOK, EndTask
<1>5. LoopTypeOK'
  BY <1>0 DEF LoopTypeOK, PlainRaises, EndTask
<1>6. CoroTypeOK'
  BY <1>0, <1>1 DEF CoroTypeOK, PlainRaises, EndTask
<1>7. LockTypeOK'
  BY <1>0 DEF LockTypeOK, EndTask, lockVars
<1> QED
  BY <1>1, <1>2, <1>3, <1>4, <1>5, <1>6, <1>7

LEMMA EndCancelledInv ==
  ASSUME IInv, NEW c \in Coros, EndCancelled(c)
  PROVE  IInv'
<1> USE DEF IInv, TypeOK
<1>0. /\ EndTask(c) /\ c \in Coros /\ st[c] = "running" /\ owner[c] \in Exports
  BY Stepped DEF EndCancelled, EndTask
<1>1. /\ handles' \in [Exports -> Seq(Coros)] /\ st' \in [Coros -> Statuses]
      /\ Roles' /\ Joins' /\ Queues' /\ ScheduledOnce' /\ WaitablesRouted'
      /\ \A x \in Exports : Live(x)' = Live(x) \ {c}
  BY <1>0, EndTaskKeeps
<1>2. PendingCovers' /\ pending' \in [Exports -> Nat]
  <2>1. pending' = pending /\ \A x \in Exports : Live(x)' \subseteq Live(x)
    BY <1>1 DEF EndCancelled
  <2> QED BY <2>1, CountKept DEF StateTypeOK
<1>3. HostTypeOK'
  BY <1>0 DEF HostTypeOK, EndCancelled, EndTask
<1>4. StateTypeOK'
  BY <1>0, <1>1, <1>2 DEF StateTypeOK, EndTask
<1>5. LoopTypeOK'
  BY <1>0 DEF LoopTypeOK, EndCancelled, EndTask
<1>6. CoroTypeOK'
  BY <1>0, <1>1 DEF CoroTypeOK, EndCancelled, EndTask
<1>7. LockTypeOK'
  BY <1>0 DEF LockTypeOK, EndTask, lockVars
<1> QED
  BY <1>1, <1>2, <1>3, <1>4, <1>5, <1>6, <1>7

LEMMA AcquireInv ==
  ASSUME IInv, NEW c \in Coros, Acquire(c)
  PROVE  IInv'
<1> USE DEF IInv, TypeOK
<1>0. /\ active = c /\ st[c] = "running" /\ c # NoCoro
      /\ owner[c] \in Exports /\ phase[owner[c]] = "running"
  BY Stepped DEF Acquire
<1> PICK l \in Locks : l = LockOf[owner[c]]
  BY <1>0, CoroFacts
<1>1. /\ fuel' \in [Coros -> 0 .. MaxOps]
      /\ UNCHANGED <<hostVars, stateVars, exception, batch, kind, owner, awaits, joiner, thrown>>
  BY CoroFacts DEF Acquire, Burn, HasFuel, CoroTypeOK
<1>2. \/ holder' = [holder EXCEPT ![l] = c] /\ UNCHANGED <<queue, st, active>>
      \/ /\ queue' = [queue EXCEPT ![l] = Append(@, c)] /\ holder' = holder
         /\ st' = [st EXCEPT ![c] = "locking"] /\ active' = NoCoro
  BY DEF Acquire, Suspend
<1>3. /\ \A x \in Coros \ {c} : st'[x] = st[x]
      /\ st'[c] \in {"running", "locking"} /\ st' \in [Coros -> Statuses]
  BY <1>0, <1>2 DEF CoroTypeOK, Statuses
<1>4. \A x \in Coros : /\ Alive(x)' <=> Alive(x)
                       /\ st'[x] = "unborn" <=> st[x] = "unborn"
                       /\ st'[x] = "ready" <=> st[x] = "ready"
                       /\ st'[x] = "joining" <=> st[x] = "joining"
                       /\ st'[x] = "importing" <=> st[x] = "importing"
                       /\ st[x] = "locking" => st'[x] = "locking"
  BY <1>0, <1>3 DEF Alive
<1>t1. HostTypeOK'
  BY <1>1 DEF HostTypeOK, hostVars
<1>t2. StateTypeOK'
  BY <1>1 DEF StateTypeOK, stateVars
<1>t3. LoopTypeOK'
  BY <1>1, <1>2 DEF LoopTypeOK
<1>t4. CoroTypeOK'
  BY <1>1, <1>3 DEF CoroTypeOK
<1>t5. LockTypeOK'
  <2>1. holder' \in [Locks -> Coros \cup {NoCoro}]
    BY <1>2 DEF LockTypeOK
  <2>2. queue' \in [Locks -> Seq(Coros)]
    <3>1. queue \in [Locks -> Seq(Coros)] /\ Append(queue[l], c) \in Seq(Coros)
      BY DEF LockTypeOK
    <3> QED BY <1>2, <3>1
  <2> QED BY <2>1, <2>2 DEF LockTypeOK
<1>r. Roles'
  <2>1. \A x \in Coros : st'[x] = "running" <=> active' = x
    BY <1>0, <1>2, <1>3, CoroFacts DEF Roles, CoroTypeOK
  <2>2. phase' = phase /\ owner' = owner /\ active' \in {active, NoCoro}
    BY <1>1, <1>2 DEF hostVars
  <2> QED BY <1>4, <2>1, <2>2 DEF Roles
<1>j. Joins'
  <2>1. joiner' = joiner /\ joiner \in [Coros -> Coros \cup {NoCoro}]
    BY <1>1 DEF CoroTypeOK
  <2> QED BY <1>4, <2>1 DEF Joins
<1>q. Queues'
  <2>1. CASE queue' = queue
    BY <1>1, <1>4, <2>1 DEF Queues
  <2>2. CASE queue' # queue
    <3>1. queue' = [queue EXCEPT ![l] = Append(@, c)] /\ st'[c] = "locking" /\ owner' = owner
      BY <1>1, <1>2, <2>2 DEF CoroTypeOK
    <3>2. queue \in [Locks -> Seq(Coros)] /\ Distinct(queue[l]) /\ ~In(c, queue[l])
      BY <1>0 DEF LockTypeOK, Queues
    <3>3. /\ \A x : In(x, Append(queue[l], c)) <=> In(x, queue[l]) \/ x = c
          /\ Distinct(Append(queue[l], c))
      BY <3>2, AppendIn
    <3>4. queue'[l] = Append(queue[l], c) /\ \A m \in Locks \ {l} : queue'[m] = queue[m]
      BY <3>1, <3>2
    <3> QED BY <1>4, <3>1, <3>3, <3>4 DEF Queues
  <2> QED BY <2>1, <2>2
<1>s. ScheduledOnce'
  <2>1. batch' = batch /\ handles' = handles /\ owner' = owner /\ phase' = phase
    BY <1>1 DEF hostVars, stateVars
  <2> QED BY <1>4, <2>1, ScheduleNone
<1>w. WaitablesRouted'
  <2>1. UNCHANGED <<joined, call, futures, wset, owner, awaits>>
    BY <1>1 DEF hostVars, stateVars
  <2> QED BY <1>4, <2>1 DEF WaitablesRouted
<1>p. PendingCovers'
  <2>1. pending' = pending /\ kind' = kind /\ owner' = owner
    BY <1>1 DEF stateVars
  <2>2. \A x \in Exports : Live(x)' \subseteq Live(x)
    BY <1>4, <2>1 DEF Live, Counted
  <2> QED BY <2>1, <2>2, CountKept
<1> QED
  BY <1>t1, <1>t2, <1>t3, <1>t4, <1>t5, <1>r, <1>j, <1>q, <1>s, <1>w, <1>p

LEMMA ReleaseInv ==
  ASSUME IInv, NEW c \in Coros, Release(c)
  PROVE  IInv'
<1> USE DEF IInv, TypeOK
<1>0. /\ active = c /\ st[c] = "running" /\ c # NoCoro
      /\ owner[c] \in Exports /\ phase[owner[c]] = "running"
  BY Stepped DEF Release
<1> PICK l \in Locks : l = LockOf[owner[c]]
  BY <1>0, CoroFacts
<1> DEFINE j == Head(queue[l])
<1>1. UNCHANGED <<hostVars, wset, futures, pending, loopVars, kind, owner, awaits, joiner, thrown, fuel>>
  BY DEF Release
<1>2. \/ holder' = [holder EXCEPT ![l] = NoCoro] /\ UNCHANGED <<queue, st, handles>>
      \/ /\ queue[l] # <<>>
         /\ holder' = [holder EXCEPT ![l] = j] /\ queue' = [queue EXCEPT ![l] = Tail(@)]
         /\ st' = [st EXCEPT ![j] = "ready"]
         /\ handles' = [handles EXCEPT ![owner[j]] = Append(@, j)]
  BY DEF Release, Resume, CallSoon
<1>3. queue[l] # <<>> =>
        /\ j \in Coros /\ In(j, queue[l]) /\ Tail(queue[l]) \in Seq(Coros)
        /\ Distinct(Tail(queue[l]))
        /\ \A x : In(x, Tail(queue[l])) <=> In(x, queue[l]) /\ x # j
        /\ st[j] = "locking" /\ LockOf[owner[j]] = l
  BY TailIn DEF Queues, LockTypeOK
<1> HIDE DEF j
<1>4. queue[l] # <<>> => owner[j] \in Exports
  BY <1>3, CoroFacts DEF Roles, CoroTypeOK
<1>5. /\ st' \in [Coros -> Statuses]
      /\ \A x \in Coros : /\ Alive(x)' <=> Alive(x)
                          /\ st'[x] = "unborn" <=> st[x] = "unborn"
                          /\ st'[x] = "running" <=> st[x] = "running"
                          /\ st'[x] = "joining" <=> st[x] = "joining"
                          /\ st'[x] = "importing" <=> st[x] = "importing"
  BY <1>2, <1>3 DEF CoroTypeOK, Statuses, Alive
<1>t1. HostTypeOK'
  BY <1>1 DEF HostTypeOK, hostVars
<1>t2. StateTypeOK'
  <2>1. handles' \in [Exports -> Seq(Coros)]
    <3>1. handles \in [Exports -> Seq(Coros)]
      BY DEF StateTypeOK
    <3>2. queue[l] # <<>> => Append(handles[owner[j]], j) \in Seq(Coros)
      BY <1>3, <1>4, <3>1
    <3> QED BY <1>2, <1>4, <3>1, <3>2
  <2> QED BY <1>1, <2>1 DEF StateTypeOK
<1>t3. LoopTypeOK'
  BY <1>1 DEF LoopTypeOK, loopVars
<1>t4. CoroTypeOK'
  BY <1>1, <1>5 DEF CoroTypeOK
<1>t5. LockTypeOK'
  <2>1. holder' \in [Locks -> Coros \cup {NoCoro}]
    BY <1>2, <1>3 DEF LockTypeOK
  <2>2. queue' \in [Locks -> Seq(Coros)]
    BY <1>2, <1>3 DEF LockTypeOK
  <2> QED BY <2>1, <2>2 DEF LockTypeOK
<1>r. Roles'
  BY <1>1, <1>5 DEF Roles, hostVars, loopVars
<1>j. Joins'
  <2>1. joiner' = joiner /\ joiner \in [Coros -> Coros \cup {NoCoro}]
    BY <1>1 DEF CoroTypeOK
  <2> QED BY <1>5, <2>1 DEF Joins
<1>q. Queues'
  <2>1. CASE queue' = queue /\ st' = st
    BY <1>1, <2>1 DEF Queues
  <2>2. CASE ~(queue' = queue /\ st' = st)
    <3>1. /\ queue[l] # <<>> /\ queue' = [queue EXCEPT ![l] = Tail(@)]
          /\ st' = [st EXCEPT ![j] = "ready"] /\ owner' = owner
      BY <1>1, <1>2, <2>2
    <3>2. queue'[l] = Tail(queue[l]) /\ \A m \in Locks \ {l} : queue'[m] = queue[m]
      BY <3>1 DEF LockTypeOK
    <3>3. \A x \in Coros \ {j} : st'[x] = st[x]
      BY <3>1 DEF CoroTypeOK
    <3>4. \A m \in Locks : Distinct(queue'[m])
      BY <1>3, <3>1, <3>2 DEF Queues
    <3>5. ASSUME NEW m \in Locks, NEW x \in Coros, In(x, queue'[m])
          PROVE  st'[x] = "locking" /\ LockOf[owner'[x]] = m
      <4>1. In(x, queue[m]) /\ x # j
        BY <1>3, <3>1, <3>2, <3>5 DEF Queues
      <4> QED BY <3>1, <3>3, <4>1 DEF Queues
    <3> QED BY <3>4, <3>5 DEF Queues
  <2> QED BY <2>1, <2>2
<1>s. ScheduledOnce'
  <2>1. batch' = batch /\ owner' = owner /\ phase' = phase
    BY <1>1 DEF hostVars, loopVars
  <2>2. CASE handles' = handles /\ st' = st
    BY <2>1, <2>2, ScheduleNone
  <2>3. CASE ~(handles' = handles /\ st' = st)
    <3>1. /\ queue[l] # <<>> /\ st' = [st EXCEPT ![j] = "ready"]
          /\ handles' = [handles EXCEPT ![owner[j]] = Append(@, j)]
      BY <1>2, <2>3
    <3>2. /\ st[j] # "ready" /\ st'[j] = "ready" /\ owner'[j] = owner[j] /\ j \in Coros
          /\ \A x \in Coros \ {j} : (st'[x] = "ready" <=> st[x] = "ready") /\ owner'[x] = owner[x]
      BY <1>3, <2>1, <3>1 DEF CoroTypeOK
    <3> QED BY <1>4, <2>1, <3>1, <3>2, ScheduleOne
  <2> QED BY <2>2, <2>3
<1>w. WaitablesRouted'
  <2>1. UNCHANGED <<joined, call, futures, wset, owner, awaits>>
    BY <1>1 DEF hostVars
  <2> QED BY <1>5, <2>1 DEF WaitablesRouted
<1>p. PendingCovers'
  <2>1. pending' = pending /\ kind' = kind /\ owner' = owner
    BY <1>1
  <2>2. \A x \in Exports : Live(x)' \subseteq Live(x)
    BY <1>5, <2>1 DEF Live, Counted
  <2> QED BY <2>1, <2>2, CountKept
<1> QED
  BY <1>t1, <1>t2, <1>t3, <1>t4, <1>t5, <1>r, <1>j, <1>q, <1>s, <1>w, <1>p

-----------------------------------------------------------------------------
(* The theorems.                                                           *)

LEMMA StutterInv == IInv /\ UNCHANGED vars => IInv'
<1> SUFFICES ASSUME IInv, UNCHANGED vars PROVE IInv'
  OBVIOUS
<1> USE DEF IInv, vars, hostVars, stateVars, loopVars, coroVars, lockVars
<1>1. TypeOK'
  BY DEF TypeOK, HostTypeOK, StateTypeOK, LoopTypeOK, CoroTypeOK, LockTypeOK
<1>2. Roles' /\ Joins' /\ Queues'
  BY DEF Roles, Joins, Queues, Alive
<1>3. ScheduledOnce' /\ WaitablesRouted'
  BY DEF ScheduledOnce, WaitablesRouted
<1>4. PendingCovers'
  BY CountKept DEF Live, Counted, Alive
<1> QED BY <1>1, <1>2, <1>3, <1>4

LEMMA StepInv ==
  ASSUME IInv, NEW c \in Coros, Step(c)
  PROVE  IInv'
<1>1. ASSUME NEW w \in Waitables, NEW s \in {"starting", "started"}, AwaitResult(c, w, s)
      PROVE  IInv'
  BY <1>1, AwaitResultInv
<1>2. ASSUME NEW d \in Coros,
             Spawn(c, d) \/ CreatePlainTask(c, d) \/ Join(c, d) \/ CancelTask(c, d)
      PROVE  IInv'
  BY <1>2, SpawnInv, CreatePlainTaskInv, JoinInv, CancelTaskInv
<1>3. ASSUME YieldNow(c) \/ Acquire(c) \/ Release(c) PROVE IInv'
  BY <1>3, YieldNowInv, AcquireInv, ReleaseInv
<1>4. ASSUME \/ ReturnResult(c) \/ FinishSpawned(c) \/ FinishPlain(c)
             \/ RaiseException(c) \/ PlainRaises(c) \/ EndCancelled(c)
      PROVE  IInv'
  BY <1>4, ReturnResultInv, FinishSpawnedInv, FinishPlainInv, RaiseExceptionInv,
     PlainRaisesInv, EndCancelledInv
<1> QED BY <1>1, <1>2, <1>3, <1>4 DEF Step

LEMMA NextInv == IInv /\ [Next]_vars => IInv'
<1> SUFFICES ASSUME IInv, [Next]_vars PROVE IInv'
  OBVIOUS
<1>1. ASSUME NEW t \in Exports, NEW c \in Coros, FirstPoll(t, c) PROVE IInv'
  BY <1>1, FirstPollInv
<1>2. ASSUME NEW t \in Exports, NEW w \in Waitables, SubtaskStarted(t, w) PROVE IInv'
  BY <1>2, SubtaskStartedInv
<1>3. ASSUME NEW t \in Exports, Deliver(t) PROVE IInv'
  BY <1>3, AnswerInv DEF Deliver, SubtaskReturned, EndReady
<1>4. ASSUME NEW t \in Exports, UnsupportedEvent(t) PROVE IInv'
  BY <1>4, UnsupportedEventInv
<1>5. ASSUME NEW t \in Exports, Poll(t) PROVE IInv'
  BY <1>5, TakeHandlesInv, RunHandleInv, PollRaisesInv, ExitInv, WaitInv DEF Poll
<1>6. ASSUME NEW c \in Coros, Step(c) PROVE IInv'
  BY <1>6, StepInv
<1>7. ASSUME Halt \/ UNCHANGED vars PROVE IInv'
  BY <1>7, StutterInv DEF Halt
<1> QED BY <1>1, <1>2, <1>3, <1>4, <1>5, <1>6, <1>7 DEF Next

THEOREM InductiveInvariant == Spec => []IInv
BY InitInv, NextInv, PTL DEF Spec

\* Every state of the event loop is well typed; in particular pending_count
\* is never negative.
THEOREM TypeCorrect == Spec => []TypeOK
<1>1. IInv => TypeOK BY DEF IInv
<1> QED BY <1>1, InductiveInvariant, PTL

\* No step of a coroutine is lost, duplicated, or run inside another export's
\* poll, whatever the application does (call_soon, poll).
THEOREM SchedulingIsExact == Spec => []ScheduledOnce
<1>1. IInv => ScheduledOnce BY DEF IInv
<1> QED BY <1>1, InductiveInvariant, PTL

\* Every event the host can deliver finds its future, and every awaited import
\* has one (await_result, callback).
THEOREM RoutingIsExact == Spec => []WaitablesRouted
<1>1. IInv => WaitablesRouted BY DEF IInv
<1> QED BY <1>1, InductiveInvariant, PTL

\* The assertions that guard the decrements of pending_count never fail.
THEOREM PendingAssertionHolds == Spec => []AssertPendingCount
<1>1. IInv => AssertPendingCount
  <2> SUFFICES ASSUME IInv, NEW c \in Coros, st[c] = "running", Counted(c)
               PROVE  pending[owner[c]] > 0
    BY DEF AssertPendingCount
  <2>1. pending[owner[c]] \in Nat \ {0}
    BY RunningIsCounted
  <2> QED BY <2>1
<1> QED BY <1>1, InductiveInvariant, PTL

\* An export that exited has nothing left to count.
ExitedIsUncounted == \A t \in Exports : phase[t] = "exited" => pending[t] = 0

LEMMA ExitedStep ==
  ASSUME IInv, IInv', ExitedIsUncounted, [Next]_vars
  PROVE  ExitedIsUncounted'
<1> SUFFICES ASSUME NEW t \in Exports, phase'[t] = "exited" PROVE pending'[t] = 0
  BY DEF ExitedIsUncounted
<1> USE DEF IInv, TypeOK
<1>0. phase \in [Exports -> {"new", "running", "waiting", "exited"}] /\ pending \in [Exports -> Nat]
  BY DEF HostTypeOK, StateTypeOK
<1>1. CASE phase'[t] = phase[t] /\ pending'[t] = pending[t]
  BY <1>1 DEF ExitedIsUncounted
<1>2. ASSUME NEW u \in Exports, NEW c \in Coros, FirstPoll(u, c) PROVE pending'[t] = 0
  BY <1>0, <1>1, <1>2 DEF FirstPoll
<1>3. ASSUME NEW u \in Exports,
             \/ \E w \in Waitables : SubtaskStarted(u, w) \/ Answer(u, w)
             \/ UnsupportedEvent(u)
      PROVE  pending'[t] = 0
  BY <1>0, <1>1, <1>3 DEF SubtaskStarted, Answer, UnsupportedEvent, Enter, stateVars
<1>4. ASSUME NEW u \in Exports, Poll(u) PROVE pending'[t] = 0
  <2>1. CASE Exit(u)
    BY <1>0, <1>1, <2>1 DEF Exit, DropWaitableSet, WorkDone
  <2>2. CASE Wait(u)
    BY <1>0, <1>1, <2>2 DEF Wait, stateVars
  <2>3. CASE TakeHandles(u) \/ RunHandle(u) \/ PollRaises(u)
    BY <1>0, <1>1, <2>3 DEF TakeHandles, RunHandle, PollRaises, hostVars, stateVars
  <2> QED BY <1>4, <2>1, <2>2, <2>3 DEF Poll
<1>5. ASSUME NEW c \in Coros, Step(c) PROVE pending'[t] = 0
  <2>1. Running(c)
    BY <1>5 DEF Step, AwaitResult, Spawn, CreatePlainTask, Join, CancelTask, YieldNow, Acquire,
       Release, ReturnResult, FinishSpawned, FinishPlain, RaiseException, PlainRaises,
       EndCancelled, EndTask
  <2>2. owner[c] \in Exports /\ phase[owner[c]] = "running"
    BY <2>1, Stepped
  <2>3. phase' = phase
    BY <1>5 DEF Step, AwaitResult, Spawn, CreatePlainTask, Join, CancelTask, YieldNow, Acquire,
       Release, ReturnResult, FinishSpawned, FinishPlain, RaiseException, PlainRaises,
       EndCancelled, EndTask, hostVars
  <2>4. \/ pending' = pending
        \/ \E x \in Int : pending' = [pending EXCEPT ![owner[c]] = x]
    <3>1. pending[owner[c]] + 1 \in Int /\ pending[owner[c]] - 1 \in Int
      BY <1>0, <2>2
    <3>2. \/ pending' = pending
          \/ pending' = [pending EXCEPT ![owner[c]] = pending[owner[c]] + 1]
          \/ pending' = [pending EXCEPT ![owner[c]] = pending[owner[c]] - 1]
      BY <1>5 DEF Step, AwaitResult, Spawn, CreatePlainTask, Join, CancelTask, YieldNow, Acquire,
         Release, ReturnResult, FinishSpawned, FinishPlain, RaiseException, PlainRaises,
         EndCancelled, EndTask, Count, Uncount, stateVars
    <3> QED BY <3>1, <3>2
  <2> QED BY <1>0, <1>1, <2>2, <2>3, <2>4
<1>6. CASE UNCHANGED vars
  BY <1>1, <1>6 DEF vars, hostVars, stateVars
<1> QED
  BY <1>2, <1>3, <1>4, <1>5, <1>6 DEF Next, Deliver, SubtaskReturned, EndReady, Halt

\* No export exits while work it counted is unfinished, even when some of that
\* work was cancelled (_poll, spawn).
THEOREM NoExportExitsEarly == Spec => []NoEarlyExit
<1>1. Init => ExitedIsUncounted
  BY DEF Init, ExitedIsUncounted
<1>2. IInv /\ ExitedIsUncounted => NoEarlyExit
  <2> SUFFICES ASSUME IInv, ExitedIsUncounted, NEW t \in Exports, phase[t] = "exited"
               PROVE  Live(t) = {}
    BY DEF NoEarlyExit
  <2>1. IsFiniteSet(Live(t)) /\ Cardinality(Live(t)) \in Nat
    BY LiveFinite, FS_CardinalityType
  <2>2. Cardinality(Live(t)) = 0
    BY <2>1 DEF IInv, PendingCovers, ExitedIsUncounted
  <2> QED BY <2>1, <2>2, FS_EmptySet
<1>3. IInv /\ IInv' /\ ExitedIsUncounted /\ [Next]_vars => ExitedIsUncounted'
  BY ExitedStep
<1> QED BY <1>1, <1>2, <1>3, InductiveInvariant, PTL DEF Spec

-----------------------------------------------------------------------------
(* What the invariant of the loop does not say: until an export returns or *)
(* some work fails, its own coroutine is alive, and it is the one that     *)
(* returns; and no export is called while a failure waits to be raised.    *)

Main(t, c) == c \in Live(t) /\ kind[c] = "return"

Mains ==
  /\ \A t \in Exports : phase[t] = "new" => ~returned[t]
  /\ \A c, d \in Coros :
       kind[c] = "return" /\ kind[d] = "return" /\ owner[c] = owner[d] /\ owner[c] \in Exports => c = d
  /\ \A t \in Exports, c \in Coros : Main(t, c) => ~returned[t]
  /\ \A t \in Exports :
       phase[t] # "new" /\ ~returned[t] /\ ~exception => \E c \in Coros : Main(t, c)

RaisedSoon == exception => trap # "none" \/ \E t \in Exports : phase[t] = "running"

LInv == thrown = {} /\ Mains /\ RaisedSoon


\* A step that neither begins, extends, returns, ends nor fails anything.
LEMMA Quiet ==
  ASSUME IInv, LInv, UNCHANGED <<kind, owner, returned, exception, thrown>>,
         \A t \in Exports : Live(t)' = Live(t),
         \A t \in Exports : /\ phase'[t] = "new" <=> phase[t] = "new"
                            /\ phase'[t] = "exited" <=> phase[t] = "exited",
         RaisedSoon'
  PROVE  LInv' /\ UNCHANGED Lifecycle!avars
<1>1. \A t \in Exports : Status(t)' = Status(t)
  BY DEF Status
<1>2. \A t \in Exports, c \in Coros : Main(t, c)' <=> Main(t, c)
  BY DEF Main
<1>3. Mains'
  BY <1>2 DEF LInv, Mains
<1> QED BY <1>1, <1>3 DEF LInv, Lifecycle!avars

-----------------------------------------------------------------------------
(* The host's entries and the poll.                                        *)

LEMMA NotRaised == ASSUME RaisedSoon, GuestIdle PROVE ~exception
BY DEF RaisedSoon, GuestIdle

LEMMA EntersAreQuiet ==
  ASSUME IInv, LInv, NEW t \in Exports,
         \/ \E w \in Waitables : SubtaskStarted(t, w) \/ Answer(t, w)
         \/ UnsupportedEvent(t)
  PROVE  LInv' /\ UNCHANGED Lifecycle!avars
<1> USE DEF IInv, TypeOK
<1>1. /\ UNCHANGED <<kind, owner, returned, exception, thrown>>
      /\ Enter(t) /\ GuestIdle
  BY DEF SubtaskStarted, Answer, UnsupportedEvent, Enter, loopVars, coroVars
<1>2. \A u \in Exports : /\ phase'[u] = "new" <=> phase[u] = "new"
                         /\ phase'[u] = "exited" <=> phase[u] = "exited"
  BY <1>1 DEF Enter, HostTypeOK
<1>3. \A c \in Coros : Alive(c)' <=> Alive(c)
  <2>1. ASSUME NEW w \in Waitables, SubtaskStarted(t, w) PROVE \A c \in Coros : Alive(c)' <=> Alive(c)
    BY <2>1 DEF SubtaskStarted, coroVars, Alive
  <2>2. ASSUME NEW w \in Waitables, Answer(t, w) PROVE \A c \in Coros : Alive(c)' <=> Alive(c)
    <3>1. CASE st' = st
      BY <3>1 DEF Alive
    <3>2. CASE futures[t][w] # NoCoro /\ awaits[futures[t][w]] = w
               /\ st' = [st EXCEPT ![futures[t][w]] = "ready"]
      <4> PICK d \in Coros : d = futures[t][w]
        BY <3>2 DEF StateTypeOK
      <4>1. st[d] = "importing" /\ st' = [st EXCEPT ![d] = "ready"]
        BY <3>2, CoroFacts DEF WaitablesRouted
      <4> QED BY <4>1 DEF Alive, CoroTypeOK
    <3> QED BY <2>2, <3>1, <3>2 DEF Answer, SetResult, Resume
  <2>3. CASE UnsupportedEvent(t)
    BY <2>3 DEF UnsupportedEvent, coroVars, Alive
  <2> QED BY <2>1, <2>2, <2>3
<1>4. \A u \in Exports : Live(u)' = Live(u)
  BY <1>1, <1>3 DEF Live, Counted
<1>5. RaisedSoon'
  BY <1>1, NotRaised DEF LInv, RaisedSoon
<1> QED BY <1>1, <1>2, <1>4, <1>5, Quiet

LEMMA PollsAreQuiet ==
  ASSUME IInv, LInv, NEW t \in Exports,
         TakeHandles(t) \/ RunHandle(t) \/ PollRaises(t) \/ Wait(t) \/ (Exit(t) /\ phase' = phase)
  PROVE  LInv' /\ UNCHANGED Lifecycle!avars
<1> USE DEF IInv, TypeOK
<1>1. UNCHANGED <<kind, owner, returned, exception, thrown>>
  BY DEF TakeHandles, RunHandle, PollRaises, Wait, Exit, hostVars, loopVars, coroVars
<1>2. \A u \in Exports : /\ phase'[u] = "new" <=> phase[u] = "new"
                         /\ phase'[u] = "exited" <=> phase[u] = "exited"
  BY DEF TakeHandles, RunHandle, PollRaises, Wait, PollDone, Polling, hostVars, HostTypeOK
<1>3. \A c \in Coros : Alive(c)' <=> Alive(c)
  <2>1. CASE RunHandle(t)
    <3>1. Head(batch) \in Coros /\ In(Head(batch), batch)
      BY <2>1, TailIn DEF RunHandle, LoopTypeOK, ScheduledOnce
    <3> PICK d \in Coros : d = Head(batch)
      BY <3>1
    <3>2. st[d] = "ready"
      BY <3>1 DEF ScheduledOnce
    <3> QED BY <2>1, <3>2 DEF RunHandle, Alive, CoroTypeOK
  <2>2. CASE TakeHandles(t) \/ PollRaises(t) \/ Wait(t) \/ Exit(t)
    BY <2>2 DEF TakeHandles, PollRaises, Wait, Exit, coroVars, Alive
  <2> QED BY <2>1, <2>2
<1>4. \A u \in Exports : Live(u)' = Live(u)
  BY <1>1, <1>3 DEF Live, Counted
<1>5. RaisedSoon'
  BY <1>1 DEF TakeHandles, RunHandle, PollRaises, Wait, Exit, PollDone, Polling, hostVars,
     LInv, RaisedSoon, Traps
<1> QED BY <1>1, <1>2, <1>4, <1>5, Quiet

-----------------------------------------------------------------------------
(* The steps of a coroutine that leave the work as it is.                  *)

\* An export is inside the guest, so that a failure is raised before anything exits.
LEMMA StepsAreInside ==
  ASSUME IInv, NEW c \in Coros, Running(c), phase' = phase
  PROVE  RaisedSoon'
BY Stepped DEF RaisedSoon

LEMMA SuspensionsAreQuiet ==
  ASSUME IInv, LInv, NEW c \in Coros,
         \/ \E w \in Waitables, s \in {"starting", "started"} : AwaitResult(c, w, s)
         \/ YieldNow(c)
         \/ \E d \in Coros : Join(c, d)
  PROVE  LInv' /\ UNCHANGED Lifecycle!avars
<1> USE DEF IInv, TypeOK
<1>1. UNCHANGED <<kind, owner, returned, exception, thrown, phase>> /\ Running(c)
  BY DEF AwaitResult, YieldNow, Join, hostVars
<1>2. \E s \in {"importing", "ready", "joining"} : st' = [st EXCEPT ![c] = s]
  BY DEF AwaitResult, YieldNow, Join, Suspend, Resume
<1>3. \A u \in Exports : Live(u)' = Live(u)
  BY <1>1, <1>2, Stepped DEF Live, Counted, Alive, CoroTypeOK
<1> QED BY <1>1, <1>3, StepsAreInside, Quiet

LEMMA LocksAreQuiet ==
  ASSUME IInv, LInv, NEW c \in Coros, Acquire(c) \/ Release(c)
  PROVE  LInv' /\ UNCHANGED Lifecycle!avars
<1> USE DEF IInv, TypeOK
<1>1. UNCHANGED <<kind, owner, returned, exception, thrown, phase>> /\ Running(c)
  BY DEF Acquire, Release, hostVars, loopVars
<1>2. owner[c] \in Exports /\ LockOf[owner[c]] \in Locks /\ st[c] = "running"
  BY <1>1, Stepped, CoroFacts
<1>3. \A d \in Coros : Alive(d)' <=> Alive(d)
  <2>1. CASE st' = st
    BY <2>1 DEF Alive
  <2>2. CASE st' = [st EXCEPT ![c] = "locking"]
    BY <1>2, <2>2 DEF Alive, CoroTypeOK
  <2>3. ASSUME Release(c), queue[LockOf[owner[c]]] # <<>> PROVE \A d \in Coros : Alive(d)' <=> Alive(d)
    <3> DEFINE q == queue[LockOf[owner[c]]]
    <3>1. q \in Seq(Coros) /\ Distinct(q)
      BY <1>2 DEF LockTypeOK, Queues
    <3>2. Head(q) \in Coros /\ In(Head(q), q)
      BY <2>3, <3>1, TailIn
    <3>3. st[Head(q)] = "locking"
      BY <1>2, <3>2 DEF Queues
    <3>4. st' = [st EXCEPT ![Head(q)] = "ready"]
      BY <2>3 DEF Release, Resume
    <3> HIDE DEF q
    <3> QED BY <3>2, <3>3, <3>4 DEF Alive, CoroTypeOK
  <2> QED BY <2>1, <2>2, <2>3 DEF Acquire, Release, Suspend
<1>4. \A u \in Exports : Live(u)' = Live(u)
  BY <1>1, <1>3 DEF Live, Counted
<1> QED BY <1>1, <1>4, StepsAreInside, Quiet

\* A task that nobody counts comes or goes.
LEMMA PlainIsQuiet ==
  ASSUME IInv, LInv, NEW c \in Coros, NEW d \in Coros, CreatePlainTask(c, d)
  PROVE  LInv' /\ UNCHANGED Lifecycle!avars
<1> USE DEF IInv, TypeOK
<1>1. UNCHANGED <<returned, exception, thrown, phase>> /\ Running(c)
  BY DEF CreatePlainTask, CreateTask, hostVars, loopVars
<1>2. /\ st[d] = "unborn" /\ kind' = [kind EXCEPT ![d] = "plain"] /\ owner' = [owner EXCEPT ![d] = owner[c]]
      /\ st' = [st EXCEPT ![d] = "ready"]
  BY DEF CreatePlainTask, CreateTask
<1>3. \A t \in Exports : Live(t)' = Live(t)
  BY <1>2 DEF Live, Counted, Alive, CoroTypeOK
<1>4. \A t \in Exports, x \in Coros : Main(t, x)' <=> Main(t, x)
  BY <1>2, <1>3 DEF Main, Live, Alive, CoroTypeOK
<1>5. \A x, y \in Coros :
        kind'[x] = "return" /\ kind'[y] = "return" /\ owner'[x] = owner'[y] /\ owner'[x] \in Exports => x = y
  BY <1>2 DEF LInv, Mains, CoroTypeOK
<1>6. Mains'
  BY <1>1, <1>4, <1>5 DEF LInv, Mains
<1>7. \A t \in Exports : Status(t)' = Status(t)
  BY <1>1 DEF Status
<1> QED BY <1>1, <1>3, <1>6, <1>7, StepsAreInside DEF LInv, Lifecycle!avars

LEMMA PlainEndIsQuiet ==
  ASSUME IInv, LInv, NEW c \in Coros, FinishPlain(c)
  PROVE  LInv' /\ UNCHANGED Lifecycle!avars
<1>1. UNCHANGED <<kind, owner, returned, exception, thrown, phase>> /\ Running(c) /\ EndTask(c)
  BY DEF FinishPlain, EndTask
<1>2. \A u \in Exports : Live(u)' = Live(u)
  <2>1. \A u \in Exports : c \notin Live(u)
    BY DEF FinishPlain, Live, Counted
  <2>2. \A u \in Exports : Live(u)' = Live(u) \ {c}
    BY <1>1, EndTaskKeeps
  <2> SUFFICES ASSUME NEW u \in Exports PROVE Live(u)' = Live(u)
    OBVIOUS
  <2> QED BY <2>1, <2>2
<1> QED BY <1>1, <1>2, StepsAreInside, Quiet

-----------------------------------------------------------------------------
(* The steps that the caller can tell.                                     *)

\* The two functions of the abstract state change for one export only.
LEMMA OneExport ==
  ASSUME NEW t \in Exports, \A u \in Exports \ {t} : Live(u)' = Live(u) /\ Status(u)' = Status(u)
  PROVE  /\ [u \in Exports |-> Live(u)]' = [[u \in Exports |-> Live(u)] EXCEPT ![t] = Live(t)']
         /\ [u \in Exports |-> Status(u)]' = [[u \in Exports |-> Status(u)] EXCEPT ![t] = Status(t)']
OBVIOUS

LEMMA CallsBegin ==
  ASSUME IInv, LInv, NEW t \in Exports, NEW c \in Coros, FirstPoll(t, c)
  PROVE  LInv' /\ Lifecycle!Begin(t, c)
<1> USE DEF IInv, TypeOK
<1>1. /\ GuestIdle /\ phase[t] = "new" /\ phase' = [phase EXCEPT ![t] = "running"]
      /\ UNCHANGED <<returned, exception, thrown>>
      /\ st[c] = "unborn" /\ st' = [st EXCEPT ![c] = "ready"]
      /\ kind' = [kind EXCEPT ![c] = "return"] /\ owner' = [owner EXCEPT ![c] = t]
  BY DEF FirstPoll, CreateTask, loopVars
<1>2. \A x \in Coros : owner[x] # t
  BY <1>1, CoroFacts DEF Roles
<1>3. Live(t)' = {c}
  BY <1>1, <1>2 DEF Live, Counted, Alive, CoroTypeOK
<1>4. \A u \in Exports \ {t} : Live(u)' = Live(u)
  BY <1>1 DEF Live, Counted, Alive, CoroTypeOK
<1>5. \A u \in Exports \ {t} : Status(u)' = Status(u)
  BY <1>1 DEF Status, HostTypeOK
<1>6. ~returned[t] /\ ~exception
  BY <1>1, NotRaised DEF LInv, Mains
<1>7. Status(t) = "new" /\ Status(t)' = "open"
  BY <1>1, <1>6 DEF Status, HostTypeOK
<1>8. \A u \in Exports : c \notin Live(u)
  BY <1>1 DEF Live, Alive
<1>9. Lifecycle!Begin(t, c)
  BY <1>1, <1>3, <1>4, <1>5, <1>6, <1>7, <1>8, OneExport DEF Lifecycle!Begin, Lifecycle!Fresh
<1>10. \A u \in Exports, x \in Coros : Main(u, x)' <=> Main(u, x) \/ (u = t /\ x = c)
  BY <1>1, <1>2, <1>3, <1>4 DEF Main, Live, CoroTypeOK
<1>11. Mains'
  <2>1. \A u \in Exports : phase'[u] = "new" => ~returned'[u]
    BY <1>1 DEF LInv, Mains, HostTypeOK
  <2>2. \A x, y \in Coros :
          kind'[x] = "return" /\ kind'[y] = "return" /\ owner'[x] = owner'[y] /\ owner'[x] \in Exports => x = y
    BY <1>1, <1>2 DEF LInv, Mains, CoroTypeOK
  <2>3. \A u \in Exports, x \in Coros : Main(u, x)' => ~returned'[u]
    BY <1>1, <1>6, <1>10 DEF LInv, Mains
  <2>4. \A u \in Exports :
          phase'[u] # "new" /\ ~returned'[u] /\ ~exception' => \E x \in Coros : Main(u, x)'
    BY <1>1, <1>10 DEF LInv, Mains, HostTypeOK
  <2> QED BY <2>1, <2>2, <2>3, <2>4 DEF Mains
<1>12. RaisedSoon'
  BY <1>1, <1>6 DEF RaisedSoon
<1> QED BY <1>1, <1>9, <1>11, <1>12 DEF LInv

LEMMA SpawnExtends ==
  ASSUME IInv, LInv, NEW c \in Coros, NEW d \in Coros, Spawn(c, d)
  PROVE  LInv' /\ Lifecycle!Extend(owner[c], d)
<1> USE DEF IInv, TypeOK
<1>1. /\ Running(c) /\ UNCHANGED <<phase, returned, exception, thrown>>
      /\ st[d] = "unborn" /\ st' = [st EXCEPT ![d] = "ready"]
      /\ kind' = [kind EXCEPT ![d] = "spawned"] /\ owner' = [owner EXCEPT ![d] = owner[c]]
  BY DEF Spawn, CreateTask, hostVars, loopVars
<1> PICK t \in Exports : t = owner[c] /\ phase[t] = "running"
  BY <1>1, Stepped
<1>2. Live(t)' = Live(t) \cup {d}
  BY <1>1 DEF Live, Counted, Alive, CoroTypeOK
<1>3. \A u \in Exports \ {t} : Live(u)' = Live(u)
  BY <1>1 DEF Live, Counted, Alive, CoroTypeOK
<1>4. \A u \in Exports : Status(u)' = Status(u)
  BY <1>1 DEF Status
<1>5. Status(t) \in {"open", "returned"}
  BY DEF Status
<1>6. \A u \in Exports : d \notin Live(u)
  BY <1>1 DEF Live, Alive
<1>7. Lifecycle!Extend(t, d)
  BY <1>1, <1>2, <1>3, <1>4, <1>5, <1>6, OneExport DEF Lifecycle!Extend, Lifecycle!Fresh
<1>8. \A u \in Exports, x \in Coros : Main(u, x)' <=> Main(u, x)
  BY <1>1, <1>2, <1>3, <1>6 DEF Main, CoroTypeOK
<1>9. \A x, y \in Coros :
        kind'[x] = "return" /\ kind'[y] = "return" /\ owner'[x] = owner'[y] /\ owner'[x] \in Exports => x = y
  BY <1>1 DEF LInv, Mains, CoroTypeOK
<1>10. Mains'
  BY <1>1, <1>8, <1>9 DEF LInv, Mains
<1> QED BY <1>1, <1>7, <1>10, StepsAreInside DEF LInv

LEMMA ExitIsExit ==
  ASSUME IInv, LInv, NEW t \in Exports, Exit(t), phase' # phase
  PROVE  LInv' /\ Lifecycle!Exit(t)
<1> USE DEF IInv, TypeOK
<1>1. /\ phase[t] = "running" /\ phase' = [phase EXCEPT ![t] = "exited"] /\ ~exception /\ pending[t] = 0
      /\ UNCHANGED <<returned, exception, thrown, kind, owner, st>>
  BY DEF Exit, DropWaitableSet, PollDone, Polling, WorkDone, loopVars, coroVars
<1>2. Live(t) = {}
  <2>1. IsFiniteSet(Live(t)) /\ Cardinality(Live(t)) = 0
    BY <1>1, LiveFinite DEF PendingCovers
  <2> QED BY <2>1, FS_EmptySet
<1>3. returned[t]
  BY <1>1, <1>2 DEF LInv, Mains, Main
<1>4. Status(t) = "returned" /\ Status(t)' = "exited"
  BY <1>1, <1>3 DEF Status, HostTypeOK
<1>5. \A u \in Exports \ {t} : Status(u)' = Status(u)
  BY <1>1 DEF Status, HostTypeOK
<1>6. \A u \in Exports : Live(u)' = Live(u)
  BY <1>1 DEF Live, Counted, Alive
<1>7. Lifecycle!Exit(t)
  BY <1>1, <1>2, <1>4, <1>5, <1>6, OneExport DEF Lifecycle!Exit
<1>8. \A u \in Exports, x \in Coros : Main(u, x)' <=> Main(u, x)
  BY <1>1, <1>6 DEF Main
<1>9. Mains'
  BY <1>1, <1>3, <1>8 DEF LInv, Mains, HostTypeOK
<1>10. RaisedSoon'
  BY <1>1 DEF RaisedSoon
<1> QED BY <1>1, <1>7, <1>9, <1>10 DEF LInv

\* Some work ended; the export that loses its own coroutine has returned, or there is
\* a failure.
LEMMA WorkEnds ==
  ASSUME IInv, LInv, NEW c \in Coros, EndTask(c), Counted(c), UNCHANGED thrown,
         exception => exception',
         kind[c] = "return" => returned'[owner[c]] \/ exception',
         \/ returned' = returned
         \/ kind[c] = "return" /\ returned' = [returned EXCEPT ![owner[c]] = TRUE]
  PROVE  /\ LInv'
         /\ [u \in Exports |-> Live(u)]' =
              [[u \in Exports |-> Live(u)] EXCEPT ![owner[c]] = @ \ {c}]
         /\ owner[c] \in Exports /\ c \in Live(owner[c]) /\ phase[owner[c]] = "running"
         /\ phase' = phase
<1> USE DEF IInv, TypeOK
<1>1. /\ UNCHANGED <<phase, kind, owner, thrown>> /\ Running(c)
      /\ \A u \in Exports : Live(u)' = Live(u) \ {c}
  BY EndTaskKeeps DEF EndTask
<1>2. /\ owner[c] \in Exports /\ c \in Live(owner[c]) /\ phase[owner[c]] = "running"
  BY <1>1, Stepped DEF Live, Alive
<1>3. \A u \in Exports : u # owner[c] => c \notin Live(u)
  BY DEF Live
<1>4. [u \in Exports |-> Live(u)]' = [[u \in Exports |-> Live(u)] EXCEPT ![owner[c]] = @ \ {c}]
  <2>1. \A u \in Exports \ {owner[c]} : Live(u)' = Live(u)
    <3> SUFFICES ASSUME NEW u \in Exports \ {owner[c]} PROVE Live(u)' = Live(u)
      OBVIOUS
    <3> QED BY <1>1, <1>3
  <2> PICK t \in Exports : t = owner[c]
    BY <1>2
  <2>2. Live(t)' = Live(t) \ {c}
    BY <1>1
  <2> QED BY <2>1, <2>2
<1>5. \A u \in Exports, x \in Coros : Main(u, x)' <=> Main(u, x) /\ x # c
  BY <1>1 DEF Main
<1>6. Mains'
  <2>1. \A u \in Exports : phase'[u] = "new" => ~returned'[u]
    BY <1>1, <1>2 DEF LInv, Mains, HostTypeOK
  <2>2. \A u \in Exports, x \in Coros : Main(u, x)' => ~returned'[u]
    <3> SUFFICES ASSUME NEW u \in Exports, NEW x \in Coros, Main(u, x), x # c PROVE ~returned'[u]
      BY <1>5
    <3>1. ~returned[u] /\ (kind[c] = "return" => u # owner[c])
      BY <1>2 DEF LInv, Mains, Main, Live
    <3> QED BY <3>1, <1>2 DEF HostTypeOK
  <2>3. \A u \in Exports :
          phase'[u] # "new" /\ ~returned'[u] /\ ~exception' => \E x \in Coros : Main(u, x)'
    <3> SUFFICES ASSUME NEW u \in Exports, phase[u] # "new", ~returned'[u], ~exception'
                 PROVE  \E x \in Coros : Main(u, x) /\ x # c
      BY <1>1, <1>5
    <3>1. ~returned[u] /\ ~exception
      BY <1>2 DEF HostTypeOK, LoopTypeOK
    <3>2. PICK x \in Coros : Main(u, x)
      BY <3>1 DEF LInv, Mains
    <3>3. x # c
      BY <3>2 DEF Main, Live
    <3> QED BY <3>2, <3>3
  <2> QED BY <1>1, <2>1, <2>2, <2>3 DEF LInv, Mains
<1> QED BY <1>1, <1>2, <1>4, <1>6, StepsAreInside DEF LInv

LEMMA ReturnIsReturn ==
  ASSUME IInv, LInv, NEW c \in Coros, ReturnResult(c)
  PROVE  LInv' /\ Lifecycle!Return(owner[c], c)
<1> USE DEF IInv, TypeOK
<1> PICK t \in Exports : t = owner[c]
  BY Stepped DEF ReturnResult, EndTask
<1>1. /\ EndTask(c) /\ kind[c] = "return" /\ Counted(c)
      /\ returned' = [returned EXCEPT ![t] = TRUE] /\ UNCHANGED <<exception, thrown>>
  BY DEF ReturnResult, Counted
<1>2. returned'[t]
  BY <1>1 DEF HostTypeOK
<1>3. /\ LInv' /\ c \in Live(t) /\ phase[t] = "running" /\ phase' = phase
      /\ [u \in Exports |-> Live(u)]' = [[u \in Exports |-> Live(u)] EXCEPT ![t] = @ \ {c}]
  BY <1>1, <1>2, WorkEnds
<1>4. ~returned[t]
  BY <1>1, <1>3 DEF LInv, Mains, Main
<1>5. /\ Status(t) = "open" /\ Status(t)' = "returned"
      /\ \A u \in Exports \ {t} : Status(u)' = Status(u)
  BY <1>1, <1>3, <1>4 DEF Status, HostTypeOK
<1>6. [u \in Exports |-> Status(u)]' = [[u \in Exports |-> Status(u)] EXCEPT ![t] = "returned"]
  BY <1>5
<1> QED BY <1>1, <1>3, <1>5, <1>6 DEF Lifecycle!Return

LEMMA SpawnedCompletes ==
  ASSUME IInv, LInv, NEW c \in Coros, FinishSpawned(c)
  PROVE  LInv' /\ (Lifecycle!Complete(owner[c], c) \/ Lifecycle!Fail(owner[c], c))
<1> USE DEF IInv, TypeOK
<1> PICK t \in Exports : t = owner[c]
  BY Stepped DEF FinishSpawned, EndTask
<1>1. EndTask(c) /\ kind[c] = "spawned" /\ Counted(c) /\ UNCHANGED <<returned, exception, thrown>>
  BY DEF FinishSpawned, Counted
<1>2. /\ LInv' /\ c \in Live(t) /\ phase[t] = "running" /\ phase' = phase
      /\ [u \in Exports |-> Live(u)]' = [[u \in Exports |-> Live(u)] EXCEPT ![t] = @ \ {c}]
  BY <1>1, WorkEnds
<1>3. \A u \in Exports : Status(u)' = Status(u)
  BY <1>1, <1>2 DEF Status
<1>4. [u \in Exports |-> Status(u)]' = [u \in Exports |-> Status(u)]
  BY <1>3
<1>5. CASE exception
  BY <1>1, <1>2, <1>4, <1>5 DEF Lifecycle!Fail
<1>6. CASE ~exception
  <2>1. ASSUME Status(t) = "open" PROVE Live(t) # {c}
    <3>1. ~returned[t]
      BY <1>2, <2>1 DEF Status
    <3>2. PICK d \in Coros : Main(t, d)
      BY <1>2, <1>6, <3>1 DEF LInv, Mains
    <3> QED BY <1>1, <3>2 DEF Main
  <2> QED BY <1>1, <1>2, <1>4, <2>1 DEF Lifecycle!Complete
<1> QED BY <1>2, <1>5, <1>6

LEMMA RaisingFails ==
  ASSUME IInv, LInv, NEW c \in Coros, RaiseException(c)
  PROVE  LInv' /\ Lifecycle!Fail(owner[c], c)
<1> USE DEF IInv, TypeOK
<1> PICK t \in Exports : t = owner[c]
  BY Stepped DEF RaiseException, EndTask
<1>1. EndTask(c) /\ Counted(c) /\ UNCHANGED <<returned, thrown>> /\ exception' = TRUE
  BY DEF RaiseException
<1>2. /\ LInv' /\ c \in Live(t) /\ phase' = phase
      /\ [u \in Exports |-> Live(u)]' = [[u \in Exports |-> Live(u)] EXCEPT ![t] = @ \ {c}]
  BY <1>1, WorkEnds
<1>3. [u \in Exports |-> Status(u)]' = [u \in Exports |-> Status(u)]
  BY <1>1, <1>2 DEF Status
<1> QED BY <1>1, <1>2, <1>3 DEF Lifecycle!Fail

LEMMA PlainFailsOutside ==
  ASSUME IInv, LInv, NEW c \in Coros, PlainRaises(c)
  PROVE  LInv' /\ Lifecycle!FailOutside
<1> USE DEF IInv, TypeOK
<1>1. /\ EndTask(c) /\ kind[c] = "plain" /\ UNCHANGED <<returned, thrown, phase, kind, owner>>
      /\ exception' = TRUE /\ Running(c)
  BY DEF PlainRaises, EndTask
<1>2. \A u \in Exports : Live(u)' = Live(u)
  <2>1. \A u \in Exports : c \notin Live(u)
    BY <1>1 DEF Live, Counted
  <2>2. \A u \in Exports : Live(u)' = Live(u) \ {c}
    BY <1>1, EndTaskKeeps
  <2> SUFFICES ASSUME NEW u \in Exports PROVE Live(u)' = Live(u)
    OBVIOUS
  <2> QED BY <2>1, <2>2
<1>3. \A u \in Exports, x \in Coros : Main(u, x)' <=> Main(u, x)
  BY <1>1, <1>2 DEF Main
<1>4. Mains'
  BY <1>1, <1>3 DEF LInv, Mains
<1>5. \A u \in Exports : Status(u)' = Status(u)
  BY <1>1 DEF Status
<1> QED BY <1>1, <1>2, <1>4, <1>5, StepsAreInside DEF LInv, Lifecycle!FailOutside

-----------------------------------------------------------------------------
(* The refinement.                                                         *)

LEMMA InitsMatch == Init => LInv /\ Lifecycle!Init
<1> SUFFICES ASSUME Init PROVE LInv /\ Lifecycle!Init
  OBVIOUS
<1> USE DEF Init
<1>1. \A t \in Exports : Live(t) = {} /\ Status(t) = "new"
  BY DEF Live, Counted, Status
<1>2. LInv
  BY <1>1 DEF LInv, Mains, Main, RaisedSoon
<1> QED BY <1>1, <1>2 DEF Lifecycle!Init

LEMMA StepsMatch ==
  ASSUME IInv, LInv, "cancel" \notin Ops, [Next]_vars
  PROVE  LInv' /\ [Lifecycle!Next]_(Lifecycle!avars)
<1>1. ASSUME NEW t \in Exports, NEW c \in Coros, FirstPoll(t, c)
      PROVE  LInv' /\ Lifecycle!Next
  BY <1>1, CallsBegin DEF Lifecycle!Next
<1>2. ASSUME NEW t \in Exports,
             \/ \E w \in Waitables : SubtaskStarted(t, w)
             \/ Deliver(t) \/ UnsupportedEvent(t)
      PROVE  LInv' /\ UNCHANGED Lifecycle!avars
  BY <1>2, EntersAreQuiet DEF Deliver, SubtaskReturned, EndReady
<1>3. ASSUME NEW t \in Exports, Poll(t)
      PROVE  LInv' /\ [Lifecycle!Next]_(Lifecycle!avars)
  <2>1. CASE Exit(t) /\ phase' # phase
    BY <2>1, ExitIsExit DEF Lifecycle!Next
  <2> QED BY <1>3, <2>1, PollsAreQuiet DEF Poll
<1>4. ASSUME NEW c \in Coros, Step(c)
      PROVE  LInv' /\ [Lifecycle!Next]_(Lifecycle!avars)
  <2>1. owner[c] \in Exports
    BY <1>4, Stepped DEF Step, AwaitResult, Spawn, CreatePlainTask, Join, CancelTask, YieldNow,
       Acquire, Release, ReturnResult, FinishSpawned, FinishPlain, RaiseException, PlainRaises,
       EndCancelled, EndTask
  <2>2. ~EndCancelled(c) /\ \A d \in Coros : ~CancelTask(c, d)
    BY DEF LInv, EndCancelled, CancelTask
  <2>3. CASE \/ \E w \in Waitables, s \in {"starting", "started"} : AwaitResult(c, w, s)
             \/ \E d \in Coros : Join(c, d) \/ CreatePlainTask(c, d)
             \/ YieldNow(c) \/ Acquire(c) \/ Release(c) \/ FinishPlain(c)
    BY <2>3, SuspensionsAreQuiet, LocksAreQuiet, PlainIsQuiet, PlainEndIsQuiet
  <2>4. ASSUME NEW d \in Coros, Spawn(c, d) PROVE LInv' /\ Lifecycle!Next
    BY <2>1, <2>4, SpawnExtends DEF Lifecycle!Next
  <2>5. CASE ReturnResult(c)
    BY <2>1, <2>5, ReturnIsReturn DEF Lifecycle!Next
  <2>6. CASE FinishSpawned(c)
    BY <2>1, <2>6, SpawnedCompletes DEF Lifecycle!Next
  <2>7. CASE RaiseException(c)
    BY <2>1, <2>7, RaisingFails DEF Lifecycle!Next
  <2>8. CASE PlainRaises(c)
    BY <2>8, PlainFailsOutside DEF Lifecycle!Next
  <2> QED BY <1>4, <2>2, <2>3, <2>4, <2>5, <2>6, <2>7, <2>8 DEF Step
<1>5. CASE UNCHANGED vars
  <2>1. /\ UNCHANGED <<kind, owner, returned, exception, thrown, phase, trap, st>>
    BY <1>5 DEF vars, hostVars, stateVars, loopVars, coroVars, lockVars
  <2>2. \A u \in Exports : Live(u)' = Live(u)
    BY <2>1 DEF Live, Counted, Alive
  <2>3. RaisedSoon'
    BY <2>1 DEF LInv, RaisedSoon
  <2> QED BY <2>1, <2>2, <2>3, Quiet
<1> QED BY <1>1, <1>2, <1>3, <1>4, <1>5 DEF Next, Halt

\* If the application cancels nothing, the loop and its host give the caller of every
\* export what ExportLifecycle promises: one value, no exit before the work is done,
\* and none after a failure (first_poll, callback, _poll, spawn).
THEOREM LoopImplementsLifecycle ==
  ASSUME "cancel" \notin Ops
  PROVE  Spec => ImplementsLifecycle
<1>1. Init => LInv /\ Lifecycle!Init
  BY InitsMatch
<1>2. IInv /\ LInv /\ [Next]_vars => LInv' /\ [Lifecycle!Next]_(Lifecycle!avars)
  BY StepsMatch
<1> QED BY <1>1, <1>2, InductiveInvariant, PTL DEF Spec, ImplementsLifecycle, Lifecycle!Spec

-----------------------------------------------------------------------------
(* The count.                                                              *)

LEMMA CountStays ==
  ASSUME PendingIsLiveWork, UNCHANGED <<Lifecycle!avars, pending>>
  PROVE  PendingIsLiveWork'
<1>1. [u \in Exports |-> Live(u)]' = [u \in Exports |-> Live(u)]
  BY DEF Lifecycle!avars
<1>2. ASSUME NEW u \in Exports PROVE Live(u)' = Live(u)
  <2>1. [x \in Exports |-> Live(x)]'[u] = [x \in Exports |-> Live(x)][u]
    BY <1>1
  <2> QED BY <2>1
<1> QED BY <1>2 DEF PendingIsLiveWork

\* One coroutine more or less for one export, and the count with it.
LEMMA CountFollows ==
  ASSUME IInv, PendingIsLiveWork, NEW t \in Exports, NEW c, NEW n \in Nat,
         pending' = [pending EXCEPT ![t] = n],
         \A u \in Exports \ {t} : Live(u)' = Live(u),
         \/ c \notin Live(t) /\ Live(t)' = Live(t) \cup {c} /\ n = pending[t] + 1
         \/ c \in Live(t) /\ Live(t)' = Live(t) \ {c} /\ n = pending[t] - 1
  PROVE  PendingIsLiveWork'
<1>1. pending \in [Exports -> Nat]
  BY DEF IInv, TypeOK, StateTypeOK
<1>2. IsFiniteSet(Live(t)) /\ Cardinality(Live(t)) \in Nat /\ pending[t] = Cardinality(Live(t))
  BY LiveFinite DEF PendingIsLiveWork
<1>3. Cardinality(Live(t)') = n
  BY <1>2, FS_AddElement, FS_RemoveElement
<1> QED BY <1>1, <1>3 DEF PendingIsLiveWork

LEMMA CountStep ==
  ASSUME IInv, LInv, PendingIsLiveWork, "cancel" \notin Ops, [Next]_vars
  PROVE  PendingIsLiveWork'
<1> USE DEF IInv, TypeOK
<1>0. pending \in [Exports -> Nat]
  BY DEF StateTypeOK
<1>1. ASSUME NEW t \in Exports, NEW c \in Coros, FirstPoll(t, c) PROVE PendingIsLiveWork'
  <2>1. /\ st[c] = "unborn" /\ st' = [st EXCEPT ![c] = "ready"] /\ phase[t] = "new"
        /\ kind' = [kind EXCEPT ![c] = "return"] /\ owner' = [owner EXCEPT ![c] = t]
        /\ pending' = [pending EXCEPT ![t] = 1]
    BY <1>1 DEF FirstPoll, CreateTask
  <2>2. \A x \in Coros : owner[x] # t
    BY <2>1, CoroFacts DEF Roles
  <2>3. Live(t) = {} /\ Live(t)' = {c} /\ \A u \in Exports \ {t} : Live(u)' = Live(u)
    BY <2>1, <2>2 DEF Live, Counted, Alive, CoroTypeOK
  <2>4. pending[t] = 0
    BY <2>3, FS_EmptySet DEF PendingIsLiveWork
  <2>5. c \notin Live(t) /\ Live(t)' = Live(t) \cup {c} /\ 1 = pending[t] + 1 /\ 1 \in Nat
    BY <2>3, <2>4
  <2> QED BY <2>1, <2>3, <2>5, CountFollows
<1>2. ASSUME NEW t \in Exports,
             \/ \E w \in Waitables : SubtaskStarted(t, w)
             \/ Deliver(t) \/ UnsupportedEvent(t)
      PROVE  PendingIsLiveWork'
  <2>1. pending' = pending
    BY <1>2 DEF Deliver, SubtaskReturned, EndReady, SubtaskStarted, Answer, UnsupportedEvent, stateVars
  <2> QED BY <1>2, <2>1, EntersAreQuiet, CountStays DEF Deliver, SubtaskReturned, EndReady
<1>3. ASSUME NEW t \in Exports, Poll(t) PROVE PendingIsLiveWork'
  <2>1. pending' = pending
    BY <1>3 DEF Poll, TakeHandles, RunHandle, PollRaises, Exit, Wait, stateVars
  <2>2. CASE Exit(t)
    <3>1. \A u \in Exports : Live(u)' = Live(u)
      BY <2>2 DEF Exit, coroVars, Live, Counted, Alive
    <3> QED BY <2>1, <3>1 DEF PendingIsLiveWork
  <2> QED BY <1>3, <2>1, <2>2, PollsAreQuiet, CountStays DEF Poll
<1>4. ASSUME NEW c \in Coros,
             \/ \E w \in Waitables, s \in {"starting", "started"} : AwaitResult(c, w, s)
             \/ \E d \in Coros : Join(c, d) \/ CreatePlainTask(c, d)
             \/ YieldNow(c) \/ Acquire(c) \/ Release(c) \/ FinishPlain(c)
      PROVE  PendingIsLiveWork'
  <2>1. pending' = pending
    BY <1>4 DEF AwaitResult, Join, CreatePlainTask, YieldNow, Acquire, Release, FinishPlain, stateVars
  <2> QED BY <1>4, <2>1, SuspensionsAreQuiet, LocksAreQuiet, PlainIsQuiet, PlainEndIsQuiet, CountStays
<1>5. ASSUME NEW c \in Coros, NEW d \in Coros, Spawn(c, d) PROVE PendingIsLiveWork'
  <2> PICK t \in Exports : t = owner[c]
    BY <1>5, Stepped DEF Spawn
  <2>1. /\ st[d] = "unborn" /\ st' = [st EXCEPT ![d] = "ready"]
        /\ kind' = [kind EXCEPT ![d] = "spawned"] /\ owner' = [owner EXCEPT ![d] = t]
        /\ pending' = [pending EXCEPT ![t] = pending[t] + 1]
    BY <1>5 DEF Spawn, CreateTask, Count
  <2>2. /\ d \notin Live(t) /\ Live(t)' = Live(t) \cup {d}
        /\ \A u \in Exports \ {t} : Live(u)' = Live(u)
    BY <2>1 DEF Live, Counted, Alive, CoroTypeOK
  <2>3. pending[t] + 1 \in Nat
    BY <1>0
  <2> QED BY <2>1, <2>2, <2>3, CountFollows
<1>6. ASSUME NEW c \in Coros, ReturnResult(c) \/ FinishSpawned(c) \/ RaiseException(c)
      PROVE  PendingIsLiveWork'
  <2>1. EndTask(c) /\ Counted(c) /\ Uncount(c)
    BY <1>6 DEF ReturnResult, FinishSpawned, RaiseException, Counted
  <2>2. st[c] = "running" /\ \A u \in Exports : Live(u)' = Live(u) \ {c}
    BY <2>1, Stepped, EndTaskKeeps DEF EndTask
  <2> PICK t \in Exports : t = owner[c]
    BY <2>1, Stepped DEF EndTask
  <2>3. c \in Live(t) /\ pending[t] \in Nat \ {0}
    BY <2>1, <2>2, RunningIsCounted
  <2>4. pending' = [pending EXCEPT ![t] = pending[t] - 1] /\ pending[t] - 1 \in Nat
    BY <2>1, <2>3 DEF Uncount
  <2>5. \A u \in Exports \ {t} : Live(u)' = Live(u)
    <3> SUFFICES ASSUME NEW u \in Exports \ {t} PROVE Live(u)' = Live(u)
      OBVIOUS
    <3>1. c \notin Live(u)
      BY DEF Live
    <3> QED BY <2>2, <3>1
  <2> QED BY <2>2, <2>3, <2>4, <2>5, CountFollows
<1>7. ASSUME NEW c \in Coros, PlainRaises(c) PROVE PendingIsLiveWork'
  <2>1. EndTask(c) /\ pending' = pending /\ ~Counted(c)
    BY <1>7 DEF PlainRaises, Counted
  <2>2. ASSUME NEW u \in Exports PROVE Live(u)' = Live(u)
    <3>1. c \notin Live(u)
      BY <2>1 DEF Live
    <3>2. Live(u)' = Live(u) \ {c}
      BY <2>1, EndTaskKeeps
    <3> QED BY <3>1, <3>2
  <2> QED BY <2>1, <2>2 DEF PendingIsLiveWork
<1>8. CASE UNCHANGED vars
  <2>1. ASSUME NEW u \in Exports PROVE Live(u)' = Live(u)
    BY <1>8 DEF vars, coroVars, Live, Counted, Alive
  <2> QED BY <1>8, <2>1 DEF PendingIsLiveWork, vars, stateVars
<1>9. \A c, d \in Coros : ~EndCancelled(c) /\ ~CancelTask(c, d)
  BY DEF LInv, EndCancelled, CancelTask
<1> QED
  BY <1>1, <1>2, <1>3, <1>4, <1>5, <1>6, <1>7, <1>8, <1>9 DEF Next, Step, Halt

\* If nothing is cancelled, pending_count is the number of unfinished coroutines that
\* were counted, so that an export exits as soon as its work is done (spawn, _poll).
THEOREM CountIsExact ==
  ASSUME "cancel" \notin Ops
  PROVE  Spec => []PendingIsLiveWork
<1>1. Init => PendingIsLiveWork
  <2> SUFFICES ASSUME Init, NEW t \in Exports PROVE pending[t] = Cardinality(Live(t))
    BY DEF PendingIsLiveWork
  <2>1. Live(t) = {}
    BY DEF Init, Live, Counted
  <2> QED BY <2>1, FS_EmptySet DEF Init
<1>2. Init => LInv
  BY InitsMatch
<1>3. IInv /\ LInv /\ [Next]_vars => LInv'
  BY StepsMatch
<1>4. IInv /\ LInv /\ PendingIsLiveWork /\ [Next]_vars => PendingIsLiveWork'
  BY CountStep
<1> QED BY <1>1, <1>2, <1>3, <1>4, InductiveInvariant, PTL DEF Spec

-----------------------------------------------------------------------------
(* Each way of being suspended has something that will end it.             *)

\* The future of a waitable is still awaited when its event arrives.
Awaited ==
  \A t \in Exports, w \in Waitables : futures[t][w] # NoCoro => awaits[futures[t][w]] = w

\* Who joins waits for a younger coroutine of the same export.
Joining ==
  /\ \A c \in Coros : st[c] = "joining" => \E d \in Coros : c < d /\ Alive(d) /\ joiner[d] = c
  /\ \A d \in Coros : joiner[d] # NoCoro => owner[joiner[d]] = owner[d]

\* Who waits for a lock is in its queue, and the lock is held by a coroutine
\* that waits neither for a lock nor for another coroutine.
Locking ==
  \A c \in Coros : st[c] = "locking" =>
    In(c, queue[LockOf[owner[c]]]) /\ holder[LockOf[owner[c]]] # NoCoro

MayHold == {"ready", "running", "importing"}

Holding ==
  \A l \in Locks : holder[l] # NoCoro =>
    st[holder[l]] \in MayHold /\ LockOf[owner[holder[l]]] = l

SlotHeld == \A t \in Exports : slot[t] <=> phase[t] = "waiting"

Caused ==
  \A t \in Exports : phase[t] = "waiting" =>
    handles[t] = <<>> /\ \E w \in Waitables : joined[w] = t

Waits == Awaited /\ Joining /\ Locking /\ Holding /\ SlotHeld /\ Caused

\* Every export has a lock of its own.
LocksAreOwn == \A t, u \in Exports : LockOf[t] = LockOf[u] => t = u

-----------------------------------------------------------------------------
(* Frames: what a step must leave alone to keep each part.                 *)

LEMMA JoiningKept ==
  ASSUME IInv, Joining, joiner' = joiner,
         \A c \in Coros : st'[c] = "joining" => st[c] = "joining",
         \A c \in Coros : Alive(c) => Alive(c)',
         \A c \in Coros : st[c] # "unborn" => owner'[c] = owner[c]
  PROVE  Joining'
<1> USE DEF IInv, TypeOK, CoroTypeOK
<1>1. \A c \in Coros : st'[c] = "joining" => \E d \in Coros : c < d /\ Alive(d)' /\ joiner'[d] = c
  BY DEF Joining
<1>2. \A d \in Coros : joiner'[d] # NoCoro => owner'[joiner'[d]] = owner'[d]
  <2> SUFFICES ASSUME NEW d \in Coros, joiner[d] # NoCoro PROVE owner'[joiner[d]] = owner'[d]
    OBVIOUS
  <2>1. st[d] # "unborn" /\ owner[d] # NoExport
    BY DEF Joins, Roles
  <2>2. joiner[d] \in Coros /\ owner[joiner[d]] = owner[d]
    BY DEF Joining
  <2>3. st[joiner[d]] # "unborn"
    BY <2>1, <2>2 DEF Roles
  <2> QED BY <2>1, <2>2, <2>3
<1> QED BY <1>1, <1>2 DEF Joining

LEMMA LocksKept ==
  ASSUME IInv, Locking, Holding, UNCHANGED lockVars,
         \A c \in Coros : st'[c] = "locking" => st[c] = "locking",
         \A c \in Coros : HoldsLock(c) /\ st[c] \in MayHold => st'[c] \in MayHold,
         \A c \in Coros : st[c] # "unborn" => owner'[c] = owner[c]
  PROVE  Locking' /\ Holding'
<1> USE DEF IInv, TypeOK
<1>1. holder' = holder /\ queue' = queue
  BY DEF lockVars
<1>2. Locking'
  <2> SUFFICES ASSUME NEW c \in Coros, st'[c] = "locking"
               PROVE  In(c, queue[LockOf[owner'[c]]]) /\ holder[LockOf[owner'[c]]] # NoCoro
    BY <1>1 DEF Locking
  <2>1. st[c] = "locking" /\ owner'[c] = owner[c]
    OBVIOUS
  <2> QED BY <2>1 DEF Locking
<1>3. Holding'
  <2> SUFFICES ASSUME NEW l \in Locks, holder[l] # NoCoro
               PROVE  st'[holder[l]] \in MayHold /\ LockOf[owner'[holder[l]]] = l
    BY <1>1 DEF Holding
  <2>1. holder[l] \in Coros /\ st[holder[l]] \in MayHold /\ LockOf[owner[holder[l]]] = l
    BY DEF Holding, LockTypeOK
  <2>2. st[holder[l]] # "unborn" /\ HoldsLock(holder[l])
    BY <2>1 DEF MayHold, HoldsLock
  <2> QED BY <2>1, <2>2
<1> QED BY <1>2, <1>3

\* Only the export inside the guest schedules its coroutines and takes its events.
LEMMA CausedKept ==
  ASSUME Caused, NEW r \in Exports,
         \A t \in Exports : phase'[t] = "waiting" => phase[t] = "waiting" /\ t # r,
         \A t \in Exports \ {r} : handles'[t] = handles[t],
         \A w \in Waitables : joined[w] \in Exports \ {r} => joined'[w] = joined[w]
  PROVE  Caused'
BY DEF Caused

-----------------------------------------------------------------------------
(* The host's entries.                                                     *)

LEMMA CreatedWaits ==
  ASSUME IInv, Waits, NEW c \in Coros, NEW t \in Exports, NEW k, CreateTask(c, t, k),
         UNCHANGED <<futures, joined, slot, lockVars>>,
         \/ phase[t] = "new" /\ phase' = [phase EXCEPT ![t] = "running"]
         \/ phase[t] = "running" /\ phase' = phase
  PROVE  Waits'
<1> USE DEF IInv, TypeOK
<1>1. /\ st[c] = "unborn" /\ st' = [st EXCEPT ![c] = "ready"] /\ owner' = [owner EXCEPT ![c] = t]
      /\ handles' = [handles EXCEPT ![t] = Append(@, c)] /\ UNCHANGED <<awaits, joiner>>
  BY DEF CreateTask
<1>2. Awaited'
  BY <1>1 DEF Waits, Awaited
<1>3. /\ \A x \in Coros : st'[x] \in {"joining", "locking"} => st'[x] = st[x]
      /\ \A x \in Coros : Alive(x) => Alive(x)'
      /\ \A x \in Coros : st[x] # "unborn" => owner'[x] = owner[x]
      /\ \A x \in Coros : st[x] \in MayHold => st'[x] \in MayHold
  BY <1>1 DEF CoroTypeOK, Alive, MayHold
<1>4. Joining'
  BY <1>1, <1>3, JoiningKept DEF Waits
<1>5. Locking' /\ Holding'
  BY <1>3, LocksKept DEF Waits
<1>6. SlotHeld' /\ Caused'
  <2>1. \A u \in Exports : phase'[u] = "waiting" <=> phase[u] = "waiting"
    BY DEF HostTypeOK
  <2>2. \A u \in Exports \ {t} : handles'[u] = handles[u]
    BY <1>1
  <2>3. phase[t] # "waiting"
    OBVIOUS
  <2> QED BY <2>1, <2>2, <2>3, CausedKept DEF Waits, SlotHeld
<1> QED BY <1>2, <1>4, <1>5, <1>6 DEF Waits

LEMMA EnteredWaits ==
  ASSUME IInv, Waits, NEW t \in Exports,
         UnsupportedEvent(t) \/ \E w \in Waitables : SubtaskStarted(t, w)
  PROVE  Waits'
<1> USE DEF IInv, TypeOK
<1>1. /\ Enter(t) /\ UNCHANGED <<joined, futures, handles, st, owner, awaits, joiner, lockVars>>
  BY DEF UnsupportedEvent, SubtaskStarted, stateVars, coroVars
<1>2. Joining'
  BY <1>1, JoiningKept DEF Waits, Alive
<1>3. Locking' /\ Holding'
  BY <1>1, LocksKept DEF Waits
<1>4. Caused'
  BY <1>1, CausedKept DEF Enter, HostTypeOK, Waits
<1>5. SlotHeld'
  BY <1>1 DEF Enter, HostTypeOK, Waits, SlotHeld
<1> QED BY <1>1, <1>2, <1>3, <1>4, <1>5 DEF Waits, Awaited

\* An event always finds the coroutine that awaits it.
LEMMA AnsweredWaits ==
  ASSUME IInv, Waits, NEW t \in Exports, NEW w \in Waitables, Answer(t, w)
  PROVE  Waits' /\ trap' = trap
<1> USE DEF IInv, TypeOK
<1> PICK c \in Coros \cup {NoCoro} : c = futures[t][w]
  BY DEF StateTypeOK
<1>1. c \in Coros /\ awaits[c] = w /\ owner[c] = t /\ st[c] = "importing"
  BY CoroFacts DEF Answer, WaitablesRouted, Waits, Awaited
<1>2. /\ Enter(t) /\ joined' = [joined EXCEPT ![w] = NoExport]
      /\ futures' = [futures EXCEPT ![t][w] = NoCoro]
      /\ st' = [st EXCEPT ![c] = "ready"] /\ handles' = [handles EXCEPT ![t] = Append(@, c)]
      /\ awaits' = [awaits EXCEPT ![c] = NoWaitable]
      /\ UNCHANGED <<trap, owner, joiner, lockVars>>
  BY <1>1, CoroFacts DEF Answer, SetResult, PopFuture, Resume, CallSoon
<1>3. Awaited'
  <2> SUFFICES ASSUME NEW u \in Exports, NEW v \in Waitables, futures'[u][v] # NoCoro
               PROVE  awaits'[futures'[u][v]] = v
    BY DEF Awaited
  <2>1. futures'[u][v] = futures[u][v] /\ ~(u = t /\ v = w)
    BY <1>2 DEF StateTypeOK
  <2>2. awaits[futures[u][v]] = v /\ futures[u][v] \in Coros /\ owner[futures[u][v]] = u
    BY <2>1 DEF Waits, Awaited, StateTypeOK, WaitablesRouted
  <2>3. futures[u][v] # c
    BY <1>1, <2>1, <2>2
  <2> QED BY <1>2, <2>1, <2>2, <2>3 DEF CoroTypeOK
<1>4. /\ \A x \in Coros : st'[x] \in {"joining", "locking"} => st'[x] = st[x]
      /\ \A x \in Coros : Alive(x) => Alive(x)'
      /\ \A x \in Coros : st[x] \in MayHold => st'[x] \in MayHold
  BY <1>1, <1>2 DEF CoroTypeOK, Alive, MayHold
<1>5. Joining'
  BY <1>2, <1>4, JoiningKept DEF Waits
<1>6. Locking' /\ Holding'
  BY <1>2, <1>4, LocksKept DEF Waits
<1>7. Caused'
  <2>1. joined[w] = t
    BY DEF Answer
  <2> QED BY <1>2, <2>1, CausedKept DEF Enter, HostTypeOK, Waits
<1>8. SlotHeld'
  BY <1>2 DEF Enter, HostTypeOK, Waits, SlotHeld
<1> QED BY <1>2, <1>3, <1>5, <1>6, <1>7, <1>8 DEF Waits

-----------------------------------------------------------------------------
(* The poll.                                                               *)

LEMMA PolledWaits ==
  ASSUME IInv, Waits, NEW t \in Exports,
         TakeHandles(t) \/ RunHandle(t) \/ PollRaises(t) \/ Exit(t)
  PROVE  Waits'
<1> USE DEF IInv, TypeOK
<1>1. /\ phase[t] = "running" /\ phase'[t] # "waiting"
      /\ \A u \in Exports \ {t} : phase'[u] = phase[u]
      /\ UNCHANGED <<slot, joined, futures, owner, awaits, joiner, lockVars>>
      /\ \A u \in Exports \ {t} : handles'[u] = handles[u]
  BY DEF TakeHandles, RunHandle, PollRaises, Exit, DropWaitableSet, PollDone, Polling, hostVars,
     stateVars, coroVars, HostTypeOK, StateTypeOK
<1>2. \A x \in Coros : st'[x] = st[x] \/ (st[x] = "ready" /\ st'[x] = "running")
  <2>1. CASE RunHandle(t)
    <3>1. Head(batch) \in Coros /\ In(Head(batch), batch)
      BY <2>1, TailIn DEF RunHandle, LoopTypeOK, ScheduledOnce
    <3> PICK d \in Coros : d = Head(batch)
      BY <3>1
    <3>2. st[d] = "ready" /\ st' = [st EXCEPT ![d] = "running"]
      BY <2>1, <3>1 DEF RunHandle, ScheduledOnce
    <3> QED BY <3>2 DEF CoroTypeOK
  <2>2. CASE TakeHandles(t) \/ PollRaises(t) \/ Exit(t)
    BY <2>2 DEF TakeHandles, PollRaises, Exit, coroVars
  <2> QED BY <2>1, <2>2
<1>3. Awaited'
  BY <1>1 DEF Waits, Awaited
<1>4. Joining'
  BY <1>1, <1>2, JoiningKept DEF Waits, Alive
<1>5. Locking' /\ Holding'
  BY <1>1, <1>2, LocksKept DEF Waits, MayHold
<1>6. SlotHeld'
  BY <1>1 DEF Waits, SlotHeld
<1>7. Caused'
  BY <1>1, CausedKept DEF Waits
<1> QED BY <1>3, <1>4, <1>5, <1>6, <1>7 DEF Waits

\* A nonempty set of coroutines has a youngest one.
LEMMA YoungestExists ==
  ASSUME NEW S \in SUBSET Coros, S # {}
  PROVE  \E c \in S : \A d \in S : d <= c
<1>0. NumCoros \in Nat
  BY ConstantsAssumption DEF ConstantsAssumption
<1> DEFINE T == {k \in Nat : \E c \in S : k = NumCoros - c}
<1>1. T \subseteq Nat /\ T # {}
  <2>1. PICK c \in S : TRUE
    OBVIOUS
  <2>2. NumCoros - c \in Nat
    BY <1>0 DEF Coros
  <2> QED BY <2>2
<1> HIDE DEF T
<1>2. PICK x \in T : \A y \in T : ~(<<y, x>> \in OpToRel(<, Nat))
  BY <1>1, NatLessThanWellFounded, WFMin, Zenon
<1>3. \A y \in T : ~(y < x)
  <2> SUFFICES ASSUME NEW y \in T, y < x PROVE FALSE
    OBVIOUS
  <2>1. <<y, x>> \in {ss \in Nat \X Nat : ss[1] < ss[2]}
    BY <1>1
  <2> QED BY <1>2, <2>1, Zenon DEF OpToRel
<1> USE DEF T
<1>4. PICK c \in S : x = NumCoros - c
  OBVIOUS
<1>5. ASSUME NEW d \in S PROVE d <= c
  <2>1. d \in 1 .. NumCoros /\ c \in 1 .. NumCoros
    BY DEF Coros
  <2>2. NumCoros - d \in T
    BY <1>0, <2>1
  <2>3. ~(NumCoros - d < NumCoros - c)
    BY <1>3, <1>4, <2>2
  <2> QED BY <1>0, <2>1, <2>3
<1> QED BY <1>5

\* When the poll has run every step and work remains, some coroutine of the export
\* awaits an import: the youngest one alive joins nobody, and whoever holds the lock
\* it may wait for belongs to the same export and waits for no lock.
LEMMA PendingHasImport ==
  ASSUME IInv, Waits, PendingIsLiveWork, LocksAreOwn, NEW t \in Exports,
         PollDone(t), ~WorkDone(t)
  PROVE  wset[t] /\ \E w \in Waitables : joined[w] = t
<1> USE DEF IInv, TypeOK
<1> DEFINE Mine == {c \in Coros : Alive(c) /\ owner[c] = t}
<1>1. active = NoCoro /\ batch = <<>> /\ handles[t] = <<>> /\ pending[t] # 0
  BY DEF PollDone, Polling, WorkDone
<1>2. Mine # {}
  <2>1. Cardinality(Live(t)) # 0
    BY <1>1 DEF PendingIsLiveWork
  <2>2. Live(t) # {}
    BY <2>1, FS_EmptySet
  <2> QED BY <2>2 DEF Live
<1>3. \A c \in Mine : st[c] \in {"importing", "joining", "locking"}
  <2> SUFFICES ASSUME NEW c \in Mine PROVE st[c] \in {"importing", "joining", "locking"}
    OBVIOUS
  <2>1. st[c] # "running"
    BY <1>1, CoroFacts DEF Roles
  <2>2. st[c] # "ready"
    BY <1>1, EmptyIn DEF ScheduledOnce
  <2> QED BY <2>1, <2>2 DEF Alive, CoroTypeOK, Statuses
<1>4. PICK c \in Mine : \A d \in Mine : d <= c
  <2> HIDE DEF Mine
  <2>1. Mine \in SUBSET Coros
    BY DEF Mine
  <2> QED BY <1>2, <2>1, YoungestExists
<1>5. st[c] # "joining"
  <2> SUFFICES ASSUME st[c] = "joining" PROVE FALSE
    OBVIOUS
  <2>1. PICK d \in Coros : c < d /\ Alive(d) /\ joiner[d] = c
    BY DEF Waits, Joining
  <2>2. owner[d] = t
    BY <2>1, CoroFacts DEF Waits, Joining
  <2>3. d \in Mine /\ ~(d <= c)
    BY <2>1, <2>2, ConstantsAssumption DEF Coros, ConstantsAssumption
  <2> QED BY <1>4, <2>3
<1>6. PICK i \in Coros : st[i] = "importing" /\ owner[i] = t
  <2>1. CASE st[c] = "importing"
    BY <2>1
  <2>2. CASE st[c] = "locking"
    <3> PICK h \in Coros \cup {NoCoro} : h = holder[LockOf[t]]
      BY CoroFacts DEF LockTypeOK
    <3>1. h \in Coros /\ st[h] \in MayHold /\ LockOf[owner[h]] = LockOf[t]
      BY <2>2, CoroFacts DEF Waits, Locking, Holding
    <3>2. owner[h] \in Exports
      BY <3>1 DEF Roles, CoroTypeOK, MayHold
    <3>3. owner[h] = t
      BY <3>1, <3>2 DEF LocksAreOwn
    <3>4. h \in Mine
      BY <3>1, <3>3 DEF Alive, MayHold
    <3> QED BY <1>3, <3>1, <3>3, <3>4 DEF MayHold
  <2> QED BY <1>3, <1>5, <2>1, <2>2
<1>7. awaits[i] \in Waitables /\ futures[t][awaits[i]] = i
  BY <1>6 DEF WaitablesRouted, CoroTypeOK
<1> QED BY <1>7, CoroFacts DEF WaitablesRouted

LEMMA WaitWaits ==
  ASSUME IInv, Waits, PendingIsLiveWork, LocksAreOwn, NEW t \in Exports, Wait(t)
  PROVE  Waits' /\ trap' = trap
<1> USE DEF IInv, TypeOK
<1>1. wset[t] /\ \E w \in Waitables : joined[w] = t
  BY PendingHasImport DEF Wait
<1>2. /\ handles[t] = <<>>
      /\ slot' = [slot EXCEPT ![t] = TRUE] /\ phase' = [phase EXCEPT ![t] = "waiting"]
      /\ UNCHANGED <<trap, joined, futures, handles, st, owner, awaits, joiner, lockVars>>
  BY <1>1 DEF Wait, PollDone, stateVars, coroVars
<1>3. Awaited'
  BY <1>2 DEF Waits, Awaited
<1>4. Joining'
  BY <1>2, JoiningKept DEF Waits, Alive
<1>5. Locking' /\ Holding'
  BY <1>2, LocksKept DEF Waits
<1>6. SlotHeld'
  BY <1>2 DEF Waits, SlotHeld, HostTypeOK
<1>7. Caused'
  BY <1>1, <1>2 DEF Waits, Caused, HostTypeOK
<1> QED BY <1>2, <1>3, <1>4, <1>5, <1>6, <1>7 DEF Waits

-----------------------------------------------------------------------------
(* The steps of a coroutine.                                               *)

\* What a step inside the guest cannot touch: the exports that wait.
LEMMA InsideWaits ==
  ASSUME IInv, Waits, NEW r \in Exports, phase[r] = "running", UNCHANGED <<phase, slot>>,
         \A t \in Exports \ {r} : handles'[t] = handles[t],
         \A w \in Waitables : joined[w] # NoExport => joined'[w] = joined[w]
  PROVE  SlotHeld' /\ Caused'
<1>1. SlotHeld'
  BY DEF Waits, SlotHeld
<1>2. Caused'
  BY CausedKept, CoroFacts DEF Waits
<1> QED BY <1>1, <1>2

LEMMA AwaitWaits ==
  ASSUME IInv, Waits, NEW c \in Coros, NEW w \in Waitables,
         NEW s \in {"starting", "started"}, AwaitResult(c, w, s)
  PROVE  Waits'
<1> USE DEF IInv, TypeOK
<1> PICK r \in Exports : r = owner[c] /\ phase[r] = "running" /\ st[c] = "running"
  BY Stepped DEF AwaitResult
<1>1. /\ call[w] = "free" /\ futures' = [futures EXCEPT ![r][w] = c]
      /\ joined' = [joined EXCEPT ![w] = r] /\ awaits' = [awaits EXCEPT ![c] = w]
      /\ st' = [st EXCEPT ![c] = "importing"]
      /\ UNCHANGED <<phase, slot, handles, owner, joiner, lockVars>>
  BY DEF AwaitResult, JoinSet, Suspend
<1>2. joined[w] = NoExport /\ awaits[c] = NoWaitable
  BY <1>1 DEF WaitablesRouted
<1>3. Awaited'
  <2> SUFFICES ASSUME NEW u \in Exports, NEW v \in Waitables, futures'[u][v] # NoCoro
               PROVE  awaits'[futures'[u][v]] = v
    BY DEF Awaited
  <2>1. CASE u = r /\ v = w
    BY <1>1, <2>1 DEF StateTypeOK, CoroTypeOK
  <2>2. CASE ~(u = r /\ v = w)
    <3>1. futures'[u][v] = futures[u][v] /\ futures[u][v] \in Coros
      BY <1>1, <2>2 DEF StateTypeOK
    <3>2. awaits[futures[u][v]] = v
      BY <3>1 DEF Waits, Awaited
    <3>3. futures[u][v] # c
      BY <1>2, <3>2, CoroFacts
    <3> QED BY <1>1, <3>1, <3>2, <3>3 DEF CoroTypeOK
  <2> QED BY <2>1, <2>2
<1>4. /\ \A x \in Coros : st'[x] \in {"joining", "locking"} => st'[x] = st[x]
      /\ \A x \in Coros : Alive(x) => Alive(x)'
      /\ \A x \in Coros : st[x] \in MayHold => st'[x] \in MayHold
  BY <1>1 DEF CoroTypeOK, Alive, MayHold
<1>5. Joining'
  BY <1>1, <1>4, JoiningKept DEF Waits
<1>6. Locking' /\ Holding'
  BY <1>1, <1>4, LocksKept DEF Waits
<1>7. SlotHeld' /\ Caused'
  <2>1. \A v \in Waitables : joined[v] # NoExport => joined'[v] = joined[v]
    BY <1>1, <1>2 DEF HostTypeOK
  <2> QED BY <1>1, <2>1, InsideWaits
<1> QED BY <1>3, <1>5, <1>6, <1>7 DEF Waits

LEMMA YieldWaits ==
  ASSUME IInv, Waits, NEW c \in Coros, YieldNow(c)
  PROVE  Waits'
<1> USE DEF IInv, TypeOK
<1> PICK r \in Exports : r = owner[c] /\ phase[r] = "running" /\ st[c] = "running"
  BY Stepped DEF YieldNow
<1>1. /\ st' = [st EXCEPT ![c] = "ready"] /\ handles' = [handles EXCEPT ![r] = Append(@, c)]
      /\ UNCHANGED <<phase, slot, joined, futures, awaits, owner, joiner, lockVars>>
  BY DEF YieldNow, Resume, CallSoon, hostVars
<1>2. /\ \A x \in Coros : st'[x] \in {"joining", "locking"} => st'[x] = st[x]
      /\ \A x \in Coros : Alive(x) => Alive(x)'
      /\ \A x \in Coros : st[x] \in MayHold => st'[x] \in MayHold
  BY <1>1 DEF CoroTypeOK, Alive, MayHold
<1>3. Joining'
  BY <1>1, <1>2, JoiningKept DEF Waits
<1>4. Locking' /\ Holding'
  BY <1>1, <1>2, LocksKept DEF Waits
<1>5. SlotHeld' /\ Caused'
  BY <1>1, InsideWaits
<1> QED BY <1>1, <1>3, <1>4, <1>5 DEF Waits, Awaited

LEMMA JoinWaits ==
  ASSUME IInv, Waits, NEW c \in Coros, NEW d \in Coros, Join(c, d)
  PROVE  Waits'
<1> USE DEF IInv, TypeOK
<1> PICK r \in Exports : r = owner[c] /\ phase[r] = "running" /\ st[c] = "running"
  BY Stepped DEF Join
<1>1. /\ c < d /\ Alive(d) /\ owner[d] = owner[c] /\ joiner[d] = NoCoro /\ ~HoldsLock(c)
      /\ joiner' = [joiner EXCEPT ![d] = c] /\ st' = [st EXCEPT ![c] = "joining"]
      /\ UNCHANGED <<phase, slot, handles, joined, futures, awaits, owner, lockVars>>
  BY DEF Join, Suspend, hostVars, stateVars
<1>2. \A x \in Coros : Alive(x) => Alive(x)'
  BY <1>1 DEF Alive, CoroTypeOK
<1>3. Joining'
  <2>1. ASSUME NEW x \in Coros, st'[x] = "joining"
        PROVE  \E y \in Coros : x < y /\ Alive(y)' /\ joiner'[y] = x
    <3>1. CASE x = c
      BY <1>1, <1>2, <3>1 DEF CoroTypeOK
    <3>2. CASE x # c
      <4>1. st[x] = "joining"
        BY <1>1, <2>1, <3>2 DEF CoroTypeOK
      <4>2. PICK y \in Coros : x < y /\ Alive(y) /\ joiner[y] = x
        BY <4>1 DEF Waits, Joining
      <4>3. joiner'[y] = x
        BY <1>1, <4>2, CoroFacts DEF CoroTypeOK
      <4> QED BY <1>2, <4>2, <4>3
    <3> QED BY <3>1, <3>2
  <2>2. ASSUME NEW y \in Coros, joiner'[y] # NoCoro
        PROVE  owner'[joiner'[y]] = owner'[y]
    BY <1>1, <2>2 DEF Waits, Joining, CoroTypeOK
  <2> QED BY <2>1, <2>2 DEF Joining
<1>4. Locking' /\ Holding'
  <2>1. \A x \in Coros : st'[x] = "locking" => st[x] = "locking"
    BY <1>1 DEF CoroTypeOK
  <2>2. \A x \in Coros : HoldsLock(x) /\ st[x] \in MayHold => st'[x] \in MayHold
    BY <1>1 DEF CoroTypeOK
  <2> QED BY <1>1, <2>1, <2>2, LocksKept DEF Waits
<1>5. SlotHeld' /\ Caused'
  BY <1>1, InsideWaits
<1> QED BY <1>1, <1>3, <1>4, <1>5 DEF Waits, Awaited

LEMMA AcquireWaits ==
  ASSUME IInv, Waits, NEW c \in Coros, Acquire(c)
  PROVE  Waits'
<1> USE DEF IInv, TypeOK
<1> PICK r \in Exports : r = owner[c] /\ phase[r] = "running" /\ st[c] = "running"
  BY Stepped DEF Acquire
<1> PICK l \in Locks : l = LockOf[r]
  BY CoroFacts
<1>1. /\ ~HoldsLock(c)
      /\ UNCHANGED <<phase, slot, handles, joined, futures, awaits, owner, joiner>>
      /\ \/ holder[l] = NoCoro /\ holder' = [holder EXCEPT ![l] = c] /\ UNCHANGED <<queue, st>>
         \/ /\ holder[l] # NoCoro /\ queue' = [queue EXCEPT ![l] = Append(@, c)]
            /\ st' = [st EXCEPT ![c] = "locking"] /\ UNCHANGED holder
  BY DEF Acquire, Suspend, hostVars, stateVars
<1>2. Joining'
  <2>1. /\ \A x \in Coros : st'[x] = "joining" => st[x] = "joining"
        /\ \A x \in Coros : Alive(x) => Alive(x)'
    BY <1>1 DEF CoroTypeOK, Alive
  <2> QED BY <1>1, <2>1, JoiningKept DEF Waits
<1>3. CASE holder[l] = NoCoro
  <2>1. holder' = [holder EXCEPT ![l] = c] /\ queue' = queue /\ st' = st
    BY <1>1, <1>3
  <2>2. Locking'
    BY <1>1, <2>1, CoroFacts DEF Waits, Locking, LockTypeOK
  <2>3. Holding'
    BY <1>1, <2>1 DEF Waits, Holding, LockTypeOK, MayHold
  <2> QED BY <2>2, <2>3, <1>1, <1>2, InsideWaits DEF Waits, Awaited
<1>4. CASE holder[l] # NoCoro
  <2>1. /\ queue' = [queue EXCEPT ![l] = Append(queue[l], c)] /\ holder' = holder
        /\ st' = [st EXCEPT ![c] = "locking"]
    BY <1>1, <1>4
  <2>2. /\ \A x : In(x, queue'[l]) <=> In(x, queue[l]) \/ x = c
        /\ \A m \in Locks \ {l} : queue'[m] = queue[m]
    <3>1. queue \in [Locks -> Seq(Coros)] /\ queue[l] \in Seq(Coros)
      BY DEF LockTypeOK
    <3>2. queue'[l] = Append(queue[l], c)
      BY <2>1, <3>1
    <3> QED BY <2>1, <3>1, <3>2, AppendIn
  <2>3. Locking'
    <3> SUFFICES ASSUME NEW x \in Coros, st'[x] = "locking"
                 PROVE  In(x, queue'[LockOf[owner[x]]]) /\ holder[LockOf[owner[x]]] # NoCoro
      BY <1>1, <2>1 DEF Locking
    <3>1. CASE x = c
      BY <1>4, <2>2, <3>1
    <3>2. CASE x # c
      <4>1. st[x] = "locking"
        BY <2>1, <3>2 DEF CoroTypeOK
      <4>2. In(x, queue[LockOf[owner[x]]]) /\ holder[LockOf[owner[x]]] # NoCoro
        BY <4>1 DEF Waits, Locking
      <4>3. LockOf[owner[x]] \in Locks
        BY <4>1, CoroFacts DEF Roles, CoroTypeOK
      <4> QED BY <2>2, <4>2, <4>3
    <3> QED BY <3>1, <3>2
  <2>4. Holding'
    <3> SUFFICES ASSUME NEW m \in Locks, holder[m] # NoCoro
                 PROVE  st'[holder[m]] \in MayHold /\ LockOf[owner[holder[m]]] = m
      BY <1>1, <2>1 DEF Holding
    <3>1. holder[m] \in Coros /\ holder[m] # c
      BY <1>1 DEF HoldsLock, LockTypeOK
    <3> QED BY <2>1, <3>1 DEF Waits, Holding, CoroTypeOK
  <2> QED BY <2>3, <2>4, <1>1, <1>2, InsideWaits DEF Waits, Awaited
<1> QED BY <1>3, <1>4

\* The lock goes to the head of the queue, a coroutine of the same export.
LEMMA ReleaseWaits ==
  ASSUME IInv, Waits, LocksAreOwn, NEW c \in Coros, Release(c)
  PROVE  Waits'
<1> USE DEF IInv, TypeOK
<1> PICK r \in Exports : r = owner[c] /\ phase[r] = "running" /\ st[c] = "running"
  BY Stepped DEF Release
<1> PICK l \in Locks : l = LockOf[r]
  BY CoroFacts
<1>1. /\ holder[l] = c /\ UNCHANGED <<phase, slot, joined, futures, awaits, owner, joiner>>
      /\ \/ /\ queue[l] = <<>> /\ holder' = [holder EXCEPT ![l] = NoCoro]
            /\ UNCHANGED <<queue, st, handles>>
         \/ /\ queue[l] # <<>> /\ holder' = [holder EXCEPT ![l] = Head(queue[l])]
            /\ queue' = [queue EXCEPT ![l] = Tail(queue[l])]
            /\ st' = [st EXCEPT ![Head(queue[l])] = "ready"]
            /\ handles' = [handles EXCEPT ![owner[Head(queue[l])]] = Append(@, Head(queue[l]))]
  BY DEF Release, Resume, CallSoon, hostVars
<1>2. queue \in [Locks -> Seq(Coros)] /\ queue[l] \in Seq(Coros) /\ Distinct(queue[l])
  BY DEF LockTypeOK, Queues
<1>3. CASE queue[l] = <<>>
  <2>1. /\ holder' = [holder EXCEPT ![l] = NoCoro] /\ UNCHANGED <<queue, st, handles>>
    BY <1>1, <1>3
  <2>2. Joining'
    BY <1>1, <2>1, JoiningKept DEF Waits, Alive
  <2>3. Locking'
    <3> SUFFICES ASSUME NEW x \in Coros, st[x] = "locking"
                 PROVE  In(x, queue[LockOf[owner[x]]]) /\ holder'[LockOf[owner[x]]] # NoCoro
      BY <1>1, <2>1 DEF Locking
    <3>1. In(x, queue[LockOf[owner[x]]]) /\ holder[LockOf[owner[x]]] # NoCoro
      BY DEF Waits, Locking
    <3>2. LockOf[owner[x]] # l
      BY <1>3, <3>1, EmptyIn
    <3>3. LockOf[owner[x]] \in Locks
      BY CoroFacts DEF Roles, CoroTypeOK
    <3> QED BY <2>1, <3>1, <3>2, <3>3 DEF LockTypeOK
  <2>4. Holding'
    BY <1>1, <2>1 DEF Waits, Holding, LockTypeOK
  <2>5. SlotHeld' /\ Caused'
    BY <1>1, <2>1, InsideWaits
  <2>6. Awaited'
    BY <1>1 DEF Waits, Awaited
  <2> QED BY <2>2, <2>3, <2>4, <2>5, <2>6 DEF Waits
<1>4. CASE queue[l] # <<>>
  <2>1. Head(queue[l]) \in Coros /\ In(Head(queue[l]), queue[l])
    BY <1>2, <1>4, TailIn
  <2> PICK h \in Coros : h = Head(queue[l])
    BY <2>1
  <2>2. st[h] = "locking" /\ LockOf[owner[h]] = l
    BY <2>1 DEF Queues
  <2>3. owner[h] = r
    BY <2>2, CoroFacts DEF Roles, CoroTypeOK, LocksAreOwn
  <2>4. /\ holder' = [holder EXCEPT ![l] = h] /\ queue' = [queue EXCEPT ![l] = Tail(queue[l])]
        /\ st' = [st EXCEPT ![h] = "ready"] /\ handles' = [handles EXCEPT ![r] = Append(@, h)]
    BY <1>1, <1>4, <2>3
  <2>5. /\ \A x : In(x, queue'[l]) <=> In(x, queue[l]) /\ x # h
        /\ \A m \in Locks \ {l} : queue'[m] = queue[m]
    <3>1. queue'[l] = Tail(queue[l])
      BY <1>2, <2>4
    <3> QED BY <1>2, <1>4, <2>4, <3>1, TailIn
  <2>6. Joining'
    <3>1. /\ \A x \in Coros : st'[x] = "joining" => st[x] = "joining"
          /\ \A x \in Coros : Alive(x) => Alive(x)'
      BY <2>4 DEF CoroTypeOK, Alive
    <3> QED BY <1>1, <3>1, JoiningKept DEF Waits
  <2>7. Locking'
    <3> SUFFICES ASSUME NEW x \in Coros, st'[x] = "locking"
                 PROVE  In(x, queue'[LockOf[owner[x]]]) /\ holder'[LockOf[owner[x]]] # NoCoro
      BY <1>1 DEF Locking
    <3>1. st[x] = "locking" /\ x # h
      BY <2>4 DEF CoroTypeOK
    <3>2. In(x, queue[LockOf[owner[x]]]) /\ holder[LockOf[owner[x]]] # NoCoro
      BY <3>1 DEF Waits, Locking
    <3>3. LockOf[owner[x]] \in Locks
      BY <3>1, CoroFacts DEF Roles, CoroTypeOK
    <3>4. In(x, queue'[LockOf[owner[x]]])
      BY <2>5, <3>1, <3>2, <3>3
    <3>5. holder'[LockOf[owner[x]]] # NoCoro
      BY <2>4, <3>2, <3>3, CoroFacts DEF LockTypeOK
    <3> QED BY <3>4, <3>5
  <2>8. Holding'
    <3> SUFFICES ASSUME NEW m \in Locks, holder'[m] # NoCoro
                 PROVE  st'[holder'[m]] \in MayHold /\ LockOf[owner[holder'[m]]] = m
      BY <1>1 DEF Holding
    <3>1. CASE m = l
      BY <2>2, <2>4, <3>1 DEF LockTypeOK, CoroTypeOK, MayHold
    <3>2. CASE m # l
      <4>1. holder'[m] = holder[m] /\ holder[m] \in Coros
        BY <2>4, <3>2 DEF LockTypeOK
      <4>2. st[holder[m]] \in MayHold /\ LockOf[owner[holder[m]]] = m
        BY <4>1 DEF Waits, Holding
      <4> QED BY <2>4, <4>1, <4>2 DEF CoroTypeOK, MayHold
    <3> QED BY <3>1, <3>2
  <2>9. SlotHeld' /\ Caused'
    <3>1. \A u \in Exports \ {r} : handles'[u] = handles[u]
      BY <2>4 DEF StateTypeOK
    <3> QED BY <1>1, <3>1, InsideWaits
  <2>10. Awaited'
    BY <1>1 DEF Waits, Awaited
  <2> QED BY <2>6, <2>7, <2>8, <2>9, <2>10 DEF Waits
<1> QED BY <1>3, <1>4

\* Who joined the coroutine that ends belongs to its export.
LEMMA EndWaits ==
  ASSUME IInv, Waits, NEW c \in Coros, EndTask(c)
  PROVE  Waits'
<1> USE DEF IInv, TypeOK
<1> PICK r \in Exports : r = owner[c] /\ phase[r] = "running" /\ st[c] = "running"
  BY Stepped DEF EndTask
<1> PICK j \in Coros \cup {NoCoro} : j = joiner[c]
  BY DEF CoroTypeOK
<1>1. /\ ~HoldsLock(c)
      /\ UNCHANGED <<phase, slot, joined, futures, awaits, owner, joiner, lockVars>>
      /\ \/ j = NoCoro /\ st' = [st EXCEPT ![c] = "done"] /\ handles' = handles
         \/ /\ j # NoCoro /\ st' = [[st EXCEPT ![c] = "done"] EXCEPT ![j] = "ready"]
            /\ handles' = [handles EXCEPT ![owner[j]] = Append(@, j)]
  BY DEF EndTask, Resume, CallSoon
<1>2. j # NoCoro => j \in Coros /\ st[j] = "joining" /\ owner[j] = r /\ j # c
  BY CoroFacts DEF Joins, Alive, Waits, Joining
<1>3. \A x \in Coros : x # c /\ x # j => st'[x] = st[x]
  BY <1>1, <1>2 DEF CoroTypeOK
<1>4. st'[c] = "done" /\ (j # NoCoro => st'[j] = "ready")
  BY <1>1, <1>2 DEF CoroTypeOK
<1>5. Joining'
  <2>1. ASSUME NEW x \in Coros, st'[x] = "joining"
        PROVE  \E y \in Coros : x < y /\ Alive(y)' /\ joiner'[y] = x
    <3>1. x # c /\ x # j /\ st[x] = "joining"
      BY <1>2, <1>3, <1>4, <2>1, CoroFacts
    <3>2. PICK y \in Coros : x < y /\ Alive(y) /\ joiner[y] = x
      BY <3>1 DEF Waits, Joining
    <3>3. y # c
      BY <3>1, <3>2
    <3>4. Alive(y)'
      BY <1>2, <1>3, <1>4, <3>2, <3>3, CoroFacts DEF Alive
    <3> QED BY <1>1, <3>2, <3>4
  <2> QED BY <1>1, <2>1 DEF Waits, Joining
<1>6. Locking' /\ Holding'
  <2>1. \A x \in Coros : st'[x] = "locking" => st[x] = "locking"
    BY <1>2, <1>3, <1>4, CoroFacts
  <2>2. \A x \in Coros : HoldsLock(x) /\ st[x] \in MayHold => st'[x] \in MayHold
    BY <1>1, <1>2, <1>3, <1>4, CoroFacts DEF MayHold
  <2> QED BY <1>1, <2>1, <2>2, LocksKept DEF Waits
<1>7. SlotHeld' /\ Caused'
  <2>1. \A u \in Exports \ {r} : handles'[u] = handles[u]
    BY <1>1, <1>2 DEF StateTypeOK
  <2> QED BY <1>1, <2>1, InsideWaits
<1> QED BY <1>1, <1>5, <1>6, <1>7 DEF Waits, Awaited

LEMMA WaitsInit == Init => Waits
<1> SUFFICES ASSUME Init PROVE Waits
  OBVIOUS
<1> USE DEF Init
<1>1. Awaited
  BY DEF Awaited
<1>2. Joining
  BY DEF Joining
<1>3. Locking
  BY DEF Locking
<1>4. Holding
  BY DEF Holding
<1>5. SlotHeld
  BY DEF SlotHeld
<1>6. Caused
  BY DEF Caused
<1> QED BY <1>1, <1>2, <1>3, <1>4, <1>5, <1>6 DEF Waits

LEMMA WaitsStep ==
  ASSUME IInv, LInv, Waits, PendingIsLiveWork, LocksAreOwn, "cancel" \notin Ops, [Next]_vars
  PROVE  Waits'
<1>1. ASSUME NEW t \in Exports, NEW c \in Coros, FirstPoll(t, c) PROVE Waits'
  <2>1. /\ CreateTask(c, t, "return") /\ phase[t] = "new"
        /\ phase' = [phase EXCEPT ![t] = "running"]
        /\ UNCHANGED <<futures, joined, slot, lockVars>>
    BY <1>1 DEF FirstPoll
  <2> QED BY <2>1, CreatedWaits
<1>2. ASSUME NEW t \in Exports,
             UnsupportedEvent(t) \/ \E w \in Waitables : SubtaskStarted(t, w)
      PROVE  Waits'
  BY <1>2, EnteredWaits
<1>3. ASSUME NEW t \in Exports, Deliver(t) PROVE Waits'
  BY <1>3, AnsweredWaits DEF Deliver, SubtaskReturned, EndReady
<1>4. ASSUME NEW t \in Exports, Poll(t) PROVE Waits'
  BY <1>4, PolledWaits, WaitWaits DEF Poll
<1>5. ASSUME NEW c \in Coros, Step(c) PROVE Waits'
  <2>1. ASSUME NEW d \in Coros, Spawn(c, d) \/ CreatePlainTask(c, d) PROVE Waits'
    <3>1. Running(c) /\ UNCHANGED <<futures, joined, slot, phase, lockVars>>
      BY <2>1 DEF Spawn, CreatePlainTask, hostVars
    <3>2. CreateTask(d, owner[c], "spawned") \/ CreateTask(d, owner[c], "plain")
      BY <2>1 DEF Spawn, CreatePlainTask
    <3>3. owner[c] \in Exports /\ phase[owner[c]] = "running"
      BY <3>1, Stepped
    <3> QED BY <3>1, <3>2, <3>3, CreatedWaits
  <2>2. ~EndCancelled(c) /\ \A d \in Coros : ~CancelTask(c, d)
    BY DEF LInv, EndCancelled, CancelTask
  <2>3. CASE \/ \E w \in Waitables, s \in {"starting", "started"} : AwaitResult(c, w, s)
             \/ \E d \in Coros : Join(c, d)
             \/ YieldNow(c) \/ Acquire(c) \/ Release(c)
    BY <2>3, AwaitWaits, JoinWaits, YieldWaits, AcquireWaits, ReleaseWaits
  <2>4. CASE ReturnResult(c) \/ FinishSpawned(c) \/ FinishPlain(c)
             \/ RaiseException(c) \/ PlainRaises(c)
    BY <2>4, EndWaits DEF ReturnResult, FinishSpawned, FinishPlain, RaiseException, PlainRaises
  <2> QED BY <1>5, <2>1, <2>2, <2>3, <2>4 DEF Step
<1>6. CASE UNCHANGED vars
  <2>1. UNCHANGED <<phase, slot, joined, futures, handles, st, owner, awaits, joiner, lockVars>>
    BY <1>6 DEF vars, hostVars, stateVars, coroVars
  <2>2. Joining'
    BY <2>1, JoiningKept DEF Waits, Alive
  <2>3. Locking' /\ Holding'
    BY <2>1, LocksKept DEF Waits
  <2>4. Awaited' /\ SlotHeld' /\ Caused'
    BY <2>1 DEF Waits, Awaited, SlotHeld, Caused
  <2> QED BY <2>2, <2>3, <2>4 DEF Waits
<1> QED BY <1>1, <1>2, <1>3, <1>4, <1>5, <1>6 DEF Next, Halt

\* If nothing is cancelled and every export has its own lock, no export waits on the
\* host without a waitable in its set, with a step unrun, or with its state out of the
\* context slot (_poll, callback).  An export whose lock another export holds may wait
\* with an empty set, and cancelled work may leave nothing to wait for.
THEOREM WaitingHasCause ==
  ASSUME "cancel" \notin Ops, LocksAreOwn
  PROVE  Spec => []WaitHasCause
<1>1. Init => Waits /\ LInv
  BY WaitsInit, InitsMatch
<1>2. IInv /\ LInv /\ [Next]_vars => LInv'
  BY StepsMatch
<1>3. IInv /\ LInv /\ Waits /\ PendingIsLiveWork /\ [Next]_vars => Waits'
  BY WaitsStep
<1>4. Waits => WaitHasCause
  BY DEF Waits, SlotHeld, Caused, WaitHasCause
<1>5. Spec => []PendingIsLiveWork
  BY CountIsExact
<1> QED BY <1>1, <1>2, <1>3, <1>4, <1>5, InductiveInvariant, PTL DEF Spec

-----------------------------------------------------------------------------
(* What an export leaves behind.                                           *)

\* Without plain tasks every coroutine is counted.
AllCounted == \A c \in Coros : owner[c] # NoExport => Counted(c)

\* A step creates at most one coroutine, and creates it for counted work.
Created ==
  \/ kind' = kind /\ owner' = owner
  \/ \E c \in Coros, t \in Exports, k \in {"return", "spawned"} :
       kind' = [kind EXCEPT ![c] = k] /\ owner' = [owner EXCEPT ![c] = t]

LEMMA CreatedStep ==
  ASSUME IInv, "plain" \notin Ops, [Next]_vars
  PROVE  Created
<1>1. ASSUME NEW t \in Exports, NEW c \in Coros, FirstPoll(t, c) PROVE Created
  BY <1>1 DEF FirstPoll, CreateTask, Created
<1>2. ASSUME NEW t \in Exports,
             \/ \E w \in Waitables : SubtaskStarted(t, w)
             \/ Deliver(t) \/ UnsupportedEvent(t) \/ Poll(t)
      PROVE  Created
  BY <1>2 DEF SubtaskStarted, Deliver, SubtaskReturned, EndReady, Answer, UnsupportedEvent,
     Poll, TakeHandles, RunHandle, PollRaises, Exit, Wait, coroVars, Created
<1>3. ASSUME NEW c \in Coros, NEW d \in Coros, Spawn(c, d) PROVE Created
  <2>1. owner[c] \in Exports
    BY <1>3, Stepped DEF Spawn
  <2> QED BY <1>3, <2>1 DEF Spawn, CreateTask, Created
<1>4. ASSUME NEW c \in Coros, Step(c), \A d \in Coros : ~Spawn(c, d) PROVE Created
  BY <1>4 DEF Step, AwaitResult, CreatePlainTask, Join, CancelTask, YieldNow, Acquire, Release,
     ReturnResult, FinishSpawned, FinishPlain, RaiseException, PlainRaises, EndCancelled,
     EndTask, Created
<1>5. CASE UNCHANGED vars
  BY <1>5 DEF vars, coroVars, Created
<1> QED BY <1>1, <1>2, <1>3, <1>4, <1>5 DEF Next, Halt

LEMMA AllCountedStep ==
  ASSUME IInv, AllCounted, "plain" \notin Ops, [Next]_vars
  PROVE  AllCounted'
BY CreatedStep DEF Created, AllCounted, Counted, IInv, TypeOK, CoroTypeOK

\* An exited export has returned and dropped its waitable set.
Dropped == \A t \in Exports : phase[t] = "exited" => returned[t] /\ ~wset[t]

LEMMA DroppedStep ==
  ASSUME IInv, LInv, Dropped, [Next]_vars
  PROVE  Dropped'
<1> SUFFICES ASSUME NEW t \in Exports, phase'[t] = "exited" PROVE returned'[t] /\ ~wset'[t]
  BY DEF Dropped
<1> USE DEF IInv, TypeOK
<1>0. /\ phase \in [Exports -> {"new", "running", "waiting", "exited"}]
      /\ returned \in [Exports -> BOOLEAN] /\ wset \in [Exports -> BOOLEAN]
  BY DEF HostTypeOK, StateTypeOK
<1>1. CASE phase'[t] = phase[t] /\ returned'[t] = returned[t] /\ wset'[t] = wset[t]
  BY <1>1 DEF Dropped
<1>2. ASSUME NEW u \in Exports, NEW c \in Coros, FirstPoll(u, c) PROVE returned'[t] /\ ~wset'[t]
  BY <1>0, <1>1, <1>2 DEF FirstPoll
<1>3. ASSUME NEW u \in Exports,
             \/ \E w \in Waitables : SubtaskStarted(u, w) \/ Answer(u, w)
             \/ UnsupportedEvent(u)
      PROVE  returned'[t] /\ ~wset'[t]
  BY <1>0, <1>1, <1>3 DEF SubtaskStarted, Answer, UnsupportedEvent, Enter, stateVars
<1>4. ASSUME NEW u \in Exports, Poll(u) PROVE returned'[t] /\ ~wset'[t]
  <2>1. CASE Exit(u)
    <3>1. CASE phase' = phase
      BY <1>0, <1>1, <2>1, <3>1 DEF Exit, DropWaitableSet, PollDone, Polling
    <3>2. CASE phase' # phase
      <4>1. phase'[u] = "exited" /\ returned[u]
        <5>1. Lifecycle!Exit(u)
          BY <2>1, <3>2, ExitIsExit
        <5> QED BY <1>0, <2>1, <3>2, <5>1 DEF Exit, DropWaitableSet, Lifecycle!Exit, Status
      <4>2. ~wset'[u] /\ returned' = returned /\ \A v \in Exports \ {u} : phase'[v] = phase[v] /\ wset'[v] = wset[v]
        BY <1>0, <2>1, <3>2 DEF Exit, DropWaitableSet
      <4> QED BY <1>1, <4>1, <4>2
    <3> QED BY <3>1, <3>2
  <2>2. CASE Wait(u)
    BY <1>0, <1>1, <2>2 DEF Wait, stateVars
  <2>3. CASE TakeHandles(u) \/ RunHandle(u) \/ PollRaises(u)
    BY <1>0, <1>1, <2>3 DEF TakeHandles, RunHandle, PollRaises, hostVars, stateVars
  <2> QED BY <1>4, <2>1, <2>2, <2>3 DEF Poll
<1>5. ASSUME NEW c \in Coros, Step(c) PROVE returned'[t] /\ ~wset'[t]
  <2>1. Running(c) /\ phase' = phase
    BY <1>5 DEF Step, AwaitResult, Spawn, CreatePlainTask, Join, CancelTask, YieldNow, Acquire,
       Release, ReturnResult, FinishSpawned, FinishPlain, RaiseException, PlainRaises,
       EndCancelled, EndTask, hostVars
  <2>2. owner[c] \in Exports /\ phase[owner[c]] = "running"
    BY <2>1, Stepped
  <2>3. /\ returned' = returned \/ returned' = [returned EXCEPT ![owner[c]] = TRUE]
        /\ wset' = wset \/ wset' = [wset EXCEPT ![owner[c]] = TRUE]
    BY <1>5 DEF Step, AwaitResult, Spawn, CreatePlainTask, Join, CancelTask, YieldNow, Acquire,
       Release, ReturnResult, FinishSpawned, FinishPlain, RaiseException, PlainRaises,
       EndCancelled, EndTask, JoinSet, hostVars, stateVars
  <2> QED BY <1>0, <1>1, <2>1, <2>2, <2>3
<1>6. CASE UNCHANGED vars
  BY <1>1, <1>6 DEF vars, hostVars, stateVars
<1> QED
  BY <1>2, <1>3, <1>4, <1>5, <1>6 DEF Next, Deliver, SubtaskReturned, EndReady, Halt

\* Whether an export's state is in its context slot, whatever the application does.
LEMMA SlotStep ==
  ASSUME IInv, SlotHeld, [Next]_vars
  PROVE  SlotHeld'
<1> USE DEF IInv, TypeOK
<1>0. slot \in [Exports -> BOOLEAN] /\ phase \in [Exports -> {"new", "running", "waiting", "exited"}]
  BY DEF HostTypeOK
<1>1. ASSUME NEW t \in Exports,
             \/ \E c \in Coros : FirstPoll(t, c)
             \/ \E w \in Waitables : SubtaskStarted(t, w)
             \/ Deliver(t) \/ UnsupportedEvent(t)
      PROVE  SlotHeld'
  BY <1>0, <1>1 DEF FirstPoll, SubtaskStarted, Deliver, SubtaskReturned, EndReady, Answer,
     UnsupportedEvent, Enter, SlotHeld
<1>2. ASSUME NEW t \in Exports, Poll(t) PROVE SlotHeld'
  <2>1. CASE Exit(t)
    BY <1>0, <2>1 DEF Exit, DropWaitableSet, PollDone, Polling, SlotHeld
  <2>2. CASE Wait(t)
    BY <1>0, <2>2 DEF Wait, SlotHeld
  <2>3. CASE TakeHandles(t) \/ RunHandle(t) \/ PollRaises(t)
    BY <2>3 DEF TakeHandles, RunHandle, PollRaises, hostVars, SlotHeld
  <2> QED BY <1>2, <2>1, <2>2, <2>3 DEF Poll
<1>3. ASSUME NEW c \in Coros, Step(c) PROVE SlotHeld'
  <2>1. UNCHANGED <<phase, slot>>
    BY <1>3 DEF Step, AwaitResult, Spawn, CreatePlainTask, Join, CancelTask, YieldNow, Acquire,
       Release, ReturnResult, FinishSpawned, FinishPlain, RaiseException, PlainRaises,
       EndCancelled, EndTask, hostVars
  <2> QED BY <2>1 DEF SlotHeld
<1>4. CASE UNCHANGED vars
  BY <1>4 DEF vars, hostVars, SlotHeld
<1> QED BY <1>1, <1>2, <1>3, <1>4 DEF Next, Halt

\* If nothing is cancelled and every task is created by spawn, an export that exited
\* gave its caller a value, finished every coroutine it ever had, and left no waitable,
\* no waitable set and no state behind (_poll).  A plain task may outlive the exit.
THEOREM ExitsAreClean ==
  ASSUME "cancel" \notin Ops, "plain" \notin Ops
  PROVE  Spec => []ExitIsClean
<1>1. Init => LInv /\ AllCounted /\ Dropped /\ SlotHeld
  <2>1. Init => AllCounted /\ Dropped /\ SlotHeld
    BY DEF Init, AllCounted, Dropped, SlotHeld
  <2> QED BY <2>1, InitsMatch
<1>2. IInv /\ LInv /\ AllCounted /\ Dropped /\ SlotHeld /\ [Next]_vars
        => LInv' /\ AllCounted' /\ Dropped' /\ SlotHeld'
  BY StepsMatch, AllCountedStep, DroppedStep, SlotStep
<1>3. IInv /\ AllCounted /\ Dropped /\ SlotHeld /\ NoEarlyExit => ExitIsClean
  <2> SUFFICES ASSUME IInv, AllCounted, Dropped, SlotHeld, NoEarlyExit,
                      NEW t \in Exports, phase[t] = "exited"
               PROVE  /\ returned[t] /\ ~wset[t] /\ ~slot[t]
                      /\ \A w \in Waitables : joined[w] # t
                      /\ \A c \in Coros : owner[c] = t => st[c] = "done"
    BY DEF ExitIsClean
  <2>1. returned[t] /\ ~wset[t] /\ ~slot[t]
    BY DEF Dropped, SlotHeld
  <2>2. \A w \in Waitables : joined[w] # t
    BY <2>1 DEF IInv, WaitablesRouted
  <2>3. ASSUME NEW c \in Coros, owner[c] = t PROVE st[c] = "done"
    <3>1. Counted(c) /\ st[c] # "unborn"
      BY <2>3, CoroFacts DEF AllCounted, IInv, Roles
    <3>2. ~Alive(c)
      BY <2>3, <3>1 DEF NoEarlyExit, Live
    <3> QED BY <3>1, <3>2 DEF Alive
  <2> QED BY <2>1, <2>2, <2>3
<1> QED BY <1>1, <1>2, <1>3, InductiveInvariant, NoExportExitsEarly, PTL DEF Spec

-----------------------------------------------------------------------------
(* What ends an instance.                                                  *)

\* When nothing is pending, no coroutine awaits an import, so that the waitable set
\* that is dropped is empty.
LEMMA NothingJoined ==
  ASSUME IInv, Waits, AllCounted, NEW t \in Exports, pending[t] = 0
  PROVE  \A w \in Waitables : joined[w] # t
<1> USE DEF IInv, TypeOK
<1> SUFFICES ASSUME NEW w \in Waitables, joined[w] = t PROVE FALSE
  OBVIOUS
<1> PICK c \in Coros \cup {NoCoro} : c = futures[t][w]
  BY DEF StateTypeOK
<1>1. c \in Coros /\ owner[c] = t /\ awaits[c] = w
  BY CoroFacts DEF WaitablesRouted, Waits, Awaited
<1>2. st[c] = "importing" /\ Counted(c)
  BY <1>1, CoroFacts DEF WaitablesRouted, AllCounted
<1>3. Live(t) # {}
  BY <1>1, <1>2 DEF Live, Alive
<1>4. Cardinality(Live(t)) # 0
  BY <1>3, LiveFinite, FS_EmptySet
<1> QED BY <1>4, LiveFinite DEF PendingCovers

LEMMA AbortsStep ==
  ASSUME IInv, Waits, PendingIsLiveWork, AllCounted, NeverAborts, LocksAreOwn,
         "unsupported" \notin Ops, [Next]_vars
  PROVE  NeverAborts'
<1>1. CASE trap' = trap /\ (exception => exception')
  BY <1>1 DEF NeverAborts
<1>2. ASSUME NEW t \in Exports,
             \/ \E c \in Coros : FirstPoll(t, c)
             \/ \E w \in Waitables : SubtaskStarted(t, w)
      PROVE  NeverAborts'
  BY <1>1, <1>2 DEF FirstPoll, SubtaskStarted, loopVars
<1>3. ASSUME NEW t \in Exports, Deliver(t) PROVE NeverAborts'
  BY <1>1, <1>3, AnsweredWaits DEF Deliver, SubtaskReturned, EndReady, Answer, loopVars
<1>4. ASSUME NEW t \in Exports, Poll(t) PROVE NeverAborts'
  <2>1. CASE Exit(t)
    <3>1. \A w \in Waitables : joined[w] # t
      BY <2>1, NothingJoined DEF Exit, WorkDone
    <3> QED BY <1>1, <2>1, <3>1 DEF Exit, DropWaitableSet, loopVars
  <2>2. CASE Wait(t)
    BY <1>1, <2>2, WaitWaits DEF Wait, loopVars
  <2>3. CASE PollRaises(t)
    BY <2>3 DEF PollRaises, loopVars, NeverAborts
  <2>4. CASE TakeHandles(t) \/ RunHandle(t)
    BY <1>1, <2>4 DEF TakeHandles, RunHandle, hostVars
  <2> QED BY <1>4, <2>1, <2>2, <2>3, <2>4 DEF Poll
<1>5. ASSUME NEW c \in Coros, Step(c) PROVE NeverAborts'
  BY <1>1, <1>5 DEF Step, AwaitResult, Spawn, CreatePlainTask, Join, CancelTask, YieldNow,
     Acquire, Release, ReturnResult, FinishSpawned, FinishPlain, RaiseException, PlainRaises,
     EndCancelled, EndTask, hostVars, loopVars
<1>6. ASSUME NEW t \in Exports PROVE ~UnsupportedEvent(t)
  BY DEF UnsupportedEvent
<1>7. CASE UNCHANGED vars
  BY <1>1, <1>7 DEF vars, hostVars, loopVars
<1> QED BY <1>2, <1>3, <1>4, <1>5, <1>6, <1>7 DEF Next, Halt

\* If nothing is cancelled, every task is created by spawn, every export has its own
\* lock and the host delivers the events the code supports, then only an exception
\* that escapes from the work aborts the instance: no event misses its future, no
\* assertion of _poll fails, and no waitable set is dropped with something in it.
THEOREM OnlyExceptionsAbort ==
  ASSUME "cancel" \notin Ops, "plain" \notin Ops, "unsupported" \notin Ops, LocksAreOwn
  PROVE  Spec => []NeverAborts
<1>1. Init => LInv /\ Waits /\ AllCounted /\ NeverAborts
  <2>1. Init => AllCounted /\ NeverAborts
    BY DEF Init, AllCounted, NeverAborts
  <2> QED BY <2>1, InitsMatch, WaitsInit
<1>2. IInv /\ LInv /\ [Next]_vars => LInv'
  BY StepsMatch
<1>3. IInv /\ LInv /\ Waits /\ PendingIsLiveWork /\ [Next]_vars => Waits'
  BY WaitsStep
<1>4. IInv /\ AllCounted /\ [Next]_vars => AllCounted'
  BY AllCountedStep
<1>5. IInv /\ Waits /\ PendingIsLiveWork /\ AllCounted /\ NeverAborts /\ [Next]_vars => NeverAborts'
  BY AbortsStep
<1>6. Spec => []PendingIsLiveWork
  BY CountIsExact
<1> QED BY <1>1, <1>2, <1>3, <1>4, <1>5, <1>6, InductiveInvariant, PTL DEF Spec
=============================================================================
