---------------------------- MODULE PollLoopProofs ----------------------------
(***************************************************************************)
(* What send and next promise of a body, where a callback's exception goes, *)
(* and that no wakeup is lost, for any number of children, bodies and       *)
(* chunks.                                                                  *)
(***************************************************************************)
EXTENDS PollLoop, FiniteSetTheorems, SequenceTheorems, TLAPS

-----------------------------------------------------------------------------
(* The inductive invariant.                                                *)

States == {"new", "ready", "running", "waiting", "joining"} \cup Ended
Bodies == [avail : Nat, total : Nat, read : Nat, status : {"open", "closed", "broken"}]
Sinks == [permit : Nat, written : Nat, flushed : Nat, busy : BOOLEAN, asked : BOOLEAN,
          broken : BOOLEAN]

Types ==
  /\ exception \in BOOLEAN /\ raised \in BOOLEAN
  /\ state \in [Tasks -> States]
  /\ body \in [Readers -> Bodies] /\ sink \in [Writers -> Sinks]

\* The task that the loop is stepping is the one that runs, and none is stepped
\* while the loop polls.
OneRuns ==
  /\ current \in Tasks => state[current] = "running"
  /\ phase = "poll" => current \notin Tasks

\* A callback's exception is recorded, and no result has been returned in spite of it.
Recorded == raised => exception /\ phase # "returned"

\* A sink is flushed once, when everything has been written; it is ready again
\* only when the host has flushed what was written before.
SinkInv(t) ==
  LET k == sink[t] IN
  /\ k.written <= ChunkLen
  /\ k.busy => k.asked
  /\ k.asked => k.written = ChunkLen
  /\ k.asked /\ ~k.busy => k.flushed = ChunkLen
  /\ state[t] = "done" => k.asked /\ ~k.busy

\* What was produced has been read or can be; a reader that is done saw the end.
BodyInv(t) ==
  LET b == body[t] IN
  /\ b.read + b.avail = b.total
  /\ state[t] = "done" => b.status = "closed" /\ b.avail = 0

IInv ==
  /\ Types /\ OneRuns /\ Recorded
  /\ \A t \in Writers : SinkInv(t)
  /\ \A t \in Readers : BodyInv(t)

LEMMA InitHolds == Init => IInv
<1> SUFFICES ASSUME Init PROVE IInv
  OBVIOUS
<1> USE DEF Init
<1>1. Types
  <2>1. state \in [Tasks -> States]
    BY DEF States
  <2>2. body \in [Readers -> Bodies] /\ sink \in [Writers -> Sinks]
    BY DEF Bodies, Sinks
  <2> QED BY <2>1, <2>2 DEF Types
<1>2. OneRuns /\ Recorded
  BY ConstantsAssumption DEF OneRuns, Recorded
<1>3. ASSUME NEW t \in Writers PROVE SinkInv(t)
  BY ConstantsAssumption DEF SinkInv, Tasks, Children
<1>4. ASSUME NEW t \in Readers PROVE BodyInv(t)
  BY DEF BodyInv, Tasks, Children
<1> QED BY <1>1, <1>2, <1>3, <1>4 DEF IInv

\* A step that touches no body and completes no child.
LEMMA Undone ==
  ASSUME IInv, UNCHANGED <<body, sink>>, Types', OneRuns', Recorded',
         \A t \in Writers \cup Readers : state'[t] = "done" => state[t] = "done"
  PROVE  IInv'
<1>1. ASSUME NEW t \in Writers PROVE SinkInv(t)'
  BY DEF IInv, SinkInv
<1>2. ASSUME NEW t \in Readers PROVE BodyInv(t)'
  BY DEF IInv, BodyInv
<1> QED BY <1>1, <1>2 DEF IInv

-----------------------------------------------------------------------------
(* The steps of the loop.                                                  *)

LEMMA RunHandleStep == IInv /\ RunHandle => IInv'
<1> SUFFICES ASSUME IInv, RunHandle PROVE IInv'
  OBVIOUS
<1> DEFINE h == Head(batch)
<1>1. phase' = "run" /\ UNCHANGED hostVars /\ current = NoTask
  BY DEF RunHandle
<1>2. CASE h.kind = "step" /\ h.task \in cancelling
  <2>1. state' = [state EXCEPT ![h.task] = "cancelled"] /\ current' = NoTask
        /\ UNCHANGED <<exception, raised>>
    BY <1>2 DEF RunHandle, RunStep, End
  <2> QED BY <1>1, <2>1, Undone, ConstantsAssumption
          DEF IInv, Types, OneRuns, Recorded, States, Ended, hostVars, Tasks, Children
<1>3. CASE h.kind = "step" /\ h.task \notin cancelling
  <2>1. state' = [state EXCEPT ![h.task] = "running"] /\ current' = h.task
        /\ UNCHANGED <<exception, raised>>
    BY <1>3 DEF RunHandle, RunStep
  <2> QED BY <1>1, <2>1, Undone
          DEF IInv, Types, OneRuns, Recorded, States, Ended, hostVars, Tasks, Children
<1>4. CASE h.kind = "done"
  <2>1. (state' = state \/ state' = [state EXCEPT ![Main] = "ready"])
        /\ UNCHANGED <<exception, raised, current>>
    BY <1>4 DEF RunHandle, RunDone
  <2> QED BY <1>1, <2>1, Undone, ConstantsAssumption
          DEF IInv, Types, OneRuns, Recorded, States, Ended, hostVars, Tasks, Children
<1>5. CASE h.kind \notin {"step", "done"}
  <2>1. RunRaise
    BY <1>5 DEF RunHandle
  <2> QED BY <1>1, <2>1, Undone DEF RunRaise, IInv, Types, OneRuns, Recorded, hostVars
<1> QED BY <1>2, <1>3, <1>4, <1>5

LEMMA EndBatchStep == IInv /\ EndBatch => IInv'
BY Undone, ConstantsAssumption
DEF EndBatch, Continue, IInv, Types, OneRuns, Recorded, taskVars, hostVars

LEMMA PollStep == IInv /\ Poll => IInv'
<1> SUFFICES ASSUME IInv, Poll PROVE IInv'
  OBVIOUS
<1>1. /\ phase' # "poll" /\ current \notin Tasks /\ (raised => phase' # "returned")
      /\ UNCHANGED <<exception, raised, current, body, sink>>
  BY DEF Poll, Continue, IInv, OneRuns, Recorded, hostVars
<1>2. state' = state \/ \E W : state' = [t \in Tasks |-> IF t \in W THEN "ready" ELSE state[t]]
  BY DEF Poll
<1> QED BY <1>1, <1>2, Undone DEF IInv, Types, OneRuns, Recorded, States, Tasks, Children

-----------------------------------------------------------------------------
(* The steps of the coroutines.                                            *)

LEMMA MainStep ==
  IInv /\ (MainStart \/ MainEnds \/ \E S \in SUBSET Children : MainContinues(S)) => IInv'
<1> SUFFICES ASSUME IInv, MainStart \/ MainEnds \/ \E S \in SUBSET Children : MainContinues(S)
             PROVE  IInv'
  OBVIOUS
<1> USE ConstantsAssumption DEF IInv, Types, OneRuns, Recorded, hostVars, loopVars, Tasks, Children, States, Ended
<1>1. CASE MainStart
  <2>1. UNCHANGED <<phase, exception, raised, body, sink>> /\ phase = "run"
    BY <1>1 DEF MainStart, Running
  <2>2. \/ /\ state' = [t \in Tasks |-> IF t = Main THEN "joining" ELSE "ready"]
           /\ current' = NoTask
        \/ /\ state' = [[t \in Tasks |-> IF t = Main THEN "joining" ELSE "ready"]
                          EXCEPT ![Main] = "running"]
           /\ current' = current /\ current = Main
    BY <1>1 DEF MainStart, Running
  <2> QED BY <2>1, <2>2, Undone
<1>2. CASE MainEnds
  <2>1. /\ UNCHANGED <<phase, exception, raised, body, sink>> /\ current' = NoTask
        /\ \E s \in {"done", "failed"} : state' = [state EXCEPT ![Main] = s]
    BY <1>2 DEF MainEnds
  <2> QED BY <2>1, Undone
<1>3. ASSUME NEW S \in SUBSET Children, MainContinues(S) PROVE IInv'
  <2>1. UNCHANGED <<phase, exception, raised, body, sink>> /\ current' = NoTask
    BY <1>3 DEF MainContinues
  <2>2. \E W, s : s \in {"joining", "done"} /\
          state' = [t \in Tasks |-> IF t \in W THEN "ready" ELSE IF t # Main THEN state[t] ELSE s]
    <3>1. PICK join \in BOOLEAN : state' = [t \in Tasks |->
             IF t \in {u \in S : state[u] = "waiting"} THEN "ready"
             ELSE IF t # Main THEN state[t] ELSE IF join THEN "joining" ELSE "done"]
      BY <1>3 DEF MainContinues
    <3> DEFINE W == {u \in S : state[u] = "waiting"}
               s == IF join THEN "joining" ELSE "done"
    <3>2. s \in {"joining", "done"} /\
            state' = [t \in Tasks |-> IF t \in W THEN "ready" ELSE IF t # Main THEN state[t] ELSE s]
      BY <3>1
    <3> HIDE DEF W, s
    <3> QED BY <3>2
  <2> QED BY <2>1, <2>2, Undone
<1> QED BY <1>1, <1>2, <1>3

LEMMA FetchStep == ASSUME NEW t \in Fetchers \cup {Main}, IInv, Fetch(t) PROVE IInv'
<1> USE ConstantsAssumption DEF IInv, Types, OneRuns, Recorded, Tasks, Children, States, Ended
<1>1. /\ phase = "run" /\ phase' \in {"run", "trap"}
      /\ UNCHANGED <<exception, raised, body, sink>>
  BY DEF Fetch, Running, Register, Drop
<1>2. \/ UNCHANGED <<state, current>>
      \/ current' = NoTask /\ \E s \in {"waiting", "done", "failed"} : state' = [state EXCEPT ![t] = s]
  BY DEF Fetch, Register, End
<1>3. t \notin Writers \cup Readers
  OBVIOUS
<1> QED BY <1>1, <1>2, <1>3, Undone

LEMMA ReadBodyStep == ASSUME NEW t \in Readers, IInv, ReadBody(t) PROVE IInv'
<1>1. /\ phase = "run" /\ phase' \in {"run", "trap"} /\ current = t /\ state[t] = "running"
      /\ UNCHANGED <<exception, raised, sink>>
  BY DEF ReadBody, Running, Register, Drop, IInv, OneRuns, Recorded, Tasks, Children
<1>2. CASE body[t].avail > 0
  <2>1. /\ body' = [body EXCEPT ![t].avail = 0, ![t].read = @ + body[t].avail]
        /\ UNCHANGED <<state, current>>
    BY <1>2 DEF ReadBody, IInv, Types, Bodies
  <2>2. body[t] \in Bodies /\ BodyInv(t)
    BY DEF IInv, Types
  <2>3. body' \in [Readers -> Bodies]
    <3> DEFINE b == [body[t] EXCEPT !.avail = 0, !.read = @ + body[t].avail]
    <3>1. body[t].avail \in Nat /\ body[t].read + body[t].avail \in Nat
      BY <2>2 DEF Bodies
    <3>2. b \in Bodies
      BY <2>2, <3>1 DEF Bodies
    <3>3. body' = [body EXCEPT ![t] = b]
      BY <2>1
    <3> QED BY <3>2, <3>3 DEF IInv, Types
  <2>4. ASSUME NEW u \in Readers PROVE BodyInv(u)'
    BY <1>1, <2>1, <2>2 DEF BodyInv, IInv, Types, Bodies
  <2>5. ASSUME NEW u \in Writers PROVE SinkInv(u)'
    BY <1>1, <2>1 DEF SinkInv, IInv
  <2> QED BY <1>1, <2>1, <2>3, <2>4, <2>5 DEF IInv, Types, OneRuns, Recorded
<1>3. CASE ~(body[t].avail > 0)
  <2>1. body[t].avail = 0 /\ UNCHANGED body /\ current' = NoTask
    BY <1>3 DEF ReadBody, Register, End
  <2>2. PICK s \in {"waiting", "done", "failed"} :
          /\ state' = [state EXCEPT ![t] = s]
          /\ s = "done" => body[t].status = "closed"
    BY <1>3 DEF ReadBody, Register, End, EndOfStream
  <2>3. state' \in [Tasks -> States]
    BY <2>2 DEF IInv, Types, States, Ended
  <2>4. ASSUME NEW u \in Readers PROVE BodyInv(u)'
    BY <2>1, <2>2 DEF BodyInv, IInv, Types, Tasks, Children
  <2>5. ASSUME NEW u \in Writers PROVE SinkInv(u)'
    BY <1>1, <2>2, ConstantsAssumption DEF SinkInv, IInv, Types, Tasks, Children
  <2> QED BY <1>1, <2>1, <2>3, <2>4, <2>5, ConstantsAssumption DEF IInv, Types, OneRuns, Recorded
<1> QED BY <1>2, <1>3

\* What the sink of a writer becomes in the middle of its send.
LEMMA SinkChange ==
  ASSUME NEW t \in Writers, NEW k \in Sinks, IInv,
         sink' = [sink EXCEPT ![t] = k], UNCHANGED <<exception, raised, body>>,
         state' \in [Tasks -> States], \A u \in Tasks : state'[u] = state[u],
         k.written <= ChunkLen, k.busy => k.asked, k.asked => k.written = ChunkLen,
         k.asked /\ ~k.busy => k.flushed = ChunkLen, state[t] = "done" => k.asked /\ ~k.busy,
         OneRuns', Recorded'
  PROVE  IInv'
<1>1. sink' \in [Writers -> Sinks]
  BY DEF IInv, Types
<1>2. ASSUME NEW u \in Writers PROVE SinkInv(u)'
  BY DEF SinkInv, IInv, Types, Tasks, Children
<1>3. ASSUME NEW u \in Readers PROVE BodyInv(u)'
  BY DEF BodyInv, IInv, Tasks, Children
<1> QED BY <1>1, <1>2, <1>3 DEF IInv, Types

LEMMA WriteBodyStep == ASSUME NEW t \in Writers, IInv, WriteBody(t) PROVE IInv'
<1> DEFINE k == sink[t]
<1>1. /\ phase = "run" /\ phase' \in {"run", "trap"} /\ current = t /\ state[t] = "running"
      /\ UNCHANGED <<exception, raised, body>>
  BY DEF WriteBody, Running, Register, Drop, Put, IInv, OneRuns, Recorded, Tasks, Children
<1>2. k \in Sinks /\ SinkInv(t)
  BY DEF IInv, Types
<1>3. CASE k.broken \/ CheckWrite(t) = 0 \/ Sent(t)
  <2>1. PICK s \in {"waiting", "done", "failed"} :
          /\ state' = [state EXCEPT ![t] = s] /\ current' = NoTask /\ UNCHANGED sink
          /\ s = "done" => CheckWrite(t) > 0 /\ Sent(t)
    BY <1>2, <1>3 DEF WriteBody, Register, End, Sinks, CheckWrite
  <2>2. state' \in [Tasks -> States]
    BY <2>1 DEF IInv, Types, States, Ended
  <2>3. ASSUME NEW u \in Writers PROVE SinkInv(u)'
    BY <2>1 DEF SinkInv, IInv, Types, Tasks, Children, Sent, CheckWrite
  <2>4. ASSUME NEW u \in Readers PROVE BodyInv(u)'
    BY <1>1, <2>1, ConstantsAssumption DEF BodyInv, IInv, Types, Tasks, Children
  <2> QED BY <1>1, <2>1, <2>2, <2>3, <2>4, ConstantsAssumption DEF IInv, Types, OneRuns, Recorded
<1>4. CASE ~(k.broken \/ CheckWrite(t) = 0 \/ Sent(t))
  <2>1. ~k.busy /\ k.permit > 0 /\ ~k.asked
    BY <1>2, <1>4 DEF CheckWrite, Sent, SinkInv, Sinks
  <2>2. UNCHANGED <<state, current>>
    BY <1>4 DEF WriteBody
  <2>3. CASE k.written = ChunkLen
    <3>1. sink' = [sink EXCEPT ![t] = [k EXCEPT !.busy = TRUE, !.asked = TRUE]]
      BY <1>2, <1>4, <2>3 DEF WriteBody, IInv, Types, Sinks
    <3> DEFINE l == [k EXCEPT !.busy = TRUE, !.asked = TRUE]
    <3>2. l \in Sinks /\ l.written = ChunkLen /\ l.busy /\ l.asked
      BY <1>2, <2>3 DEF Sinks
    <3> HIDE DEF l
    <3>3. sink' = [sink EXCEPT ![t] = l] /\ l.written <= ChunkLen
      BY <3>1, <3>2, ConstantsAssumption DEF l
    <3> QED BY <1>1, <2>2, <3>2, <3>3, SinkChange DEF IInv, Types, OneRuns, Recorded
  <2>4. CASE k.written # ChunkLen
    <3>1. PICK n \in Nat : /\ n <= ChunkLen - k.written /\ n <= k.permit
                           /\ sink' = [sink EXCEPT ![t].permit = @ - n, ![t].written = @ + n]
      BY <1>2, <1>4, <2>1, <2>4, ConstantsAssumption
      DEF WriteBody, Put, Portion, CheckWrite, SinkInv, Sinks
    <3> DEFINE l == [k EXCEPT !.permit = @ - n, !.written = @ + n]
    <3>2. sink' = [sink EXCEPT ![t] = l]
      BY <3>1
    <3>3. k.permit - n \in Nat /\ k.written + n \in Nat /\ k.written + n <= ChunkLen
      BY <1>2, <3>1, ConstantsAssumption DEF Sinks
    <3>4. l \in Sinks
      BY <1>2, <3>3 DEF Sinks
    <3>5. l.written <= ChunkLen /\ ~l.busy /\ ~l.asked
      BY <1>2, <2>1, <3>3 DEF Sinks
    <3> HIDE DEF l
    <3> QED BY <1>1, <2>2, <3>2, <3>4, <3>5, SinkChange DEF IInv, Types, OneRuns, Recorded
  <2> QED BY <2>3, <2>4
<1> QED BY <1>3, <1>4

-----------------------------------------------------------------------------
(* The host.                                                               *)

LEMMA ProduceStep ==
  ASSUME NEW t \in Readers, IInv, Produce(t), UNCHANGED <<loopVars, taskVars>> PROVE IInv'
<1>1. body[t] \in Bodies /\ BodyInv(t) /\ body[t].status = "open" /\ state[t] # "done"
  BY DEF IInv, Types, Produce, BodyInv
<1>2. PICK b \in Bodies : body' = [body EXCEPT ![t] = b] /\ b.read + b.avail = b.total
  <2>1. CASE body' = [body EXCEPT ![t].avail = @ + 1, ![t].total = @ + 1]
    <3> DEFINE b == [body[t] EXCEPT !.avail = @ + 1, !.total = @ + 1]
    <3>1. body' = [body EXCEPT ![t] = b]
      BY <2>1
    <3>2. body[t].avail + 1 \in Nat /\ body[t].total + 1 \in Nat
          /\ body[t].read + (body[t].avail + 1) = body[t].total + 1
      BY <1>1 DEF Bodies, BodyInv
    <3>3. b \in Bodies
      BY <1>1, <3>2 DEF Bodies
    <3>4. b.read + b.avail = b.total
      BY <1>1, <3>2 DEF Bodies
    <3> QED BY <3>1, <3>3, <3>4
  <2>2. ASSUME NEW s \in {"closed", "broken"}, body' = [body EXCEPT ![t].status = s]
        PROVE  \E b \in Bodies : body' = [body EXCEPT ![t] = b] /\ b.read + b.avail = b.total
    <3> DEFINE b == [body[t] EXCEPT !.status = s]
    <3>1. body' = [body EXCEPT ![t] = b]
      BY <2>2
    <3>2. b \in Bodies /\ b.read + b.avail = b.total
      BY <1>1 DEF Bodies, BodyInv
    <3> QED BY <3>1, <3>2
  <2> QED BY <2>1, <2>2 DEF Produce
<1>3. UNCHANGED <<phase, exception, raised, current, state, sink>>
  BY DEF Produce, loopVars, taskVars
<1>4. body' \in [Readers -> Bodies]
  BY <1>2 DEF IInv, Types
<1>5. ASSUME NEW u \in Readers PROVE BodyInv(u)'
  BY <1>1, <1>2, <1>3 DEF BodyInv, IInv, Types
<1>6. ASSUME NEW u \in Writers PROVE SinkInv(u)'
  BY <1>3 DEF SinkInv, IInv
<1> QED BY <1>3, <1>4, <1>5, <1>6 DEF IInv, Types, OneRuns, Recorded

LEMMA AcceptStep ==
  ASSUME NEW t \in Writers, IInv, Accept(t), UNCHANGED <<loopVars, taskVars>> PROVE IInv'
<1> DEFINE k == sink[t]
<1>1. k \in Sinks /\ SinkInv(t)
  BY DEF IInv, Types
<1>2. UNCHANGED <<phase, exception, raised, current, state, body>>
  BY DEF Accept, loopVars, taskVars
<1>3. PICK l \in Sinks :
        /\ sink' = [sink EXCEPT ![t] = l] /\ l.written = k.written /\ l.asked = k.asked
        /\ \/ l.busy = k.busy /\ l.flushed = k.flushed
           \/ ~l.busy /\ l.flushed = k.written
  <2>1. ASSUME NEW n \in 1 .. MaxPermit,
               sink' = [sink EXCEPT ![t].permit = n, ![t].flushed = k.written, ![t].busy = FALSE]
        PROVE  \E l \in Sinks :
                 /\ sink' = [sink EXCEPT ![t] = l] /\ l.written = k.written /\ l.asked = k.asked
                 /\ ~l.busy /\ l.flushed = k.written
    <3> DEFINE l == [k EXCEPT !.permit = n, !.flushed = k.written, !.busy = FALSE]
    <3>1. sink' = [sink EXCEPT ![t] = l]
      BY <2>1
    <3>2. n \in Nat /\ k.written \in Nat
      BY <1>1, ConstantsAssumption DEF Sinks
    <3>3. l \in Sinks
      BY <1>1, <3>2 DEF Sinks
    <3>4. l.written = k.written /\ l.asked = k.asked /\ ~l.busy /\ l.flushed = k.written
      BY <1>1 DEF Sinks
    <3> QED BY <3>1, <3>3, <3>4
  <2>2. ASSUME sink' = [sink EXCEPT ![t].broken = TRUE]
        PROVE  \E l \in Sinks :
                 /\ sink' = [sink EXCEPT ![t] = l] /\ l.written = k.written /\ l.asked = k.asked
                 /\ l.busy = k.busy /\ l.flushed = k.flushed
    <3> DEFINE l == [k EXCEPT !.broken = TRUE]
    <3>1. sink' = [sink EXCEPT ![t] = l]
      BY <2>2
    <3>2. l \in Sinks /\ l.written = k.written /\ l.asked = k.asked /\ l.busy = k.busy
          /\ l.flushed = k.flushed
      BY <1>1 DEF Sinks
    <3> QED BY <3>1, <3>2
  <2> QED BY <2>1, <2>2 DEF Accept
<1>4. OneRuns' /\ Recorded' /\ state' \in [Tasks -> States]
  BY <1>2 DEF IInv, Types, OneRuns, Recorded
<1> QED BY <1>1, <1>2, <1>3, <1>4, SinkChange DEF SinkInv, Sinks

LEMMA HostStep == ASSUME NEW t \in Tasks, IInv, Host(t) PROVE IInv'
<1>1. CASE t \in Readers
  BY <1>1, ProduceStep DEF Host
<1>2. CASE t \in Writers
  BY <1>2, AcceptStep, ConstantsAssumption DEF Host
<1>3. CASE t \notin Readers \cup Writers
  BY <1>3, Undone DEF Host, Respond, IInv, Types, OneRuns, Recorded, loopVars, taskVars
<1> QED BY <1>1, <1>2, <1>3

LEMMA ForgetStep == ASSUME NEW t \in Tasks, IInv, Forget(t) PROVE IInv'
BY Undone DEF Forget, Drop, IInv, Types, OneRuns, Recorded, taskVars

-----------------------------------------------------------------------------
(* The theorems.                                                           *)

LEMMA NextKeeps == IInv /\ [Next]_vars => IInv'
<1> SUFFICES ASSUME IInv, [Next]_vars PROVE IInv'
  OBVIOUS
<1>1. CASE Loop
  BY <1>1, RunHandleStep, EndBatchStep, PollStep, MainStep, FetchStep, ReadBodyStep, WriteBodyStep
  DEF Loop
<1>2. ASSUME NEW t \in Tasks, Host(t) \/ Forget(t) PROVE IInv'
  BY <1>2, HostStep, ForgetStep
<1>3. CASE UNCHANGED vars
  BY <1>3, Undone DEF vars, loopVars, taskVars, hostVars, IInv, Types, OneRuns, Recorded
<1> QED BY <1>1, <1>2, <1>3 DEF Next, Resting

LEMMA Invariance == Spec => []IInv
BY InitHolds, NextKeeps, PTL DEF Spec

\* For any writers, chunks and permits: when send and close have returned, the
\* chunk has been written and flushed (Sink of poll_loop.py).
THEOREM WritersSendAll == Spec => []SentIsFlushed
<1>1. IInv => SentIsFlushed
  BY DEF IInv, SinkInv, SentIsFlushed
<1> QED BY <1>1, Invariance, PTL

\* For any readers and bodies: next returns None only at the true end of the body
\* (Stream of poll_loop.py).
THEOREM ReadersSeeTheEnd == Spec => []NoneIsTheEnd
<1>1. IInv => NoneIsTheEnd
  <2> SUFFICES ASSUME IInv, NEW t \in Readers, state[t] = "done"
               PROVE  body[t].status = "closed" /\ body[t].read = body[t].total
    BY DEF NoneIsTheEnd
  <2>1. body[t] \in Bodies /\ BodyInv(t)
    BY DEF IInv, Types
  <2> QED BY <2>1 DEF BodyInv, Bodies
<1> QED BY <1>1, Invariance, PTL

\* An exception of a callback comes out of run_until_complete with any number of
\* tasks: no result is returned and no further iteration starts.
THEOREM CallbackExceptionSurfaces == Spec => ExceptionSurfaces
<1>1. IInv /\ [Next]_vars => [raised => phase' # "returned" /\ (batch = <<>> => batch' = <<>>)]_vars
  <2> SUFFICES ASSUME IInv, Next, raised
               PROVE  (phase' # "returned" /\ (batch = <<>> => batch' = <<>>)) \/ UNCHANGED vars
    BY DEF IInv
  <2>1. exception
    BY DEF IInv, Recorded
  <2>2. CASE RunHandle \/ EndBatch \/ Poll
    BY <2>1, <2>2 DEF RunHandle, EndBatch, Poll, Continue
  <2>3. CASE Loop /\ ~(RunHandle \/ EndBatch \/ Poll)
    BY <2>3 DEF Loop, MainStart, MainEnds, MainContinues, Fetch, ReadBody, WriteBody, Running,
                Register, Drop, Put, loopVars
  <2>4. ASSUME NEW t \in Tasks, Host(t) \/ Forget(t) PROVE phase' # "returned" /\ batch' = batch
    BY <2>4 DEF Host, Forget, Drop, loopVars, IInv, Recorded
  <2> QED BY <2>2, <2>3, <2>4 DEF Next, Resting
<1> QED BY <1>1, Invariance, PTL DEF Spec, ExceptionSurfaces

-----------------------------------------------------------------------------
(* Sequences of handles.                                                   *)

Turn == [kind : {"step", "done", "raise"}, task : Tasks]
Waker == [task : Tasks, live : BOOLEAN]

\* The handles of q step the tasks of W, each of them once.
Schedules(q, W) ==
  /\ q \in Seq(Turn) /\ W \subseteq Tasks
  /\ \A j \in 1 .. Len(q) : q[j].kind = "step" => q[j].task \in W
  /\ \A t \in W : \E j \in 1 .. Len(q) : q[j] = Step(t)
  /\ \A j, k \in 1 .. Len(q) : q[j].kind = "step" /\ q[j] = q[k] => j = k

LEMMA TurnIsStep ==
  ASSUME NEW h \in Turn, h.kind = "step" PROVE h.task \in Tasks /\ h = Step(h.task)
BY DEF Turn, Step

LEMMA NothingScheduled == Schedules(<<>>, {})
BY DEF Schedules

\* Appending a handle, putting lists together, and taking a handle off.
LEMMA AppendOther ==
  ASSUME NEW q, NEW W, Schedules(q, W), NEW x \in Turn, x.kind # "step"
  PROVE  Schedules(Append(q, x), W)
<1> DEFINE p == Append(q, x)
<1>1. /\ p \in Seq(Turn) /\ Len(p) = Len(q) + 1 /\ Len(q) \in Nat
      /\ \A j \in 1 .. Len(q) : p[j] = q[j]
      /\ p[Len(q) + 1] = x
  BY DEF Schedules
<1> HIDE DEF p
<1>2. \A j \in 1 .. Len(p) : j \in 1 .. Len(q) \/ j = Len(q) + 1
  BY <1>1
<1>3. \A j \in 1 .. Len(q) : j \in 1 .. Len(p)
  BY <1>1
<1>4. Schedules(p, W)
  BY <1>1, <1>2, <1>3 DEF Schedules
<1> QED BY <1>4 DEF p

LEMMA AppendStep ==
  ASSUME NEW q, NEW W, Schedules(q, W), NEW t \in Tasks, t \notin W
  PROVE  Schedules(Append(q, Step(t)), W \cup {t})
<1> DEFINE x == Step(t)
           p == Append(q, x)
<1>1. x \in Turn /\ x.kind = "step" /\ x.task = t
  BY DEF Turn, Step
<1>2. /\ p \in Seq(Turn) /\ Len(p) = Len(q) + 1 /\ Len(q) \in Nat
      /\ \A j \in 1 .. Len(q) : p[j] = q[j]
      /\ p[Len(q) + 1] = x
  BY <1>1 DEF Schedules
<1> HIDE DEF p, x
<1>3. \A j \in 1 .. Len(p) : j \in 1 .. Len(q) \/ j = Len(q) + 1
  BY <1>2
<1>4. \A j \in 1 .. Len(q) : j \in 1 .. Len(p)
  BY <1>2
<1>5. Len(q) + 1 \in 1 .. Len(p)
  BY <1>2
<1>6. \A j \in 1 .. Len(q) : q[j] # x
  BY <1>1 DEF Schedules
<1>7. Schedules(p, W \cup {t})
  <2>1. W \cup {t} \subseteq Tasks
    BY DEF Schedules
  <2>2. \A j \in 1 .. Len(p) : p[j].kind = "step" => p[j].task \in W \cup {t}
    BY <1>1, <1>2, <1>3 DEF Schedules
  <2>3. \A u \in W \cup {t} : \E j \in 1 .. Len(p) : p[j] = Step(u)
    BY <1>2, <1>4, <1>5 DEF Schedules, x
  <2>4. \A j, k \in 1 .. Len(p) : p[j].kind = "step" /\ p[j] = p[k] => j = k
    BY <1>2, <1>3, <1>6 DEF Schedules
  <2> QED BY <1>2, <2>1, <2>2, <2>3, <2>4 DEF Schedules
<1> QED BY <1>7 DEF p, x

LEMMA Together ==
  ASSUME NEW p, NEW q, NEW V, NEW W, Schedules(p, V), Schedules(q, W), V \cap W = {}
  PROVE  Schedules(p \o q, V \cup W)
<1> DEFINE r == p \o q
           m == Len(p)
           n == Len(q)
<1>1. /\ r \in Seq(Turn) /\ Len(r) = m + n /\ m \in Nat /\ n \in Nat
      /\ \A j \in 1 .. m : r[j] = p[j]
      /\ \A j \in 1 .. n : r[m + j] = q[j]
  <2>1. p \in Seq(Turn) /\ q \in Seq(Turn)
    BY DEF Schedules
  <2> QED BY <2>1
<1> HIDE DEF r
<1>2. \A j \in 1 .. m + n : j \in 1 .. m \/ (j - m \in 1 .. n /\ j = m + (j - m))
  BY <1>1
<1>3. /\ \A j \in 1 .. m : j \in 1 .. m + n
      /\ \A j \in 1 .. n : m + j \in 1 .. m + n
  BY <1>1
<1>4. \A j \in 1 .. m, k \in 1 .. n : p[j].kind = "step" => p[j] # q[k]
  BY DEF Schedules
<1>5. ASSUME NEW j \in 1 .. m + n
      PROVE  \/ j \in 1 .. m /\ r[j] = p[j]
             \/ \E k \in 1 .. n : j = m + k /\ r[j] = q[k]
  BY <1>1, <1>2
<1> HIDE DEF m, n
<1>6. \A j \in 1 .. m + n : r[j].kind = "step" => r[j].task \in V \cup W
  BY <1>5 DEF Schedules, m, n
<1>7. \A u \in V \cup W : \E j \in 1 .. m + n : r[j] = Step(u)
  <2>1. ASSUME NEW u \in V PROVE \E j \in 1 .. m + n : r[j] = Step(u)
    <3>1. PICK j \in 1 .. m : p[j] = Step(u)
      BY DEF Schedules, m
    <3> QED BY <1>1, <1>3, <3>1
  <2>2. ASSUME NEW u \in W PROVE \E j \in 1 .. m + n : r[j] = Step(u)
    <3>1. PICK j \in 1 .. n : q[j] = Step(u)
      BY DEF Schedules, n
    <3> QED BY <1>1, <1>3, <3>1
  <2> QED BY <2>1, <2>2
<1>8. ASSUME NEW j \in 1 .. m + n, NEW k \in 1 .. m + n, r[j].kind = "step", r[j] = r[k]
      PROVE  j = k
  <2>1. /\ \A a, b \in 1 .. m : p[a].kind = "step" /\ p[a] = p[b] => a = b
        /\ \A a, b \in 1 .. n : q[a].kind = "step" /\ q[a] = q[b] => a = b
    BY DEF Schedules, m, n
  <2> QED BY <1>4, <1>5, <1>8, <2>1
<1>9. V \cup W \subseteq Tasks
  BY DEF Schedules
<1>10. Schedules(r, V \cup W)
  BY <1>1, <1>6, <1>7, <1>8, <1>9 DEF Schedules
<1> QED BY <1>10 DEF r

LEMMA TakenOff ==
  ASSUME NEW q, NEW W, Schedules(q, W), q # <<>>
  PROVE  /\ Head(q) \in Turn
         /\ Head(q).kind = "step" => Head(q).task \in W /\ Schedules(Tail(q), W \ {Head(q).task})
         /\ Head(q).kind # "step" => Schedules(Tail(q), W)
<1> DEFINE r == Tail(q)
           h == Head(q)
<1>1. q \in Seq(Turn)
  BY DEF Schedules
<1>2. /\ r \in Seq(Turn) /\ Len(r) = Len(q) - 1 /\ Len(q) \in Nat /\ 1 \in 1 .. Len(q)
      /\ \A j \in 1 .. Len(r) : r[j] = q[j + 1]
      /\ h = q[1] /\ h \in Turn
  BY <1>1
<1> HIDE DEF r, h
<1>3. /\ \A j \in 1 .. Len(r) : j + 1 \in 1 .. Len(q) /\ j + 1 # 1
      /\ \A j \in 1 .. Len(q) : j = 1 \/ (j - 1 \in 1 .. Len(r) /\ j = (j - 1) + 1)
  BY <1>2
<1>4. \A j, k \in 1 .. Len(r) : r[j].kind = "step" /\ r[j] = r[k] => j = k
  <2> SUFFICES ASSUME NEW j \in 1 .. Len(r), NEW k \in 1 .. Len(r), r[j].kind = "step", r[j] = r[k]
               PROVE  j = k
    OBVIOUS
  <2>1. j + 1 = k + 1
    BY <1>2, <1>3 DEF Schedules
  <2> QED BY <1>2, <2>1
<1>5. ASSUME NEW t \in W, h # Step(t) PROVE \E j \in 1 .. Len(r) : r[j] = Step(t)
  <2>1. PICK j \in 1 .. Len(q) : q[j] = Step(t)
    BY DEF Schedules
  <2>2. j # 1
    BY <1>2, <1>5, <2>1
  <2>3. j - 1 \in 1 .. Len(r) /\ (j - 1) + 1 = j
    BY <1>3, <2>2
  <2> QED BY <1>2, <2>1, <2>3
<1>6. CASE h.kind = "step"
  <2>1. h.task \in W /\ h = Step(h.task)
    BY <1>2, <1>6, TurnIsStep DEF Schedules
  <2>2. \A j \in 1 .. Len(r) : r[j].kind = "step" => r[j].task \in W \ {h.task}
    <3> SUFFICES ASSUME NEW j \in 1 .. Len(r), r[j].kind = "step" PROVE r[j].task \in W \ {h.task}
      OBVIOUS
    <3>1. r[j] = q[j + 1] /\ j + 1 \in 1 .. Len(q) /\ j + 1 # 1 /\ q[j + 1] \in Turn
      BY <1>1, <1>2, <1>3
    <3>2. q[j + 1] # q[1]
      BY <1>2, <3>1 DEF Schedules
    <3>3. r[j] = Step(r[j].task)
      BY <3>1, TurnIsStep
    <3>4. r[j].task \in W
      BY <3>1 DEF Schedules
    <3>5. r[j].task # h.task
      BY <1>2, <2>1, <3>1, <3>2, <3>3
    <3> QED BY <3>4, <3>5
  <2>3. \A t \in W \ {h.task} : h # Step(t)
    BY <1>2 DEF Step
  <2>4. W \ {h.task} \subseteq Tasks
    BY DEF Schedules
  <2>5. Schedules(r, W \ {h.task})
    BY <1>2, <1>4, <1>5, <2>2, <2>3, <2>4 DEF Schedules
  <2> QED BY <1>2, <1>6, <2>1, <2>5 DEF r, h
<1>7. CASE h.kind # "step"
  <2>1. \A t \in W : h # Step(t)
    BY <1>7 DEF Step
  <2>2. \A j \in 1 .. Len(r) : r[j].kind = "step" => r[j].task \in W
    BY <1>2, <1>3 DEF Schedules
  <2>3. Schedules(r, W)
    BY <1>2, <1>4, <1>5, <2>1, <2>2 DEF Schedules
  <2> QED BY <1>2, <1>7, <2>3 DEF r, h
<1> QED BY <1>6, <1>7

LEMMA FirstNumbers ==
  ASSUME NEW n \in Nat PROVE IsFiniteSet(1 .. n) /\ Cardinality(1 .. n) = n
<1>1. /\ IsFiniteSet(1 .. n)
      /\ Cardinality(1 .. n) = IF 1 > n THEN 0 ELSE n - 1 + 1
  BY FS_Interval
<1> QED BY <1>1

\* SetToSeq lists every element of a finite set once.
LEMMA ListedOnce ==
  ASSUME NEW S, IsFiniteSet(S)
  PROVE  LET q == SetToSeq(S) IN
         /\ q \in Seq(S)
         /\ \A x \in S : \E j \in 1 .. Len(q) : q[j] = x
         /\ \A j, k \in 1 .. Len(q) : q[j] = q[k] => j = k
<1> DEFINE n == Cardinality(S)
           q == SetToSeq(S)
<1>1. n \in Nat /\ ExistsBijection(1 .. n, S)
  BY FS_CardinalityType
<1>2. PICK g : g \in Bijection(1 .. n, S)
  BY <1>1 DEF ExistsBijection
<1>3. g \in [1 .. n -> S] /\ IsInjective(g)
  BY <1>2 DEF Bijection, Injection
<1>4. q \in [1 .. n -> S] /\ IsInjective(q)
  <2>1. \E f \in [1 .. n -> S] : IsInjective(f)
    BY <1>3
  <2>2. q = CHOOSE f \in [1 .. n -> S] : IsInjective(f)
    BY DEF SetToSeq
  <2> HIDE DEF q, n
  <2> QED BY <2>1, <2>2
<1> HIDE DEF q, n
<1>5. Cardinality(1 .. n) = n /\ IsFiniteSet(1 .. n)
  BY <1>1, FirstNumbers
<1>6. q \in Surjection(1 .. n, S)
  <2>1. q \in Injection(1 .. n, S)
    BY <1>4 DEF Injection
  <2> QED BY <1>5, <2>1, FS_Injection DEF n
<1>7. q \in Seq(S) /\ Len(q) = n
  BY <1>1, <1>4
<1>8. \A x \in S : \E j \in 1 .. n : q[j] = x
  BY <1>6 DEF Surjection
<1>9. \A j, k \in 1 .. n : q[j] = q[k] => j = k
  BY <1>4 DEF IsInjective
<1>10. /\ q \in Seq(S)
       /\ \A x \in S : \E j \in 1 .. Len(q) : q[j] = x
       /\ \A j, k \in 1 .. Len(q) : q[j] = q[k] => j = k
  BY <1>7, <1>8, <1>9
<1> QED BY <1>10 DEF q

\* Elements takes what stands at the indices I, each of them once.
LEMMA ElementsOf ==
  ASSUME NEW X, NEW s \in Seq(X), NEW I \in SUBSET (1 .. Len(s))
  PROVE  LET e == Elements(s, I) IN
         /\ e \in Seq(X) /\ IsFiniteSet(I)
         /\ \E f \in [1 .. Len(e) -> I] :
              /\ \A k \in 1 .. Len(e) : e[k] = s[f[k]]
              /\ \A k, l \in 1 .. Len(e) : f[k] = f[l] => k = l
              /\ \A i \in I : \E k \in 1 .. Len(e) : f[k] = i
<1> DEFINE n == Cardinality(I)
           below(i) == {j \in I : j <= i}
           rank == [i \in I |-> Cardinality(below(i))]
           f == [k \in 1 .. n |-> CHOOSE i \in I : Cardinality(below(i)) = k]
           e == Elements(s, I)
<1>1. IsFiniteSet(I) /\ n \in Nat /\ I \subseteq Nat
  <2>1. Len(s) \in Nat /\ IsFiniteSet(1 .. Len(s))
    BY FS_Interval
  <2>2. IsFiniteSet(I)
    BY <2>1, FS_Subset
  <2> QED BY <2>1, <2>2, FS_CardinalityType
<1>2. \A i \in I : IsFiniteSet(below(i)) /\ Cardinality(below(i)) \in 1 .. n
  <2> SUFFICES ASSUME NEW i \in I
               PROVE  IsFiniteSet(below(i)) /\ Cardinality(below(i)) \in 1 .. n
    OBVIOUS
  <2>1. below(i) \in SUBSET I /\ i \in below(i)
    BY <1>1
  <2> HIDE DEF below
  <2>2. IsFiniteSet(below(i)) /\ Cardinality(below(i)) <= n
    BY <1>1, <2>1, FS_Subset
  <2>3. Cardinality(below(i)) \in Nat /\ Cardinality(below(i)) # 0
    BY <2>1, <2>2, FS_CardinalityType, FS_EmptySet
  <2> QED BY <1>1, <2>2, <2>3
<1>3. \A i, j \in I : i < j => Cardinality(below(i)) # Cardinality(below(j))
  <2> SUFFICES ASSUME NEW i \in I, NEW j \in I, i < j
               PROVE  Cardinality(below(i)) # Cardinality(below(j))
    OBVIOUS
  <2>1. below(i) \in SUBSET below(j) /\ j \in below(j) /\ j \notin below(i)
    <3>1. \A k : (k \in below(i) <=> k \in I /\ k <= i) /\ (k \in below(j) <=> k \in I /\ k <= j)
      OBVIOUS
    <3> HIDE DEF below
    <3>2. i \in Nat /\ j \in Nat /\ ~(j <= i) /\ j <= j
      BY <1>1
    <3>3. \A k \in I : k <= i => k <= j
      BY <1>1, <3>2
    <3> QED BY <3>1, <3>2, <3>3
  <2>2. IsFiniteSet(below(j))
    BY <1>2
  <2> HIDE DEF below
  <2> QED BY <2>1, <2>2, FS_Subset
<1>4. \A i, j \in I : Cardinality(below(i)) = Cardinality(below(j)) => i = j
  <2>1. \A i, j \in I : i = j \/ i < j \/ j < i
    BY <1>1
  <2> HIDE DEF below
  <2> QED BY <1>3, <2>1
<1>5. \A k \in 1 .. n : \E i \in I : Cardinality(below(i)) = k
  <2>1. rank \in [I -> 1 .. n]
    <3> HIDE DEF below, n
    <3> QED BY <1>2
  <2>2. IsInjective(rank)
    <3> HIDE DEF below
    <3>1. DOMAIN rank = I /\ \A i \in I : rank[i] = Cardinality(below(i))
      OBVIOUS
    <3> HIDE DEF rank
    <3> QED BY <1>4, <3>1 DEF IsInjective
  <2>3. rank \in Injection(I, 1 .. n)
    BY <2>1, <2>2 DEF Injection
  <2>4. IsFiniteSet(1 .. n) /\ Cardinality(1 .. n) = n
    <3> HIDE DEF n
    <3> QED BY <1>1, FirstNumbers
  <2> HIDE DEF rank
  <2>5. rank \in Surjection(I, 1 .. n)
    BY <2>3, <2>4, FS_Injection
  <2>6. \A k \in 1 .. n : \E i \in I : rank[i] = k
    BY <2>5 DEF Surjection
  <2> QED BY <2>6 DEF rank
<1>6. \A k \in 1 .. n : f[k] \in I /\ Cardinality(below(f[k])) = k
  <2> HIDE DEF below
  <2> QED BY <1>5
<1>7. e = [k \in 1 .. n |-> s[f[k]]]
  BY DEF Elements
<1> HIDE DEF below, n, e
<1>8. f \in [1 .. n -> I]
  BY <1>6
<1>9. \A i \in I : \E k \in 1 .. n : f[k] = i
  <2> SUFFICES ASSUME NEW i \in I PROVE \E k \in 1 .. n : f[k] = i
    OBVIOUS
  <2>1. Cardinality(below(i)) \in 1 .. n
    BY <1>2
  <2>2. f[Cardinality(below(i))] = i
    <3> HIDE DEF f
    <3> QED BY <1>4, <1>6, <2>1
  <2> QED BY <2>1, <2>2
<1> HIDE DEF f
<1>10. \A k, l \in 1 .. n : f[k] = f[l] => k = l
  BY <1>6
<1>11. e \in Seq(X) /\ Len(e) = n /\ \A k \in 1 .. n : e[k] = s[f[k]]
  <2>1. \A i \in I : s[i] \in X
    OBVIOUS
  <2>2. \A k \in 1 .. n : s[f[k]] \in X
    BY <1>8, <2>1
  <2> QED BY <1>1, <1>7, <2>2
<1>12. /\ e \in Seq(X) /\ IsFiniteSet(I)
       /\ \E g \in [1 .. Len(e) -> I] :
            /\ \A k \in 1 .. Len(e) : e[k] = s[g[k]]
            /\ \A k, l \in 1 .. Len(e) : g[k] = g[l] => k = l
            /\ \A i \in I : \E k \in 1 .. Len(e) : g[k] = i
  BY <1>1, <1>8, <1>9, <1>10, <1>11
<1> QED BY <1>12 DEF e

LEMMA StepsListed ==
  ASSUME NEW S \in SUBSET Tasks, IsFiniteSet(S)
  PROVE  Schedules(SetToSeq({Step(t) : t \in S}), S)
<1> DEFINE T == {Step(t) : t \in S}
           f == [t \in S |-> Step(t)]
           q == SetToSeq(T)
<1>1. f \in Surjection(S, T)
  BY DEF Surjection
<1>2. IsFiniteSet(T)
  <2> HIDE DEF f, T
  <2> QED BY <1>1, FS_Surjection
<1>3. /\ q \in Seq(T)
      /\ \A x \in T : \E j \in 1 .. Len(q) : q[j] = x
      /\ \A j, k \in 1 .. Len(q) : q[j] = q[k] => j = k
  <2> HIDE DEF T
  <2> QED BY <1>2, ListedOnce
<1>4. \A x \in T : x \in Turn /\ x.task \in S
  BY DEF Turn, Step
<1>5. \A t \in S : Step(t) \in T
  OBVIOUS
<1> HIDE DEF T, q
<1>6. \A j \in 1 .. Len(q) : q[j] \in T
  BY <1>3
<1>7. q \in Seq(Turn)
  <2>1. T \subseteq Turn
    BY <1>4
  <2> QED BY <1>3, <2>1
<1>8. Schedules(q, S)
  BY <1>3, <1>4, <1>5, <1>6, <1>7 DEF Schedules
<1> QED BY <1>8 DEF q, T

LEMMA DonesListed ==
  ASSUME NEW S \in SUBSET Tasks, IsFiniteSet(S)
  PROVE  Schedules(SetToSeq({Done(t) : t \in S}), {})
<1> DEFINE T == {Done(t) : t \in S}
           f == [t \in S |-> Done(t)]
           q == SetToSeq(T)
<1>1. f \in Surjection(S, T)
  BY DEF Surjection
<1>2. IsFiniteSet(T)
  <2> HIDE DEF f, T
  <2> QED BY <1>1, FS_Surjection
<1>3. q \in Seq(T)
  <2> HIDE DEF T
  <2> QED BY <1>2, ListedOnce
<1>4. \A x \in T : x \in Turn /\ x.kind # "step"
  BY DEF Turn, Done
<1> HIDE DEF T, q
<1>5. q \in Seq(Turn) /\ \A j \in 1 .. Len(q) : q[j].kind # "step"
  <2>1. T \subseteq Turn /\ \A j \in 1 .. Len(q) : q[j] \in T
    BY <1>3, <1>4
  <2> QED BY <1>3, <1>4, <2>1
<1>6. Schedules(q, {})
  BY <1>5 DEF Schedules
<1> QED BY <1>6 DEF q, T

\* The handles that poll schedules for the wakers at the indices I.
LEMMA StepsWoken ==
  ASSUME NEW w \in Seq(Waker), NEW I \in SUBSET (1 .. Len(w)),
         \A i, j \in I : w[i].task = w[j].task => i = j
  PROVE  LET e == Elements(w, I) IN
         Schedules([k \in DOMAIN e |-> Step(e[k].task)], {w[i].task : i \in I})
<1> DEFINE e == Elements(w, I)
           q == [k \in DOMAIN e |-> Step(e[k].task)]
           W == {w[i].task : i \in I}
<1>1. /\ e \in Seq(Waker)
      /\ \E f \in [1 .. Len(e) -> I] :
           /\ \A k \in 1 .. Len(e) : e[k] = w[f[k]]
           /\ \A k, l \in 1 .. Len(e) : f[k] = f[l] => k = l
           /\ \A i \in I : \E k \in 1 .. Len(e) : f[k] = i
  BY ElementsOf
<1> HIDE DEF e
<1> DEFINE n == Len(e)
<1>2. PICK f \in [1 .. n -> I] :
        /\ \A k \in 1 .. n : e[k] = w[f[k]]
        /\ \A k, l \in 1 .. n : f[k] = f[l] => k = l
        /\ \A i \in I : \E k \in 1 .. n : f[k] = i
  BY <1>1
<1>3. DOMAIN e = 1 .. n /\ n \in Nat /\ \A k \in 1 .. n : e[k] \in Waker
  BY <1>1
<1> HIDE DEF n
<1>4. \A k \in 1 .. n : /\ f[k] \in I /\ q[k] = Step(w[f[k]].task)
                        /\ q[k] \in Turn /\ q[k].task = w[f[k]].task
  <2> SUFFICES ASSUME NEW k \in 1 .. n
               PROVE  /\ f[k] \in I /\ q[k] = Step(w[f[k]].task)
                      /\ q[k] \in Turn /\ q[k].task = w[f[k]].task
    OBVIOUS
  <2>1. f[k] \in I /\ q[k] = Step(w[f[k]].task) /\ w[f[k]] \in Waker
    BY <1>2, <1>3
  <2> QED BY <2>1 DEF Waker, Turn, Step
<1>5. q \in Seq(Turn) /\ Len(q) = n
  <2>1. q \in [1 .. n -> Turn]
    BY <1>3, <1>4
  <2> QED BY <1>3, <2>1
<1> HIDE DEF q
<1>6. \A k \in 1 .. n : q[k].task \in W
  BY <1>4
<1>7. \A t \in W : \E k \in 1 .. n : q[k] = Step(t)
  <2> SUFFICES ASSUME NEW i \in I PROVE \E k \in 1 .. n : q[k] = Step(w[i].task)
    OBVIOUS
  <2>1. PICK k \in 1 .. n : f[k] = i
    BY <1>2
  <2> QED BY <1>4, <2>1
<1>8. \A j, k \in 1 .. n : q[j] = q[k] => j = k
  <2> SUFFICES ASSUME NEW j \in 1 .. n, NEW k \in 1 .. n, q[j] = q[k] PROVE j = k
    OBVIOUS
  <2>1. f[j] \in I /\ f[k] \in I /\ w[f[j]].task = w[f[k]].task
    BY <1>4
  <2>2. f[j] = f[k]
    BY <2>1
  <2> QED BY <1>2, <2>2
<1>9. W \subseteq Tasks
  <2>1. \A i \in 1 .. Len(w) : w[i] \in Waker
    OBVIOUS
  <2> QED BY <2>1 DEF Waker
<1>10. Schedules(q, W)
  BY <1>5, <1>6, <1>7, <1>8, <1>9 DEF Schedules
<1> QED BY <1>10 DEF q, e

-----------------------------------------------------------------------------
(* Sequences of wakers.                                                    *)

Live(w) == \A j \in 1 .. Len(w) : w[j].live

\* The live wakers of w are those of the tasks of V, one of each.
Watches(w, V) ==
  /\ w \in Seq(Waker)
  /\ \A j \in 1 .. Len(w) : w[j].live => w[j].task \in V
  /\ \A t \in V : \E j \in 1 .. Len(w) : w[j].live /\ w[j].task = t
  /\ \A j, k \in 1 .. Len(w) : w[j].live /\ w[k].live /\ w[j].task = w[k].task => j = k

LEMMA WatchMore ==
  ASSUME NEW w, NEW V, Watches(w, V), NEW t \in Tasks, t \notin V
  PROVE  /\ Watches(Append(w, [task |-> t, live |-> TRUE]), V \cup {t})
         /\ Live(w) => Live(Append(w, [task |-> t, live |-> TRUE]))
<1> DEFINE x == [task |-> t, live |-> TRUE]
           v == Append(w, x)
           n == Len(w)
<1>1. x \in Waker /\ x.live /\ x.task = t
  BY DEF Waker
<1>2. /\ v \in Seq(Waker) /\ Len(v) = n + 1 /\ n \in Nat
      /\ \A j \in 1 .. n : v[j] = w[j]
      /\ v[n + 1] = x
  BY <1>1 DEF Watches
<1> HIDE DEF v, x
<1>3. /\ \A j \in 1 .. n + 1 : j \in 1 .. n \/ j = n + 1
      /\ \A j \in 1 .. n : j \in 1 .. n + 1
      /\ n + 1 \in 1 .. n + 1
  BY <1>2
<1>4. \A j \in 1 .. n : w[j].live => w[j].task \in V /\ w[j].task # t
  BY DEF Watches
<1>5. Watches(v, V \cup {t})
  <2>1. \A j \in 1 .. n + 1 : v[j].live => v[j].task \in V \cup {t}
    BY <1>1, <1>2, <1>3, <1>4
  <2>2. \A u \in V \cup {t} : \E j \in 1 .. n + 1 : v[j].live /\ v[j].task = u
    <3>1. \A u \in V : \E j \in 1 .. n : w[j].live /\ w[j].task = u
      BY DEF Watches
    <3> QED BY <1>1, <1>2, <1>3, <3>1
  <2>3. \A j, k \in 1 .. n + 1 : v[j].live /\ v[k].live /\ v[j].task = v[k].task => j = k
    <3>1. \A j, k \in 1 .. n : w[j].live /\ w[k].live /\ w[j].task = w[k].task => j = k
      BY DEF Watches
    <3> QED BY <1>1, <1>2, <1>3, <1>4, <3>1
  <2> QED BY <1>2, <2>1, <2>2, <2>3 DEF Watches
<1>6. Live(w) => Live(v)
  BY <1>1, <1>2, <1>3 DEF Live
<1> QED BY <1>5, <1>6 DEF v, x

\* Cancelling the futures of the tasks of S.
Cut(w, S) ==
  [i \in DOMAIN w |-> IF w[i].task \in S THEN [w[i] EXCEPT !.live = FALSE] ELSE w[i]]

LEMMA WatchFewer ==
  ASSUME NEW w, NEW V, Watches(w, V), NEW S
  PROVE  /\ Watches(Cut(w, S), V \ S)
         /\ Live(w) /\ S = {} => Live(Cut(w, S))
<1> DEFINE v == Cut(w, S)
           n == Len(w)
<1>1. w \in Seq(Waker) /\ DOMAIN w = 1 .. n /\ n \in Nat /\ \A j \in 1 .. n : w[j] \in Waker
  BY DEF Watches
<1>2. \A j \in 1 .. n : /\ v[j] \in Waker /\ v[j].task = w[j].task
                        /\ v[j].live = (w[j].live /\ w[j].task \notin S)
  <2> SUFFICES ASSUME NEW j \in 1 .. n
               PROVE  /\ v[j] \in Waker /\ v[j].task = w[j].task
                      /\ v[j].live = (w[j].live /\ w[j].task \notin S)
    OBVIOUS
  <2>1. w[j] \in Waker /\ v[j] = IF w[j].task \in S THEN [w[j] EXCEPT !.live = FALSE] ELSE w[j]
    BY <1>1 DEF Cut
  <2>2. CASE w[j].task \in S
    <3>1. v[j] = [w[j] EXCEPT !.live = FALSE]
      BY <2>1, <2>2
    <3>2. v[j] \in Waker /\ v[j].task = w[j].task /\ v[j].live = FALSE
      BY <2>1, <3>1 DEF Waker
    <3> QED BY <2>2, <3>2
  <2>3. CASE w[j].task \notin S
    BY <2>1, <2>3 DEF Waker
  <2> QED BY <2>2, <2>3
<1>3. v \in Seq(Waker) /\ Len(v) = n
  <2>1. v \in [1 .. n -> Waker]
    BY <1>1, <1>2 DEF Cut
  <2> QED BY <1>1, <2>1
<1> HIDE DEF v, n
<1>4. Watches(v, V \ S)
  <2>1. \A j \in 1 .. n : v[j].live => v[j].task \in V \ S
    BY <1>2 DEF Watches, n
  <2>2. \A u \in V \ S : \E j \in 1 .. n : v[j].live /\ v[j].task = u
    BY <1>2 DEF Watches, n
  <2>3. \A j, k \in 1 .. n : v[j].live /\ v[k].live /\ v[j].task = v[k].task => j = k
    BY <1>2 DEF Watches, n
  <2> QED BY <1>3, <2>1, <2>2, <2>3 DEF Watches
<1>5. Live(w) /\ S = {} => Live(v)
  BY <1>2, <1>3 DEF Live, n
<1> QED BY <1>4, <1>5 DEF v

\* The wakers that remain when those at the indices F are set.
LEMMA WatchRest ==
  ASSUME NEW w, NEW V, Watches(w, V), NEW F \in SUBSET (DOMAIN w),
         \A i \in F, j \in DOMAIN w : w[i].task = w[j].task => j \in F
  PROVE  /\ Watches(Elements(w, DOMAIN w \ F), V \ {w[i].task : i \in F})
         /\ Live(w) => Live(Elements(w, DOMAIN w \ F))
<1> DEFINE I == DOMAIN w \ F
           e == Elements(w, I)
           U == {w[i].task : i \in F}
<1>1. w \in Seq(Waker) /\ DOMAIN w = 1 .. Len(w)
  BY DEF Watches
<1>2. I \in SUBSET (1 .. Len(w)) /\ \A i \in I : i \in 1 .. Len(w) /\ w[i].task \notin U
  BY <1>1
<1>3. \A j \in 1 .. Len(w) : w[j].task \notin U => j \in I
  BY <1>1
<1> HIDE DEF I, U
<1>0. w \in Seq(Waker) /\ I \in SUBSET (1 .. Len(w))
  BY <1>1, <1>2
<1>4. /\ e \in Seq(Waker)
      /\ \E f \in [1 .. Len(e) -> I] :
           /\ \A k \in 1 .. Len(e) : e[k] = w[f[k]]
           /\ \A k, l \in 1 .. Len(e) : f[k] = f[l] => k = l
           /\ \A i \in I : \E k \in 1 .. Len(e) : f[k] = i
  BY ONLY <1>0, ElementsOf
<1> HIDE DEF e
<1>5. PICK f \in [1 .. Len(e) -> I] :
        /\ \A k \in 1 .. Len(e) : e[k] = w[f[k]]
        /\ \A k, l \in 1 .. Len(e) : f[k] = f[l] => k = l
        /\ \A i \in I : \E k \in 1 .. Len(e) : f[k] = i
  BY <1>4
<1>6. \A k \in 1 .. Len(e) : f[k] \in I /\ f[k] \in 1 .. Len(w) /\ e[k] = w[f[k]]
  BY <1>2, <1>5
<1>7. Watches(e, V \ U)
  <2>1. \A j \in 1 .. Len(e) : e[j].live => e[j].task \in V \ U
    BY <1>2, <1>6 DEF Watches
  <2>2. \A u \in V \ U : \E j \in 1 .. Len(e) : e[j].live /\ e[j].task = u
    <3> SUFFICES ASSUME NEW u \in V \ U PROVE \E j \in 1 .. Len(e) : e[j].live /\ e[j].task = u
      OBVIOUS
    <3>1. PICK i \in 1 .. Len(w) : w[i].live /\ w[i].task = u
      BY DEF Watches
    <3>2. PICK k \in 1 .. Len(e) : f[k] = i
      BY <1>3, <1>5, <3>1
    <3> QED BY <1>6, <3>1, <3>2
  <2>3. \A j, k \in 1 .. Len(e) : e[j].live /\ e[k].live /\ e[j].task = e[k].task => j = k
    <3> SUFFICES ASSUME NEW j \in 1 .. Len(e), NEW k \in 1 .. Len(e),
                        e[j].live, e[k].live, e[j].task = e[k].task
                 PROVE  j = k
      OBVIOUS
    <3>1. f[j] = f[k]
      BY <1>6 DEF Watches
    <3> QED BY <1>5, <3>1
  <2> QED BY <1>4, <2>1, <2>2, <2>3 DEF Watches
<1>8. Live(w) => Live(e)
  BY <1>6 DEF Live
<1> QED BY <1>7, <1>8 DEF e, I, U

-----------------------------------------------------------------------------
(* The inductive invariant for wakeups.                                    *)

In(s) == {t \in Tasks : state[t] = s}

\* A task that is ready has one handle, in the batch or among those for later.
Turning ==
  \E B, H \in SUBSET Tasks :
    /\ Schedules(batch, B) /\ Schedules(handles, H)
    /\ B \cap H = {} /\ B \cup H = In("ready")

Waiting == Watches(wakers, In("waiting"))

\* The running task is the current one, the loop polls between its batches, and
\* no child is started before Main starts it.
Stages ==
  /\ cancelling \subseteq Children
  /\ \A t \in Tasks : current = t <=> state[t] = "running"
  /\ current \in Tasks \cup {NoTask}
  /\ phase = "poll" => batch = <<>> /\ current = NoTask
  /\ plan = "start" => \A t \in Children : state[t] = "new"

\* Without cancellation no future is cancelled, and nothing ends the component.
Unbroken == Cancelled = {} => phase \notin {"invalid_state", "trap"} /\ Live(wakers)

Watch == Types /\ Turning /\ Waiting /\ Stages /\ Unbroken

LEMMA NothingLeft ==
  ASSUME NEW W, Schedules(<<>>, W) PROVE W = {}
<1>1. \A t \in W : \E j \in 1 .. Len(<<>>) : <<>>[j] = Step(t)
  BY DEF Schedules
<1> QED BY <1>1

\* A pollable of a task that does not wait belongs to a cancelled future.
LEMMA PollableLeft ==
  ASSUME Watch, NEW t \in Tasks, state[t] # "waiting", HasPollable(t)
  PROVE  Cancelled # {}
<1>1. wakers \in Seq(Waker) /\ DOMAIN wakers = 1 .. Len(wakers)
  BY DEF Watch, Waiting, Watches
<1>2. PICK i \in 1 .. Len(wakers) : wakers[i].task = t
  BY <1>1 DEF HasPollable
<1>3. ~wakers[i].live
  BY <1>2 DEF Watch, Waiting, Watches, In
<1> QED BY <1>3 DEF Watch, Unbroken, Live

\* What a step may do to the cancelled tasks.
LEMMA StillCancelled ==
  ASSUME cancelling \subseteq cancelling',
         \A t \in Children : state[t] = "cancelled" => state'[t] = "cancelled"
  PROVE  Cancelled \subseteq Cancelled'
BY DEF Cancelled

LEMMA InitWatches == Init => Watch
<1> SUFFICES ASSUME Init PROVE Watch
  OBVIOUS
<1>1. Types
  BY InitHolds DEF IInv
<1>2. state = [t \in Tasks |-> IF t = Main THEN "ready" ELSE "new"] /\ Main \in Tasks
  BY DEF Init, Tasks
<1>3. In("ready") = {Main} /\ In("waiting") = {}
  BY <1>2 DEF In
<1>4. Turning
  <2>1. Schedules(Append(<<>>, Step(Main)), {} \cup {Main})
    BY <1>2, NothingScheduled, AppendStep
  <2>2. batch = Append(<<>>, Step(Main)) /\ {} \cup {Main} = {Main}
    BY DEF Init
  <2>3. Schedules(batch, {Main})
    BY <2>1, <2>2
  <2>4. Schedules(handles, {})
    BY NothingScheduled DEF Init
  <2> QED BY <1>2, <1>3, <2>3, <2>4 DEF Turning
<1>5. wakers = <<>> /\ Len(wakers) = 0 /\ wakers \in Seq(Waker)
  BY DEF Init
<1>6. Waiting
  BY <1>3, <1>5 DEF Waiting, Watches
<1>7. Stages
  BY <1>2, ConstantsAssumption DEF Init, Stages, Tasks
<1>8. Unbroken
  BY <1>5 DEF Unbroken, Live, Init
<1> QED BY <1>1, <1>4, <1>6, <1>7, <1>8 DEF Watch

-----------------------------------------------------------------------------
(* The steps of the loop.                                                  *)

LEMMA ContinueTurns ==
  ASSUME NEW h, NEW W \in SUBSET Tasks, Schedules(h, W), Continue(h),
         {t \in Tasks : state'[t] = "ready"} = W
  PROVE  Turning' /\ phase' \notin {"poll", "invalid_state", "trap"}
<1>1. phase' \notin {"poll", "invalid_state", "trap"}
  BY DEF Continue
<1>2. CASE handles' = h /\ batch' = <<>>
  <2>1. Schedules(batch', {}) /\ Schedules(handles', W) /\ {} \cap W = {} /\ {} \cup W = W
    BY <1>2, NothingScheduled
  <2> QED BY <1>1, <2>1 DEF Turning, In, Schedules
<1>3. CASE handles' = <<>> /\ batch' = h
  <2>1. Schedules(batch', W) /\ Schedules(handles', {}) /\ W \cap {} = {} /\ W \cup {} = W
    BY <1>3, NothingScheduled
  <2> QED BY <1>1, <2>1 DEF Turning, In, Schedules
<1> QED BY <1>2, <1>3 DEF Continue

LEMMA EndBatchWatches == Watch /\ EndBatch /\ Types' => Watch'
<1> SUFFICES ASSUME Watch, EndBatch, Types' PROVE Watch'
  OBVIOUS
<1>1. /\ batch = <<>> /\ current = NoTask
      /\ UNCHANGED <<wakers, current, state, cancelling, plan>>
  BY DEF EndBatch, taskVars
<1>2. PICK B \in SUBSET Tasks, H \in SUBSET Tasks :
        /\ Schedules(batch, B) /\ Schedules(handles, H)
        /\ B \cap H = {} /\ B \cup H = In("ready")
  BY DEF Watch, Turning
<1>3. H = In("ready") /\ {t \in Tasks : state'[t] = "ready"} = H
  <2>1. B = {}
    BY <1>1, <1>2, NothingLeft
  <2> QED BY <1>1, <1>2, <2>1 DEF In
<1>4. Waiting' /\ Cancelled' = Cancelled
  BY <1>1 DEF Watch, Waiting, Cancelled, In
<1>5. CASE wakers # <<>>
  <2>1. phase' = "poll" /\ UNCHANGED <<handles, batch>>
    BY <1>5 DEF EndBatch
  <2>2. Turning'
    BY <1>1, <2>1 DEF Watch, Turning, In
  <2>3. Stages' /\ Unbroken'
    BY <1>1, <1>4, <2>1 DEF Watch, Stages, Unbroken, Live
  <2> QED BY <1>4, <2>2, <2>3 DEF Watch
<1>6. CASE wakers = <<>>
  <2>1. Continue(handles)
    BY <1>6 DEF EndBatch
  <2>2. Turning' /\ phase' \notin {"poll", "invalid_state", "trap"}
    BY <1>2, <1>3, <2>1, ContinueTurns
  <2>3. Stages' /\ Unbroken'
    BY <1>1, <1>4, <2>2 DEF Watch, Stages, Unbroken, Live
  <2> QED BY <1>4, <2>2, <2>3 DEF Watch
<1> QED BY <1>5, <1>6

LEMMA PollWatches == Watch /\ Poll /\ Types' => Watch'
<1> SUFFICES ASSUME Watch, Poll, Types' PROVE Watch'
  OBVIOUS
<1> DEFINE F == Fired
           woken == {wakers[i].task : i \in F}
           e == Elements(wakers, F)
           steps == [k \in DOMAIN e |-> Step(e[k].task)]
           kept == Elements(wakers, DOMAIN wakers \ F)
<1>1. /\ phase = "poll" /\ batch = <<>> /\ current = NoTask
      /\ UNCHANGED <<current, cancelling, plan>>
  BY DEF Poll, Watch, Stages
<1>2. F \in SUBSET (DOMAIN wakers) /\ DOMAIN wakers = 1 .. Len(wakers)
      /\ wakers \in Seq(Waker) /\ Watches(wakers, In("waiting"))
  BY DEF Fired, Watch, Waiting, Watches
<1>3. \A i \in F, j \in DOMAIN wakers : wakers[i].task = wakers[j].task => j \in F
  BY DEF Fired
<1>4. PICK B \in SUBSET Tasks, H \in SUBSET Tasks :
        /\ Schedules(batch, B) /\ Schedules(handles, H)
        /\ B \cap H = {} /\ B \cup H = In("ready")
  BY DEF Watch, Turning
<1>5. H = In("ready")
  <2>1. B = {}
    BY <1>1, <1>4, NothingLeft
  <2> QED BY <1>4, <2>1
<1>6. CASE \A i \in F : wakers[i].live
  <2>1. wakers' = kept /\ Continue(handles \o steps)
        /\ state' = [t \in Tasks |-> IF t \in woken THEN "ready" ELSE state[t]]
    BY <1>6 DEF Poll, Remaining
  <2>2. Watches(kept, In("waiting") \ woken) /\ (Live(wakers) => Live(kept))
    <3> HIDE DEF F
    <3> QED BY <1>2, <1>3, WatchRest
  <2>3. \A i \in F : wakers[i].live /\ wakers[i].task \in In("waiting")
    BY <1>2, <1>6 DEF Watches
  <2>4. \A i, j \in F : wakers[i].task = wakers[j].task => i = j
    BY <1>2, <2>3 DEF Watches
  <2>5. Schedules(steps, woken)
    <3>1. F \in SUBSET (1 .. Len(wakers))
      BY <1>2
    <3> HIDE DEF F
    <3> QED BY <1>2, <2>4, <3>1, StepsWoken
  <2>6. woken \subseteq In("waiting") /\ H \cap woken = {}
    BY <1>5, <2>3 DEF In
  <2> HIDE DEF F, woken, e, steps, kept
  <2>7. Schedules(handles \o steps, H \cup woken)
    BY <1>4, <2>5, <2>6, Together
  <2>8. /\ {t \in Tasks : state'[t] = "ready"} = H \cup woken
        /\ In("waiting")' = In("waiting") \ woken
        /\ H \cup woken \in SUBSET Tasks
    BY <1>5, <2>1, <2>6 DEF In
  <2>9. Turning' /\ phase' \notin {"poll", "invalid_state", "trap"}
    BY <2>1, <2>7, <2>8, ContinueTurns
  <2>10. Waiting'
    BY <2>1, <2>2, <2>8 DEF Waiting
  <2>11. Stages'
    <3>1. \A t \in Tasks : state'[t] = "running" <=> state[t] = "running"
      BY <2>1, <2>6 DEF In
    <3>2. \A t \in Children : state[t] = "new" => state'[t] = "new"
      BY <2>1, <2>6 DEF In, Tasks
    <3> QED BY <1>1, <2>9, <3>1, <3>2 DEF Watch, Stages
  <2>12. Unbroken'
    <3>1. \A t \in Children : state[t] = "cancelled" => state'[t] = "cancelled"
      BY <2>1, <2>6 DEF In, Tasks
    <3>2. Cancelled \subseteq Cancelled'
      BY <1>1, <3>1, StillCancelled
    <3> QED BY <2>1, <2>2, <2>9, <3>2 DEF Watch, Unbroken
  <2> QED BY <2>9, <2>10, <2>11, <2>12 DEF Watch
<1>7. CASE ~ \A i \in F : wakers[i].live
  <2>1. phase' = "invalid_state" /\ UNCHANGED <<wakers, handles, batch, state>>
    BY <1>7 DEF Poll
  <2>2. ~Live(wakers)
    BY <1>2, <1>7 DEF Live
  <2>3. Turning' /\ Waiting' /\ Stages'
    BY <1>1, <2>1 DEF Watch, Turning, Waiting, Stages, In
  <2>4. Unbroken'
    BY <1>1, <2>1, <2>2 DEF Watch, Unbroken, Cancelled
  <2> QED BY <2>3, <2>4 DEF Watch
<1> QED BY <1>6, <1>7

\* Running a handle that steps a task takes the task off the batch.
LEMMA StepWatches ==
  ASSUME Watch, Types', RunHandle, Head(batch).kind = "step" PROVE Watch'
<1> DEFINE t == Head(batch).task
<1>1. PICK B \in SUBSET Tasks, H \in SUBSET Tasks :
        /\ Schedules(batch, B) /\ Schedules(handles, H)
        /\ B \cap H = {} /\ B \cup H = In("ready")
  BY DEF Watch, Turning
<1>2. t \in B /\ Schedules(Tail(batch), B \ {t})
  <2>1. batch # <<>>
    BY DEF RunHandle
  <2> QED BY <1>1, <2>1, TakenOff
<1>3. t \in Tasks /\ state[t] = "ready" /\ t \notin H
  BY <1>1, <1>2 DEF In
<1>4. /\ phase = "run" /\ phase' = "run" /\ current = NoTask /\ batch' = Tail(batch)
      /\ UNCHANGED <<plan, wakers>> /\ RunStep(t)
  BY DEF RunHandle, RunStep, End
<1> HIDE DEF t
<1>5. PICK s \in {"cancelled", "running"} :
        /\ state' = [state EXCEPT ![t] = s]
        /\ s = "cancelled" => t \in cancelling /\ current' = NoTask /\ cancelling' = cancelling \ {t}
        /\ s = "running" => current' = t /\ UNCHANGED cancelling
  BY <1>4 DEF RunStep, End
<1>6. handles' = handles \/ handles' = Append(handles, Done(t))
  BY <1>4 DEF RunStep, End
<1>7. \A u \in Tasks : state'[u] = IF u = t THEN s ELSE state[u]
  BY <1>3, <1>5 DEF Watch, Types
<1>8. Turning'
  <2>1. Done(t) \in Turn /\ Done(t).kind # "step"
    BY <1>3 DEF Turn, Done
  <2>2. Schedules(handles', H)
    <3>1. Schedules(Append(handles, Done(t)), H)
      BY <1>1, <2>1, AppendOther
    <3> QED BY <1>1, <1>6, <3>1
  <2>3. (B \ {t}) \cup H = In("ready") \ {t}
    BY <1>1, <1>3
  <2>4. In("ready")' = In("ready") \ {t}
    BY <1>7 DEF In
  <2>5. B \ {t} \in SUBSET Tasks /\ (B \ {t}) \cap H = {}
    BY <1>1
  <2>6. Schedules(batch', B \ {t})
    BY <1>2, <1>4
  <2> QED BY <2>2, <2>3, <2>4, <2>5, <2>6 DEF Turning
<1>9. Waiting'
  <2>1. In("waiting")' = In("waiting")
    BY <1>3, <1>7 DEF In
  <2> QED BY <1>4, <2>1 DEF Watch, Waiting
<1>10. Stages'
  <2>1. \A u \in Tasks : state[u] # "running"
    BY <1>4, ConstantsAssumption DEF Watch, Stages
  <2>2. cancelling' \subseteq Children
    BY <1>5 DEF Watch, Stages
  <2>3. current' \in Tasks \cup {NoTask} /\ \A u \in Tasks : current' = u <=> state'[u] = "running"
    BY <1>3, <1>5, <1>7, <2>1, ConstantsAssumption
  <2>4. plan' = "start" => \A u \in Children : state'[u] = "new"
    BY <1>3, <1>4, <1>5, <1>7 DEF Watch, Stages, Tasks
  <2> QED BY <1>4, <2>2, <2>3, <2>4 DEF Stages
<1>11. Unbroken'
  <2>1. Cancelled \subseteq Cancelled'
    BY <1>3, <1>5, <1>7 DEF Cancelled, Tasks
  <2> QED BY <1>4, <2>1 DEF Watch, Unbroken
<1> QED BY <1>8, <1>9, <1>10, <1>11 DEF Watch

\* Running another handle, which may wake Main from its gather.
LEMMA OtherWatches ==
  ASSUME Watch, Types', RunHandle, Head(batch).kind # "step" PROVE Watch'
<1>1. PICK B \in SUBSET Tasks, H \in SUBSET Tasks :
        /\ Schedules(batch, B) /\ Schedules(handles, H)
        /\ B \cap H = {} /\ B \cup H = In("ready")
  BY DEF Watch, Turning
<1>2. /\ phase' = phase /\ phase = "run" /\ batch' = Tail(batch)
      /\ UNCHANGED <<plan, wakers, cancelling, current>>
  BY DEF RunHandle, RunDone, RunRaise
<1>3. Schedules(batch', B)
  <2>1. batch # <<>>
    BY DEF RunHandle
  <2> QED BY <1>1, <1>2, <2>1, TakenOff
<1>4. \/ UNCHANGED <<handles, state>>
      \/ /\ state[Main] = "joining" /\ handles' = Append(handles, Step(Main))
         /\ state' = [state EXCEPT ![Main] = "ready"]
  BY DEF RunHandle, RunDone, RunRaise
<1>5. CASE UNCHANGED <<handles, state>>
  <2>1. Turning'
    <3>1. In("ready")' = In("ready")
      BY <1>5 DEF In
    <3> QED BY <1>1, <1>3, <1>5, <3>1 DEF Turning
  <2>2. Waiting' /\ Stages' /\ Unbroken'
    BY <1>2, <1>5 DEF Watch, Waiting, Stages, Unbroken, Cancelled, In
  <2> QED BY <2>1, <2>2 DEF Watch
<1>6. CASE /\ state[Main] = "joining" /\ handles' = Append(handles, Step(Main))
           /\ state' = [state EXCEPT ![Main] = "ready"]
  <2>1. Main \in Tasks /\ Main \notin H /\ Main \notin B /\ Main \notin Children
    BY <1>1, <1>6, ConstantsAssumption DEF In, Tasks
  <2>2. \A u \in Tasks : state'[u] = IF u = Main THEN "ready" ELSE state[u]
    BY <1>6 DEF Watch, Types
  <2>3. Turning'
    <3>1. Schedules(handles', H \cup {Main})
      BY <1>1, <1>6, <2>1, AppendStep
    <3>2. In("ready")' = In("ready") \cup {Main}
      BY <2>1, <2>2 DEF In
    <3>3. /\ H \cup {Main} \in SUBSET Tasks /\ B \cap (H \cup {Main}) = {}
          /\ B \cup (H \cup {Main}) = In("ready") \cup {Main}
      BY <1>1, <2>1
    <3> QED BY <1>1, <1>3, <3>1, <3>2, <3>3 DEF Turning
  <2>4. Waiting'
    <3>1. In("waiting")' = In("waiting")
      BY <1>6, <2>2 DEF In
    <3> QED BY <1>2, <3>1 DEF Watch, Waiting
  <2>5. Stages'
    BY <1>2, <1>6, <2>1, <2>2 DEF Watch, Stages, Tasks
  <2>6. Unbroken'
    <3>1. Cancelled' = Cancelled
      BY <1>2, <2>1, <2>2 DEF Cancelled, Tasks
    <3> QED BY <1>2, <3>1 DEF Watch, Unbroken
  <2> QED BY <2>3, <2>4, <2>5, <2>6 DEF Watch
<1> QED BY <1>4, <1>5, <1>6

-----------------------------------------------------------------------------
(* The steps of the coroutines.                                            *)

\* A coroutine registers a waker, ends, or runs on.
LEMMA CoroutineWatches ==
  ASSUME Watch, Types', NEW t \in Tasks, phase = "run", current = t,
         UNCHANGED <<batch, cancelling>>, plan' = plan \/ plan' # "start",
         phase' = phase \/ (phase' = "trap" /\ HasPollable(t)),
         \/ Register(t)
         \/ End(t, "done") \/ End(t, "failed")
         \/ UNCHANGED <<handles, wakers, state, current>>
  PROVE  Watch'
<1>1. state[t] = "running" /\ t # NoTask
  BY ConstantsAssumption DEF Watch, Stages
<1>2. PICK B \in SUBSET Tasks, H \in SUBSET Tasks :
        /\ Schedules(batch, B) /\ Schedules(handles, H)
        /\ B \cap H = {} /\ B \cup H = In("ready")
  BY DEF Watch, Turning
<1>3. PICK s \in {"running", "waiting", "done", "failed"} :
        /\ \A u \in Tasks : state'[u] = IF u = t THEN s ELSE state[u]
        /\ current' = IF s = "running" THEN current ELSE NoTask
        /\ wakers' = IF s = "waiting" THEN Append(wakers, [task |-> t, live |-> TRUE]) ELSE wakers
        /\ handles' = handles \/ handles' = Append(handles, Done(t))
  <2>1. state \in [Tasks -> States]
    BY DEF Watch, Types
  <2>2. CASE Register(t)
    BY <2>1, <2>2 DEF Register
  <2>3. CASE End(t, "done")
    BY <2>1, <2>3 DEF End
  <2>4. CASE End(t, "failed")
    BY <2>1, <2>4 DEF End
  <2>5. CASE UNCHANGED <<handles, wakers, state, current>>
    BY <1>1, <2>1, <2>5
  <2> QED BY <2>2, <2>3, <2>4, <2>5
<1>4. Turning'
  <2>1. Done(t) \in Turn /\ Done(t).kind # "step"
    BY DEF Turn, Done
  <2>2. Schedules(handles', H) /\ Schedules(batch', B)
    <3>1. Schedules(Append(handles, Done(t)), H)
      BY <1>2, <2>1, AppendOther
    <3> QED BY <1>2, <1>3, <3>1
  <2>3. In("ready")' = In("ready")
    BY <1>1, <1>3 DEF In
  <2> QED BY <1>2, <2>2, <2>3 DEF Turning
<1>5. Cancelled' = Cancelled
  BY <1>1, <1>3 DEF Cancelled, Tasks
<1>6. Waiting' /\ (Live(wakers) => Live(wakers'))
  <2>1. Watches(wakers, In("waiting")) /\ t \notin In("waiting")
    BY <1>1 DEF Watch, Waiting, In
  <2>2. CASE s = "waiting"
    <3>1. In("waiting")' = In("waiting") \cup {t}
      BY <1>3, <2>2 DEF In
    <3>2. wakers' = Append(wakers, [task |-> t, live |-> TRUE])
      BY <1>3, <2>2
    <3>3. Watches(wakers', In("waiting") \cup {t}) /\ (Live(wakers) => Live(wakers'))
      BY <2>1, <3>2, WatchMore
    <3> QED BY <3>1, <3>3 DEF Waiting
  <2>3. CASE s # "waiting"
    <3>1. In("waiting")' = In("waiting") /\ wakers' = wakers
      BY <1>1, <1>3, <2>3 DEF In
    <3> QED BY <2>1, <3>1 DEF Waiting
  <2> QED BY <2>2, <2>3
<1>7. Stages'
  <2>1. current' \in Tasks \cup {NoTask} /\ \A u \in Tasks : current' = u <=> state'[u] = "running"
    BY <1>1, <1>3, ConstantsAssumption DEF Watch, Stages
  <2>2. plan' = "start" => \A u \in Children : state'[u] = "new"
    BY <1>1, <1>3 DEF Watch, Stages, Tasks
  <2> QED BY <2>1, <2>2 DEF Watch, Stages
<1>8. Unbroken'
  <2>1. HasPollable(t) => Cancelled # {}
    BY <1>1, PollableLeft
  <2> QED BY <1>5, <1>6, <2>1 DEF Watch, Unbroken
<1> QED BY <1>4, <1>6, <1>7, <1>8 DEF Watch

LEMMA FetchWatches ==
  ASSUME Watch, Types', NEW t \in Fetchers \cup {Main}, Fetch(t) PROVE Watch'
<1>1. /\ t \in Tasks /\ phase = "run" /\ current = t
      /\ UNCHANGED <<batch, cancelling>> /\ (plan' = plan \/ plan' # "start")
  BY DEF Fetch, Running, Tasks, Children
<1>2. /\ phase' = phase \/ (phase' = "trap" /\ HasPollable(t))
      /\ \/ Register(t) \/ End(t, "done") \/ End(t, "failed")
         \/ UNCHANGED <<handles, wakers, state, current>>
  BY DEF Fetch, Register, Drop
<1> QED BY <1>1, <1>2, CoroutineWatches

LEMMA ReadBodyWatches ==
  ASSUME Watch, Types', NEW t \in Readers, ReadBody(t) PROVE Watch'
<1>1. /\ t \in Tasks /\ phase = "run" /\ current = t
      /\ UNCHANGED <<batch, cancelling, plan>>
  BY DEF ReadBody, Running, Tasks, Children
<1>2. /\ phase' = phase \/ (phase' = "trap" /\ HasPollable(t))
      /\ \/ Register(t) \/ End(t, "done") \/ End(t, "failed")
         \/ UNCHANGED <<handles, wakers, state, current>>
  BY DEF ReadBody, Register, Drop
<1> QED BY <1>1, <1>2, CoroutineWatches

LEMMA WriteBodyWatches ==
  ASSUME Watch, Types', NEW t \in Writers, WriteBody(t) PROVE Watch'
<1>1. /\ t \in Tasks /\ phase = "run" /\ current = t
      /\ UNCHANGED <<batch, cancelling, plan>>
  BY DEF WriteBody, Running, Tasks, Children
<1>2. Portion(t) <= CheckWrite(t)
  <2>1. CheckWrite(t) \in Nat /\ ChunkLen - sink[t].written \in Int
    BY ConstantsAssumption DEF CheckWrite, Watch, Types, Sinks
  <2> QED BY <2>1 DEF Portion
<1>3. ~(Portion(t) > CheckWrite(t))
  <2>1. CheckWrite(t) \in Nat /\ Portion(t) \in Int
    BY ConstantsAssumption DEF Portion, CheckWrite, Watch, Types, Sinks
  <2> QED BY <1>2, <2>1
<1>4. /\ phase' = phase \/ (phase' = "trap" /\ HasPollable(t))
      /\ \/ Register(t) \/ End(t, "done") \/ End(t, "failed")
         \/ UNCHANGED <<handles, wakers, state, current>>
  BY <1>3 DEF WriteBody, Register, Drop, Put
<1> QED BY <1>1, <1>4, CoroutineWatches

LEMMA MainEndsWatches ==
  ASSUME Watch, Types', MainEnds PROVE Watch'
<1>1. state[Main] = "running" /\ Main \in Tasks /\ Main \notin Children
  BY ConstantsAssumption DEF MainEnds, Running, Watch, Stages, Tasks
<1>2. /\ \A u \in Tasks : state'[u] = IF u = Main THEN state'[Main] ELSE state[u]
      /\ state'[Main] \in {"done", "failed"} /\ current' = NoTask
      /\ UNCHANGED <<loopVars, cancelling, plan>>
  BY <1>1 DEF MainEnds, Watch, Types
<1>3. /\ In("ready")' = In("ready") /\ In("waiting")' = In("waiting")
      /\ Cancelled' = Cancelled
  BY <1>1, <1>2 DEF In, Cancelled, Tasks
<1>4. Turning' /\ Waiting' /\ Unbroken'
  BY <1>2, <1>3 DEF Watch, Turning, Waiting, Unbroken, loopVars
<1>5. Stages'
  BY <1>1, <1>2, ConstantsAssumption DEF Watch, Stages, loopVars, Tasks
<1> QED BY <1>4, <1>5 DEF Watch

LEMMA MainStartWatches ==
  ASSUME Watch, Types', MainStart PROVE Watch'
<1>1. /\ phase = "run" /\ plan = "start" /\ state[Main] = "running"
      /\ Main \in Tasks /\ Main \notin Children /\ Tasks = Children \cup {Main}
  BY ConstantsAssumption DEF MainStart, Running, Watch, Stages, Tasks
<1>2. \A t \in Children : state[t] = "new"
  BY <1>1 DEF Watch, Stages
<1>3. In("ready") = {} /\ In("waiting") = {}
  BY <1>1, <1>2 DEF In
<1>4. Schedules(batch, {})
  <2>1. PICK B \in SUBSET Tasks, H \in SUBSET Tasks :
          Schedules(batch, B) /\ B \cup H = In("ready")
    BY DEF Watch, Turning
  <2> QED BY <1>3, <2>1
<1> DEFINE listed == SetToSeq({Step(t) : t \in Children})
<1>5. Schedules(listed, Children)
  BY <1>1, StepsListed, ConstantsAssumption
<1> HIDE DEF listed
<1>6. PICK callback \in {<<>>, <<Raise>>}, s \in {"joining", "running"} :
        /\ handles' = callback \o listed
        /\ \A u \in Tasks : state'[u] = IF u = Main THEN s ELSE "ready"
        /\ current' = IF s = "running" THEN Main ELSE NoTask
        /\ plan' # "start"
  <2>1. current = Main
    BY DEF MainStart, Running
  <2>2. PICK callback \in {<<>>, <<Raise>>} :
          LET started == [t \in Tasks |-> IF t = Main THEN "joining" ELSE "ready"] IN
          \/ state' = started /\ current' = NoTask /\ plan' = "gather"
             /\ handles' = callback \o listed
          \/ /\ state' = [started EXCEPT ![Main] = "running"]
             /\ plan' = "own" /\ handles' = callback \o listed /\ UNCHANGED current
    BY DEF MainStart, listed
  <2> QED BY <1>1, <2>1, <2>2
<1>7. UNCHANGED <<phase, batch, wakers, cancelling>>
  BY DEF MainStart
<1>8. Turning'
  <2>1. Schedules(callback, {})
    <3>1. Raise \in Turn /\ Raise.kind # "step"
      BY <1>1 DEF Raise, Turn
    <3>2. Schedules(Append(<<>>, Raise), {})
      BY <3>1, NothingScheduled, AppendOther
    <3>3. Append(<<>>, Raise) = <<Raise>>
      OBVIOUS
    <3> QED BY <3>2, <3>3, NothingScheduled
  <2>2. Schedules(handles', {} \cup Children)
    BY <1>5, <1>6, <2>1, Together
  <2>3. In("ready")' = Children
    BY <1>1, <1>6 DEF In
  <2>4. {} \cup Children = Children /\ {} \cap Children = {} /\ Children \in SUBSET Tasks
    BY <1>1
  <2> QED BY <1>4, <1>7, <2>2, <2>3, <2>4 DEF Turning
<1>9. Waiting'
  <2>1. In("waiting")' = In("waiting")
    BY <1>1, <1>3, <1>6 DEF In
  <2> QED BY <1>7, <2>1 DEF Watch, Waiting
<1>10. Stages'
  BY <1>1, <1>6, <1>7, ConstantsAssumption DEF Watch, Stages
<1>11. Unbroken'
  <2>1. Cancelled' = Cancelled
    BY <1>1, <1>2, <1>6, <1>7 DEF Cancelled
  <2> QED BY <1>7, <2>1 DEF Watch, Unbroken
<1> QED BY <1>8, <1>9, <1>10, <1>11 DEF Watch

\* Main cancels the children S and goes on to its gather or its end.
LEMMA MainContinuesWatches ==
  ASSUME Watch, Types', NEW S \in SUBSET Children, MainContinues(S) PROVE Watch'
<1> DEFINE W == {t \in S : state[t] = "waiting"}
           E == {c \in Children : state[c] \in Ended}
           steps == SetToSeq({Step(t) : t \in W})
           dones == SetToSeq({Done(t) : t \in E})
<1>1. /\ phase = "run" /\ plan = "after" /\ state[Main] = "running"
      /\ Main \in Tasks /\ Main \notin Children /\ Tasks = Children \cup {Main}
      /\ \A t \in S : state[t] \in {"ready", "waiting"}
  BY ConstantsAssumption DEF MainContinues, Running, Watch, Stages, Tasks
<1>2. PICK B \in SUBSET Tasks, H \in SUBSET Tasks :
        /\ Schedules(batch, B) /\ Schedules(handles, H)
        /\ B \cap H = {} /\ B \cup H = In("ready")
  BY DEF Watch, Turning
<1>3. W \in SUBSET Tasks /\ E \in SUBSET Tasks /\ IsFiniteSet(W) /\ IsFiniteSet(E)
  <2>1. W \in SUBSET Children /\ E \in SUBSET Children
    OBVIOUS
  <2> HIDE DEF W, E
  <2> QED BY <1>1, <2>1, FS_Subset, ConstantsAssumption
<1>4. Schedules(steps, W) /\ Schedules(dones, {})
  <2> HIDE DEF W, E
  <2> QED BY <1>3, StepsListed, DonesListed
<1>5. PICK join \in BOOLEAN :
        /\ plan' = IF join THEN "gather" ELSE "after"
        /\ state' = [t \in Tasks |-> IF t \in W THEN "ready"
                                     ELSE IF t # Main THEN state[t]
                                     ELSE IF join THEN "joining" ELSE "done"]
        /\ handles' = IF ~join THEN handles \o steps ELSE (handles \o steps) \o dones
  BY DEF MainContinues
<1>6. /\ UNCHANGED <<phase, batch>> /\ current' = NoTask /\ cancelling' = cancelling \cup S
      /\ wakers' = Cut(wakers, W)
  BY DEF MainContinues, Cut
<1>7. W \subseteq S /\ \A t \in W : state[t] = "waiting"
  OBVIOUS
<1> HIDE DEF W, E, steps, dones
<1>8. /\ \A t \in Tasks \ {Main} : state'[t] = IF t \in W THEN "ready" ELSE state[t]
      /\ state'[Main] \in {"joining", "done"} /\ Main \notin W
  BY <1>1, <1>5, <1>7
<1>9. Turning'
  <2>1. H \cap W = {} /\ B \cap W = {}
    BY <1>2, <1>7 DEF In
  <2>2. Schedules(handles \o steps, H \cup W)
    BY <1>2, <1>4, <2>1, Together
  <2>3. Schedules((handles \o steps) \o dones, (H \cup W) \cup {})
    BY <1>4, <2>2, Together
  <2>4. (H \cup W) \cup {} = H \cup W
    OBVIOUS
  <2>5. Schedules(handles', H \cup W)
    BY <1>5, <2>2, <2>3, <2>4
  <2>6. In("ready")' = In("ready") \cup W
    BY <1>1, <1>3, <1>8 DEF In
  <2>7. /\ H \cup W \in SUBSET Tasks /\ B \cap (H \cup W) = {}
        /\ B \cup (H \cup W) = In("ready") \cup W
    BY <1>2, <1>3, <2>1
  <2> QED BY <1>2, <1>6, <2>5, <2>6, <2>7 DEF Turning
<1>10. Watches(wakers', In("waiting") \ W) /\ (Live(wakers) /\ W = {} => Live(wakers'))
  BY <1>6, WatchFewer DEF Watch, Waiting
<1>11. Waiting'
  <2>1. In("waiting")' = In("waiting") \ W
    BY <1>1, <1>8 DEF In
  <2> QED BY <1>10, <2>1 DEF Waiting
<1>12. Stages'
  <2>1. \A u \in Tasks : state'[u] # "running"
    BY <1>1, <1>8, ConstantsAssumption DEF Watch, Stages, MainContinues, Running
  <2> QED BY <1>1, <1>5, <1>6, <2>1, ConstantsAssumption DEF Watch, Stages
<1>13. Unbroken'
  <2>1. Cancelled \subseteq Cancelled'
    BY <1>1, <1>6, <1>7, <1>8 DEF Cancelled
  <2>2. Cancelled' = {} => S = {}
    BY <1>6 DEF Cancelled
  <2> QED BY <1>6, <1>7, <1>10, <2>1, <2>2 DEF Watch, Unbroken
<1> QED BY <1>9, <1>11, <1>12, <1>13 DEF Watch

-----------------------------------------------------------------------------
(* The theorems about wakeups.                                             *)

LEMMA NextWatches == Watch /\ IInv /\ [Next]_vars => Watch'
<1> SUFFICES ASSUME Watch, IInv, [Next]_vars PROVE Watch'
  OBVIOUS
<1>1. Types'
  BY NextKeeps DEF IInv
<1>2. CASE RunHandle
  BY <1>1, <1>2, StepWatches, OtherWatches
<1>3. CASE EndBatch \/ Poll
  BY <1>1, <1>3, EndBatchWatches, PollWatches
<1>4. CASE MainStart \/ MainEnds
  BY <1>1, <1>4, MainStartWatches, MainEndsWatches
<1>5. ASSUME NEW S \in SUBSET Children, MainContinues(S) PROVE Watch'
  BY <1>1, <1>5, MainContinuesWatches
<1>6. ASSUME NEW t \in Fetchers \cup {Main}, Fetch(t) PROVE Watch'
  BY <1>1, <1>6, FetchWatches
<1>7. ASSUME NEW t \in Readers, ReadBody(t) PROVE Watch'
  BY <1>1, <1>7, ReadBodyWatches
<1>8. ASSUME NEW t \in Writers, WriteBody(t) PROVE Watch'
  BY <1>1, <1>8, WriteBodyWatches
<1>9. ASSUME NEW t \in Tasks, Forget(t) PROVE Watch'
  <2>1. /\ UNCHANGED <<handles, batch, wakers, current, state, cancelling, plan>>
        /\ (phase' = phase \/ (phase' = "trap" /\ HasPollable(t)))
        /\ state[t] # "waiting"
    BY <1>9 DEF Forget, Drop, taskVars, Ended
  <2>2. HasPollable(t) => Cancelled # {}
    BY <2>1, PollableLeft
  <2>3. Turning' /\ Waiting' /\ Cancelled' = Cancelled
    BY <2>1 DEF Watch, Turning, Waiting, Cancelled, In
  <2>4. Stages' /\ Unbroken'
    BY <2>1, <2>2, <2>3 DEF Watch, Stages, Unbroken
  <2> QED BY <1>1, <2>3, <2>4 DEF Watch
<1>10. CASE UNCHANGED <<loopVars, taskVars>>
  BY <1>1, <1>10
  DEF loopVars, taskVars, Watch, Turning, Waiting, Stages, Unbroken, Cancelled, In
<1>11. ASSUME NEW t \in Tasks, Host(t) PROVE UNCHANGED <<loopVars, taskVars>>
  BY <1>11 DEF Host
<1> QED BY <1>2, <1>3, <1>4, <1>5, <1>6, <1>7, <1>8, <1>9, <1>10, <1>11
        DEF Next, Loop, Resting, vars

LEMMA WatchAlways == Spec => []Watch
BY InitWatches, NextWatches, Invariance, PTL DEF Spec

\* For any coroutines, wakers and cancellations: a task that waits in register has
\* exactly one pending waker, one that is to run exactly one handle (call_soon,
\* register and run_until_complete of poll_loop.py).
THEOREM WakeupsAreKept == Spec => []WaitersAreWatched
<1>1. Watch => WaitersAreWatched
  <2> SUFFICES ASSUME Watch, NEW t \in Tasks
               PROVE  /\ Cardinality(Watchers(t)) = IF state[t] = "waiting" THEN 1 ELSE 0
                      /\ Cardinality(Turns(t)) = IF state[t] = "ready" THEN 1 ELSE 0
    BY DEF WaitersAreWatched
  <2>1. /\ state[t] = "waiting" => \E j : Watchers(t) = {j}
        /\ state[t] # "waiting" => Watchers(t) = {}
    <3>1. Watches(wakers, In("waiting")) /\ DOMAIN wakers = 1 .. Len(wakers)
      BY DEF Watch, Waiting, Watches
    <3>2. CASE state[t] = "waiting"
      <4>1. PICK j \in 1 .. Len(wakers) : wakers[j].live /\ wakers[j].task = t
        BY <3>1, <3>2 DEF Watches, In
      <4>2. Watchers(t) = {j}
        BY <3>1, <4>1 DEF Watches, Watchers
      <4> QED BY <3>2, <4>2
    <3>3. CASE state[t] # "waiting"
      BY <3>1, <3>3 DEF Watches, Watchers, In
    <3> QED BY <3>2, <3>3
  <2>2. PICK B \in SUBSET Tasks, H \in SUBSET Tasks :
          /\ Schedules(batch, B) /\ Schedules(handles, H)
          /\ B \cap H = {} /\ B \cup H = In("ready")
    BY DEF Watch, Turning
  <2> DEFINE q == batch \o handles
  <2>3. Schedules(q, In("ready"))
    <3>1. Schedules(q, B \cup H)
      BY <2>2, Together
    <3> QED BY <2>2, <3>1
  <2>4. Turns(t) = {i \in DOMAIN q : q[i] = Step(t)}
    BY DEF Turns
  <2> HIDE DEF q
  <2>5. DOMAIN q = 1 .. Len(q) /\ Step(t).kind = "step" /\ Step(t).task = t
    BY <2>3 DEF Schedules, Step
  <2>6. /\ state[t] = "ready" => \E j : Turns(t) = {j}
        /\ state[t] # "ready" => Turns(t) = {}
    <3>1. CASE state[t] = "ready"
      <4>1. PICK j \in 1 .. Len(q) : q[j] = Step(t)
        BY <2>3, <3>1 DEF Schedules, In
      <4>2. Turns(t) = {j}
        BY <2>3, <2>4, <2>5, <4>1 DEF Schedules
      <4> QED BY <3>1, <4>2
    <3>2. CASE state[t] # "ready"
      BY <2>3, <2>4, <2>5, <3>2 DEF Schedules, In
    <3> QED BY <3>1, <3>2
  <2> QED BY <2>1, <2>6, FS_Singleton, FS_EmptySet
<1> QED BY <1>1, WatchAlways, PTL

\* For any coroutines and any host: only where the program cancels a task does the
\* loop set a future twice, drop an object before its pollables, or write more
\* than check_write permits (register, Stream and Sink of poll_loop.py).
THEOREM OnlyCancellationBreaks == Spec => []OnlyCancelBreaks
<1>1. Watch => OnlyCancelBreaks
  BY DEF Watch, Unbroken, OnlyCancelBreaks
<1> QED BY <1>1, WatchAlways, PTL
=============================================================================
