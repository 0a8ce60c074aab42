---------------------------- MODULE PreInitProofs ----------------------------
(***************************************************************************)
(* What the instances of a component see, for any build, any hosts and any *)
(* number of instances and calls.                                          *)
(***************************************************************************)
EXTENDS PreInit, SequenceTheorems, TLAPS

-----------------------------------------------------------------------------
(* The inductive invariant.                                                *)

\* What the snapshot holds when it is written.
Clean(g) ==
  g.environ = <<>> /\ g.argv = <<>> /\ g.handles = "none" /\ ~g.once /\ g.rng.seed = "build"

\* How far do_init has got, and that no instance starts before it has ended.
Stages ==
  /\ stage \in {"bind", "clear", "reset"} => ~guest.once /\ guest.rng.seed = "build"
  /\ stage = "reset" => guest.environ = <<>> /\ guest.argv = <<>>
  /\ stage = "write" => Clean(guest)
  /\ stage = "written" => Clean(component.snapshot)
  /\ stage # "written" => \A i \in Instances : instance[i] = NoGuest

\* Nothing was done in an instance before its first call, which refreshes it.
Untouched ==
  \A i \in Instances :
    instance[i] = NoGuest \/ (~build.stubWasi /\ ~instance[i].once) =>
      touched[i] = <<>> /\ appended[i] = 0 /\ drawn[i] = {}

Seeds ==
  \A i \in Instances :
    /\ instance[i] # NoGuest => instance[i].rng.seed = IF instance[i].once THEN i ELSE "build"
    /\ ~build.stubWasi => \A r \in drawn[i] : r.seed = i

IInv == TypeOK /\ Stages /\ Untouched /\ Seeds /\ SeesItsHost

-----------------------------------------------------------------------------
(* Environments and arguments.                                             *)

LEMMA EmptyEnvironment == ASSUME NEW V PROVE <<>> \in Environments(V) /\ DOMAIN <<>> = {}
<1>1. <<>> \in [{} -> V]
  OBVIOUS
<1> QED
  BY <1>1 DEF Environments

LEMMA MakeEnvironment ==
  ASSUME NEW V, NEW e, NEW D \in SUBSET Keys, e \in [D -> V]
  PROVE  e \in Environments(V)
BY DEF Environments

LEMMA OfEnvironment ==
  ASSUME NEW V, NEW e \in Environments(V)
  PROVE  DOMAIN e \in SUBSET Keys /\ e \in [DOMAIN e -> V]
BY DEF Environments

\* A value repeated n times is a sequence, and one more is appended to it.
Times(v, n) == [k \in 1 .. n |-> v]

LEMMA TimesIsSeq ==
  ASSUME NEW V, NEW v \in V, NEW n \in Nat
  PROVE  Times(v, n) \in Seq(V) /\ Len(Times(v, n)) = n /\ Times(v, 0) = <<>>
BY DEF Times

LEMMA TimesMore ==
  ASSUME NEW V, NEW v \in V, NEW n \in Nat, NEW s \in Seq(V)
  PROVE  Append(s \o Times(v, n), v) = s \o Times(v, n + 1)
<1> DEFINE a == Append(s \o Times(v, n), v)
           b == s \o Times(v, n + 1)
<1>1. Times(v, n) \in Seq(V) /\ Times(v, n + 1) \in Seq(V)
      /\ Len(Times(v, n)) = n /\ Len(Times(v, n + 1)) = n + 1
  BY TimesIsSeq, n + 1 \in Nat
<1>2. a \in Seq(V) /\ b \in Seq(V) /\ Len(a) = Len(s) + n + 1 /\ Len(b) = Len(s) + n + 1
  BY <1>1
<1>3. ASSUME NEW k \in 1 .. Len(s) + n + 1 PROVE a[k] = b[k]
  <2>1. CASE k <= Len(s)
    BY <2>1, <1>1
  <2>2. CASE k > Len(s) /\ k <= Len(s) + n
    BY <2>2, <1>1 DEF Times
  <2>3. CASE k = Len(s) + n + 1
    BY <2>3, <1>1 DEF Times
  <2>4. Len(s) \in Nat /\ k \in Int /\ k <= Len(s) + n + 1
    OBVIOUS
  <2> HIDE DEF a, b
  <2> QED
    BY <2>1, <2>2, <2>3, <2>4
<1> HIDE DEF a, b
<1>4. a = b
  BY <1>2, <1>3, SeqEqual
<1> QED
  BY <1>4 DEF a, b

-----------------------------------------------------------------------------
(* Guests.                                                                 *)

LEMMA Seeding ==
  /\ Generators = [seed : {"none", "build"} \cup Instances, n : Nat]
  /\ \A i \in Instances : i # "none" /\ i # "build" /\ FromHost(i) \in Values /\ FromCall(i) \in Values
BY BuildsAssumption DEF Generators, Values

LEMMA NoGuestIsGuest == NoGuest \in Guests /\ NoGuest.rng.seed = "none"
BY EmptyEnvironment, Seeding DEF NoGuest, Guests

LEMMA InitInv == Init => IInv
<1> SUFFICES ASSUME Init PROVE IInv
  OBVIOUS
<1>1. TypeOK
  <2>1. <<>> \in Environments(Values \cup {Unset}) /\ 0 \in 0 .. MaxCalls
    BY EmptyEnvironment, BuildsAssumption
  <2> QED
    BY <2>1, NoGuestIsGuest DEF Init, TypeOK, NoComponent
<1>2. Stages
  BY DEF Init, Stages
<1>3. Untouched /\ Seeds /\ SeesItsHost
  BY DEF Init, Untouched, Seeds, SeesItsHost
<1> QED
  BY <1>1, <1>2, <1>3 DEF IInv

\* While the component is built there is no instance, so a step of the build need
\* only keep the types and the progress.
LEMMA BuildingKeeps ==
  ASSUME IInv, UNCHANGED <<build, instanceVars>>, TypeOK', Stages'
  PROVE  IInv'
BY DEF IInv, instanceVars, Untouched, Seeds, SeesItsHost

LEMMA LinkInv == IInv /\ Link => IInv'
<1> SUFFICES ASSUME IInv, Link PROVE IInv'
  OBVIOUS
<1>1. TypeOK' /\ Stages'
  BY DEF IInv, Link, TypeOK, Stages, instanceVars
<1> QED
  BY <1>1, BuildingKeeps DEF Link

LEMMA StubsInv == IInv /\ (AddToLinker \/ AddWasiAndStubs) => IInv'
<1> SUFFICES ASSUME IInv, AddToLinker \/ AddWasiAndStubs PROVE IInv'
  OBVIOUS
<1>1. TypeOK' /\ Stages'
  BY DEF IInv, AddToLinker, AddWasiAndStubs, Instantiate, Fail, TypeOK, Stages, instanceVars
<1> QED
  BY <1>1, BuildingKeeps DEF AddToLinker, AddWasiAndStubs

LEMMA ImportInv == IInv /\ ImportApp => IInv'
<1> SUFFICES ASSUME IInv, ImportApp PROVE IInv'
  OBVIOUS
<1>1. build.sets \subseteq Keys /\ build.adds \in Nat /\ build.draws \in Nat
  BY BuildsAssumption DEF IInv, TypeOK, IsBuild
<1> DEFINE env == [k \in BuildEnv \cup build.sets |-> IF k \in build.sets THEN FromImport ELSE FromBuild]
           args == <<FromBuild>> \o [n \in 1 .. build.adds |-> FromImport]
<1>2. env \in Environments(Values)
  <2>1. BuildEnv \cup build.sets \in SUBSET Keys /\ env \in [BuildEnv \cup build.sets -> Values]
    BY <1>1, BuildsAssumption DEF Values
  <2> QED
    BY <2>1 DEF Environments
<1>3. args \in Seq(Values)
  BY <1>1 DEF Values
<1>4. guest' \in Guests /\ ~guest'.once /\ guest'.rng.seed = "build"
  <2>1. [seed |-> "build", n |-> build.draws] \in Generators
    BY <1>1 DEF Generators
  <2> HIDE DEF env, args
  <2>2. guest' = [environ |-> env, argv |-> args, rng |-> [seed |-> "build", n |-> build.draws],
                  handles |-> "build", once |-> FALSE]
    BY DEF ImportApp, env, args
  <2> QED
    BY <1>2, <1>3, <2>1, <2>2 DEF Guests
<1>5. TypeOK' /\ Stages'
  BY <1>4 DEF IInv, ImportApp, Fail, TypeOK, Stages, instanceVars
<1> QED
  BY <1>5, BuildingKeeps DEF ImportApp

LEMMA BindInv == IInv /\ BindSymbols => IInv'
<1> SUFFICES ASSUME IInv, BindSymbols PROVE IInv'
  OBVIOUS
<1>1. TypeOK' /\ Stages'
  BY DEF IInv, BindSymbols, Fail, TypeOK, Stages, instanceVars
<1> QED
  BY <1>1, BuildingKeeps DEF BindSymbols

LEMMA ClearInv == IInv /\ Clear => IInv'
<1> SUFFICES ASSUME IInv, Clear PROVE IInv'
  OBVIOUS
<1>1. guest \in Guests /\ ~guest.once /\ guest.rng.seed = "build"
  BY DEF IInv, TypeOK, Stages, Clear
<1>2. /\ guest' \in Guests /\ ~guest'.once /\ guest'.rng.seed = "build" /\ guest'.environ = <<>>
      /\ stage' = "reset" => guest'.argv = <<>>
  <2>1. <<>> \in Environments(Values) /\ <<>> \in Seq(Values)
    BY EmptyEnvironment
  <2>2. \/ guest' = [guest EXCEPT !.environ = <<>>, !.argv = <<>>]
        \/ guest' = [guest EXCEPT !.environ = <<>>] /\ stage' = "failed"
    BY DEF Clear, Fail, Cleared
  <2> QED
    BY <1>1, <2>1, <2>2 DEF Guests
<1>3. TypeOK' /\ Stages'
  BY <1>2 DEF IInv, Clear, Fail, TypeOK, Stages, instanceVars
<1> QED
  BY <1>3, BuildingKeeps DEF Clear

LEMMA ResetInv == IInv /\ Reset => IInv'
<1> SUFFICES ASSUME IInv, Reset PROVE IInv'
  OBVIOUS
<1>1. guest' \in Guests /\ Clean(guest')
  BY DEF IInv, TypeOK, Stages, Reset, Guests, Clean
<1>2. TypeOK' /\ Stages'
  BY <1>1 DEF IInv, Reset, TypeOK, Stages, instanceVars
<1> QED
  BY <1>2, BuildingKeeps DEF Reset

LEMMA WriteInv == IInv /\ Write => IInv'
<1> SUFFICES ASSUME IInv, Write PROVE IInv'
  OBVIOUS
<1>1. component'.snapshot = guest
  BY DEF Write
<1>2. TypeOK' /\ Stages'
  BY <1>1 DEF IInv, Write, TypeOK, Stages, instanceVars, Clean
<1> QED
  BY <1>2, BuildingKeeps DEF Write

-----------------------------------------------------------------------------
(* Instances.                                                              *)

LEMMA StartInv == ASSUME IInv, NEW i \in Instances, Start(i) PROVE IInv'
<1> DEFINE g == component.snapshot
<1>1. g \in Guests /\ Clean(g) /\ g # NoGuest
  BY NoGuestIsGuest DEF IInv, TypeOK, Stages, Start, Clean
<1>2. touched[i] = <<>> /\ appended[i] = 0 /\ drawn[i] = {}
  BY DEF IInv, Untouched, Start
<1>3. instance' = [instance EXCEPT ![i] = g] /\ instance \in [Instances -> Guests]
  BY DEF Start, IInv, TypeOK
<1>4. TypeOK' /\ Stages'
  BY <1>1, <1>3 DEF IInv, Start, TypeOK, Stages, buildVars
<1>5. Untouched' /\ Seeds'
  BY <1>1, <1>2, <1>3 DEF IInv, Start, Untouched, Seeds, buildVars, Clean
<1>6. Sees(i, g, <<>>, 0)
  BY <1>1, EmptyEnvironment DEF Sees, Clean
<1>7. SeesItsHost'
  BY <1>2, <1>3, <1>6 DEF IInv, Start, SeesItsHost
<1> QED
  BY <1>4, <1>5, <1>7 DEF IInv

\* The refresh of the first call turns what the snapshot left into what the host has.
LEMMA Refreshed ==
  ASSUME IInv, NEW i \in Instances, instance[i] # NoGuest
  PROVE  LET g == Refresh(i, instance[i]) IN
         /\ g \in Guests
         /\ g.rng.seed = IF g.once THEN i ELSE "build"
         /\ ~build.stubWasi => g.once
         /\ Sees(i, g, touched[i], appended[i])
<1> DEFINE g == Refresh(i, instance[i])
           h == instance[i]
<1>1. h \in Guests /\ h.rng.seed = (IF h.once THEN i ELSE "build") /\ Sees(i, h, touched[i], appended[i])
  BY DEF IInv, TypeOK, Seeds, SeesItsHost
<1>2. CASE build.stubWasi \/ h.once
  BY <1>1, <1>2 DEF Refresh
<1>3. CASE ~build.stubWasi /\ ~h.once
  <2>1. touched[i] = <<>> /\ appended[i] = 0
    BY <1>3 DEF IInv, Untouched
  <2> DEFINE env == [k \in DOMAIN h.environ \cup HostEnv[i] |->
                       IF k \in HostEnv[i] THEN FromHost(i) ELSE h.environ[k]]
             args == h.argv \o [n \in 1 .. HostArgs[i] |-> FromHost(i)]
  <2>2. g = [environ |-> env, argv |-> args, rng |-> [seed |-> i, n |-> 0],
             handles |-> h.handles, once |-> TRUE]
    BY <1>3 DEF Refresh, Seed
  <2>3. /\ h.environ \in Environments(Values) /\ h.argv \in Seq(Values)
        /\ h.handles \in {"none", "build"} \cup Instances
    BY <1>1 DEF Guests
  <2>4. HostEnv[i] \in SUBSET Keys /\ HostArgs[i] \in Nat
    BY BuildsAssumption
  <2>5. env \in Environments(Values)
    <3>1. DOMAIN h.environ \in SUBSET Keys /\ h.environ \in [DOMAIN h.environ -> Values]
      BY <2>3, OfEnvironment
    <3>2. /\ DOMAIN h.environ \cup HostEnv[i] \in SUBSET Keys
          /\ env \in [DOMAIN h.environ \cup HostEnv[i] -> Values]
      BY <3>1, <2>4, Seeding
    <3> QED
      BY <3>2 DEF Environments
  <2>6. h.argv = <<>>
    BY <1>1, <1>3, <2>1 DEF Sees
  <2>7. args = [n \in 1 .. HostArgs[i] |-> FromHost(i)] \o [n \in 1 .. 0 |-> FromCall(i)] /\ args \in Seq(Values)
    <3>1. [n \in 1 .. HostArgs[i] |-> FromHost(i)] \in Seq(Values) /\ [n \in 1 .. 0 |-> FromCall(i)] = <<>>
      BY <2>4, Seeding
    <3> QED
      BY <2>6, <3>1, ConcatEmptySeq
  <2>8. [seed |-> i, n |-> 0] \in Generators
    BY DEF Generators
  <2> HIDE DEF env, args, g, h
  <2>9. g \in Guests
    BY <2>2, <2>3, <2>5, <2>7, <2>8 DEF Guests
  <2>10. Sees(i, g, touched[i], appended[i])
    <3>1. ASSUME NEW k \in Keys
          PROVE  (IF k \in DOMAIN env THEN env[k] ELSE Unset) = IF k \in HostEnv[i] THEN FromHost(i) ELSE Unset
      BY <1>1, <1>3, <2>1, EmptyEnvironment DEF Sees, env
    <3>2. h.handles \in {"none", i}
      BY <1>1 DEF Sees
    <3> QED
      BY <2>1, <2>2, <2>7, <3>1, <3>2, EmptyEnvironment DEF Sees
  <2> QED
    BY <2>2, <2>9, <2>10 DEF g
<1> QED
  BY <1>2, <1>3

\* What a call must leave behind to keep the invariant.
LEMMA CallKeeps ==
  ASSUME IInv, NEW i \in Instances, NEW g \in Guests, Called(i, g),
         NEW done \in Environments(Values \cup {Unset}), touched' = [touched EXCEPT ![i] = done],
         NEW added \in Nat, appended' = [appended EXCEPT ![i] = added],
         NEW draws \in SUBSET Generators, drawn' = [drawn EXCEPT ![i] = draws],
         g.rng.seed = IF g.once THEN i ELSE "build",
         ~build.stubWasi => g.once /\ \A r \in draws : r.seed = i,
         Sees(i, g, done, added)
  PROVE  IInv'
<1>1. instance' = [instance EXCEPT ![i] = g] /\ UNCHANGED buildVars /\ stage = "written"
      /\ calls' = [calls EXCEPT ![i] = @ + 1] /\ calls[i] < MaxCalls
  BY DEF Called
<1>2. /\ instance \in [Instances -> Guests] /\ touched \in [Instances -> Environments(Values \cup {Unset})]
      /\ appended \in [Instances -> Nat] /\ drawn \in [Instances -> SUBSET Generators]
      /\ calls \in [Instances -> 0 .. MaxCalls]
  BY DEF IInv, TypeOK
<1>3. g # NoGuest
  BY NoGuestIsGuest, Seeding
<1>4. TypeOK'
  <2>1. calls' \in [Instances -> 0 .. MaxCalls]
    BY <1>1, <1>2, BuildsAssumption
  <2> QED
    BY <1>1, <1>2, <2>1 DEF IInv, TypeOK, buildVars
<1>5. Stages'
  BY <1>1 DEF IInv, Stages, buildVars
<1>6. Untouched'
  BY <1>1, <1>2, <1>3 DEF IInv, Untouched, buildVars
<1>7. Seeds'
  BY <1>1, <1>2 DEF IInv, Seeds, buildVars
<1>8. SeesItsHost'
  BY <1>1, <1>2 DEF IInv, SeesItsHost
<1> QED
  BY <1>4, <1>5, <1>6, <1>7, <1>8 DEF IInv
LEMMA SetInv ==
  ASSUME IInv, NEW i \in Instances, NEW k \in Keys, SetVariable(i, k)
  PROVE  IInv'
<1> DEFINE h == Refresh(i, instance[i])
           env == [j \in DOMAIN h.environ \cup {k} |-> IF j = k THEN FromCall(i) ELSE h.environ[j]]
           g == [h EXCEPT !.environ = env]
           done == [j \in DOMAIN touched[i] \cup {k} |-> IF j = k THEN FromCall(i) ELSE touched[i][j]]
<1>1. Called(i, g) /\ instance[i] # NoGuest
  BY DEF SetVariable, Called
<1>2. /\ h \in Guests /\ h.rng.seed = (IF h.once THEN i ELSE "build") /\ (~build.stubWasi => h.once)
      /\ Sees(i, h, touched[i], appended[i])
  BY <1>1, Refreshed
<1>3. touched' = [touched EXCEPT ![i] = done] /\ UNCHANGED <<appended, drawn>>
  BY DEF SetVariable, IInv, TypeOK
<1>4. /\ appended[i] \in Nat /\ drawn[i] \in SUBSET Generators
      /\ touched[i] \in Environments(Values \cup {Unset})
      /\ appended \in [Instances -> Nat] /\ drawn \in [Instances -> SUBSET Generators]
  BY DEF IInv, TypeOK
<1> HIDE DEF h
<1>5. env \in Environments(Values)
  <2>1. DOMAIN h.environ \in SUBSET Keys /\ h.environ \in [DOMAIN h.environ -> Values]
    BY <1>2, OfEnvironment DEF Guests
  <2>2. DOMAIN h.environ \cup {k} \in SUBSET Keys /\ env \in [DOMAIN h.environ \cup {k} -> Values]
    BY <2>1, Seeding
  <2> QED
    BY <2>2 DEF Environments
<1>6. done \in Environments(Values \cup {Unset})
  <2>1. DOMAIN touched[i] \in SUBSET Keys /\ touched[i] \in [DOMAIN touched[i] -> Values \cup {Unset}]
    BY <1>4, OfEnvironment
  <2>2. /\ DOMAIN touched[i] \cup {k} \in SUBSET Keys
        /\ done \in [DOMAIN touched[i] \cup {k} -> Values \cup {Unset}]
    BY <2>1, Seeding
  <2> QED
    BY <2>2 DEF Environments
<1>7. g \in Guests /\ g.environ = env /\ g.argv = h.argv /\ g.rng = h.rng /\ g.handles = h.handles /\ g.once = h.once
  <2> HIDE DEF env
  <2> QED
    BY <1>2, <1>5 DEF Guests
<1>8. Sees(i, g, done, appended[i])
  <2> HIDE DEF g
  <2>1. ASSUME NEW j \in Keys
        PROVE  (IF j \in DOMAIN env THEN env[j] ELSE Unset) =
               (IF j \in DOMAIN done THEN done[j]
                ELSE IF g.once /\ j \in HostEnv[i] THEN FromHost(i) ELSE Unset)
    BY <1>2, <1>7 DEF Sees
  <2> HIDE DEF env, done
  <2> QED
    BY <1>2, <1>7, <2>1 DEF Sees
<1>9. appended' = [appended EXCEPT ![i] = appended[i]] /\ drawn' = [drawn EXCEPT ![i] = drawn[i]]
  BY <1>3, <1>4
<1>10. /\ g.rng.seed = IF g.once THEN i ELSE "build"
       /\ ~build.stubWasi => g.once /\ \A r \in drawn[i] : r.seed = i
  BY <1>2, <1>7 DEF IInv, Seeds
<1>11. g \in Guests
  BY <1>7
<1> HIDE DEF g, done
<1> QED
  BY <1>1, <1>3, <1>4, <1>6, <1>8, <1>9, <1>10, <1>11, CallKeeps

LEMMA DeleteInv ==
  ASSUME IInv, NEW i \in Instances, NEW k \in Keys, DeleteVariable(i, k)
  PROVE  IInv'
<1> DEFINE h == Refresh(i, instance[i])
           env == [j \in DOMAIN h.environ \ {k} |-> h.environ[j]]
           g == [h EXCEPT !.environ = env]
           done == [j \in DOMAIN touched[i] \cup {k} |-> IF j = k THEN Unset ELSE touched[i][j]]
<1>1. Called(i, g) /\ instance[i] # NoGuest
  BY DEF DeleteVariable, Called
<1>2. /\ h \in Guests /\ h.rng.seed = (IF h.once THEN i ELSE "build") /\ (~build.stubWasi => h.once)
      /\ Sees(i, h, touched[i], appended[i])
  BY <1>1, Refreshed
<1>3. touched' = [touched EXCEPT ![i] = done] /\ UNCHANGED <<appended, drawn>>
  BY DEF DeleteVariable, IInv, TypeOK
<1>4. /\ appended[i] \in Nat /\ drawn[i] \in SUBSET Generators
      /\ touched[i] \in Environments(Values \cup {Unset})
      /\ appended \in [Instances -> Nat] /\ drawn \in [Instances -> SUBSET Generators]
  BY DEF IInv, TypeOK
<1> HIDE DEF h
<1>5. env \in Environments(Values)
  <2>1. DOMAIN h.environ \in SUBSET Keys /\ h.environ \in [DOMAIN h.environ -> Values]
    BY <1>2, OfEnvironment DEF Guests
  <2>2. DOMAIN h.environ \ {k} \in SUBSET Keys /\ env \in [DOMAIN h.environ \ {k} -> Values]
    BY <2>1
  <2> QED
    BY <2>2 DEF Environments
<1>6. done \in Environments(Values \cup {Unset})
  <2>1. DOMAIN touched[i] \in SUBSET Keys /\ touched[i] \in [DOMAIN touched[i] -> Values \cup {Unset}]
    BY <1>4, OfEnvironment
  <2>2. /\ DOMAIN touched[i] \cup {k} \in SUBSET Keys
        /\ done \in [DOMAIN touched[i] \cup {k} -> Values \cup {Unset}]
    BY <2>1
  <2> QED
    BY <2>2 DEF Environments
<1>7. g \in Guests /\ g.environ = env /\ g.argv = h.argv /\ g.rng = h.rng /\ g.handles = h.handles /\ g.once = h.once
  <2> HIDE DEF env
  <2> QED
    BY <1>2, <1>5 DEF Guests
<1>8. Sees(i, g, done, appended[i])
  <2> HIDE DEF g
  <2>1. ASSUME NEW j \in Keys
        PROVE  (IF j \in DOMAIN env THEN env[j] ELSE Unset) =
               (IF j \in DOMAIN done THEN done[j]
                ELSE IF g.once /\ j \in HostEnv[i] THEN FromHost(i) ELSE Unset)
    BY <1>2, <1>7 DEF Sees
  <2> HIDE DEF env, done
  <2> QED
    BY <1>2, <1>7, <2>1 DEF Sees
<1>9. appended' = [appended EXCEPT ![i] = appended[i]] /\ drawn' = [drawn EXCEPT ![i] = drawn[i]]
  BY <1>3, <1>4
<1>10. /\ g.rng.seed = IF g.once THEN i ELSE "build"
       /\ ~build.stubWasi => g.once /\ \A r \in drawn[i] : r.seed = i
  BY <1>2, <1>7 DEF IInv, Seeds
<1>11. g \in Guests
  BY <1>7
<1> HIDE DEF g, done
<1> QED
  BY <1>1, <1>3, <1>4, <1>6, <1>8, <1>9, <1>10, <1>11, CallKeeps

LEMMA AppendInv ==
  ASSUME IInv, NEW i \in Instances, AppendArgument(i)
  PROVE  IInv'
<1> DEFINE h == Refresh(i, instance[i])
           args == Append(h.argv, FromCall(i))
           g == [h EXCEPT !.argv = args]
           host == [n \in 1 .. IF h.once THEN HostArgs[i] ELSE 0 |-> FromHost(i)]
<1>1. Called(i, g) /\ instance[i] # NoGuest
  BY DEF AppendArgument, Called
<1>2. /\ h \in Guests /\ h.rng.seed = (IF h.once THEN i ELSE "build") /\ (~build.stubWasi => h.once)
      /\ Sees(i, h, touched[i], appended[i])
  BY <1>1, Refreshed
<1>3. /\ appended[i] \in Nat /\ drawn[i] \in SUBSET Generators
      /\ touched[i] \in Environments(Values \cup {Unset})
      /\ touched \in [Instances -> Environments(Values \cup {Unset})]
      /\ appended \in [Instances -> Nat] /\ drawn \in [Instances -> SUBSET Generators]
  BY DEF IInv, TypeOK
<1>4. /\ appended' = [appended EXCEPT ![i] = appended[i] + 1]
      /\ touched' = [touched EXCEPT ![i] = touched[i]] /\ drawn' = [drawn EXCEPT ![i] = drawn[i]]
  BY <1>3 DEF AppendArgument
<1> HIDE DEF h
<1>5. args \in Seq(Values) /\ args = host \o Times(FromCall(i), appended[i] + 1)
  <2>1. h.argv \in Seq(Values) /\ FromCall(i) \in Values /\ FromHost(i) \in Values /\ HostArgs[i] \in Nat
    BY <1>2, Seeding, BuildsAssumption DEF Guests
  <2>2. h.argv = host \o Times(FromCall(i), appended[i])
    BY <1>2 DEF Sees, Times
  <2>3. host \in Seq(Values)
    BY <2>1
  <2> HIDE DEF host
  <2>4. args = host \o Times(FromCall(i), appended[i] + 1)
    BY <1>3, <2>1, <2>2, <2>3, TimesMore
  <2>5. args \in Seq(Values)
    BY <2>1
  <2> HIDE DEF args
  <2> QED
    BY <2>4, <2>5
<1>6. g \in Guests /\ g.environ = h.environ /\ g.argv = args /\ g.rng = h.rng /\ g.handles = h.handles /\ g.once = h.once
  <2> HIDE DEF args
  <2> QED
    BY <1>2, <1>5 DEF Guests
<1>7. Sees(i, g, touched[i], appended[i] + 1)
  <2> HIDE DEF g, args
  <2> QED
    BY <1>2, <1>5, <1>6 DEF Sees, Times
<1>8. /\ g.rng.seed = IF g.once THEN i ELSE "build"
      /\ ~build.stubWasi => g.once /\ \A r \in drawn[i] : r.seed = i
  BY <1>2, <1>6 DEF IInv, Seeds
<1>9. g \in Guests /\ appended[i] + 1 \in Nat
  BY <1>3, <1>6
<1> HIDE DEF g
<1> QED
  BY <1>1, <1>3, <1>4, <1>7, <1>8, <1>9, CallKeeps

LEMMA DrawInv ==
  ASSUME IInv, NEW i \in Instances, Draw(i)
  PROVE  IInv'
<1> DEFINE h == Refresh(i, instance[i])
           g == [h EXCEPT !.rng.n = @ + 1]
<1>1. Called(i, g) /\ instance[i] # NoGuest
  BY DEF Draw, Called
<1>2. /\ h \in Guests /\ h.rng.seed = (IF h.once THEN i ELSE "build") /\ (~build.stubWasi => h.once)
      /\ Sees(i, h, touched[i], appended[i])
  BY <1>1, Refreshed
<1>3. /\ appended[i] \in Nat /\ drawn[i] \in SUBSET Generators
      /\ touched[i] \in Environments(Values \cup {Unset})
      /\ touched \in [Instances -> Environments(Values \cup {Unset})]
      /\ appended \in [Instances -> Nat] /\ drawn \in [Instances -> SUBSET Generators]
  BY DEF IInv, TypeOK
<1>4. /\ drawn' = [drawn EXCEPT ![i] = drawn[i] \cup {h.rng}]
      /\ touched' = [touched EXCEPT ![i] = touched[i]] /\ appended' = [appended EXCEPT ![i] = appended[i]]
  BY <1>3 DEF Draw
<1> HIDE DEF h
<1>5. /\ g \in Guests /\ g.environ = h.environ /\ g.argv = h.argv /\ g.handles = h.handles
      /\ g.once = h.once /\ g.rng.seed = h.rng.seed
  BY <1>2 DEF Guests, Generators
<1>6. Sees(i, g, touched[i], appended[i])
  <2> HIDE DEF g
  <2> QED
    BY <1>2, <1>5 DEF Sees
<1>7. ~build.stubWasi => \A r \in drawn[i] \cup {h.rng} : r.seed = i
  BY <1>2 DEF IInv, Seeds
<1>8. drawn[i] \cup {h.rng} \in SUBSET Generators
  BY <1>2, <1>3 DEF Guests
<1> HIDE DEF g
<1> QED
  BY <1>1, <1>2, <1>3, <1>4, <1>5, <1>6, <1>7, <1>8, CallKeeps

LEMMA HandleInv ==
  ASSUME IInv, NEW i \in Instances, UseHandle(i)
  PROVE  IInv'
<1> DEFINE h == Refresh(i, instance[i])
           g == [h EXCEPT !.handles = IF @ = "none" THEN i ELSE @]
<1>1. Called(i, g) /\ instance[i] # NoGuest
  BY DEF UseHandle, Called
<1>2. /\ h \in Guests /\ h.rng.seed = (IF h.once THEN i ELSE "build") /\ (~build.stubWasi => h.once)
      /\ Sees(i, h, touched[i], appended[i])
  BY <1>1, Refreshed
<1>3. /\ appended[i] \in Nat /\ drawn[i] \in SUBSET Generators
      /\ touched[i] \in Environments(Values \cup {Unset})
      /\ touched \in [Instances -> Environments(Values \cup {Unset})]
      /\ appended \in [Instances -> Nat] /\ drawn \in [Instances -> SUBSET Generators]
  BY DEF IInv, TypeOK
<1>4. /\ drawn' = [drawn EXCEPT ![i] = drawn[i]]
      /\ touched' = [touched EXCEPT ![i] = touched[i]] /\ appended' = [appended EXCEPT ![i] = appended[i]]
  BY <1>3 DEF UseHandle
<1> HIDE DEF h
<1>5. /\ g \in Guests /\ g.environ = h.environ /\ g.argv = h.argv /\ g.handles \in {"none", i}
      /\ g.once = h.once /\ g.rng = h.rng
  BY <1>2 DEF Guests, Sees
<1>6. Sees(i, g, touched[i], appended[i])
  <2> HIDE DEF g
  <2> QED
    BY <1>2, <1>5 DEF Sees
<1>7. ~build.stubWasi => \A r \in drawn[i] : r.seed = i
  BY DEF IInv, Seeds
<1> HIDE DEF g
<1> QED
  BY <1>1, <1>2, <1>3, <1>4, <1>5, <1>6, <1>7, CallKeeps

-----------------------------------------------------------------------------
(* The theorems.                                                           *)

LEMMA NextInv == IInv /\ [Next]_vars => IInv'
<1> SUFFICES ASSUME IInv, [Next]_vars PROVE IInv'
  OBVIOUS
<1>1. CASE Link
  BY <1>1, LinkInv
<1>2. CASE AddToLinker \/ AddWasiAndStubs
  BY <1>2, StubsInv
<1>3. CASE ImportApp
  BY <1>3, ImportInv
<1>4. CASE BindSymbols
  BY <1>4, BindInv
<1>5. CASE Clear
  BY <1>5, ClearInv
<1>6. CASE Reset
  BY <1>6, ResetInv
<1>7. CASE Write
  BY <1>7, WriteInv
<1>8. ASSUME NEW i \in Instances, Start(i) \/ AppendArgument(i) \/ Draw(i) \/ UseHandle(i) PROVE IInv'
  BY <1>8, StartInv, AppendInv, DrawInv, HandleInv
<1>9. ASSUME NEW i \in Instances, NEW k \in Keys, SetVariable(i, k) \/ DeleteVariable(i, k) PROVE IInv'
  BY <1>9, SetInv, DeleteInv
<1>10. CASE UNCHANGED vars
  BY <1>10 DEF vars, buildVars, instanceVars, IInv, TypeOK, Stages, Untouched, Seeds, SeesItsHost
<1> QED
  BY <1>1, <1>2, <1>3, <1>4, <1>5, <1>6, <1>7, <1>8, <1>9, <1>10 DEF Next

LEMMA Invariance == Spec => []IInv
  BY InitInv, NextInv, PTL DEF Spec

\* Every reachable state is well typed (do_init, export_call_).
THEOREM TypeCorrect == Spec => []TypeOK
<1>1. IInv => TypeOK
  BY DEF IInv
<1> QED
  BY <1>1, Invariance, PTL

\* For any build and any hosts, an instance sees the variables and arguments of its
\* own host with what its application did since, and nothing of the build (do_init
\* clears them, export_call_ adds the host's once).
THEOREM EnvironmentIsTheHosts == Spec => []SeesItsHost
<1>1. IInv => SeesItsHost
  BY DEF IInv
<1> QED
  BY <1>1, Invariance, PTL

\* No two instances of any number draw the same random numbers, and none draws a
\* number of the build (export_call_ seeds once), unless WASI is stubbed.
THEOREM RandomNumbersDiffer == Spec => []DrawsDiffer
<1>1. IInv => DrawsDiffer
  BY Seeding DEF IInv, Seeds, DrawsDiffer
<1> QED
  BY <1>1, Invariance, PTL
-----------------------------------------------------------------------------
(* Where the state of a module goes.                                       *)

LEMMA CallsKeepBuild ==
  ASSUME NEW i \in Instances,
         \/ Start(i) \/ AppendArgument(i) \/ Draw(i) \/ UseHandle(i)
         \/ \E k \in Keys : SetVariable(i, k) \/ DeleteVariable(i, k)
  PROVE  UNCHANGED buildVars
BY DEF Start, AppendArgument, Draw, UseHandle, SetVariable, DeleteVariable, Called

Adapter == <<"wasi_snapshot_preview1">>

\* The names of modules.  (The provers do not know that these are strings.)
Names == STRING \cup {"main", "wasi_snapshot_preview1", "init", "shims", "runtime", "runtime_sync",
                      "runtime_async", "python", "c", "bindings"}

\* The modules behind the adapters are the same, however many adapters there are.
LEMMA ModuleFound ==
  ASSUME NEW W \in Seq(Names), W # <<>>, NEW L \in Seq(Names), NEW x \in DOMAIN Layout(W, L)
  PROVE  Layout(W, L)[x] \in Range(W) \cup {Layout(Adapter, L)[ModuleIndex(Len(W), x - 1) + 1]}
<1> DEFINE rest == L \o <<"init", "shims">>
           n == Len(W)
<1>1. rest \in Seq(Names) /\ n \in Nat \ {0}
  BY EmptySeq DEF Names
<1>2. /\ Layout(W, L) = (<<"main">> \o W) \o rest
      /\ Layout(Adapter, L) = (<<"main">> \o Adapter) \o rest
  <2> DEFINE end == <<"init", "shims">>
  <2>1. end \in Seq(Names)
    BY DEF Names
  <2>2. ASSUME NEW A \in Seq(Names) PROVE Layout(A, L) = (<<"main">> \o A) \o rest
    <3> DEFINE front == <<"main">> \o A
    <3>1. front \in Seq(Names)
      <4>1. <<"main">> \in Seq(Names)
        BY DEF Names
      <4> QED BY <4>1
    <3> HIDE DEF front, end
    <3>2. (front \o L) \o end = front \o (L \o end)
      BY <2>1, <3>1, ConcatAssociative, SMTT(30)
    <3>3. rest = L \o end
      BY DEF end
    <3>4. Layout(A, L) = (front \o L) \o end
      BY DEF Layout, front, end
    <3> HIDE DEF rest
    <3> QED
      BY <3>2, <3>3, <3>4 DEF front
  <2>3. Adapter \in Seq(Names)
    BY DEF Adapter, Names
  <2> QED
    BY <2>2, <2>3
<1>front. <<"main">> \o Adapter \in Seq(Names) /\ Len(<<"main">> \o Adapter) = 2 /\ (<<"main">> \o Adapter)[1] = "main"
  BY DEF Adapter, Names
<1> HIDE DEF rest
<1>3. x \in 1 .. 1 + n + Len(rest)
  BY <1>1, <1>2
<1>4. CASE x = 1
  BY <1>1, <1>2, <1>3, <1>4, <1>front DEF ModuleIndex
<1>5. CASE 1 < x /\ x <= n + 1
  <2>1. Layout(W, L)[x] = W[x - 1] /\ x - 1 \in DOMAIN W
    BY <1>1, <1>2, <1>3, <1>5
  <2> QED
    BY <2>1 DEF Range
<1>6. CASE x > n + 1
  <2>1. Layout(W, L)[x] = rest[x - n - 1]
    BY <1>1, <1>2, <1>3, <1>6
  <2>2. ModuleIndex(n, x - 1) + 1 = x - n + 1
    BY <1>1, <1>3, <1>6 DEF ModuleIndex
  <2>3. Layout(Adapter, L)[x - n + 1] = rest[x - n - 1]
    BY <1>1, <1>2, <1>3, <1>6, <1>front
  <2> QED
    BY <2>1, <2>2, <2>3
<1> QED
  BY <1>1, <1>3, <1>4, <1>5, <1>6

LEMMA LibrariesAreSeq == ASSUME NEW b, IsBuild(b) PROVE Libraries(b) \in Seq(Names)
<1>1. Kept(b) \in Seq(Names)
  <2>1. RemoveAt(Bundled, IF b.needAsync THEN 1 ELSE 2) \in Seq(Names)
        /\ Len(RemoveAt(Bundled, IF b.needAsync THEN 1 ELSE 2)) = 3
    BY DEF RemoveAt, Bundled, Names
  <2> QED
    BY <2>1 DEF Kept, Names
<1> QED
  <2>1. b.libraries \in Seq(Names)
    BY SeqMonotonic DEF IsBuild, Names
  <2> QED
    BY <1>1, <2>1 DEF Libraries, Names

\* Modules and component follow the layout of the build.
Laid ==
  /\ build \in Builds
  /\ stage \in {"stubs", "import", "bind", "clear", "reset", "write"} => modules = Layout(Adapter, Libraries(build))
  /\ component.modules = <<>> \/
       /\ component.modules = Target(build)
       /\ component.state = [x \in DOMAIN Target(build) |->
                               Layout(Adapter, Libraries(build))[SourceIndex(build, x - 1) + 1]]

LEMMA LaidIsHome == Laid => StateGoesHome
<1> SUFFICES ASSUME Laid, NEW x \in DOMAIN component.modules
             PROVE  component.modules[x] \in Range(build.wasi) \cup
                                               {"wasi_snapshot_preview1", component.state[x]}
  BY DEF StateGoesHome
<1>1. IsBuild(build) /\ Libraries(build) \in Seq(Names)
  BY BuildsAssumption, LibrariesAreSeq DEF Laid
<1>2. CASE component.modules = <<>>
  BY <1>2
<1>3. CASE component.modules # <<>>
  <2> DEFINE L == Libraries(build)
  <2>1. /\ component.modules = Target(build) /\ x \in DOMAIN Target(build)
        /\ component.state[x] = Layout(Adapter, L)[SourceIndex(build, x - 1) + 1]
    BY <1>3 DEF Laid
  <2>2. CASE build.stubWasi
    <3>1. Target(build) = Layout(build.wasi, L) /\ SourceIndex(build, x - 1) = ModuleIndex(Len(build.wasi), x - 1)
      BY <2>2 DEF Target, SourceIndex
    <3>2. build.wasi \in Seq(Names) /\ build.wasi # <<>>
      BY <1>1, SeqMonotonic DEF IsBuild, Names
    <3> QED
      BY <1>1, <2>1, <3>1, <3>2, ModuleFound
  <2>3. CASE ~build.stubWasi
    <3>1. Target(build) = Layout(Adapter, L) /\ SourceIndex(build, x - 1) + 1 = x
      <4>1. x \in Int
        BY <1>1, <2>1, <2>3 DEF Target, Layout
      <4> QED
        BY <2>3, <4>1 DEF Target, SourceIndex, Adapter
    <3> QED
      BY <2>1, <3>1
  <2> QED
    BY <2>2, <2>3
<1> QED
  BY <1>2, <1>3

\* However many stubs stand in for WASI, and whatever the libraries, the state of
\* a module of the snapshot is put into the same module (link_stub_modules).
THEOREM StateIsNotMixed == Spec => []StateGoesHome
<1>1. Init => Laid
  <2>1. NoComponent.modules = <<>>
    BY DEF NoComponent
  <2>2. Init => component = NoComponent /\ stage = "link" /\ build \in Builds
    BY DEF Init
  <2> QED
    BY <2>1, <2>2 DEF Laid
<1>2. Laid /\ [Next]_vars => Laid'
  <2> SUFFICES ASSUME Laid, [Next]_vars PROVE Laid'
    OBVIOUS
  <2>1. CASE Link
    BY <2>1 DEF Laid, Link, Adapter
  <2>2. CASE AddToLinker \/ AddWasiAndStubs \/ ImportApp \/ BindSymbols \/ Clear \/ Reset
    BY <2>2 DEF Laid, AddToLinker, AddWasiAndStubs, Instantiate, ImportApp, BindSymbols, Clear, Reset, Fail
  <2>3. CASE Write
    BY <2>3 DEF Laid, Write
  <2>4. CASE UNCHANGED buildVars
    BY <2>4 DEF Laid, buildVars
  <2> QED
    BY <2>1, <2>2, <2>3, <2>4, CallsKeepBuild DEF Next, vars, buildVars
<1> QED
  BY <1>1, <1>2, LaidIsHome, PTL DEF Spec
=============================================================================
