------------------------------- MODULE PreInit -------------------------------
(***************************************************************************)
(* From the linked component to its instances.  `componentize` links the   *)
(* libraries (link.rs), runs the application's top-level script once in a  *)
(* linker of WASI and trapping stubs (lib.rs, do_init of the runtime), and *)
(* writes the snapshot as the component, with its WASI imports replaced by *)
(* stubs if asked to (stubwasi.rs).  Each instance then starts from that    *)
(* one snapshot, and its first export call makes the environment that of   *)
(* its own host (export_call_).                                            *)
(***************************************************************************)
EXTENDS Integers, Sequences, FiniteSets, SequencesExt

CONSTANTS
  Builds,      \* the inputs considered, see IsBuild
  Entries,     \* the functions and resources of each import of a world
  Wasi2,       \* the imports with the name of an interface of WASI 0.2 (is_wasip2_cli)
  Provided,    \* what wasmtime-wasi puts into a linker: of which import which entries
  Keys,        \* the names of environment variables
  Instances,   \* bound: instances started from the component
  BuildEnv,    \* those set for the build: PYTHONHOME, PYTHONPATH, ...
  HostEnv,     \* the variables that the host of each instance sets
  HostArgs,    \* and the number of its arguments
  MaxCalls     \* bound: calls of exports of one instance

Imports == DOMAIN Entries

\* The definitions in a linker for some imports.
Definitions(entries, I) == UNION {{i} \X entries[i] : i \in I}

(* A build: the imports of each world, in order; the libraries of the      *)
(* application; the WASI modules that all the libraries import; whether    *)
(* the world needs the async ABI; --stub-wasi; whether an embedder fills   *)
(* the linker (add_to_linker), and with what; and what the application     *)
(* does when it is imported: the variables it sets, the arguments it adds, *)
(* the random numbers it draws, the imports it calls, whether it raises,   *)
(* and whether a symbol is missing from it.                                *)
IsBuild(b) ==
  /\ b.worlds \in Seq(SUBSET Imports)
  /\ b.libraries \in Seq(STRING) /\ b.wasi \in Seq(STRING) /\ b.wasi # <<>>
  /\ IsInjective(b.libraries) /\ IsInjective(b.wasi)
  /\ b.needAsync \in BOOLEAN /\ b.stubWasi \in BOOLEAN /\ b.embedder \in BOOLEAN
  /\ b.given \subseteq Definitions(Entries, Imports)
  /\ b.sets \subseteq Keys /\ b.adds \in Nat /\ b.draws \in Nat
  /\ b.calls \subseteq UNION Range(b.worlds)
  /\ b.raises \in BOOLEAN /\ b.lacks \in BOOLEAN

ASSUME BuildsAssumption ==
  /\ \A b \in Builds : IsBuild(b)
  /\ Wasi2 \subseteq Imports /\ DOMAIN Provided \subseteq Imports /\ BuildEnv \subseteq Keys
  /\ HostEnv \in [Instances -> SUBSET Keys] /\ HostArgs \in [Instances -> Nat]
  /\ MaxCalls \in Nat
  /\ Instances \cap {"none", "build"} = {}

VARIABLES
  build,       \* the input
  stage,       \* "link", "stubs", "import", "bind", "clear", "reset", "write", "written" or "failed"
  why,         \* the error
  modules,     \* the modules of the component that is run
  defined,     \* what the linker for the pre-initialisation defines
  guest,       \* the Python state of the pre-initialised instance
  component,   \* what is written: the snapshot and the state given to each module
  instance,    \* the Python state of each instance
  calls,       \* how often an export of it was called
  touched,     \* history: what the application of an instance did to each variable
  appended,    \* history: how many arguments it appended
  drawn        \* history: the random numbers it drew

buildVars == <<build, stage, why, modules, defined, guest, component>>
instanceVars == <<instance, calls, touched, appended, drawn>>
vars == <<buildVars, instanceVars>>

(* Where a value comes from: the environment of the build, the script when *)
(* it was imported, the host of an instance, or a call of an export of it. *)
FromBuild == <<"build">>
FromImport == <<"import">>
FromHost(i) == <<"host", i>>
FromCall(i) == <<"call", i>>
Unset == <<"unset">>

\* The Python state: os.environ, sys.argv, the generator of `random`, the host
\* whose handles the WASI libraries hold, and the Once of export_call_.
NoGuest == [environ |-> <<>>, argv |-> <<>>, rng |-> [seed |-> "none", n |-> 0],
            handles |-> "none", once |-> FALSE]
NoComponent == [snapshot |-> NoGuest, modules |-> <<>>, state |-> <<>>]

Init ==
  /\ build \in Builds /\ stage = "link" /\ why = ""
  /\ modules = <<>> /\ defined = {} /\ guest = NoGuest /\ component = NoComponent
  /\ instance = [i \in Instances |-> NoGuest]
  /\ calls = [i \in Instances |-> 0]
  /\ touched = [i \in Instances |-> <<>>]
  /\ appended = [i \in Instances |-> 0]
  /\ drawn = [i \in Instances |-> {}]

Fail(reason) == stage' = "failed" /\ why' = reason

-----------------------------------------------------------------------------
(* Linking.                                                                *)

\* bundle_libraries, without the libraries of libc.
Bundled == <<"runtime_sync", "runtime_async", "python", "c">>

\* The runtime for the ABI that the world needs is kept, under one name.
Kept(b) == [RemoveAt(Bundled, IF b.needAsync THEN 1 ELSE 2) EXCEPT ![1] = "runtime"]
Libraries(b) == Kept(b) \o b.libraries \o <<"bindings">>

\* wit_component::Linker puts the main module first, then the adapters, the
\* libraries, the init module and the shims.
Layout(adapters, libraries) == <<"main">> \o adapters \o libraries \o <<"init", "shims">>

Link ==
  /\ stage = "link"
  /\ modules' = Layout(<<"wasi_snapshot_preview1">>, Libraries(build))
  /\ stage' = "stubs"
  /\ UNCHANGED <<build, why, defined, guest, component, instanceVars>>

-----------------------------------------------------------------------------
(* The linker for the pre-initialisation (add_wasi_and_stubs).             *)

\* The imports that get stubs.  An interface of WASI gets none, by its name, and one
\* that the linker has already is skipped silently.
Imported == UNION Range(build.worlds)
Stubbed == {i \in Imported \ Wasi2 : i \notin DOMAIN Provided}

\* A stub is made for each world that imports it, and a linker takes a name once.
Twice ==
  \E k, l \in DOMAIN build.worlds :
    k # l /\ Definitions(Entries, Stubbed \cap build.worlds[k] \cap build.worlds[l]) # {}

\* The linker must have each import, or the component is not instantiated.
Instantiate(D) ==
  IF Definitions(Entries, Imported) \subseteq D
    THEN stage' = "import" /\ UNCHANGED why
    ELSE Fail("not defined")

AddToLinker ==
  /\ stage = "stubs" /\ build.embedder
  /\ defined' = build.given
  /\ Instantiate(build.given)
  /\ UNCHANGED <<build, modules, guest, component, instanceVars>>

AddWasiAndStubs ==
  /\ stage = "stubs" /\ ~build.embedder
  /\ IF Twice THEN Fail("defined twice") /\ UNCHANGED defined
     ELSE LET D == Definitions(Provided, DOMAIN Provided) \cup Definitions(Entries, Stubbed)
          IN  defined' = D /\ Instantiate(D)
  /\ UNCHANGED <<build, modules, guest, component, instanceVars>>

-----------------------------------------------------------------------------
(* do_init, in the order of its steps.                                     *)

\* The script runs with the variables of the build, and the list [""] as argv.  A
\* stub that it calls traps; what an embedder provides answers.
ImportApp ==
  /\ stage = "import"
  /\ guest' = [environ |-> [k \in BuildEnv \cup build.sets |->
                              IF k \in build.sets THEN FromImport ELSE FromBuild],
               argv |-> <<FromBuild>> \o [n \in 1 .. build.adds |-> FromImport],
               rng |-> [seed |-> "build", n |-> build.draws],
               handles |-> "build", once |-> FALSE]
  /\ IF (build.embedder \/ build.calls \cap Stubbed = {}) /\ ~build.raises
       THEN stage' = "bind" /\ UNCHANGED why
       ELSE Fail("script failed")
  /\ UNCHANGED <<build, modules, defined, component, instanceVars>>

\* Every symbol is imported and kept before the environment is cleared.
BindSymbols ==
  /\ stage = "bind"
  /\ IF build.lacks THEN Fail("symbol not found") ELSE stage' = "clear" /\ UNCHANGED why
  /\ UNCHANGED <<build, modules, defined, guest, component, instanceVars>>

\* The variables are deleted one by one, by a list of the keys made before.
Cleared_mut_build(env) == [k \in {j \in DOMAIN env : env[j] # FromBuild} |-> env[k]]
Cleared(env) == <<>>

\* The arguments are deleted by increasing index, while the list gets shorter.
Deletable(args) == \A n \in 0 .. Len(args) - 1 : n < Len(args) - n

Clear ==
  /\ stage = "clear"
  /\ IF Deletable(guest.argv)
       THEN /\ guest' = [guest EXCEPT !.environ = Cleared(@), !.argv = <<>>]
            /\ stage' = "reset" /\ UNCHANGED why
       ELSE Fail("index out of range") /\ guest' = [guest EXCEPT !.environ = Cleared(@)]
  /\ UNCHANGED <<build, modules, defined, component, instanceVars>>

\* init: the adapter and wasi-libc forget the handles of the build's host.
Reset ==
  /\ stage = "reset"
  /\ guest' = [guest EXCEPT !.handles = "none"]
  /\ stage' = "write"
  /\ UNCHANGED <<build, why, modules, defined, component, instanceVars>>

-----------------------------------------------------------------------------
(* Writing the component.                                                  *)

\* link_stub_modules: an index in the component with n stub adapters, counted
\* from 0, and the index of the same module in the component that was run.
ModuleIndex_mut_no_adapter(n, x) == IF x = 0 THEN 0 ELSE IF x <= n THEN 1 ELSE x - n
ModuleIndex(n, x) == IF x = 0 THEN 0 ELSE IF x <= n THEN 1 ELSE x + 1 - n

Target(b) == Layout(IF b.stubWasi THEN b.wasi ELSE <<"wasi_snapshot_preview1">>, Libraries(b))
SourceIndex(b, x) == IF b.stubWasi THEN ModuleIndex(Len(b.wasi), x) ELSE x

Write ==
  /\ stage = "write"
  /\ component' = [snapshot |-> guest, modules |-> Target(build),
                   state |-> [x \in DOMAIN Target(build) |-> modules[SourceIndex(build, x - 1) + 1]]]
  /\ stage' = "written"
  /\ UNCHANGED <<build, why, modules, defined, guest, instanceVars>>

-----------------------------------------------------------------------------
(* Instances.                                                              *)

Start(i) ==
  /\ stage = "written" /\ instance[i] = NoGuest
  /\ instance' = [instance EXCEPT ![i] = component.snapshot]
  /\ UNCHANGED <<buildVars, calls, touched, appended, drawn>>

\* What export_call_ does first, once in the life of an instance.
Seed_mut_kept(i, rng) == rng
Seed(i, rng) == [seed |-> i, n |-> 0]

Refresh(i, g) ==
  IF build.stubWasi \/ g.once THEN g
  ELSE [environ |-> [k \in DOMAIN g.environ \cup HostEnv[i] |->
                       IF k \in HostEnv[i] THEN FromHost(i) ELSE g.environ[k]],
        argv |-> g.argv \o [n \in 1 .. HostArgs[i] |-> FromHost(i)],
        rng |-> Seed(i, g.rng),
        handles |-> g.handles, once |-> TRUE]

\* A call of an export, in which the application does one thing.
Called(i, g) ==
  /\ stage = "written" /\ instance[i] # NoGuest /\ calls[i] < MaxCalls
  /\ instance' = [instance EXCEPT ![i] = g]
  /\ calls' = [calls EXCEPT ![i] = @ + 1]
  /\ UNCHANGED buildVars

SetVariable(i, k) ==
  LET g == Refresh(i, instance[i]) IN
  /\ Called(i, [g EXCEPT !.environ = [j \in DOMAIN @ \cup {k} |-> IF j = k THEN FromCall(i) ELSE @[j]]])
  /\ touched' = [touched EXCEPT ![i] = [j \in DOMAIN @ \cup {k} |-> IF j = k THEN FromCall(i) ELSE @[j]]]
  /\ UNCHANGED <<appended, drawn>>

DeleteVariable(i, k) ==
  LET g == Refresh(i, instance[i]) IN
  /\ k \in DOMAIN g.environ
  /\ Called(i, [g EXCEPT !.environ = [j \in DOMAIN @ \ {k} |-> @[j]]])
  /\ touched' = [touched EXCEPT ![i] = [j \in DOMAIN @ \cup {k} |-> IF j = k THEN Unset ELSE @[j]]]
  /\ UNCHANGED <<appended, drawn>>

AppendArgument(i) ==
  LET g == Refresh(i, instance[i]) IN
  /\ Called(i, [g EXCEPT !.argv = Append(@, FromCall(i))])
  /\ appended' = [appended EXCEPT ![i] = @ + 1]
  /\ UNCHANGED <<touched, drawn>>

Draw(i) ==
  LET g == Refresh(i, instance[i]) IN
  /\ Called(i, [g EXCEPT !.rng.n = @ + 1])
  /\ drawn' = [drawn EXCEPT ![i] = @ \cup {g.rng}]
  /\ UNCHANGED <<touched, appended>>

\* The WASI libraries ask for the handles they have not got; a stub traps.
UseHandle(i) ==
  LET g == Refresh(i, instance[i]) IN
  /\ ~build.stubWasi
  /\ Called(i, [g EXCEPT !.handles = IF @ = "none" THEN i ELSE @])
  /\ UNCHANGED <<touched, appended, drawn>>

-----------------------------------------------------------------------------

Next ==
  \/ Link \/ AddToLinker \/ AddWasiAndStubs \/ ImportApp \/ BindSymbols \/ Clear \/ Reset \/ Write
  \/ \E i \in Instances :
       \/ Start(i) \/ AppendArgument(i) \/ Draw(i) \/ UseHandle(i)
       \/ \E k \in Keys : SetVariable(i, k) \/ DeleteVariable(i, k)

Spec == Init /\ [][Next]_vars

-----------------------------------------------------------------------------
(* Properties.                                                             *)

Values == {FromBuild, FromImport} \cup {FromHost(i) : i \in Instances} \cup {FromCall(i) : i \in Instances}
Generators == [seed : {"none", "build"} \cup Instances, n : Nat]
Environments(V) == UNION {[D -> V] : D \in SUBSET Keys}

Guests ==
  [environ : Environments(Values), argv : Seq(Values), rng : Generators,
   handles : {"none", "build"} \cup Instances, once : BOOLEAN]

TypeOK ==
  /\ build \in Builds
  /\ stage \in {"link", "stubs", "import", "bind", "clear", "reset", "write", "written", "failed"}
  /\ guest \in Guests /\ component.snapshot \in Guests /\ instance \in [Instances -> Guests]
  /\ calls \in [Instances -> 0 .. MaxCalls] /\ appended \in [Instances -> Nat]
  /\ touched \in [Instances -> Environments(Values \cup {Unset})]
  /\ drawn \in [Instances -> SUBSET Generators]

\* An instance sees the environment and the arguments of its own host, as its own
\* application has changed them since, and no handle, variable or argument of the
\* build: the snapshot holds none, the host's are added in the first export call,
\* and no later call overwrites what the application did.
Sees(i, g, done, added) ==
  /\ \A k \in Keys :
       (IF k \in DOMAIN g.environ THEN g.environ[k] ELSE Unset) =
       (IF k \in DOMAIN done THEN done[k] ELSE IF g.once /\ k \in HostEnv[i] THEN FromHost(i) ELSE Unset)
  /\ g.argv = [n \in 1 .. IF g.once THEN HostArgs[i] ELSE 0 |-> FromHost(i)]
                \o [n \in 1 .. added |-> FromCall(i)]
  /\ g.handles \in {"none", i}
SeesItsHost ==
  \A i \in Instances : instance[i] # NoGuest => Sees(i, instance[i], touched[i], appended[i])

\* "to ensure we get a fresh seed rather than the one that got baked in during
\* pre-init": no two instances draw the same random numbers, and none draws those
\* of the build; --stub-wasi gives that up.
DrawsDiffer ==
  ~build.stubWasi =>
    /\ \A i, j \in Instances : i # j => drawn[i] \cap drawn[j] = {}
    /\ \A i \in Instances : \A r \in drawn[i] : r.seed # "build"

\* With --stub-wasi, the state of each module goes to the same module, wherever
\* the stubs have moved it; adapters have none.
StateGoesHome ==
  \A x \in DOMAIN component.modules :
    component.modules[x] \in Range(build.wasi) \cup {"wasi_snapshot_preview1", component.state[x]}
=============================================================================
