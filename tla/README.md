# A verification of componentize-py in TLA+

componentize-py turns a Python application into a WebAssembly component. At build time it collects
WIT files and worlds, generates Python bindings, links the interpreter with a runtime and runs the
application's top-level script once; at run time that runtime carries values and handles between the
component model and Python, and two bundled packages run the application's coroutines. This directory
models the parts that have state and control of their own, checks them with TLC on small instances,
and proves the central facts of all of them with TLAPS for all values of the constants. Paths below are
relative to the repository root.

## The system

| Part | State it keeps | What is hard about it |
|---|---|---|
| Async event loop (`bundled/componentize_py_async_support/__init__.py`) | per export call a `_FutureState` (waitable set, futures, handles, `pending_count`), one `_Loop` with an exception | export calls share one interpreter; coroutines of one wake those of another; exit decided by a count; cancellation |
| Stream and future ends (`streams.py`, `futures.py`, the copy functions of `runtime/src/lib.rs`) | handle, finalizer and closed flag of each object; the host's view of the end | who owns the handle while a call is in progress; finalizers against `__exit__` and transfer |
| Imported resources (`runtime/src/lib.rs`) | Python objects with a handle and a finalizer; the host's handle table; borrowed parameters | reuse of indices, loans, handles given away and given back by partial writes |
| Exported resources (`runtime/src/lib.rs`) | a handle kept in the Python object, a reference that keeps it alive, the same table | the object outlives the handle and the handle the object; what is sent and not read; the address that the host holds |
| Loop on wasi:io/poll (`bundled/poll_loop.py`) | scheduled handles, wakers with their pollables, an exception | lost wakeups, cancelled futures, backpressure, parent and child handles of the host |
| Value stack (`runtime/src/lib.rs`, `MyCall`) | a stack of Python values and one of iterators | order of pushes and pops, nested options, results as exceptions |
| Search and world selection (`src/prelink.rs`, `src/lib.rs`) | modules seen, configurations, worlds, the module each world goes to, mounted directories | order of directory entries, nested roots, which worlds are covered by whom, which directory hides which |
| Bindings generator (`src/summary.rs`) | visited types and functions, their order, where each class was put and under what name | cycles through resources, types shared by worlds and modules, resources on both sides, names made from other names |
| Pre-initialisation and WASI stubs (`runtime/src/lib.rs`, `src/lib.rs`, `src/stubwasi.rs`) | the interpreter's environment, arguments, seed and handles in a snapshot; the modules of two components | state of the build in every instance; what happens once and what at each call; index translation |
| Command line, Python API, build scripts, test generator | none | see *Not modelled* |

They interact as follows. The host calls `first_poll` and `callback` (through
`export_async_start` and `export_async_callback`); the loop steps coroutines, which call imports
(`call_import` lowers the arguments with `MyCall`, possibly lending handles), await their promises
(`await_result` joins a waitable) and read and write streams. `call_task_return` lowers the result and
releases borrows. Imported and exported resources share one table of handles. The generator decides
the names and places by which the runtime later finds classes and functions (`collect_symbols`),
following the split of worlds that `ComponentGenerator::generate` made from the configurations found by
`prelink`; pre-initialisation looks all of them up before the snapshot is taken, and every instance
starts from that snapshot.

## Modules

| Module | Models | Composition |
|---|---|---|
| `ExportLifecycle` | abstract: what the caller of an async export may rely on | implemented by `AsyncTasks` |
| `AsyncTasks` | the async event loop, the host's events, asyncio's tasks and locks | `MCAsyncTasks` instantiates it and the refinement mapping |
| `AsyncTasksProofs` | theorems about the loop, and that it implements `ExportLifecycle` | extends `MCAsyncTasks` |
| `StreamEnds` | the four end classes | `MCStreamEnds` adds the history `careful` |
| `StreamEndsProofs` | theorems about `StreamEnds` with and without that history | extends `MCStreamEnds` |
| `ResourceHandles` | imported resources, borrows, `write_all` | extended by `ResourceTable` |
| `ResourceTable` | exported resources in the same table | `MCResourceTable` (lists, symmetry) |
| `ResourceTableProofs` | theorems about both | |
| `PollLoop` | `poll_loop.py` with one application | `MCPollLoop` |
| `PollLoopProofs` | theorems about `PollLoop` | |
| `ValueStack` | `MyCall`, `call_import`, `export_call_` | `MCValueStack` (types and functions) |
| `ValueStackProofs` | theorems about `ValueStack` | |
| `BuildPlan` | search, worlds, split, interface names, mounts | `MCBuildPlan` (trees and options) |
| `BuildPlanProofs` | theorems about `BuildPlan` | |
| `Bindings` | visit, sort, generate, symbols | `MCBindings` (WIT packages) |
| `BindingsProofs` | theorems about `Bindings` | |
| `PreInit` | linking, `do_init`, the component that is written, its instances | `MCPreInit` (builds) |
| `PreInitProofs` | theorems about `PreInit` | |

A definition whose name contains `_mut_` is a variant of the one after it with a plausible mistake in
it; no specification uses these. `PROJECT.json` says which property each of them breaks.

**AsyncTasks.** `phase`, `slot`, `joined` and `call` are the host's view; `wset`, `futures`, `handles`
and `pending` are the fields of `_FutureState` per export; `exception`, `batch` and `active` belong to
`_Loop.poll`. A coroutine runs from one suspension to the next; a running one chooses its next
operation from `Ops`: await an import (`AwaitResult`), `Spawn`, `CreatePlainTask`, `YieldNow`,
`Join`, `Acquire`, `CancelTask`, `RaiseException` or its end. `FirstPoll`, `Deliver` (the events of
`callback`), and `Poll` (`_poll`: raise, exit or wait) are the entries of the guest; `GuestIdle` says
that the host enters it for one call at a time. `call_soon` routes a step by the context of its
coroutine (`Resume`), which is how a wakeup crosses from one export to another.

**StreamEnds.** Each object has `handle`, `finalizer`, `closed` and the host's `end`. A call takes the
handle (`Start`), may suspend as `"copying"`, and puts it back (`Complete`). `Exit`, `Transfer`
(`pop_stream`, `pop_future`), `Forget` and `Finalize` compete with it, `Cancel` kills it and
`LateAnswer` answers a call that is gone. A reader in a value that is written to another stream or future
(`Send`) is in `sent` until the write is answered (`Settle`): if the value was read the end is the host's,
otherwise `EmptyResource.restore` gives the object its handle back and a new finalizer, which cannot do its
work and is therefore not one of `finalizer` but of `restored`. `future_writer` objects also have the write
of the default (`StartDefault`). `spawned` are the calls that `__exit__` of a `FutureWriter` spawns; what
these and the default raise ends in a panic of the runtime, since nobody awaits them. `MCStreamEnds` keeps a
history variable that records whether the application has made a misstep: closing or giving away an end in
the middle of a call, giving away one that it does not have, using a writer before the write that its
`__exit__` spawned has begun, cancelling a call, failing to get a buffer, or losing a default. Properties
that need the application's cooperation are relative to it; `CopiesAreLegal` is not.

**ResourceHandles.** `slot` is the host's table; `attr` and `fin` are `self.handle` and the argument of
the finalizer. Imports take loans (`CallImport`), exports get borrowed parameters (`PushBorrow`,
`ExportReturns`), and `WriteAll`, `Write`, `Settle` and `WriteAllReturns` are the loop of
`StreamWriter.write_all` with the handles that `EmptyResource` saves and restores.

**ResourceTable.** A *thing* is an object of a class with which the application implements an exported
resource. `index` is its attribute `__componentize_py_handle`, `reaper` what its finalizer drops,
`pinned` says that the reference behind the address (the "rep") was taken out of Python's hands, `held`
are the references of the application. `Lower` is `exported_resource_to_canon`, after which the handle
is `outgoing` until the host lifts it (`Take`) or the reader has gone (`LeftUnread`); the host then
calls methods (`CallMethod`), drops it (`HostDrops`) or passes it back (`GiveBack`, `push_own`).
`ForgetThing` and `Collect` are the interpreter's: a thing without references is freed and finalized.

**PollLoop.** `RunHandle`, `EndBatch` and `Poll` are the steps of `run_until_complete`; a coroutine of
the application runs within `RunStep`. `wakers` is the list of the code; one poll splits it into the
elements at the indexes that `Fired` names, which are scheduled, and the remaining ones, both in order
(`Elements`). The three kinds of children are the users of `send`, `Stream`
and `Sink`; the host's side of each object is `Respond`, `Produce` and `Accept`.

**ValueStack.** The glue that walks a type is a queue of operations, `ops`. Lifting (`LiftAlias` ...
`LiftList`) reads the tokens of a value as it goes, a leaf, a discriminant or a length at a time, puts what
the value is made of before the push of the value itself, and records what it read in `given`; lowering
writes to `out`. The machine executes the pushes and pops on `stack` and `iters`. A call lifts its
parameters, forwards them to an import, lifts the answer and returns it. The types are a constant set
with a `Depth` that falls from a type to its parts, as the resolver's are; `SignaturesAssumption` says
what an application can give back as it got it.

**BuildPlan.** `Visit` is one configuration file met by `search_directory`, in any order that `read_dir`
allows. `Order` collects the configurations by module and matches them with `--module-worlds`;
`Select`, `Intersect`, `Split` and `Name` are the phases of `generate`. A name is the sequence of the words
that end up between underscores in a file's name, since `interface_names` joins words with hyphens and
`to_snake_case` no longer tells where a package ended; imports and exports are named separately, as they
have a directory each. `Mount` lays the generated code over the directories of the Python
path, where `GeneratedIsImported` then looks a module up as the interpreter does.

**Bindings.** `calls` is the stack of the recursive functions, as the calls that remain: a step takes the
first and puts the calls that it makes in its place. `VisitWorld`, `VisitItem` and `VisitFunction` are
`visit_functions` and `visit_function`; a call of `visit_type` begins with `VisitType` and ends with
`VisitedType`, one of `sort` with `SortType` and `SortedType`, and `SortMethod` looks at one function for a
resource; `StartSort` and `FinishSort` are `types_sorted`. `GenerateType` and `GenerateFunctions` are
the two loops of `generate_code` for one module, which go over all sorted types and functions and skip
those that are not of its world; `files` collects which module, file and name got a
definition, a class or an alias. A name is what `mangle_name` makes of a payload's words
(`Constructor`) or a class with a method. `CollectSymbols` computes the names by which the runtime asks
for the exports, and `SymbolsResolve` compares both. Of the two ways to get a panic in
`generate_code`, the one that is reachable is a stage of its own.

**PreInit.** `Link` lays out the component that is run. `AddWasiAndStubs` fills its linker, or the
embedder's `add_to_linker` does (`AddToLinker`). Which interfaces have a name of WASI 0.2 (`Wasi2`) and what
wasmtime-wasi puts into a linker (`Provided`) are separate constants: the code takes the first for the second,
and a component that imports what is in neither, or twice what is in none, fails in `Instantiate` or `Twice`. `ImportApp`,
`BindSymbols`, `Clear` and `Reset` are the steps of `do_init`, and `Write` makes the component, giving
each module the state of the module that `ModuleIndex` (`link_stub_modules`) says. `Start` makes an
instance of the snapshot. Its first call does `Refresh`, the `Once` of `export_call_`; in each call the
application sets or deletes a variable, appends an argument, draws a random number or uses WASI.

## Runs

Each run names its constants in its `.cfg`; bounds are chosen so that every action of the module can
fire and the smallest interaction of interest fits.

| Run | Instance and bounds | Shows |
|---|---|---|
| `async_work` | 2 exports, 3 coroutines, 2 waitables (a subtask and an end), a lock per export, `MaxOps` 2; spawn, join, yield, lock, raise | types, exact counting, waiting with a cause, clean exit, no abort but by an exception, refinement of `ExportLifecycle`, every export exits |
| `async_faults` | as above with a shared lock, cancellation, uncounted tasks, unsupported events | scheduling and routing stay exact, the count assertions hold and no export exits early, whatever happens |
| `async_shared_lock` | 2 exports sharing a lock | **violation**: the assertion in `_poll` |
| `ends` | a stream reader, a future reader and a future writer, 2 calls, all of `Ops` | copies are always legal; a careful application sees no trap, loses no end but a reader that it gets back unread and forgets, and what it forgets otherwise is closed |
| `resources` | 2 imported objects and 1 thing over 3 indices, 1 borrow, 1 loan, lists of up to 2 (one with a repeated object) | handles denote their objects, none is lost, borrows end, `write_all` delivers a prefix, what the host holds exists |
| `poll_loop` | Main, a fetcher, a reader and a writer; chunks of 3 bytes with permits up to 2 | no lost wakeup, the host's contract, complete and flushed bodies, exceptions surface, the loop ends |
| `values` | 19 types up to three deep, lists up to 2 elements, sync and async | values survive the trip through Python |
| `build_plan` | up to 3 configuration files on 6 Python paths, 3 worlds, 6 interfaces, all options, unpacked bindings | the search finds owners in any order, the target is the documented intersection and its split is complete, names are distinct where words can be taken apart, generated code is what gets imported |
| `build_three_modules` | 3 modules | **violation**: "multiple files in one module" raised for one each |
| `bindings` | every world over four interfaces and world-level items; two worlds with two modules | sound order, symbols resolve, bindings are complete |
| `bindings_two_worlds` | two worlds for one module | **violation**: the bindings are empty |
| `snapshot` | up to 2 worlds, 3 adapters, an interface of WASI that the linker lacks, an embedder's linker, scripts that set, add, draw, call and raise; 2 instances, 2 calls each | nothing of the build reaches an instance, draws differ, each module gets its own state |

Two exports and three coroutines are the least with which a coroutine of one call wakes one of another
while a third finishes; two waitables tell subtasks from ends; a second call per object is what
overlaps or outlives the first. Three indices are one less than what two objects, a thing and a borrow
want, so that an index is reused while an old copy of it may still be about; any free index may be
handed out, hence the symmetry, which is sound because no liveness is checked there. Chunks longer than a
permit force `Sink.send` to come back. Three files are needed to meet the defect of `modules_seen`, and
six Python paths to have equal, nested and disjoint directories, and a directory between two nested
ones. The six interfaces give each form of name: two versions of one, the same name in another package and in
none, an export, and a pair whose words run together. Three adapters are the least with
which the translation of indexes is neither the identity nor a shift by one; two calls tell the first,
which refreshes, from later ones.

The deadlock check is off in three runs. In `async_faults` two exports that share a lock may wait for
each other for ever; in `resources` an application whose objects are gone is done; in `snapshot` a
build that failed, and instances that have had all their calls, have nothing left to do.

### Fairness

`AsyncTasks`: weak fairness of a coroutine's step and of `Poll` (the interpreter runs the guest to its
next return), strong fairness of `Deliver` per export (the host completes what was asked of it, and an
event for one export may be kept back by the other being inside the guest). No fairness for
`FirstPoll`: the host need not call. `StreamEnds`: weak fairness of the steps of calls, of finalizers
(reference counting runs them at once) and of spawned default writes, which rests on
`EventuallyExits`. `PollLoop`: the loop runs, and the host answers each object; nothing makes the
application let go of objects. The other modules state no liveness: their steps are finitely many
passes over finite data, or depend on what the host calls.

## Findings

Three runs expect a violation; each is a disagreement of the code with its own words.

1. `async_shared_lock`: `_poll` asserts a waitable set for pending work
   (`bundled/componentize_py_async_support/__init__.py:475`); a lock shared by two export calls leaves
   one without.
2. `build_three_modules`: the third configuration file under one Python path entry is refused as a
   duplicate (`src/prelink.rs:288`).
3. `bindings_two_worlds`: worlds given together "will be merged" (`src/command.rs:37`), but the module
   of the merged world has no bindings (`src/lib.rs:550`).

Others were seen while modelling. They are either steps of a model that the properties name as the
application's mistake, or preconditions of a property, or left out of the inputs:

- A script that leaves two or more items in `sys.argv` fails the build: they are deleted by increasing
  index (`runtime/src/lib.rs:1151`). `PreInit` has the failure. Variables that the script sets while it
  is imported are lost as well.
- Two worlds that import the same interface, other than one of WASI 0.2, define its stub twice, and an
  interface with a WASI 0.2 name that wasmtime-wasi does not have gets no stub (`add_wasi_and_stubs`, by the
  test at `src/lib.rs:1103`). Both fail the build. `PreInit` has both failures; nothing is claimed of the
  builds that meet them.
- A stream or future reader that is given back because the value it was in was not read is not closed when
  it is then forgotten, contrary to what the class says (`streams.py:14-16`): `EmptyResource.restore` makes the
  new finalizer from the tuple that `detach` returned (`runtime/src/lib.rs:273`), so that it gets a tuple and a
  dict for the type and the handle and fails. A reader whose finalizer is gone cannot be sent at
  all, `detach` then returns `None` (a panic). `CarefulNeverLeaks` and `ForgottenIsClosed` name the restored
  readers as an exception.
- Names of interfaces are words joined by hyphens and can clash: with `a:b/x`, `c:d/x` and `e:f/a-b-x`, or
  with `a:b-c/d` and `a:b/c-d` under `--full-names`, two interfaces get one file and one overwrites the other
  (`src/summary.rs:1236-1252`). `NamesAreDistinct` is stated for targets whose words can be taken apart (`Legible`).
- A handle by which the host gives an exported resource back is never dropped, so the table keeps an
  entry and the object its reference (`push_own`). An application that gives one thing away twice
  sends a handle that may by then belong to another (misuse `"twice"`).
- `__exit__` during a read loses the end (`streams.py:75`); a resource restored after a partial write
  can never be released, for the reason given above for readers.
- For a type shared by two modules the second gets an alias that names the first module's
  `__init__`, where the class of an interface is not (`src/summary.rs:1866`), and a stream of it gets no
  constructor there. `TwoModules` shares only what needs neither.
- Streams of `u8` and of `s8` both get the constructor `byte_stream`; types of the same name in two
  interfaces may do the same to streams of them (the TODO at `src/summary.rs:2503`).
- With one directory of the path inside another, a file is first taken for a module of the outer one,
  and its configuration is moved when the inner one is searched (`src/prelink.rs:270`). In the meantime
  it keeps others away: for the path `p`, `q`, `p/x` with a configuration in `p/x/m` and one in `q/x`, the
  second is ignored as another version of `x`, and in the end there is none of that name. And where
  `p/x` has a module of the name `x` itself, its bindings are mounted in `p/x`, while `import x` finds
  the directory `p/x`. `Clear` keeps such names out of the two properties it guards: with
  nested directories, no name may stand for two files, or for one file in two directories.
- `--world-module` with dots: `BindingsGenerator` makes directories of them, `ComponentGenerator` does
  not (`src/lib.rs:752`). Names for interfaces in configuration files win over those of the command line.

## Proofs

The assumptions are the named `ASSUME`s of the modules, which TLC evaluates in the runs:
`ConstantsAssumption` (`AsyncTasks`, `PollLoop`), `EndsAssumption`, `HandlesAssumption`,
`ThingsAssumption` and `BuildsAssumption` give the kinds of the constants and keep model values apart.
`TypesAssumption` (`ValueStack`) says that types are made of types before them, `SignaturesAssumption`
which functions an application may join, `LengthsAssumption` that lengths are natural numbers.
In `Bindings`, `TypesAssumption` says that there are finitely many types, and keeps them apart from items
and from the marker at the end of `left`. `WitsAssumption` says that the inputs are as WIT makes them:
sequences of types, items and functions, where a resource that has methods is one of the types of the
interface that has them, and where a world imports or exports the interfaces of all types that it leads to
(the resolver adds the missing imports).
`BuildPlan` has four: `InputsAssumption` for kinds, `ModulesAssumption`, that no directory of the
application has the name of the world module, `GuestsAssumption`, that the numerals which name the
guest's directories differ from each other and from `python`, `world` and `bundled`, and `InfoAssumption`,
that there are finitely many interfaces, that a package name has two parts and that only packages have versions. Names are arbitrary
sequences of words. The constants are otherwise arbitrary.

| Module | Theorems |
|---|---|
| `AsyncTasksProofs` | `TypeCorrect`, `SchedulingIsExact` (`ScheduledOnce`), `RoutingIsExact` (`WaitablesRouted`), `PendingAssertionHolds` (`AssertPendingCount`), `NoExportExitsEarly` (`NoEarlyExit`); `LoopImplementsLifecycle` (`ImplementsLifecycle`) and `CountIsExact` (`PendingIsLiveWork`), without cancellation; `WaitingHasCause` (`WaitHasCause`), `ExitsAreClean` (`ExitIsClean`), `OnlyExceptionsAbort` (`NeverAborts`), each under the restrictions it names |
| `StreamEndsProofs` | `TypeCorrect`, `NoIllegalCopy` (`CopiesAreLegal`), `NoIllegalDrop`, `HandlesAreFree`, `CarefulCodeNeverTraps` (`CarefulNeverTraps`), `CarefulCodeNeverLeaks` (`CarefulNeverLeaks`) |
| `ResourceTableProofs` | `TypeCorrect`, `HandlesDenoteTheirObjects` (`HandleDenotes`), `HandlesAreMinded` (`NoHandleIsLost`), `BorrowsAreReleased` (`BorrowsEnd`), `ThingsAreAlive` (`ThingsAreWhatTheySeem`), `NothingTraps` (`NeverTraps`), `WritesAreOrderly` (`WritesPrefix`) |
| `PollLoopProofs` | `WritersSendAll` (`SentIsFlushed`), `ReadersSeeTheEnd` (`NoneIsTheEnd`), `CallbackExceptionSurfaces` (`ExceptionSurfaces`), `WakeupsAreKept` (`WaitersAreWatched`), `OnlyCancellationBreaks` (`OnlyCancelBreaks`) |
| `BuildPlanProofs` | `SplitIsComplete` (`EveryItemAssigned`), `NamesAreUnambiguous` (`NamesAreDistinct`), for words that can be taken apart (`Legible`), `SearchIsRight` (`SearchFindsOwners`), `ImportsAreGenerated` (`GeneratedIsImported`) |
| `ValueStackProofs` | `ValuesCross` (`RoundTrip`), `CrossingHolds` |
| `BindingsProofs` | `OrderHolds` (`OrderIsSound`); `SymbolsAreFound` (`SymbolsResolve`), for modules that are separate (`ModulesAreSeparate`); `BindingsHold` (`BindingsAreComplete`), for worlds that are apart (`WorldsAreApart`) |
| `PreInitProofs` | `EnvironmentIsTheHosts` (`SeesItsHost`), `RandomNumbersDiffer` (`DrawsDiffer`), `StateIsNotMixed` (`StateGoesHome`) |

*The loop.* Types alone are not inductive: `pending` stays in `Nat` only if every decrement had its
increment. The invariant therefore relates `pending` to the counted coroutines that are alive, as a
lower bound (`pending[t] >= Cardinality(Live(t))`): cancellation skips decrements, so equality fails,
but the bound is what the assertions and the exit test need. Finite sets enter through the library's
cardinality theorems. Scheduling is exact because a coroutine's status and its places in `handles` and
`batch` change together; routing because `joined`, `futures` and `awaits` do.

*The refinement.* Under `"cancel" \notin Ops` the invariant is strengthened by `LInv`: no coroutine was
cancelled; as long as an export has not returned and nothing has failed, its own coroutine is alive, and
only that one returns (`Mains`); and a recorded exception is waiting only while the guest is inside
an export or the instance has ended (`RaisedSoon`). `CountIsExact` gives the equality of count and
live work that `Exit` needs. Every step then either leaves the lifecycle of all exports alone, a case
covered by one lemma (`Quiet`), or is one of its steps. With cancellation the refinement is false as
stated, because cancelled work is never discounted, and such an export does not exit.

*Waiting.* That an export waits on the host only with something to come is a fact about all the ways to
be suspended at once: `Waits` says that a promise's waitable is joined (`Awaited`), that who joins
waits for a younger coroutine (`Joining`), and that the holder of a lock waits neither for a lock nor
for another coroutine (`Locking`, `Holding`). So a chain of joins ends, at a coroutine that is ready, or at
one that awaits an import or is in the queue of a lock whose holder is one of these (a
well-founded argument on the order of coroutines). The theorems are restricted as the code is: with a
lock shared by exports the first finding refutes them, and cancelled work leaves its waitable or its
count behind. A task that was not created by `spawn` is not counted and may outlive the exit, so
`ExitIsClean` and `NeverAborts` exclude it; the latter also the events that `callback` does not
support. `async_work` checks the three under the same restrictions.

*The ends.* `CopiesAreLegal` needs that a handle in an object denotes an open end that no operation
uses; that needs in turn what a finalizer may still do to it and that at most one of the object, a call,
and the default's write has it. The conjuncts of the inductive invariant say so for each of them; a
cancelled call, which takes the handle with it, is why an end may later be dropped while busy but never
copied. For careful applications `Tidy` adds who will close an end: a finalizer, the write of the
default, or the call that consumes it (`Closers`), and where a handle is that its object no longer has
(`Away`). It is inductive as long as there was no misstep, and `trap = "none"` is a part of it. A value
that is being written holds the handles of its readers, which are open and have no finalizer (`Unsettled`);
when it is answered they become the host's or `Closers` passes them on to `restored`. Such a reader has its
handle except while a call uses it, also by `Away`, which is the second half of `CarefulNeverLeaks`: the application
can still close it. `Spawned` says that a write which `__exit__` spawned still finds its handle, without
which it would panic.

*The table.* The invariant is `ObjectInv` and `ThingInv`. `ObjectInv` has the finalizer in step with the
attribute (`Finalizers`), borrowed parameters in objects of their own (`Parameters`), what is left of
the list that is being written (`Progress`), what every index denotes, in objects, calls and the write
in progress, as long as nobody left a borrow early (`Denoted`), and that each entry of the table is
minded by a finalizer, a call, a write or the application (`AllMinded`). `ThingInv` says which things
are pinned by a handle or an address (`Pins`) and that a handle that is outgoing is the thing's own
(`Sent`). That steps of one kind of resource leave the other alone is proved once for all of them.
`NeverTraps` needs more, `OrderlyInv`: a resource is in the table once and a list holds no object twice
(`Single`, `Distinctive`), and, as long as nothing is misused, what is lent is still in its object
(`Loans`, `Lending`), what `write_all` has counted is gone for good (`Delivered`) and what it has left is
the application's (`Left`). These are one induction, since the absence of a trap is what makes each call
leave the table as the next one expects it. `WritesPrefix` follows from the same invariant.

*The poll loop.* `SinkInv` follows a sink from permit to flush, `BodyInv` counts what was produced, read
and is to be read; `OneRuns` says that the coroutine that is being stepped is the only one running,
which is what lets each of them be looked at alone. The wakeups are about lists: `Schedules` says that a
list of handles is one of a set of tasks without repetition, `Watches` that the live wakers in a list
are those of a set of tasks, and a lemma for each operation on lists (append, take the first, split by
an index set) says what becomes of the set. `Watch` then states that the batch and the handles for later
share out the tasks that are ready, and that the wakers are those of the tasks that wait. Where nobody
was cancelled all wakers are live, and neither a second `set_result` nor a drop out of order can happen
(`Unbroken`).

*The plan.* `IInv` says what each stage has established. For the names, `InterfaceName` has three forms: short,
qualified, and versioned (`NameForms`). A short name differs from the longer ones because no name begins with the
words of a package; two longer ones with the same words have the same package, as no package's words begin
another's (`SameStart`), then the same name, because a version begins with a number, which no name contains
(`Parted`), and then the same version. Two interfaces with the same short name are alike, so their packages are
counted in one set, or the versions of their package in another, and a name is only left short when that set has one element.
For the search, `Sought` says what holds after each file, whatever the order: each configuration has the
deepest directory in which its file was met so far (`Traced`), no file has two (`Once`), only wanted ones
have any (`Right`), and a file that was met and has none gave way to the same module in an earlier
directory (`Complete`). The proof needs that two directories which hold one file are the same or nested.
For what is imported, `Generated` records that a module comes from its file's innermost directory
(`Origin`) and what `Mount` laid out (`Laid`). The first directory of the path with anything of a
module's name is then shown to be the one that the module was taken from, and the mount found there to
be the module's own. Both statements were false before `Clear` spoke of nested directories; the proofs
found the trees described under *Findings*.

*Values.* `Crossing` says, for each phase of a call, that the glue can go on to its end: `CanLower(ops,
stack, iters, td)` that what is left to be called empties both stacks and writes exactly `td`,
`CanLift(w, ops, stack, td)` that it ends with objects on the stack which hold the values that were
read, whatever is still to be read. Tokens written and tokens to be written are then the tokens read.
Both predicates are about runs of a machine on data of any size, where the library's induction has
nothing to instantiate; they are stated without recursion, as membership in a set of states that is
closed under the machine's steps, and each comes with a lemma for a step forward and one for a step
back (`LowerStep`, `LowerBack`, `LiftStep`, `LiftBack`). `Holds(T, x, ts)` says what it is for a
Python object to hold a value: popping it, in any state in which the rest can be lowered, writes `ts` and
leaves the rest, and it is `None` only if `T` is an option, which is where `Nesting` matters
(`CaseHolds`: a payload that may be `None` is wrapped). One lemma per kind of type shows that what is
pushed holds the value that was read, elements and fields by an induction written as a set of numbers
that is all of `Nat`, and `AllLiftable` joins them by induction on `Depth`. The sequences are over sets
that are not known beforehand, hence the first section. `Crossing` quantifies over all sets, so TLC cannot
evaluate it; it checks `RoundTrip`, which follows from it.

*The order of types.* What was true while the sort recursed has to be said of the stack. A call on it will
have something done when it returns (`Gives`) and may rely on something that is done by then (`Wants`): the
function of an interface on its resource being known as imported or exported, the end of a type on all that it
mentions being sorted. `Covered` says that what a call relies on is done already or given by a call before it,
and one lemma (`ReplacedCovers`) that this survives a step in which the first call is replaced by the calls
it makes. While visiting it yields that the side of each method is known (`FunctionsTold`), so that to look only
at the sides of a resource misses none of its methods. While sorting, a type is done with (`Ready`) when all
that it needs is sorted or is a resource that was entered. An entered resource which is not yet sorted is
on the stack, and `Lineage` says that whatever is sorted before the end of a type is something that this type
leads to: hence the exception that `OrderIsSound` makes for a resource whose methods lead back to it.
`Closure`, all that types lead to, counts its steps up to the number of types; that this is enough is shown
by the cardinalities of the levels (`ClosureIs`), and the proofs then use it only as the least set that is
closed.

*The symbols.* `SymbolsAreFound` has a hypothesis, `ModulesAreSeparate`: each world has a module and each
module one world, and no two worlds export the same function of the world. Modules of several worlds are the
finding `bindings_two_worlds`; a function that two worlds export is a method of the first module's protocol
only, while the second asks for it in its own. The argument has three invariants. `Within` says of
the visit that what is on the stack and what was found belongs to the items of its world, so that the
interface of each type is imported or exported there. `Found` says that each item of a world was
visited, or is still to be, and that each type of a visited interface is known on that side, as the side
on which its class will be looked for. `Generated` is the state of the generation: a type that has a location
has its class and its methods in the module of that location (`HasClasses`), a function whose item has a key
has its methods in the protocol of the module of that key (`HasProtocols`), and the modules that are
made have located all types and keyed all exports of their worlds (`Made`), the current one all types but
those in `left`. A type is placed only once, by the module that its location names, so that the aliases of later
modules take nothing away. When the symbols are collected each class and each method then has its file
(`ClassesAreLocated`, `SymbolResolves`).

*Completeness.* `BindingsHold` says that each module ends with all classes, functions and stream
constructors of its world. Its hypothesis, `WorldsAreApart`, goes further than `ModulesAreSeparate`: two worlds share no export
and no type that has a class or a constructor, because of such a type a second module gets aliases of what it
expects in the first one's `__init__`, which is not where the classes of interfaces are (see the
divergences above). Worlds may share imported interfaces of functions, and types made of others. The visit
first: `Whole` says that no item of a world, no function of an item and no type of an
item is left out, unless a call for it is still on the stack. Then the generation: the types are sorted without
repetition and a module's types are taken one by one, so that a type with a class is new when its turn comes
(`Once`) and is located in the module of its world and in no other (`Home`, `OneHome`). Hence nothing is
an alias (`Filled`), each located stream has found or made its constructor (`HasStreams`), and a module that
is made has all its functions (`HasWrappers`). `CollectMissing` puts these together when the last module
is made. That streams of different payloads have different constructors is not among what is stated: the code does not
ensure it, since `mangle_name` joins words and two payloads may give the same ones.

*Pre-initialisation.* `Stages` says how clean the guest is after each step of `do_init`, `Untouched`
that nothing was done in an instance before its first call, and `Seeds` whose seed a generator has;
`SeesItsHost` is then inductive with them. For `StateGoesHome` the two layouts are compared index by
index: main module, adapters, and the rest shifted by the difference in their number.

Each proof has one step per action and cites, for each, the conjuncts it can disturb.

## Only model-checked

Liveness (`EventuallyExits`, `ForgottenIsClosed`, `EventuallyEnds`) is out of the prover's reach: it needs
fairness and `ENABLED`. What `Mangled` computes, which recurs over the types of an input, is evaluated
by TLC only: no theorem looks into it. All other properties of
the runs that pass are theorems, some under restrictions on the operations or inputs that their statements name;
without these (`async_faults`) what holds is checked by TLC and proved by `AsyncTasksProofs`.

## Restrictions

- `AsyncTasks`: tasks are cancelled only while they await an import; asyncio's handler for a task that
  is destroyed while pending is not modelled; the host's own events of cancelled subtasks appear as
  one unsupported event. A coroutine's operations are bounded by `MaxOps`. A coroutine that never waits
  would keep the interpreter; `MaxOps` rules it out. An exception recorded over an earlier one is the same
  flag.
- `StreamEnds`: byte streams have the code of the generic ones. The payload of a copy matters in that it may
  contain readers; the end that such a value is written to need not be one of `Objects`, so `Send` and `Settle` are
  steps apart from its own. A cancelled write never settles.
- `ResourceHandles`, `ResourceTable`: leaving the `with` block of a borrowed parameter early counts as
  misuse; the host's check of borrows at `task.return` and the promise of a cancelled write are left
  out. The run has one thing, the theorems any number.
- `PollLoop`: one application, run once; asyncio's Task, Handle and gather are external.
- `ValueStack`: numbers, strings, enums and flags are tokens.
- `BuildPlan`: names chosen by the user for interfaces, the path conversions of a configuration and native
  libraries are left out; so is a world module named with dots. `NamesAreDistinct` is stated for `Legible` targets;
  the run has one that is not. What is imported assumes regular packages (the first directory with the name decides), and `Clear`
  names. Helpers that `bindings` unpacked keep the name they were made for.
- `Bindings`: one stream type per payload; annotations are evaluated lazily by the bundled Python, so
  an annotation whose name is missing is no failure; resources of a world itself get no class from the
  code and are not among the inputs; a type with a class or an export of two modules is not either
  (`MCBindings` filters its inputs by `WorldsAreApart`, and all 194 pass).
- `PreInit`: what the WASI adapter imports is provided by any linker; an `add_to_linker` that itself fails is
  not modelled; the arguments are deleted in one step; the order in which the encoder lays out modules is
  taken from `wit_component` and assumed. A call does one thing to the environment; the interpreter's other state is what it is in
  the snapshot; generators seeded differently draw different numbers.

## Not modelled

- *Command line and Python API* (`src/command.rs`, `src/python.rs`): they parse options and pass them on.
  What the options mean is in `BuildPlan` and `PreInit`.
- *Build scripts and test generator* (`build.rs`, `test-generator`): they run when componentize-py itself
  is built and tested, and keep no state.
- Errors of reading files and of parsing configurations and WIT, the text of generated code, and the
  collection of native libraries (`search_for_libraries_and_configs`, in part).

`PROJECT.json` lists the hazards that no property covers, with the reason.

## Plan

In the order of importance:

1. Names given by the user to interfaces, and the clashes of constructors between interfaces.
2. `task.return` of a cancelled export, and the events of cancelled subtasks one by one.
