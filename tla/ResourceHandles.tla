---------------------------- MODULE ResourceHandles ----------------------------
(***************************************************************************)
(* Handles of imported resources (runtime/src/lib.rs): the Python objects  *)
(* that wrap them, their finalizers, the borrowed parameters of an export, *)
(* and StreamWriter.write_all, which gives handles away and takes back     *)
(* those that the reader did not want.                                     *)
(*                                                                         *)
(* A handle is an index into the host's table for this component; the host *)
(* reuses the indices of dropped handles.  Each object wraps a resource of *)
(* its own, so slot[i] = o says that index i denotes the resource of o.    *)
(***************************************************************************)
EXTENDS Naturals, Sequences, Functions

CONSTANTS
  Objects,    \* bound: Python objects ever made
  NoObject,
  Things,     \* the resources that the component implements itself, see ResourceTable
  Indices,    \* the indices of the handle table
  NoIndex,
  Exports,    \* calls of exports with a borrowed parameter
  Imports,    \* calls of async imports with a borrowed parameter
  Batches     \* the lists that the application may pass to write_all

ASSUME HandlesAssumption ==
  /\ NoObject \notin Objects \cup Things /\ Objects \cap Things = {} /\ NoIndex \notin Indices
  /\ {"unborn", "none", "deleted", "dead", "malformed"} \cap Indices = {}
  /\ Batches \subseteq Seq(Objects)

VARIABLES
  slot,      \* the host's table: the resource that an index denotes
  borrowed,  \* the indices of borrow handles
  lent,      \* the index that an unfinished import call has on loan
  trap,      \* "none", or why the instance was aborted
  refs,      \* the objects that the application refers to
  attr,      \* self.handle: an index, "none" (__exit__) or "deleted"
  fin,       \* self.finalizer: the index it drops, "dead", or "malformed"
  export,    \* "new", "running" or "returned"
  borrow,    \* the object and the handle to be released on return
  misuse,    \* what the application did that it should not do
  writer,    \* write_all: "idle", "writing", "copying" or "done"
  whole,     \* its argument
  source,    \* what it still has to write
  total,     \* how much was delivered
  saved,     \* the EmptyResources of the write in progress: their handles
  readerDropped,
  restored   \* history: the objects that got their handles back

hostVars  == <<slot, borrowed, lent, trap>>
guestVars == <<refs, attr, fin, export, borrow, misuse>>
writeVars == <<writer, whole, source, total, saved, readerDropped, restored>>
vars == <<hostVars, guestVars, writeVars>>

Lent(i) == \E c \in Imports : lent[c] = i
Held(i) == \E t \in Exports : export[t] = "running" /\ borrow[t].handle = i
Listed(o) == writer \in {"writing", "copying"} /\ o \in Range(source)
Kept(o) ==
  \/ o \in refs \/ Listed(o)
  \/ \E c \in Imports : lent[c] # NoIndex /\ slot[lent[c]] = o
  \/ \E t \in Exports : export[t] = "running" /\ borrow[t].value = o

Init ==
  /\ slot = [i \in Indices |-> NoObject]
  /\ borrowed = {}
  /\ lent = [c \in Imports |-> NoIndex]
  /\ trap = "none"
  /\ refs = {}
  /\ attr = [o \in Objects |-> "unborn"]
  /\ fin = [o \in Objects |-> "dead"]
  /\ export = [t \in Exports |-> "new"]
  /\ borrow = [t \in Exports |-> [value |-> NoObject, handle |-> NoIndex]]
  /\ misuse = {}
  /\ writer = "idle"
  /\ whole = <<>> /\ source = <<>> /\ total = 0 /\ saved = <<>>
  /\ readerDropped = FALSE
  /\ restored = {}

-----------------------------------------------------------------------------
(* The host's table.                                                       *)

\* resource.drop traps on a free index, on a handle of another type and on one that
\* is on loan.
Drop(i) ==
  IF slot[i] \notin Objects \/ Lent(i)
    THEN trap' = "drop" /\ UNCHANGED <<slot, borrowed>>
    ELSE /\ slot' = [slot EXCEPT ![i] = NoObject]
         /\ borrowed' = borrowed \ {i}
         /\ UNCHANGED trap

\* Lifting own handles moves them out; it traps on a borrow and on a loan, too.
Lift(I) ==
  IF \E i \in I : slot[i] \notin Objects \/ i \in borrowed \/ Lent(i)
    THEN trap' = "lift" /\ UNCHANGED slot
    ELSE slot' = [i \in Indices |-> IF i \in I THEN NoObject ELSE slot[i]] /\ UNCHANGED trap

-----------------------------------------------------------------------------
(* Handles that come in.                                                   *)

\* imported_resource_from_canon
NewObject(o, i) ==
  /\ trap = "none" /\ attr[o] = "unborn" /\ slot[i] = NoObject
  /\ slot' = [slot EXCEPT ![i] = o]
  /\ attr' = [attr EXCEPT ![o] = i]
  /\ fin' = [fin EXCEPT ![o] = i]
  /\ refs' = refs \cup {o}

\* push_own, for a result or a parameter
PushOwn(o, i) ==
  /\ NewObject(o, i)
  /\ UNCHANGED <<borrowed, lent, trap, export, borrow, misuse, writeVars>>

\* push_borrow, for a parameter of an export
PushBorrow(t, o, i) ==
  /\ export[t] = "new" /\ NewObject(o, i)
  /\ export' = [export EXCEPT ![t] = "running"]
  /\ borrow' = [borrow EXCEPT ![t] = [value |-> o, handle |-> i]]
  /\ borrowed' = borrowed \cup {i}
  /\ UNCHANGED <<lent, trap, misuse, writeVars>>

\* release_borrows, when the export returns (export_call_, call_task_return).  The
\* handle is dropped whether or not the application has dropped it before.
DetachReleased_mut_kept(o) == UNCHANGED fin
DetachReleased(o) == fin' = [fin EXCEPT ![o] = "dead"]

ReleaseBorrows_mut_no_drop(t) ==
  LET o == borrow[t].value IN
  IF attr[o] = "deleted"
    THEN trap' = "panic" /\ UNCHANGED <<attr, fin, slot, borrowed>>
    ELSE /\ attr' = [attr EXCEPT ![o] = "deleted"]
         /\ DetachReleased(o)
         /\ UNCHANGED <<slot, borrowed, trap>>

ReleaseBorrows(t) ==
  LET o == borrow[t].value IN
  IF attr[o] = "deleted"
    THEN trap' = "panic" /\ UNCHANGED <<attr, fin, slot, borrowed>>
    ELSE /\ attr' = [attr EXCEPT ![o] = "deleted"]
         /\ DetachReleased(o)
         /\ Drop(borrow[t].handle)

ExportReturns(t) ==
  /\ trap = "none" /\ export[t] = "running"
  /\ export' = [export EXCEPT ![t] = "returned"]
  /\ ReleaseBorrows(t)
  /\ misuse' = IF Lent(borrow[t].handle) THEN misuse \cup {"overlap"} ELSE misuse
  /\ UNCHANGED <<lent, refs, borrow, writeVars>>

-----------------------------------------------------------------------------
(* Handles that go out.                                                    *)

\* Detaching the finalizer of an object that gives its handle away.
Detach_mut_kept(f, O) == f
Detach(f, O) == [o \in Objects |-> IF o \in O THEN "dead" ELSE f[o]]

Erase(a, O) == [o \in Objects |-> IF o \in O THEN "deleted" ELSE a[o]]

\* An object without a handle makes imported_resource_to_canon panic.
Panic == /\ trap' = "panic" /\ misuse' = misuse \cup {"overlap"}
         /\ UNCHANGED <<slot, borrowed, lent, attr, fin>>

\* pop_borrow, for a parameter of an async import
CallImport(c, o) ==
  /\ trap = "none" /\ o \in refs /\ lent[c] = NoIndex
  /\ IF attr[o] \in Indices
       THEN IF slot[attr[o]] \in Objects
              THEN lent' = [lent EXCEPT ![c] = attr[o]] /\ UNCHANGED trap
              ELSE trap' = "lend" /\ UNCHANGED lent
       ELSE trap' = "panic" /\ UNCHANGED lent
  /\ misuse' = IF attr[o] \in Indices THEN misuse ELSE misuse \cup {"overlap"}
  /\ UNCHANGED <<slot, borrowed, refs, attr, fin, export, borrow, writeVars>>

ImportReturns(c) ==
  /\ trap = "none" /\ lent[c] # NoIndex
  /\ lent' = [lent EXCEPT ![c] = NoIndex]
  /\ UNCHANGED <<slot, borrowed, trap, guestVars, writeVars>>

\* pop_own, for a result or a parameter
PopOwn(o) ==
  /\ trap = "none" /\ o \in refs
  /\ IF attr[o] \in Indices
       THEN /\ attr' = Erase(attr, {o}) /\ fin' = Detach(fin, {o})
            /\ Lift({attr[o]})
            /\ misuse' = IF attr[o] \in borrowed \/ Lent(attr[o]) \/ Listed(o)
                           THEN misuse \cup {"overlap"} ELSE misuse
            /\ UNCHANGED <<borrowed, lent>>
       ELSE Panic
  /\ UNCHANGED <<refs, export, borrow, writeVars>>

\* __exit__ of the generated class.  Its first line fails, and changes nothing,
\* when the finalizer is dead; func(*args) fails when it is malformed.
Exit(o) ==
  /\ trap = "none" /\ o \in refs /\ fin[o] # "dead"
  /\ attr' = [attr EXCEPT ![o] = "none"]
  /\ fin' = [fin EXCEPT ![o] = "dead"]
  /\ IF fin[o] \in Indices THEN Drop(fin[o]) ELSE UNCHANGED <<slot, borrowed, trap>>
  /\ misuse' = misuse \cup (IF Held(attr[o]) THEN {"early exit"} ELSE {})
                      \cup (IF Lent(attr[o]) \/ Listed(o) THEN {"overlap"} ELSE {})
  /\ UNCHANGED <<lent, refs, export, borrow, writeVars>>

Forget(o) ==
  /\ trap = "none" /\ o \in refs
  /\ refs' = refs \ {o}
  /\ UNCHANGED <<hostVars, attr, fin, export, borrow, misuse, writeVars>>

\* drop_resource, called by weakref.finalize; with malformed arguments the call
\* raises TypeError, and the interpreter prints it.
Finalize(o) ==
  /\ trap = "none" /\ ~Kept(o) /\ fin[o] # "dead"
  /\ fin' = [fin EXCEPT ![o] = "dead"]
  /\ attr' = Erase(attr, {o})
  /\ IF fin[o] \in Indices THEN Drop(fin[o]) ELSE UNCHANGED <<slot, borrowed, trap>>
  /\ UNCHANGED <<lent, refs, export, borrow, misuse, writeVars>>

-----------------------------------------------------------------------------
(* StreamWriter.write_all of a list of resources.                          *)

WriteAll(b) ==
  /\ trap = "none" /\ writer = "idle" /\ Range(b) \subseteq refs
  /\ writer' = "writing" /\ whole' = b /\ source' = b
  /\ UNCHANGED <<total, saved, readerDropped, restored, hostVars, guestVars>>

CanLower(s) == IsInjective(s) /\ \A o \in Range(s) : attr[o] \in Indices

\* stream_write lowers each value, which erases its object's handle, and keeps an
\* EmptyResource for each; the host then starts to copy.
Write ==
  /\ trap = "none" /\ writer = "writing" /\ source # <<>> /\ ~readerDropped
  /\ IF CanLower(source)
       THEN /\ saved' = [j \in DOMAIN source |-> attr[source[j]]]
            /\ attr' = Erase(attr, Range(source))
            /\ fin' = Detach(fin, Range(source))
            /\ writer' = "copying"
            /\ misuse' = IF \E o \in Range(source) : attr[o] \in borrowed \/ Lent(attr[o])
                           THEN misuse \cup {"overlap"} ELSE misuse
            /\ UNCHANGED <<slot, borrowed, lent, trap>>
       ELSE Panic /\ UNCHANGED <<saved, writer>>
  /\ UNCHANGED <<refs, export, borrow, whole, source, total, readerDropped, restored>>

\* EmptyResource::restore passes the tuple that detach() returned, which is
\* (object, function, args, kwargs), to finalize(object, function, *args).
Restored(i) == "malformed"

\* The number of the first value that is restored after n were read.
FirstUnread_mut_skips(n) == n + 2
FirstUnread(n) == n + 1

Rest_mut_repeats(s, n) == IF n = 1 THEN s ELSE SubSeq(s, n + 1, Len(s))
Rest(s, n) == SubSeq(s, n + 1, Len(s))

\* The copy ends, at once or later: n values were read, and unless the reader is
\* gone that is at least one.  The other values get their handles back
\* (stream_write, promise_get_result), and write_all goes on with them.
Settle(n, dropped) ==
  LET unread == {j \in DOMAIN source : j >= FirstUnread(n)}
      back == {source[j] : j \in unread}
      handleOf == [o \in back |-> saved[CHOOSE j \in unread : source[j] = o]]
  IN
  /\ trap = "none" /\ writer = "copying"
  /\ n \in 0 .. Len(source) /\ (n > 0 \/ dropped)
  /\ Lift({saved[j] : j \in 1 .. n})
  /\ attr' = [o \in Objects |-> IF o \in back THEN handleOf[o] ELSE attr[o]]
  /\ fin' = [o \in Objects |-> IF o \in back THEN Restored(handleOf[o]) ELSE fin[o]]
  /\ source' = Rest(source, n) /\ total' = total + n /\ saved' = <<>>
  /\ readerDropped' = dropped
  /\ restored' = restored \cup back
  /\ writer' = "writing"
  /\ UNCHANGED <<borrowed, lent, refs, export, borrow, misuse, whole>>

WriteAllReturns ==
  /\ trap = "none" /\ writer = "writing" /\ (source = <<>> \/ readerDropped)
  /\ writer' = "done"
  /\ UNCHANGED <<whole, source, total, saved, readerDropped, restored, hostVars, guestVars>>

-----------------------------------------------------------------------------

Next ==
  \/ \E o \in Objects :
       \/ \E i \in Indices : \/ PushOwn(o, i)
                             \/ \E t \in Exports : PushBorrow(t, o, i)
       \/ \E c \in Imports : CallImport(c, o)
       \/ PopOwn(o) \/ Exit(o) \/ Forget(o) \/ Finalize(o)
  \/ \E c \in Imports : ImportReturns(c)
  \/ \E t \in Exports : ExportReturns(t)
  \/ \E b \in Batches : WriteAll(b)
  \/ Write \/ WriteAllReturns
  \/ \E n \in 0 .. Len(source), dropped \in BOOLEAN : Settle(n, dropped)

Spec == Init /\ [][Next]_vars

-----------------------------------------------------------------------------
(* Properties.                                                             *)

TypeOK ==
  /\ slot \in [Indices -> Objects \cup Things \cup {NoObject}]
  /\ borrowed \subseteq Indices
  /\ lent \in [Imports -> Indices \cup {NoIndex}]
  /\ trap \in {"none", "drop", "lift", "lend", "panic"}
  /\ refs \subseteq Objects
  /\ attr \in [Objects -> Indices \cup {"unborn", "none", "deleted"}]
  /\ fin \in [Objects -> Indices \cup {"dead", "malformed"}]
  /\ export \in [Exports -> {"new", "running", "returned"}]
  /\ borrow \in [Exports -> [value : Objects \cup {NoObject}, handle : Indices \cup {NoIndex}]]
  /\ misuse \subseteq {"overlap", "early exit", "twice"}
  /\ writer \in {"idle", "writing", "copying", "done"}
  /\ whole \in Seq(Objects) /\ source \in Seq(Objects) /\ saved \in Seq(Indices)
  /\ total \in 0 .. Len(whole) /\ readerDropped \in BOOLEAN
  /\ restored \subseteq Objects

\* Whatever index the host reuses, the handle in an object denotes the object's
\* own resource, and what a finalizer will drop is the handle of its object.
\* (An application that leaves a with block of a borrowed parameter early is
\* excepted: release_borrows then drops an index that may be another's.)
HandleDenotes ==
  "early exit" \notin misuse /\ trap = "none" =>
    \A o \in Objects :
      /\ attr[o] \in Indices => slot[attr[o]] = o /\ fin[o] \in {attr[o], "malformed"}
      /\ fin[o] \in Indices => attr[o] = fin[o]

\* Every handle in the table has someone who will drop or move it: a finalizer,
\* the export that borrowed it, or the write in progress; only the finalizers that
\* were rebuilt after a partial write fail when they are called (Restored).
NoHandleIsLost ==
  \A i \in Indices, o \in Objects : slot[i] = o =>
    \/ fin[o] = i \/ Held(i) \/ o \in restored
    \/ writer = "copying" /\ \E j \in DOMAIN saved : saved[j] = i
    \/ trap # "none"

\* Borrowed parameters are released by the time the export returns.
BorrowsEnd == \A i \in borrowed : Held(i) \/ trap # "none"

\* write_all delivers a prefix of its list, once and in order: what was counted
\* is with the reader, and the rest is with the application again.
WritesPrefix ==
  /\ total + Len(source) = Len(whole)
  /\ \A j \in DOMAIN source : source[j] = whole[total + j]
  /\ misuse = {} =>
       /\ \A j \in 1 .. total : \A i \in Indices : slot[i] # whole[j]
       /\ writer = "writing" /\ total > 0 => \A j \in DOMAIN source : attr[source[j]] \in Indices

\* An application that uses no object it gave away, lent or returned, and gives no
\* object of its own twice, causes neither a trap nor a panic.
NeverTraps == trap # "none" => misuse # {}
=============================================================================
