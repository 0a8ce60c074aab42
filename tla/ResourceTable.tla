---------------------------- MODULE ResourceTable ----------------------------
(***************************************************************************)
(* The handle table with the resources of both directions.  Besides the    *)
(* imported resources of ResourceHandles there are Things: objects of a    *)
(* class with which the application implements an exported resource.  The  *)
(* host knows a thing by its address (its "rep"); the runtime keeps the    *)
(* index of its own handle in the object, until the host gives the thing   *)
(* back (exported_resource_to_canon, push_own).                            *)
(***************************************************************************)
EXTENDS ResourceHandles

ASSUME ThingsAssumption == {"unmade", "freed"} \cap Indices = {}

VARIABLES
  held,      \* the things that the application refers to
  index,     \* the attribute __componentize_py_handle: an index, "none", or "unmade" or
             \* "freed" if there is no object
  reaper,    \* the index that the finalizer drops, or "dead"
  pinned,    \* the things with a strong reference that is never given up
  outgoing,  \* the handle of a thing that was lowered and not read yet
  owned,     \* the things that the host owns
  given      \* history: those given away and not given back

thingVars == <<held, index, reaper, pinned, outgoing, owned, given>>

TableInit ==
  /\ Init
  /\ held = {} /\ pinned = {} /\ owned = {} /\ given = {}
  /\ index = [x \in Things |-> "unmade"]
  /\ reaper = [x \in Things |-> "dead"]
  /\ outgoing = [x \in Things |-> NoIndex]

Exists(x) == index[x] \notin {"unmade", "freed"}

\* The class is called by the host's constructor, or by the application.
MakeThing(x) ==
  /\ trap = "none" /\ index[x] = "unmade"
  /\ index' = [index EXCEPT ![x] = "none"]
  /\ held' = held \cup {x}
  /\ UNCHANGED <<vars, reaper, pinned, outgoing, owned, given>>

\* The reference that becomes the rep is taken out of Python's hands.
Pinned_mut_borrowed(x) == pinned
Pinned(x) == pinned \cup {x}

\* exported_resource_to_canon, for a result or an element of a stream.  A thing that
\* has a handle is lowered as that handle.
Lower(x, i) ==
  /\ trap = "none" /\ x \in held /\ outgoing[x] = NoIndex
  /\ IF index[x] \in Indices
       THEN i = index[x] /\ UNCHANGED <<slot, index, reaper, pinned>>
       ELSE /\ slot[i] = NoObject
            /\ slot' = [slot EXCEPT ![i] = x]
            /\ index' = [index EXCEPT ![x] = i]
            /\ reaper' = [reaper EXCEPT ![x] = i]
            /\ pinned' = Pinned(x)
  /\ outgoing' = [outgoing EXCEPT ![x] = i]
  /\ given' = given \cup {x}
  /\ misuse' = IF x \in given THEN misuse \cup {"twice"} ELSE misuse
  /\ UNCHANGED <<borrowed, lent, trap, refs, attr, fin, export, borrow, writeVars, held, owned>>

\* The host takes what was lowered: whatever thing the handle denotes now.
Take(x) ==
  LET i == outgoing[x] IN
  /\ trap = "none" /\ i # NoIndex
  /\ outgoing' = [outgoing EXCEPT ![x] = NoIndex]
  /\ IF slot[i] \in Things
       THEN /\ slot' = [slot EXCEPT ![i] = NoObject] /\ owned' = owned \cup {slot[i]}
            /\ UNCHANGED trap
       ELSE trap' = "lift" /\ UNCHANGED <<slot, owned>>
  /\ UNCHANGED <<borrowed, lent, guestVars, writeVars, held, index, reaper, pinned, given>>

\* The reader of a stream went away: the thing is the application's again, and keeps
\* its handle (stream_write saves imported resources only).
LeftUnread(x) ==
  /\ trap = "none" /\ outgoing[x] # NoIndex
  /\ outgoing' = [outgoing EXCEPT ![x] = NoIndex]
  /\ given' = given \ {x}
  /\ UNCHANGED <<vars, held, index, reaper, pinned, owned>>

\* A call of a method, or one with a borrowed parameter: the host passes the rep.
CallMethod(x) ==
  /\ trap = "none" /\ x \in owned
  /\ held' = held \cup {x}
  /\ UNCHANGED <<vars, index, reaper, pinned, outgoing, owned, given>>

\* push_own: the thing comes back by a new handle, which is only used to ask for the
\* rep.  It stays in the table.
Unmark(x) == index' = [index EXCEPT ![x] = "none"] /\ reaper' = [reaper EXCEPT ![x] = "dead"]

GiveBack(x, i) ==
  /\ trap = "none" /\ x \in owned /\ slot[i] = NoObject
  /\ slot' = [slot EXCEPT ![i] = x]
  /\ owned' = owned \ {x}
  /\ IF index[x] \in Indices
       THEN Unmark(x) /\ UNCHANGED trap
       ELSE trap' = "panic" /\ UNCHANGED <<index, reaper>>
  /\ held' = held \cup {x} /\ given' = given \ {x}
  /\ UNCHANGED <<borrowed, lent, guestVars, writeVars, pinned, outgoing>>

\* The host drops the resource; resource_dtor does nothing.
HostDrops(x) ==
  /\ trap = "none" /\ x \in owned
  /\ owned' = owned \ {x}
  /\ UNCHANGED <<vars, held, index, reaper, pinned, outgoing, given>>

ForgetThing(x) ==
  /\ trap = "none" /\ x \in held /\ outgoing[x] = NoIndex
  /\ held' = held \ {x}
  /\ UNCHANGED <<vars, index, reaper, pinned, outgoing, owned, given>>

\* The interpreter frees the object, and calls its finalizer if it has one.
Collect(x) ==
  /\ trap = "none" /\ Exists(x) /\ x \notin held \cup pinned /\ outgoing[x] = NoIndex
  /\ index' = [index EXCEPT ![x] = "freed"]
  /\ reaper' = [reaper EXCEPT ![x] = "dead"]
  /\ IF reaper[x] \in Indices
       THEN IF slot[reaper[x]] \in Things
              THEN slot' = [slot EXCEPT ![reaper[x]] = NoObject] /\ UNCHANGED trap
              ELSE trap' = "drop" /\ UNCHANGED slot
       ELSE UNCHANGED <<slot, trap>>
  /\ UNCHANGED <<borrowed, lent, guestVars, writeVars, held, pinned, outgoing, owned, given>>

-----------------------------------------------------------------------------

TableNext ==
  \/ Next /\ UNCHANGED thingVars
  \/ \E x \in Things :
       \/ MakeThing(x) \/ Take(x) \/ LeftUnread(x) \/ CallMethod(x)
       \/ HostDrops(x) \/ ForgetThing(x) \/ Collect(x)
       \/ \E i \in Indices : Lower(x, i) \/ GiveBack(x, i)

TableSpec == TableInit /\ [][TableNext]_<<vars, thingVars>>

-----------------------------------------------------------------------------

\* A rep is the address of an object that exists, for as long as the host or the
\* table has it; and the handle that is sent out for a thing is a handle of that
\* thing, also if it was sent before and not read, or came back and is sent again
\* ("twice" is an application that gives away what is not its own any more).
ThingsAreWhatTheySeem ==
  /\ \A x \in owned : Exists(x)
  /\ \A i \in Indices : slot[i] \in Things => Exists(slot[i])
  /\ "twice" \notin misuse /\ trap = "none" =>
       \A x \in Things : outgoing[x] # NoIndex => slot[outgoing[x]] = x
=============================================================================
