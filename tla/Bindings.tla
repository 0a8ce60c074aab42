------------------------------ MODULE Bindings ------------------------------
(***************************************************************************)
(* What the Python bindings contain (summary.rs): the types and functions  *)
(* of the worlds are visited (visit_functions, visit_type), the types are  *)
(* put in an order in which Python can declare them (types_sorted), each   *)
(* Python module gets the code of its world (generate_code), and the       *)
(* runtime is told in which module to find each class (collect_symbols).   *)
(***************************************************************************)
EXTENDS Integers, Sequences, FiniteSets, SequencesExt

CONSTANTS
  Wits,        \* the inputs considered, see IsWit
  Types, Items, Worlds, Modules

\* All that ts leads to: there are no longer ways than there are types.
Closure(ts, next) ==
  LET reached[n \in Nat] ==
        IF n = 0 THEN ts
        ELSE LET before == reached[n - 1] IN before \cup UNION {next[t] : t \in before}
  IN  reached[Cardinality(Types)]

(* A type has a kind, the types it is made of, and the item that owns it;   *)
(* an enum stands for flags too, "wrap" for tuple, option and result,       *)
(* "stream" for future.  An item of a world is an interface, or a function  *)
(* or type of the world; res is the resource that a function belongs to,    *)
(* NoType for a freestanding one, and parts its parameters and results.     *)
(* The words are those of the names of types ("option" etc. if unnamed) and *)
(* interfaces.  A resource is one of an interface, as are its methods: those *)
(* that a world itself declares are left out.  A world has the interfaces of *)
(* all the types that it mentions.                                          *)
NoType == "no type"
NoItem == "no item"  \* the owner of handles, lists, streams, tuples, ...
ItemsOf(w, v) == Range(w.worlds[v].import) \cup Range(w.worlds[v].export)
TypesOf(w, v) ==
  Closure(UNION {Range(w.items[i].types) \cup UNION {Range(f.parts) : f \in Range(w.items[i].funcs)} :
                   i \in ItemsOf(w, v)},
          [t \in Types |-> Range(w.types[t].parts)])
Kinds == {"record", "variant", "enum", "resource", "handle", "wrap", "stream", "list", "alias"}
IsWit(w) ==
  /\ \A t \in Types :
       /\ w.types[t].kind \in Kinds /\ w.types[t].parts \in Seq(Types)
       /\ w.types[t].owner \in Items \cup {NoItem} /\ w.types[t].words \in Seq(STRING)
       /\ w.types[t].kind = "resource" =>
            /\ w.types[t].owner \in Items /\ w.items[w.types[t].owner].interface
            /\ t \in Range(w.items[w.types[t].owner].types)
  /\ \A i \in Items :
       /\ w.items[i].types \in Seq(Types) /\ w.items[i].interface \in BOOLEAN
       /\ w.items[i].words \in Seq(STRING)
       /\ w.items[i].funcs \in Seq(Range(w.items[i].funcs))
       /\ \A f \in Range(w.items[i].funcs) :
            /\ f.name \in STRING /\ f.async \in BOOLEAN /\ f.parts \in Seq(Types)
            /\ \/ f.res = NoType
               \/ /\ w.items[i].interface
                  /\ f.res \in Range(w.items[i].types) /\ w.types[f.res].kind = "resource"
  /\ \A v \in Worlds : w.worlds[v].import \in Seq(Items) /\ w.worlds[v].export \in Seq(Items)
  /\ w.all \in Seq(Worlds)
  /\ \A v \in Range(w.all) : \A t \in TypesOf(w, v) :
       LET i == w.types[t].owner IN i \in Items /\ w.items[i].interface => i \in ItemsOf(w, v)
  /\ w.modules \in Seq(Range(w.modules))
  /\ \A m \in Range(w.modules) : m.name \in Modules /\ m.worlds \subseteq Range(w.all)

ASSUME TypesAssumption ==
  IsFiniteSet(Types) /\ NoType \notin Types /\ "functions" \notin Types /\ Types \cap Items = {}
ASSUME WitsAssumption == \A w \in Wits : IsWit(w)

Union == "union"     \* a world that union_world made, and that was never visited

VARIABLES
  wit,         \* the input
  stage,       \* "visit", "sort", "sorted", "generate", "collect", "done", "panic" or "unresolved"
  todo,        \* the worlds to visit, then the modules to generate
  calls,       \* the calls that remain to visit or to sort, first to last
  types,       \* Summary.types, an ordered set
  order,       \* what types_sorted has sorted, and the resources it has entered
  worldTypes,  \* the types of each world
  worldKeys,   \* the items of each world, with their direction
  visited,     \* import_keys_seen and export_keys_seen
  info,        \* resource_info: where a resource is implemented
  functions,   \* Summary.functions
  left,        \* the types still to generate for the current module
  locations,   \* the module that has the class of a type
  keys,        \* the module that has the protocol of an export
  files,       \* what each file of the generated modules defines
  symbols      \* how the runtime finds the exported functions

vars == <<wit, stage, todo, calls, types, order, worldTypes, worldKeys, visited, info, functions,
          left, locations, keys, files, symbols>>

Kind(t) == wit.types[t].kind
Parts(t) == wit.types[t].parts
Owner(t) == wit.types[t].owner
InInterface(t) == Owner(t) \in Items /\ wit.items[Owner(t)].interface
Freestanding(f) == f.func.res = NoType

Init ==
  /\ wit \in Wits /\ stage = "visit"
  /\ todo = wit.all /\ calls = <<>>
  /\ types = <<>> /\ functions = <<>> /\ left = <<>> /\ files = {}
  /\ order = [sorted |-> <<>>, entered |-> {}]
  /\ worldTypes = [v \in Worlds \cup {Union} |-> {}]
  /\ worldKeys = [v \in Worlds \cup {Union} |-> {}]
  /\ visited = {} /\ info = [t \in Types |-> {}]
  /\ locations = <<>> /\ keys = <<>> /\ symbols = {}

-----------------------------------------------------------------------------
(* The recursion of visit_type and of sort: a call is replaced by those    *)
(* that it makes and by what it does when they have returned.              *)

Insert(s, t) == IF Contains(s, t) THEN s ELSE Append(s, t)

\* Lists and aliases have no class of their own.
HasNoClass(t) == Kind(t) \in {"list", "alias"}
Declare(s, t) == IF HasNoClass(t) THEN s ELSE Insert(s, t)

-----------------------------------------------------------------------------
(* Visiting.                                                               *)

VisitItems(v, dir) ==
  LET items == wit.worlds[v][dir]
  IN  [n \in DOMAIN items |-> [do |-> "item", item |-> items[n], dir |-> dir, world |-> v]]
VisitFunctions(i, dir, v) ==
  LET funcs == wit.items[i].funcs
  IN  [n \in DOMAIN funcs |->
         [do |-> "function", func |-> [dir |-> dir, item |-> i, func |-> funcs[n]], world |-> v]]
VisitTypes(ts, dir, v) ==
  [n \in DOMAIN ts |-> [do |-> "visit", type |-> ts[n], dir |-> dir, world |-> v]]

VisitWorld ==
  /\ stage = "visit" /\ calls = <<>> /\ todo # <<>>
  /\ calls' = VisitItems(Head(todo), "import") \o VisitItems(Head(todo), "export")
  /\ todo' = Tail(todo)
  /\ UNCHANGED <<wit, stage, types, order, worldTypes, worldKeys, visited, info, functions, left,
                 locations, keys, files, symbols>>

\* An item met before is only noted for its world.
Noted_mut_late(n) == {<<n.dir, n.item>>} \ visited
Noted(n) == {<<n.dir, n.item>>}

\* One item of visit_functions.  dir is the direction of the interface whose
\* types are visited, "none" for what a function or an alias mentions.
VisitItem ==
  /\ stage = "visit" /\ calls # <<>> /\ Head(calls).do = "item"
  /\ LET n == Head(calls)
         item == wit.items[n.item]
         dir == IF item.interface THEN n.dir ELSE "none"
     IN  /\ worldKeys' = [worldKeys EXCEPT ![n.world] = @ \cup Noted(n)]
         /\ visited' = visited \cup {<<n.dir, n.item>>}
         /\ calls' = (IF <<n.dir, n.item>> \in visited THEN <<>>
                      ELSE VisitTypes(item.types, dir, n.world) \o VisitFunctions(n.item, n.dir, n.world))
                     \o Tail(calls)
  /\ UNCHANGED <<wit, stage, todo, types, order, worldTypes, info, functions, left, locations, keys,
                 files, symbols>>

\* visit_function; to visit the types does not look at the functions.
VisitFunction ==
  /\ stage = "visit" /\ calls # <<>> /\ Head(calls).do = "function"
  /\ LET n == Head(calls)
     IN  /\ calls' = VisitTypes(n.func.func.parts, "none", n.world) \o Tail(calls)
         /\ functions' = Append(functions, n.func)
  /\ UNCHANGED <<wit, stage, todo, types, order, worldTypes, worldKeys, visited, info, left, locations,
                 keys, files, symbols>>

\* visit_type; a handle does not lead to its resource.
VisitType ==
  /\ stage = "visit" /\ calls # <<>> /\ Head(calls).do = "visit"
  /\ LET n == Head(calls)
         t == n.type
         parts == IF Kind(t) = "handle" THEN <<>> ELSE Parts(t)
     IN  /\ worldTypes' = [worldTypes EXCEPT ![n.world] = @ \cup {t}]
         /\ info' = [info EXCEPT ![t] = IF Kind(t) # "resource" THEN @
                                        ELSE CASE n.dir = "import" -> @ \cup {"remote"}
                                               [] n.dir = "export" -> @ \cup {"local"}
                                               [] OTHER -> @]
         /\ calls' = VisitTypes(parts, IF Kind(t) = "alias" THEN "none" ELSE n.dir, n.world)
                       \o <<[do |-> "visited", type |-> t]>> \o Tail(calls)
  /\ UNCHANGED <<wit, stage, todo, types, order, worldKeys, visited, functions, left, locations, keys,
                 files, symbols>>

VisitedType ==
  /\ stage = "visit" /\ calls # <<>> /\ Head(calls).do = "visited"
  /\ types' = Declare(types, Head(calls).type)
  /\ calls' = Tail(calls)
  /\ UNCHANGED <<wit, stage, todo, order, worldTypes, worldKeys, visited, info, functions, left,
                 locations, keys, files, symbols>>

-----------------------------------------------------------------------------
(* Sorting.                                                                *)

SortTypes(ts) == [n \in DOMAIN ts |-> [do |-> "sort", type |-> ts[n]]]

\* The functions among which a resource has its methods, the imported first.
IsMethod(f, t, dir) == f.func.res = t /\ f.dir = dir
Methods(t, dir, where) == IF where \in info[t] THEN {f \in Range(functions) : IsMethod(f, t, dir)} ELSE {}
SortMethods(t, dir, where) ==
  IF where \in info[t] THEN [n \in DOMAIN functions |->
                               [do |-> "method", func |-> functions[n], type |-> t, dir |-> dir]]
  ELSE <<>>
SortInside_mut_imports(t) ==
  IF Kind(t) = "resource" THEN SortMethods(t, "import", "remote") ELSE SortTypes(Parts(t))
SortInside(t) ==
  IF Kind(t) = "resource"
    THEN SortMethods(t, "import", "remote") \o SortMethods(t, "export", "local")
    ELSE SortTypes(Parts(t))

StartSort ==
  /\ stage = "visit" /\ calls = <<>> /\ todo = <<>>
  /\ stage' = "sort" /\ calls' = SortTypes(types)
  /\ UNCHANGED <<wit, todo, types, order, worldTypes, worldKeys, visited, info, functions, left, locations,
                 keys, files, symbols>>

\* sort: what a type is made of comes first; a resource is entered only once.
SortType ==
  /\ stage = "sort" /\ calls # <<>> /\ Head(calls).do = "sort"
  /\ LET t == Head(calls).type
     IN  IF Kind(t) = "resource" /\ t \in order.entered
           THEN calls' = Tail(calls) /\ UNCHANGED order
           ELSE /\ calls' = SortInside(t) \o <<[do |-> "sorted", type |-> t]>> \o Tail(calls)
                /\ order' = [order EXCEPT !.entered = IF Kind(t) = "resource" THEN @ \cup {t} ELSE @]
  /\ UNCHANGED <<wit, stage, todo, types, worldTypes, worldKeys, visited, info, functions, left,
                 locations, keys, files, symbols>>

SortMethod ==
  /\ stage = "sort" /\ calls # <<>> /\ Head(calls).do = "method"
  /\ LET n == Head(calls)
     IN  calls' = (IF IsMethod(n.func, n.type, n.dir) THEN SortTypes(n.func.func.parts) ELSE <<>>) \o Tail(calls)
  /\ UNCHANGED <<wit, stage, todo, types, order, worldTypes, worldKeys, visited, info, functions, left,
                 locations, keys, files, symbols>>

SortedType ==
  /\ stage = "sort" /\ calls # <<>> /\ Head(calls).do = "sorted"
  /\ order' = [order EXCEPT !.sorted = Declare(@, Head(calls).type)]
  /\ calls' = Tail(calls)
  /\ UNCHANGED <<wit, stage, todo, types, worldTypes, worldKeys, visited, info, functions, left,
                 locations, keys, files, symbols>>

FinishSort ==
  /\ stage = "sort" /\ calls = <<>>
  /\ types' = order.sorted
  /\ stage' = "sorted" /\ todo' = wit.modules
  /\ UNCHANGED <<wit, calls, order, worldTypes, worldKeys, visited, info, functions, left, locations, keys,
                 files, symbols>>

-----------------------------------------------------------------------------
(* Generating.                                                             *)

\* The world that a module is generated for: that of a union is a new one.
WorldOf(m) == IF Cardinality(m.worlds) = 1 THEN CHOOSE v \in m.worlds : TRUE ELSE Union

StartModule ==
  /\ stage \in {"sorted", "generate"} /\ left = <<>> /\ todo # <<>>
  /\ stage' = "generate"
  /\ left' = types \o <<"functions">>
  /\ UNCHANGED <<wit, todo, calls, types, order, worldTypes, worldKeys, visited, info, functions, locations, keys, files, symbols>>

Imported(i) == <<"import", i>> \in visited
Exported(i) == <<"export", i>> \in visited

\* has_imported_and_exported_resource
HasBoth(t) ==
  LET both[u \in Types] == IF Kind(u) = "resource" THEN info[u] = {"local", "remote"}
                           ELSE \E p \in Range(Parts(u)) : both[p]
  IN  both[t]

\* mangle_name: what the constructor of a stream is called after.
Mangled(w, t, owner) ==
  LET foreign(u) == u \in Items \ {owner} /\ w.items[u].interface
      name[u \in Types] ==
        LET type == w.types[u]
        IN  CASE type.kind \in {"record", "variant", "enum", "resource"} ->
                   (IF foreign(type.owner) THEN w.items[type.owner].words ELSE <<>>) \o type.words
              [] type.kind \in {"handle", "alias"} -> name[type.parts[1]]
              [] OTHER -> type.words \o FlattenSeq([n \in DOMAIN type.parts |-> name[type.parts[n]]])
  IN  name[t]

\* A stream has a constructor instead of a class, and one will do for a name.
ConstructorOf(w, t) == <<"stream">> \o Mangled(w, w.types[t].parts[1], w.types[t].owner)
Constructor(t) == ConstructorOf(wit, t)
HasConstructor(m, t) == \E d \in files : d.module = m /\ d.name = Constructor(t)

HasCode(t) ==
  \/ Kind(t) \in {"record", "variant", "enum", "resource"}
  \/ Kind(t) = "stream" /\ t \notin DOMAIN locations /\ ~HasConstructor(Head(todo).name, t)

\* Code::Separate, with what it has for the imports and for the exports.
Separate(t) == Kind(t) = "resource" \/ HasBoth(t)
Sides(t) ==
  CASE Kind(t) = "resource" -> {IF s = "remote" THEN "import" ELSE "export" : s \in info[t]}
    [] OTHER -> {"import", "export"}

\* The files of the class, or of its aliases, in a module; interface_package.
Placed_mut_imports(t) ==
  IF InInterface(t) THEN {<<"import", Owner(t)>>} ELSE {<<"init">>}
Placed(t) ==
  IF InInterface(t)
    THEN IF Separate(t) THEN {<<side, Owner(t)>> : side \in Sides(t)}
         ELSE {<<IF Imported(Owner(t)) THEN "import" ELSE "export", Owner(t)>>}
    ELSE IF Separate(t) /\ "export" \notin Sides(t) THEN {} ELSE {<<"init">>}

\* Both sides are unwrapped, whether or not the interface has them.
Unwraps(t) ==
  InInterface(t) /\ Separate(t) /\ ~(Sides(t) \X {Owner(t)} \subseteq visited)

\* The names of the classes, and the names that a second module gives them.
Classes(t) ==
  CASE Kind(t) = "variant" -> {<<t, "">>, <<t, "_Case">>}
    [] Kind(t) = "stream" -> {Constructor(t)}
    [] OTHER -> {<<t, "">>}
Aliases(t) == {<<t, "">>} \cup (IF Kind(t) = "variant" THEN {<<t, "Case">>} ELSE {})

\* A class, or an alias: the file of another module that it is taken from.
Class == <<>>
Alias(module) == <<module, "init">>

\* The methods of a protocol: for an async one also the one that starts it.
Method(i, f) == {<<i, f.name, "">>} \cup (IF f.async THEN {<<i, f.name, "start">>} ELSE {})
Defines(module, file, name, from) == [module |-> module, file |-> file, name |-> name, from |-> from]
InEach(module, places, names, from) ==
  UNION {{Defines(module, file, name, from) : name \in names} : file \in places}

\* One type of generate_code, if it is one of the world: the first module gets
\* the class, others an alias.
GenerateType ==
  /\ stage = "generate" /\ left # <<>> /\ Head(left) # "functions"
  /\ LET t == Head(left)
         module == Head(todo).name
     IN  IF t \notin worldTypes[WorldOf(Head(todo))]
           THEN UNCHANGED <<stage, locations, files>>
         ELSE IF HasCode(t) /\ Unwraps(t)
           THEN stage' = "panic" /\ UNCHANGED <<locations, files>>
         ELSE /\ UNCHANGED stage
              /\ IF t \in DOMAIN locations
                   THEN /\ UNCHANGED locations
                        /\ files' = files \cup
                             (IF HasCode(t) THEN InEach(module, Placed(t), Aliases(t), Alias(locations[t])) ELSE {})
                   ELSE /\ locations' = [u \in DOMAIN locations \cup {t} |->
                                           IF u = t THEN module ELSE locations[u]]
                        /\ files' = files \cup
                             (IF HasCode(t) THEN InEach(module, Placed(t), Classes(t), Class) ELSE {})
                             \cup UNION {{Defines(module, <<"export", f.item>>, name, Class) :
                                             name \in Method(t, f.func)} : f \in Methods(t, "export", "local")}
  /\ left' = Tail(left)
  /\ UNCHANGED <<wit, todo, calls, types, order, worldTypes, worldKeys, visited, info, functions, keys, symbols>>

\* The freestanding functions: wrappers of imports, and the methods of the
\* protocol of each export, which a second module takes from the first.  (The
\* functions of the world have one protocol together.)
GenerateFunctions ==
  /\ stage = "generate" /\ left = <<"functions">>
  /\ LET m == Head(todo)
         mine == {f \in Range(functions) :
                    Freestanding(f) /\ <<f.dir, f.item>> \in worldKeys[WorldOf(m)]}
         exports == {f.item : f \in {g \in mine : g.dir = "export"}}
         inInit(f) == f.dir = "export" /\ ~wit.items[f.item].interface
         peers(f) == {keys[g.item] : g \in {h \in mine :
                        /\ h.dir = "export" /\ (h.item = f.item \/ (inInit(f) /\ inInit(h)))
                        /\ h.item \in DOMAIN keys}} \ {m.name}
         from(f) == IF f.dir = "export" /\ peers(f) # {} THEN Alias(CHOOSE k \in peers(f) : TRUE) ELSE Class
         named(f) == IF f.dir = "import" THEN {<<f.item, f.func.name, "">>} ELSE Method(f.item, f.func)
         file(f) == IF ~wit.items[f.item].interface THEN <<"init">>
                    ELSE IF f.dir = "import" THEN <<"import", f.item>> ELSE <<"exports">>
     IN  /\ files' = files \cup UNION {{Defines(m.name, file(f), name, from(f)) : name \in named(f)} : f \in mine}
         /\ keys' = [i \in DOMAIN keys \cup exports |-> IF i \in DOMAIN keys THEN keys[i] ELSE m.name]
  /\ left' = <<>> /\ todo' = Tail(todo)
  /\ stage' = IF Len(todo) = 1 THEN "collect" ELSE stage
  /\ UNCHANGED <<wit, calls, types, order, worldTypes, worldKeys, visited, info, functions, locations, symbols>>

-----------------------------------------------------------------------------
(* collect_symbols: the classes of the types, and for each exported        *)
(* function the protocol and the method by which the runtime calls it.     *)

\* An interface's protocol has its name, and the world's that of the module.
Scope(f) == IF wit.items[f.item].interface THEN f.item ELSE keys[f.item]

\* function_name_for_call
Called(f) == <<f.name, IF f.async THEN "start" ELSE "">>

Symbol(f) ==
  [scope |-> Scope(f), item |-> f.item, called |-> Called(f.func),
   class |-> IF Freestanding(f) THEN f.item ELSE f.func.res]

NeedsLocation(t) == Kind(t) \in {"record", "variant", "enum", "resource"}

CollectSymbols ==
  /\ stage = "collect"
  /\ LET exports == {f \in Range(functions) : f.dir = "export"}
         used == {t \in UNION {worldTypes[v] : v \in Range(wit.all)} : NeedsLocation(t)}
     IN  IF /\ used \subseteq DOMAIN locations
            /\ \A f \in exports : wit.items[f.item].interface \/ f.item \in DOMAIN keys
           THEN symbols' = {Symbol(f) : f \in exports} /\ stage' = "done"
           ELSE stage' = "unresolved" /\ UNCHANGED symbols
  /\ UNCHANGED <<wit, todo, calls, types, order, worldTypes, worldKeys, visited, info, functions, left, locations,
                 keys, files>>

Resting == stage \in {"done", "panic", "unresolved"} /\ UNCHANGED vars

Next ==
  \/ VisitWorld \/ VisitItem \/ VisitFunction \/ VisitType \/ VisitedType
  \/ StartSort \/ SortType \/ SortMethod \/ SortedType \/ FinishSort
  \/ StartModule \/ GenerateType \/ GenerateFunctions \/ CollectSymbols
  \/ Resting

Spec == Init /\ [][Next]_vars

-----------------------------------------------------------------------------
(* What a type mentions.                                                   *)

\* The types it is made of, or those of its methods.
Mentions ==
  [t \in Types |->
     IF Kind(t) # "resource" THEN Range(Parts(t))
     ELSE UNION {Range(f.func.parts) : f \in {g \in Range(functions) : g.func.res = t}}]
Reach(t) == Closure(Mentions[t], Mentions)

\* What it needs has a class: that of a list or of an alias is what they are made of.
Inside == [t \in Types |-> IF HasNoClass(t) THEN Range(Parts(t)) ELSE {}]
Needs(t) == {u \in Closure(Mentions[t], Inside) : ~HasNoClass(u)}

Before(u, t) == \E m, n \in DOMAIN types : m < n /\ types[m] = u /\ types[n] = t

-----------------------------------------------------------------------------
(* Properties.                                                             *)

\* "there's no concept of forward declaration in Python": a type is declared
\* after all that it mentions, but for the types of a cycle through a resource's
\* methods; and sorting forgets no type (types_sorted, sort).
OrderIsSound ==
  stage = "sorted" =>
    /\ \A v \in Worlds, t \in Types :
         t \in worldTypes[v] /\ ~HasNoClass(t) => Contains(types, t)
    /\ \A t \in Range(types) : \A u \in Needs(t) :
         Before(u, t) \/ (Kind(u) = "resource" /\ t \in Reach(u))

\* The runtime finds the class of each type of the target world where the
\* symbols say it is (collect_symbols, package_and_name), and each export has a
\* protocol of the name that the symbols use, with the method that they use.
SymbolFile(t) ==
  IF ~InInterface(t) THEN <<"init">>
  ELSE <<IF Imported(Owner(t)) THEN "import" ELSE "export", Owner(t)>>
ProtocolFile(x) ==
  IF x.class # x.item THEN <<"export", x.item>>
  ELSE IF wit.items[x.item].interface THEN <<"exports">> ELSE <<"init">>
SymbolsResolve ==
  /\ stage # "unresolved"
  /\ stage = "done" =>
       /\ \A v \in Range(wit.all) : \A t \in worldTypes[v] : NeedsLocation(t) =>
            Defines(locations[t], SymbolFile(t), <<t, "">>, Class) \in files
       /\ \A x \in symbols : \E d \in files :
            /\ d.file = ProtocolFile(x) /\ d.from = Class
            /\ d.name = <<x.class>> \o x.called
            /\ x.scope \in {x.item, d.module}

\* Each world has a module of its own, and no function of a world is one of
\* another too: then a module needs nothing of the protocols of another.
ModulesAreSeparate(w) ==
  /\ \A v \in Range(w.all) : \E m \in Range(w.modules) : m.worlds = {v}
  /\ \A m \in Range(w.modules) : \E v \in Range(w.all) : m.worlds = {v}
  /\ \A u, v \in Range(w.all) : \A i \in Range(w.worlds[u].export) \cap Range(w.worlds[v].export) :
       u = v \/ w.items[i].interface

\* A module has every class and every freestanding function of the items of its
\* worlds, under the name of the item, and for each stream a constructor; what it
\* takes from another module is there (generate_code).
BindingsAreComplete ==
  stage \in {"collect", "done", "unresolved"} => \A m \in Range(wit.modules) : \A v \in m.worlds :
    LET defined == {d.name : d \in {e \in files : e.module = m.name}}
    IN  /\ \A d \in files : d.from # Class => \E e \in files : Alias(e.module) = d.from
                                                  /\ e.file = <<"init">> /\ e.name = d.name /\ e.from = Class
        /\ \A dir \in {"import", "export"} : \A i \in Range(wit.worlds[v][dir]) :
             /\ \A t \in Range(wit.items[i].types) : NeedsLocation(t) => <<t, "">> \in defined
             /\ \A f \in Range(wit.items[i].funcs) :
                  f.res = NoType => <<i, f.name, "">> \in defined
        /\ \A t \in worldTypes[v] : Kind(t) = "stream" => Constructor(t) \in defined

\* The worlds have one module each, and share neither an export nor what has a
\* class or a constructor: then a module needs nothing of another.
WorldsAreApart(w) ==
  /\ \A v \in Range(w.all) : \E m \in Range(w.modules) : m.worlds = {v}
  /\ \A m \in Range(w.modules) : \E v \in Range(w.all) : m.worlds = {v}
  /\ \A j, k \in 1..Len(w.modules) : w.modules[j].worlds = w.modules[k].worlds => j = k
  /\ \A u, v \in Range(w.all) : u # v =>
       /\ Range(w.worlds[u].export) \cap Range(w.worlds[v].export) = {}
       /\ \A t \in TypesOf(w, u) \cap TypesOf(w, v) :
            w.types[t].kind \notin {"record", "variant", "enum", "resource", "stream"}
=============================================================================
