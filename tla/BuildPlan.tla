------------------------------ MODULE BuildPlan -----------------------------
(***************************************************************************)
(* What `componentize` decides before it generates code: which Python      *)
(* modules with a componentize-py.toml are used (prelink.rs), which WIT     *)
(* worlds each of them covers, which world the component targets, and for  *)
(* which module each item of that world is to be generated (lib.rs).  What *)
(* generate_code then makes of it is in Bindings.                          *)
(* A path is a sequence of components; a configuration file is named by    *)
(* its directory; a world is a set of items (imports and exports by key).  *)
(***************************************************************************)
EXTENDS Integers, Sequences, FiniteSets, SequencesExt

CONSTANTS
  Inputs,      \* the trees considered, see IsInput
  Options,     \* the command lines considered, see IsOptions
  World,       \* the items of each world before anything is changed
  Info         \* the side, package, name and version of each item, an interface

Worlds == DOMAIN World

(* An input: the Python path, the configuration files under it with the    *)
(* worlds of their WIT directory (none if they name no directory), the     *)
(* files that say where bindings go (to their subdirectory "b", which may  *)
(* hold bindings generated before), the worlds of the --wit-path packages, *)
(* and the directories of the path into which `componentize-py bindings`   *)
(* was unpacked.  Options: --world, --module-worlds, --intersect-world,    *)
(* --world-module (a name without dots).                                   *)
IsInput(i) ==
  /\ i.roots \in Seq(Seq(STRING)) /\ i.roots # <<>>
  /\ i.files \subseteq Seq(STRING) /\ IsFiniteSet(i.files)
  /\ i.wit \in [i.files -> SUBSET Worlds] /\ i.bindings \subseteq i.files
  /\ i.extern \subseteq Worlds /\ i.unpacked \subseteq DOMAIN i.roots
IsOptions(o) ==
  /\ o.worlds \subseteq Worlds
  /\ \A n \in DOMAIN o.moduleWorlds : o.moduleWorlds[n].worlds \subseteq Worlds
  /\ o.intersect \subseteq Worlds /\ Cardinality(o.intersect) <= 1

ASSUME InputsAssumption ==
  (\A i \in Inputs : IsInput(i)) /\ (\A o \in Options : IsOptions(o))

\* The module for what is left over is none of the application's.
ASSUME ModulesAssumption ==
  \A i \in Inputs, o \in Options : \A f \in i.files : o.worldModule \notin Range(f)

(* An interface is imported or exported.  It is in a package, a namespace   *)
(* and a name, perhaps with a version, or in none.  All of these are        *)
(* sequences of words (in lower case): "wasi" "http", "incoming" "handler",  *)
(* and "0" "2" "0" for version 0.2.0.                                      *)
IsInfo(j) ==
  /\ j.side \in {"imports", "exports"}
  /\ j.name \in Seq(STRING) /\ j.name # <<>> /\ j.version \in Seq(STRING)
  /\ \/ j.package = <<>> /\ j.version = <<>>
     \/ j.package \in Seq(STRING) \X Seq(STRING) /\ j.package[1] # <<>> /\ j.package[2] # <<>>

ASSUME InfoAssumption ==
  /\ IsFiniteSet(DOMAIN Info)
  /\ \A w \in Worlds : World[w] \subseteq DOMAIN Info
  /\ \A j \in DOMAIN Info : IsInfo(Info[j])

VARIABLES
  in, opt,     \* the input and the options
  stage,       \* "search", "order", "select", "intersect", "split", "name", "mount",
               \* "done", "error"
  why,         \* the error
  root,        \* index of the directory of the path being searched
  pending,     \* its configuration files not visited yet
  last,        \* the one visited last
  seen,        \* modules_seen
  configs,     \* raw_configs: [module, root, file]
  owned,       \* the ordered configs: module |-> [file, root, worlds]
  items,       \* the items of each world, as intersected
  all,         \* all_worlds
  assigned,    \* the world handed to generate_code: module |-> items
  names,       \* the Python module name of each item
  mounts,      \* the guest directories with generated code: path |-> module
  helpers      \* the module that the bundled helpers import as the world's

vars == <<in, opt, stage, why, root, pending, last, seen, configs, owned, items, all, assigned, names, mounts,
          helpers>>

Files(i) == {f \in in.files : IsPrefix(in.roots[i], f)}

Init ==
  /\ in \in Inputs /\ opt \in Options
  /\ stage = "search" /\ why = "" /\ root = 1
  /\ pending = Files(1) /\ last = <<>>
  /\ seen = {} /\ configs = <<>> /\ owned = <<>>
  /\ items = World /\ all = {} /\ assigned = <<>> /\ names = <<>>
  /\ mounts = <<>> /\ helpers = "wit_world"

Fail(reason) ==
  /\ stage' = "error" /\ why' = reason

-----------------------------------------------------------------------------
(* The search of one directory: files come in the order of a depth-first   *)
(* traversal, but the entries of a directory in any order.                 *)

\* The first component under dir; a file in dir itself belongs to no module.
Unnamed(dir, f) == Len(f) = Len(dir)
ModuleName(dir, f) == f[Len(dir) + 1]

Common(f, g) == Cardinality({n \in DOMAIN f \cap DOMAIN g : SubSeq(f, 1, n) = SubSeq(g, 1, n)})
ComesNext(f) == last # <<>> => \A g \in pending : Common(last, g) <= Common(last, f)

\* `root > existing.root`: of two directories that hold the file, the inner one
Deeper_mut_outer(dir, old) == Len(dir) < Len(old)
Deeper(dir, old) == Len(dir) > Len(old)

\* modules_seen when the loop over the earlier configs reaches the i-th
SeenAt(m, i) == IF i = 1 THEN seen ELSE seen \cup {m}

Reown(c, dir) == [c EXCEPT !.root = dir, !.module = ModuleName(dir, c.file)]

Visit(f) ==
  /\ stage = "search" /\ f \in pending /\ ComesNext(f)
  /\ ~Unnamed(in.roots[root], f)
  /\ LET dir == in.roots[root]
         m == ModuleName(dir, f)
         Stops(i) == configs[i].file = f \/ m \in SeenAt(m, i) \/ configs[i].module = m
         stop == SelectInSeq([i \in DOMAIN configs |-> Stops(i)], LAMBDA b : b)
     IN  \/ /\ stop = 0
            /\ configs' = Append(configs, [module |-> m, root |-> dir, file |-> f])
            /\ seen' = IF configs = <<>> THEN seen ELSE seen \cup {m}
            /\ UNCHANGED <<stage, why>>
         \/ /\ stop # 0 /\ configs[stop].file = f
            /\ configs' = IF Deeper(dir, configs[stop].root)
                            THEN [configs EXCEPT ![stop] = Reown(@, dir)] ELSE configs
            /\ seen' = SeenAt(m, stop)
            /\ UNCHANGED <<stage, why>>
         \/ /\ stop # 0 /\ configs[stop].file # f /\ m \in SeenAt(m, stop)
            /\ Fail("multiple")
            /\ UNCHANGED <<configs, seen>>
         \/ /\ stop # 0 /\ configs[stop].file # f /\ m \notin SeenAt(m, stop)
            /\ seen' = seen \cup {m}
            /\ UNCHANGED <<configs, stage, why>>
  /\ pending' = pending \ {f} /\ last' = f
  /\ UNCHANGED <<in, opt, root, owned, items, all, assigned, names, mounts, helpers>>

VisitUnnamed(f) ==
  /\ stage = "search" /\ f \in pending /\ ComesNext(f)
  /\ Unnamed(in.roots[root], f)
  /\ Fail("no module name")
  /\ UNCHANGED <<in, opt, root, pending, last, seen, configs, owned, items, all, assigned, names, mounts, helpers>>

NextRoot ==
  /\ stage = "search" /\ pending = {}
  /\ seen' = {} /\ last' = <<>>
  /\ IF root < Len(in.roots)
       THEN root' = root + 1 /\ pending' = Files(root + 1) /\ UNCHANGED stage
       ELSE stage' = "order" /\ UNCHANGED <<root, pending>>
  /\ UNCHANGED <<in, opt, why, configs, owned, items, all, assigned, names, mounts, helpers>>

-----------------------------------------------------------------------------
(* The worlds.                                                             *)

\* The configs are collected by module, the last one of a name winning, and
\* matched with --module-worlds; --world is the default.
ModulesFound == {configs[i].module : i \in DOMAIN configs}
ConfigOf(m) == configs[SelectLastInSeq(configs, LAMBDA c : c.module = m)]

ModulesNamed == {opt.moduleWorlds[i].module : i \in DOMAIN opt.moduleWorlds}
WorldsFor(m) ==
  IF m \notin ModulesNamed THEN opt.worlds
  ELSE opt.moduleWorlds[SelectInSeq(opt.moduleWorlds, LAMBDA w : w.module = m)].worlds

Order ==
  /\ stage = "order"
  /\ IF ModulesNamed \subseteq ModulesFound /\ Cardinality(ModulesNamed) = Len(opt.moduleWorlds)
       THEN /\ owned' = [m \in ModulesFound |->
                           [file |-> ConfigOf(m).file, root |-> ConfigOf(m).root, worlds |-> WorldsFor(m)]]
            /\ stage' = "select" /\ UNCHANGED why
       ELSE Fail("no config") /\ UNCHANGED owned
  /\ UNCHANGED <<in, opt, root, pending, last, seen, configs, items, all, assigned, names, mounts, helpers>>

\* The worlds a module covers: those found in its own WIT directory.
Covered(m) == owned[m].worlds \cap in.wit[owned[m].file]
CoveredBy(M) == UNION {Covered(m) : m \in M}
Known == in.extern \cup UNION {in.wit[owned[m].file] : m \in DOMAIN owned}

Select ==
  /\ stage = "select"
  /\ LET chosen == opt.worlds \cup CoveredBy(DOMAIN owned)
     IN  IF ~((opt.worlds \cup opt.intersect) \subseteq Known) THEN Fail("unknown world") /\ UNCHANGED all
         ELSE IF chosen # {} THEN all' = chosen /\ stage' = "intersect" /\ UNCHANGED why
         ELSE IF Cardinality(Known) = 1 THEN all' = Known /\ stage' = "intersect" /\ UNCHANGED why
         ELSE Fail("no default world") /\ UNCHANGED all
  /\ UNCHANGED <<in, opt, root, pending, last, seen, configs, owned, items, assigned, names, mounts, helpers>>

Items(W) == UNION {items[w] : w \in W}

\* The worlds that --intersect-world narrows: all of them, the default too.
Narrowed == all

Intersect ==
  /\ stage = "intersect"
  /\ items' = [w \in Worlds |-> IF opt.intersect # {} /\ w \in Narrowed
                                  THEN items[w] \cap Items(opt.intersect) ELSE items[w]]
  /\ stage' = "split"
  /\ UNCHANGED <<in, opt, why, root, pending, last, seen, configs, owned, all, assigned, names, mounts, helpers>>

Target == Items(all)

\* Modules that say where their bindings go get them there; the worlds left
\* over go to a module of their own.
Binders == {m \in DOMAIN owned : owned[m].file \in in.bindings}
Elsewhere_mut_every_config == CoveredBy(DOMAIN owned)
Elsewhere == CoveredBy(Binders)

Split ==
  /\ stage = "split"
  /\ LET rest == all \ Elsewhere
         mine == [m \in {b \in Binders : Covered(b) # {}} |-> Items(Covered(m))]
     IN  assigned' = [m \in DOMAIN mine \cup (IF rest = {} THEN {} ELSE {opt.worldModule}) |->
                         IF m = opt.worldModule THEN Items(rest) ELSE mine[m]]
  /\ stage' = "name"
  /\ UNCHANGED <<in, opt, why, root, pending, last, seen, configs, owned, items, all, names, mounts, helpers>>

\* interface_names, for the imports and for the exports.  A name is qualified by
\* its package if several packages use it on its side or full names are asked for,
\* and by its version if the package comes in several versions.  The parts are joined
\* by hyphens and the file gets the name in snake case: what is left of a name is the
\* sequence of its words, not where one part ends.
Alike(j) == {k \in Target : Info[k].side = Info[j].side /\ Info[k].name = Info[j].name}
Packages(j) == {Info[k].package : k \in Alike(j)}
Versions_mut_one(j) == {j}
Versions(j) == {k \in Alike(j) : Info[k].package = Info[j].package}

PackageWords(j) == Info[j].package[1] \o Info[j].package[2]
InterfaceName(j, full) ==
  LET n == Info[j].name
      v == Info[j].version
  IN  IF Info[j].package = <<>> THEN n
      ELSE IF v # <<>> /\ (full \/ Cardinality(Versions(j)) > 1) THEN PackageWords(j) \o n \o v
      ELSE IF full \/ Cardinality(Packages(j)) > 1 THEN PackageWords(j) \o n
      ELSE n

\* full_names comes from the command line or from any module's configuration.
Name ==
  /\ stage = "name"
  /\ \E full \in SUBSET Target : names' = [j \in Target |-> InterfaceName(j, j \in full)]
  /\ stage' = "mount"
  /\ UNCHANGED <<in, opt, why, root, pending, last, seen, configs, owned, items, all, assigned, mounts, helpers>>

-----------------------------------------------------------------------------
(* The guest's file system.  The n-th directory of the path is seen as      *)
(* "/n", counted from 0, and the generated code is put in front of what     *)
(* the application has there; deeper mounts hide what is below.            *)

Guest(i) == ToString(i - 1)

\* The numerals differ from each other and from the guest's own directories.
ASSUME GuestsAssumption ==
  \A i \in Inputs : \A j, k \in DOMAIN i.roots :
    /\ Guest(j) \notin {"python", "world", "bundled"}
    /\ Guest(j) = Guest(k) => j = k

\* The Python module, as a path, in which the bindings of a module go.
BindingModule(m) == SubSeq(owned[m].file, Len(owned[m].root) + 1, Len(owned[m].file)) \o <<"b">>

\* Each directory of the path that is the one the module was found in.
MountedIn_mut_last(m) == {Max({i \in DOMAIN in.roots : in.roots[i] = owned[m].root})}
MountedIn(m) == {i \in DOMAIN in.roots : in.roots[i] = owned[m].root}

Own == DOMAIN assigned \ {opt.worldModule}
MountPoints(m) ==
  IF m = opt.worldModule THEN {<<"world", m>>} ELSE {<<Guest(i)>> \o BindingModule(m) : i \in MountedIn(m)}

Mount ==
  /\ stage = "mount"
  /\ mounts' = [p \in UNION {MountPoints(m) : m \in DOMAIN assigned} |->
                   CHOOSE m \in DOMAIN assigned : p \in MountPoints(m)]
  /\ helpers' = IF opt.worldModule \in DOMAIN assigned THEN opt.worldModule ELSE helpers
  /\ stage' = "done"
  /\ UNCHANGED <<in, opt, why, root, pending, last, seen, configs, owned, items, all, assigned, names>>

\* PYTHONPATH
PythonPath == <<"python", "world">> \o [i \in DOMAIN in.roots |-> Guest(i)] \o <<"bundled">>

Resting == stage \in {"done", "error"} /\ UNCHANGED vars

Next ==
  \/ \E f \in in.files : Visit(f) \/ VisitUnnamed(f)
  \/ NextRoot \/ Order \/ Select \/ Intersect \/ Split \/ Name \/ Mount
  \/ Resting

Spec == Init /\ [][Next]_vars

-----------------------------------------------------------------------------
(* What the search should find.  A file belongs to the innermost directory *)
(* of the path that holds it, and a module is taken from the first         *)
(* directory that has it.                                                  *)

Holders(f) == {i \in DOMAIN in.roots : IsPrefix(in.roots[i], f)}
Innermost(f) ==
  CHOOSE i \in Holders(f) : \A j \in Holders(f) :
    \/ Len(in.roots[i]) > Len(in.roots[j])
    \/ Len(in.roots[i]) = Len(in.roots[j]) /\ i <= j
Module(f) == ModuleName(in.roots[Innermost(f)], f)
Found == {f \in in.files : Holders(f) # {}}

\* Two files of one module in one directory of the path.
Duplicate(f, g) ==
  f # g /\ \E i \in Holders(f) \cap Holders(g) :
             ModuleName(in.roots[i], f) = ModuleName(in.roots[i], g)
\* A directory of the path inside another one.
Nested == \E i, j \in DOMAIN in.roots : IsStrictPrefix(in.roots[i], in.roots[j])
\* The names are clear: no module has two files in one directory, and with nested
\* directories no name stands for two files, or for one file in two directories.
Clear ==
  /\ \A f, g \in Found : ~Duplicate(f, g)
  /\ Nested =>
       \A f, g \in Found : \A i \in Holders(f), j \in Holders(g) :
         ModuleName(in.roots[i], f) = ModuleName(in.roots[j], g)
           => f = g /\ in.roots[i] = in.roots[j]

Wanted ==
  {f \in Found : \A g \in Found \ {f} : Module(g) = Module(f) => Innermost(f) < Innermost(g)}

\* The joined words of the target can be taken apart: no name and no other package
\* begins with the words of a package, no name has the first word of a version (a
\* number) in it, and the words tell apart the versions of an interface.
Legible ==
  \A i, j \in Target : i # j /\ Info[i].side = Info[j].side =>
    /\ Info[i].package # <<>> =>
         /\ ~IsPrefix(PackageWords(i), Info[j].name)
         /\ Info[j].package \notin {<<>>, Info[i].package} => ~IsPrefix(PackageWords(i), PackageWords(j))
    /\ Info[i].version # <<>> => Head(Info[i].version) \notin Range(Info[j].name)
    /\ Info[i].package = Info[j].package /\ Info[i].name = Info[j].name => Info[i].version # Info[j].version

-----------------------------------------------------------------------------
(* Properties.                                                             *)

TypeOK ==
  /\ stage \in {"search", "order", "select", "intersect", "split", "name", "mount", "done", "error"}
  /\ (stage = "error") <=> (why # "")
  /\ root \in DOMAIN in.roots /\ pending \subseteq Files(root)
  /\ \A i \in DOMAIN configs :
       LET c == configs[i]
       IN  c.root \in Range(in.roots) /\ c.file \in in.files /\ c.module = ModuleName(c.root, c.file)
  /\ all \subseteq Worlds /\ Target \subseteq UNION {World[w] : w \in Worlds}

\* In whatever order read_dir lists the entries, the search finds the same
\* modules: each file under the innermost directory that holds it, and of two
\* versions of a module the one that Python would import.
SearchFindsOwners ==
  stage = "order" /\ Clear =>
    {<<configs[i].module, configs[i].file>> : i \in DOMAIN configs} = {<<Module(f), f>> : f \in Wanted}

\* The target is the union of the worlds asked for and covered, cut down to the
\* items of the world given with --intersect-world, and splitting it over modules
\* loses nothing and adds nothing: each item of the target is in the world handed to
\* generate_code for some module, and a module gets only worlds that it covers.
EveryItemAssigned ==
  stage \in {"mount", "done"} =>
    /\ Target = (UNION {World[w] : w \in all})
                  \cap (UNION {World[w] : w \in IF opt.intersect = {} THEN Worlds ELSE opt.intersect})
    /\ UNION {assigned[m] : m \in DOMAIN assigned} = Target
    /\ \A m \in Own : owned[m].file \in in.bindings /\ assigned[m] = Items(Covered(m))

\* "possibly qualified [...] if that name would otherwise clash": no two imported
\* and no two exported interfaces of the target get one Python module, with any
\* mixture of full and short names, provided that their words do not run together
\* (a:b/x, qualified, and e:f/a-b-x are both a_b_x.py, of which one overwrites the
\* other).
NamesAreDistinct ==
  stage = "done" /\ Legible =>
    \A i, j \in Target : i # j /\ Info[i].side = Info[j].side => names[i] # names[j]

\* What an import statement finds: the first entry of the path that has the top-level
\* package decides, and there the generated code, or else what the application has.
Has(e, package) ==
  \/ \E p \in DOMAIN mounts : e = "world" /\ p = <<e, package>>
  \/ \E i \in DOMAIN in.roots :
       /\ e = Guest(i)
       /\ \/ i \in in.unpacked /\ package = opt.worldModule
          \/ \E f \in in.files : IsPrefix(in.roots[i] \o <<package>>, f)
Imported(q) ==
  LET p == <<PythonPath[SelectInSeq(PythonPath, LAMBDA e : Has(e, Head(q)))]>> \o q
  IN  IF p \in DOMAIN mounts THEN mounts[p] ELSE "not generated"

\* The helpers come with bundled, or with a copy that `bindings` unpacked and left
\* as it is.
ImportedByHelpers == IF in.unpacked = {} THEN helpers ELSE "wit_world"

\* Pregenerated bindings "will be ignored here and replaced by code we generate
\* on-the-fly": whatever a module brought with it, and wherever the path has it, an
\* import of its bindings finds the generated ones; and so do the helpers, unless the
\* application has copies of them for another name.
GeneratedIsImported ==
  stage = "done" /\ Clear =>
    /\ \A m \in Own : Imported(BindingModule(m)) = m
    /\ opt.worldModule \in DOMAIN assigned =>
         /\ Imported(<<opt.worldModule>>) = opt.worldModule
         /\ in.unpacked = {} \/ opt.worldModule = "wit_world" =>
              Imported(<<ImportedByHelpers>>) = opt.worldModule

\* "multiple `componentize-py.toml` files found in module": some module has two.
MultipleMeansDuplicate ==
  why = "multiple" => \E f, g \in Found : Duplicate(f, g)
=============================================================================
