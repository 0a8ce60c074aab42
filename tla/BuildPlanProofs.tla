--------------------------- MODULE BuildPlanProofs ---------------------------
(***************************************************************************)
(* The search for modules, the split of the target over them, the names of *)
(* its interfaces, and what an import of the generated code finds, for any *)
(* tree of configuration files, any worlds and any command line.           *)
(***************************************************************************)
EXTENDS BuildPlan, FiniteSetTheorems, FunctionTheorems, SequenceTheorems,
        WellFoundedInduction, TLAPS

-----------------------------------------------------------------------------
(* The inductive invariant: what each stage has established.               *)

Words == UNION {Range(f) : f \in in.files}
Configs == [module : Words, root : Range(in.roots), file : in.files]

Searched ==
  /\ in \in Inputs /\ opt \in Options
  /\ root \in DOMAIN in.roots /\ pending \subseteq Files(root)
  /\ configs \in Seq(Configs)

Owners == \A m \in DOMAIN owned : m \in Words /\ owned[m].file \in in.files

\* The worlds of the target are known ones, and hold those that modules cover.
Chosen ==
  stage \in {"intersect", "split", "name", "mount", "done"} =>
    all \subseteq Worlds /\ CoveredBy(DOMAIN owned) \subseteq all

Kept == UNION {World[w] : w \in opt.intersect}
Cut ==
  /\ stage \in {"search", "order", "select", "intersect"} => items = World
  /\ stage \in {"split", "name", "mount", "done"} =>
       items = [w \in Worlds |-> IF opt.intersect # {} /\ w \in all THEN World[w] \cap Kept ELSE World[w]]

Divided ==
  stage \in {"name", "mount", "done"} =>
    /\ UNION {assigned[m] : m \in DOMAIN assigned} = Target
    /\ \A m \in Own : owned[m].file \in in.bindings /\ assigned[m] = Items(Covered(m))

Named ==
  stage \in {"mount", "done"} =>
    \E full \in SUBSET Target : names = [j \in Target |-> InterfaceName(j, j \in full)]

IInv == Searched /\ Owners /\ Chosen /\ Cut /\ Divided /\ Named

LEMMA EmptyDomain == DOMAIN << >> = {}
<1>1. << >> \in Seq({}) /\ Len(<< >>) = 0
  BY EmptySeq
<1>2. DOMAIN << >> = 1 .. 0
  BY <1>1, LenProperties
<1>3. 1 .. 0 = {}
  OBVIOUS
<1> QED BY <1>2, <1>3, Zenon

LEMMA InitHolds == Init => IInv
<1> SUFFICES ASSUME Init PROVE IInv
  OBVIOUS
<1> USE DEF Init
<1>1. IsInput(in)
  BY InputsAssumption
<1>2. Searched
  <2>1. 1 \in DOMAIN in.roots
    <3>1. in.roots \in Seq(Seq(STRING)) /\ in.roots # <<>>
      BY <1>1 DEF IsInput
    <3>2. Len(in.roots) \in Nat \ {0}
      BY <3>1, EmptySeq
    <3>3. DOMAIN in.roots = 1 .. Len(in.roots)
      BY <3>1, LenProperties
    <3> HIDE DEF Init
    <3> QED BY <3>2, <3>3
  <2>2. configs \in Seq(Configs)
    BY EmptySeq
  <2> QED BY <2>1, <2>2 DEF Searched
<1>3. Owners
  BY EmptyDomain DEF Owners
<1> QED BY <1>2, <1>3 DEF IInv, Chosen, Cut, Divided, Named

-----------------------------------------------------------------------------
(* The search.                                                             *)

\* A file that is visited has a component below the directory.
LEMMA NameIsWord ==
  ASSUME IInv, NEW f \in pending, ~Unnamed(in.roots[root], f)
  PROVE  ModuleName(in.roots[root], f) \in Words /\ f \in in.files
<1>1. f \in in.files /\ IsPrefix(in.roots[root], f)
  BY DEF IInv, Searched, Files
<1>2. f \in Seq(STRING) /\ in.roots[root] \in Seq(STRING)
  <2>1. IsInput(in) /\ root \in DOMAIN in.roots
    BY InputsAssumption DEF IInv, Searched
  <2> QED BY <1>1, <2>1 DEF IsInput
<1>3. Len(in.roots[root]) + 1 \in DOMAIN f
  BY <1>1, <1>2 DEF IsPrefix, Unnamed
<1> QED BY <1>1, <1>3 DEF ModuleName, Words, Range

\* What the search changes is not looked at by the other parts of the invariant.
LEMMA SearchKeeps ==
  ASSUME IInv, Searched', stage = "search", stage' \in {"search", "order", "error"},
         UNCHANGED <<in, opt, owned, items, all, assigned, names>>
  PROVE  IInv'
BY DEF IInv, Owners, Words, Chosen, Cut, Divided, Named

LEMMA VisitStep == ASSUME NEW f \in in.files, IInv, Visit(f) PROVE IInv'
<1> DEFINE dir == in.roots[root]
           m == ModuleName(dir, f)
<1>1. /\ m \in Words /\ f \in in.files /\ dir \in Range(in.roots) /\ in' = in
      /\ stage = "search" /\ f \in pending
  BY NameIsWord DEF Visit, IInv, Searched, Range
<1>2. configs' \in Seq(Configs)
  <2>1. CASE configs' = configs
    BY <2>1 DEF IInv, Searched
  <2>2. CASE configs' = Append(configs, [module |-> m, root |-> dir, file |-> f])
    <3>1. [module |-> m, root |-> dir, file |-> f] \in Configs
      BY <1>1 DEF Configs
    <3> QED BY <2>2, <3>1, AppendProperties DEF IInv, Searched
  <2>3. ASSUME NEW s, configs[s].file = f, configs' = [configs EXCEPT ![s] = Reown(@, dir)]
        PROVE  configs' \in Seq(Configs)
    <3>1. CASE s \in 1 .. Len(configs)
      <4>1. configs[s] \in Configs
        BY <3>1, ElementOfSeq DEF IInv, Searched
      <4>2. Reown(configs[s], dir) \in Configs
        BY <1>1, <2>3, <4>1 DEF Reown, Configs
      <4>3. configs' = [configs EXCEPT ![s] = Reown(configs[s], dir)]
        BY <2>3
      <4> HIDE DEF dir
      <4> QED BY <3>1, <4>2, <4>3, ExceptSeq DEF IInv, Searched
    <3>2. CASE s \notin 1 .. Len(configs)
      <4>1. configs \in [1 .. Len(configs) -> Configs] /\ Len(configs) \in Nat
        BY LenProperties DEF IInv, Searched
      <4>2. configs' \in [1 .. Len(configs) -> Configs]
        BY <2>3, <3>2, <4>1
      <4> QED BY <4>1, <4>2, SeqDef
    <3> QED BY <3>1, <3>2
  <2>4. \/ configs' = configs
        \/ configs' = Append(configs, [module |-> m, root |-> dir, file |-> f])
        \/ \E s : configs[s].file = f /\ configs' = [configs EXCEPT ![s] = Reown(@, dir)]
    BY DEF Visit
  <2> QED BY <2>1, <2>2, <2>3, <2>4
<1>3. /\ UNCHANGED <<in, opt, root, owned, items, all, assigned, names>> /\ pending' \subseteq pending
      /\ stage' \in {"search", "error"}
  BY DEF Visit, Fail
<1>4. Searched'
  BY <1>2, <1>3 DEF IInv, Searched, Configs, Words, Files
<1> QED BY <1>1, <1>3, <1>4, SearchKeeps

LEMMA SearchStep ==
  ASSUME IInv, NextRoot \/ \E f \in in.files : VisitUnnamed(f) PROVE IInv'
<1>1. CASE NextRoot
  <2>1. root' \in DOMAIN in.roots /\ pending' \subseteq Files(root')
    <3>1. IsInput(in) /\ root \in DOMAIN in.roots
      BY InputsAssumption DEF IInv, Searched
    <3> QED BY <1>1, <3>1 DEF NextRoot, IsInput, IInv, Searched
  <2>2. Searched'
    BY <1>1, <2>1 DEF NextRoot, IInv, Searched, Files, Configs, Words
  <2> QED BY <1>1, <2>2, SearchKeeps DEF NextRoot
<1>2. ASSUME NEW f \in in.files, VisitUnnamed(f) PROVE IInv'
  BY <1>2, SearchKeeps DEF VisitUnnamed, Fail, IInv, Searched, Configs, Words, Files
<1> QED BY <1>1, <1>2

-----------------------------------------------------------------------------
(* The worlds.                                                             *)

\* A nonempty set of positions in a sequence has a last one.
LEMMA LastExists ==
  ASSUME NEW n \in Nat, NEW I \in SUBSET (1 .. n), I # {}
  PROVE  Max(I) \in I
<1> DEFINE T == {k \in Nat : \E i \in I : k = n - i}
<1>1. T \subseteq Nat /\ T # {}
  <2>1. PICK i \in I : TRUE
    OBVIOUS
  <2>2. n - i \in Nat
    BY <2>1
  <2> QED BY <2>2
<1> HIDE DEF T
<1>2. PICK x \in T : \A y \in T : ~(<<y, x>> \in OpToRel(<, Nat))
  BY <1>1, NatLessThanWellFounded, WFMin, Zenon
<1>3. \A y \in T : ~(y < x)
  <2> SUFFICES ASSUME NEW y \in T, y < x PROVE FALSE
    OBVIOUS
  <2>1. <<y, x>> \in {ss \in Nat \X Nat : ss[1] < ss[2]}
    BY <1>1
  <2> QED BY <1>2, <2>1, Zenon DEF OpToRel
<1> USE DEF T
<1>4. PICK i \in I : x = n - i
  OBVIOUS
<1>5. \A j \in I : i >= j
  <2> SUFFICES ASSUME NEW j \in I PROVE i >= j
    OBVIOUS
  <2>1. n - j \in Nat
    OBVIOUS
  <2>2. n - j \in T
    BY <2>1
  <2>3. ~(n - j < n - i)
    BY <1>3, <1>4, <2>2
  <2> QED BY <2>3
<1> QED BY <1>5 DEF Max

\* What the stages after the search leave alone.
LEMMA SearchedStays ==
  ASSUME IInv, UNCHANGED <<in, opt, root, pending, configs>> PROVE Searched'
BY DEF IInv, Searched, Files, Configs, Words

LEMMA OrderStep == IInv /\ Order => IInv'
<1> SUFFICES ASSUME IInv, Order PROVE IInv'
  OBVIOUS
<1>1. ASSUME NEW m \in ModulesFound PROVE m \in Words /\ ConfigOf(m).file \in in.files
  <2> DEFINE I == {i \in 1 .. Len(configs) : configs[i].module = m}
  <2>1. configs \in Seq(Configs) /\ Len(configs) \in Nat /\ DOMAIN configs = 1 .. Len(configs)
    BY LenProperties DEF IInv, Searched
  <2>2. PICK i \in 1 .. Len(configs) : configs[i].module = m
    BY <2>1 DEF ModulesFound
  <2>3. Max(I) \in I
    BY <2>1, <2>2, LastExists
  <2>4. SelectLastInSeq(configs, LAMBDA c : c.module = m) = Max(I)
    BY <2>2 DEF SelectLastInSeq
  <2>5. configs[i] \in Configs /\ ConfigOf(m) \in Configs
    BY <2>1, <2>3, <2>4, ElementOfSeq DEF ConfigOf
  <2> QED BY <2>2, <2>5 DEF Configs
<1>2. Owners'
  <2>1. CASE owned' = owned
    BY <2>1 DEF Order, IInv, Owners, Words
  <2>2. CASE owned' # owned
    <3>1. /\ DOMAIN owned' = ModulesFound /\ in' = in
          /\ \A m \in ModulesFound : owned'[m].file = ConfigOf(m).file
      <4>1. owned' = [m \in ModulesFound |->
                        [file |-> ConfigOf(m).file, root |-> ConfigOf(m).root, worlds |-> WorldsFor(m)]]
            /\ in' = in
        BY <2>2, Zenon DEF Order
      <4> QED BY <4>1
    <3> QED BY <1>1, <3>1 DEF Owners, Words
  <2> QED BY <2>1, <2>2
<1>3. /\ UNCHANGED <<in, opt, root, pending, configs, items>>
      /\ stage = "order" /\ stage' \in {"select", "error"}
  BY DEF Order, Fail
<1>4. Searched'
  BY <1>3, SearchedStays
<1> QED BY <1>2, <1>3, <1>4 DEF IInv, Chosen, Cut, Divided, Named

LEMMA CoveredIsWorlds ==
  ASSUME IInv, NEW m \in DOMAIN owned
  PROVE  in.wit[owned[m].file] \subseteq Worlds /\ Covered(m) \subseteq Worlds
<1>1. IsInput(in) /\ owned[m].file \in in.files
  BY InputsAssumption DEF IInv, Searched, Owners
<1> QED BY <1>1 DEF IsInput, Covered

LEMMA SelectStep == IInv /\ Select => IInv'
<1> SUFFICES ASSUME IInv, Select PROVE IInv'
  OBVIOUS
<1>1. /\ UNCHANGED <<in, opt, root, pending, configs, owned, items>>
      /\ stage = "select" /\ stage' \in {"intersect", "error"}
  BY DEF Select, Fail
<1>2. IsInput(in) /\ IsOptions(opt)
  BY InputsAssumption DEF IInv, Searched
<1>3. CoveredBy(DOMAIN owned) \subseteq Worlds /\ Known \subseteq Worlds /\ opt.worlds \subseteq Worlds
  BY <1>2, CoveredIsWorlds DEF CoveredBy, Known, IsInput, IsOptions
<1>4. stage' = "intersect" => all' \subseteq Worlds /\ CoveredBy(DOMAIN owned) \subseteq all'
  BY <1>3 DEF Select, Fail
<1>5. Chosen'
  BY <1>1, <1>4 DEF Chosen, CoveredBy, Covered
<1>6. Searched' /\ Owners'
  BY <1>1, SearchedStays DEF IInv, Owners, Words
<1> QED BY <1>1, <1>5, <1>6 DEF IInv, Cut, Divided, Named

LEMMA IntersectStep == IInv /\ Intersect => IInv'
<1> SUFFICES ASSUME IInv, Intersect PROVE IInv'
  OBVIOUS
<1>1. /\ UNCHANGED <<in, opt, root, pending, configs, owned, all>>
      /\ stage = "intersect" /\ stage' = "split"
  BY DEF Intersect
<1>2. items' = [w \in Worlds |-> IF opt.intersect # {} /\ w \in all THEN World[w] \cap Kept ELSE World[w]]
  <2>1. Items(opt.intersect) = Kept /\ items = World
    BY <1>1 DEF IInv, Cut, Items, Kept
  <2> QED BY <2>1 DEF Intersect, Narrowed
<1>3. Cut' /\ Chosen'
  BY <1>1, <1>2 DEF IInv, Cut, Kept, Chosen, CoveredBy, Covered
<1>4. Searched' /\ Owners'
  BY <1>1, SearchedStays DEF IInv, Owners, Words
<1> QED BY <1>1, <1>3, <1>4 DEF IInv, Divided, Named

\* No module of the application has the name of the one for what is left over.
LEMMA NoClash == ASSUME IInv PROVE opt.worldModule \notin DOMAIN owned
<1>1. \A f \in in.files : opt.worldModule \notin Range(f)
  BY ModulesAssumption DEF IInv, Searched
<1> QED BY <1>1 DEF IInv, Owners, Words

LEMMA SplitStep == IInv /\ Split => IInv'
<1> SUFFICES ASSUME IInv, Split PROVE IInv'
  OBVIOUS
<1>1. /\ UNCHANGED <<in, opt, root, pending, configs, owned, items, all>>
      /\ stage = "split" /\ stage' = "name"
  BY DEF Split
<1> DEFINE rest == all \ Elsewhere
           B == {b \in Binders : Covered(b) # {}}
           X == IF rest = {} THEN {} ELSE {opt.worldModule}
<1>2. /\ DOMAIN assigned' = B \cup X
      /\ \A m \in B : m # opt.worldModule => assigned'[m] = Items(Covered(m))
      /\ \A m \in X : assigned'[m] = Items(rest)
  BY DEF Split
<1>3. \A m \in B : m # opt.worldModule /\ owned[m].file \in in.bindings
  BY NoClash DEF Binders
<1>4. Elsewhere \subseteq all /\ Elsewhere = UNION {Covered(m) : m \in B}
  <2>1. Elsewhere \subseteq CoveredBy(DOMAIN owned) /\ CoveredBy(DOMAIN owned) \subseteq all
    BY <1>1 DEF IInv, Chosen, Elsewhere, CoveredBy, Binders
  <2>2. Elsewhere = UNION {Covered(m) : m \in B}
    BY DEF Elsewhere, CoveredBy
  <2> QED BY <2>1, <2>2
<1>5. UNION {assigned'[m] : m \in DOMAIN assigned'} = Items(all)
  <2>1. Items(all) = Items(rest) \cup UNION {Items(Covered(m)) : m \in B}
    BY <1>4 DEF Items
  <2>2. rest = {} => Items(rest) = {}
    BY DEF Items
  <2>3. ASSUME NEW x \in Items(all) PROVE \E m \in DOMAIN assigned' : x \in assigned'[m]
    <3>1. CASE x \in Items(rest)
      BY <1>2, <2>2, <3>1
    <3>2. ASSUME NEW m \in B, x \in Items(Covered(m)) PROVE x \in assigned'[m] /\ m \in DOMAIN assigned'
      BY <1>2, <1>3, <3>2
    <3> QED BY <2>1, <3>1, <3>2
  <2>4. ASSUME NEW m \in DOMAIN assigned' PROVE assigned'[m] \subseteq Items(all)
    BY <1>2, <1>3, <2>1
  <2> QED BY <2>3, <2>4
<1>6. Divided'
  <2>1. UNION {assigned[m] : m \in DOMAIN assigned}' = Target'
    BY <1>1, <1>5 DEF Target, Items
  <2>2. ASSUME NEW m \in Own' PROVE (owned[m].file \in in.bindings /\ assigned[m] = Items(Covered(m)))'
    <3>1. m \in B
      BY <1>1, <1>2 DEF Own
    <3> QED BY <1>1, <1>2, <1>3, <3>1 DEF Items, Covered
  <2> QED BY <2>1, <2>2 DEF Divided
<1>7. Searched' /\ Owners'
  BY <1>1, SearchedStays DEF IInv, Owners, Words
<1> QED BY <1>1, <1>6, <1>7 DEF IInv, Chosen, CoveredBy, Covered, Cut, Kept, Named

LEMMA LateSteps ==
  ASSUME IInv, UNCHANGED <<in, opt, root, pending, configs, owned, items, all, assigned>>,
         stage' = stage \/ (stage \in {"name", "mount"} /\ stage' \in {"mount", "done"}),
         Named'
  PROVE  IInv'
<1>1. Searched' /\ Owners'
  BY SearchedStays DEF IInv, Owners, Words
<1>2. Chosen' /\ Cut'
  BY DEF IInv, Chosen, CoveredBy, Covered, Cut, Kept
<1>3. Divided'
  BY DEF IInv, Divided, Target, Items, Own, Covered
<1> QED BY <1>1, <1>2, <1>3 DEF IInv

\* A name depends on the target alone.
LEMMA SameNames ==
  ASSUME UNCHANGED <<items, all>>, NEW full \in SUBSET Target
  PROVE  Target' = Target /\ \A j : InterfaceName(j, j \in full)' = InterfaceName(j, j \in full)
BY DEF InterfaceName, Packages, Versions, Alike, PackageWords, Target, Items

LEMMA NextKeeps == IInv /\ [Next]_vars => IInv'
<1> SUFFICES ASSUME IInv, [Next]_vars PROVE IInv'
  OBVIOUS
<1>1. CASE Name
  <2>1. PICK full \in SUBSET Target : names' = [j \in Target |-> InterfaceName(j, j \in full)]
    BY <1>1 DEF Name
  <2>2. UNCHANGED <<items, all>>
    BY <1>1 DEF Name
  <2>3. Named'
    BY <2>1, <2>2, SameNames DEF Named
  <2> QED BY <1>1, <2>3, LateSteps DEF Name
<1>2. CASE Mount
  <2>1. PICK full \in SUBSET Target : names = [j \in Target |-> InterfaceName(j, j \in full)]
    BY <1>2 DEF Mount, IInv, Named
  <2>2. UNCHANGED <<items, all, names>>
    BY <1>2 DEF Mount
  <2>3. Named'
    BY <2>1, <2>2, SameNames DEF Named
  <2> QED BY <1>2, <2>3, LateSteps DEF Mount
<1>3. CASE UNCHANGED vars
  <2>1. /\ UNCHANGED <<in, opt, root, pending, configs, owned, items, all, assigned>>
        /\ stage' = stage /\ names' = names
    BY <1>3 DEF vars
  <2>2. Named'
    <3> SUFFICES ASSUME stage \in {"mount", "done"} PROVE Named'
      BY <2>1 DEF Named
    <3>1. PICK full \in SUBSET Target : names = [j \in Target |-> InterfaceName(j, j \in full)]
      BY DEF IInv, Named
    <3> QED BY <2>1, <3>1, SameNames DEF Named
  <2> QED BY <2>1, <2>2, LateSteps
<1> QED BY <1>1, <1>2, <1>3, VisitStep, SearchStep, OrderStep, SelectStep, IntersectStep, SplitStep
        DEF Next, Resting

LEMMA Invariance == Spec => []IInv
BY InitHolds, NextKeeps, PTL DEF Spec

-----------------------------------------------------------------------------
(* The theorems.                                                           *)

\* For any tree, worlds and options: the target is the documented intersection, and
\* the split over modules loses no item of it and adds none (ComponentGenerator::generate).
THEOREM SplitIsComplete == Spec => []EveryItemAssigned
<1>1. IInv => EveryItemAssigned
  <2> SUFFICES ASSUME IInv, stage \in {"mount", "done"} PROVE EveryItemAssigned
    BY DEF EveryItemAssigned
  <2>1. /\ UNION {assigned[m] : m \in DOMAIN assigned} = Target
        /\ \A m \in Own : owned[m].file \in in.bindings /\ assigned[m] = Items(Covered(m))
    BY DEF IInv, Divided
  <2>2. /\ all \subseteq Worlds
        /\ items = [w \in Worlds |-> IF opt.intersect # {} /\ w \in all THEN World[w] \cap Kept ELSE World[w]]
    BY DEF IInv, Chosen, Cut
  <2>3. Target = (UNION {World[w] : w \in all})
                   \cap (UNION {World[w] : w \in IF opt.intersect = {} THEN Worlds ELSE opt.intersect})
    <3>1. ASSUME NEW w \in all PROVE items[w] = IF opt.intersect = {} THEN World[w] ELSE World[w] \cap Kept
      BY <2>2
    <3>2. CASE opt.intersect = {}
      <4>1. Target = UNION {World[w] : w \in all}
        <5>1. Target = UNION {items[w] : w \in all}
          BY Zenon DEF Target, Items
        <5>2. \A w \in all : items[w] = World[w]
          BY <3>1, <3>2
        <5> QED BY <5>1, <5>2
      <4>2. UNION {World[w] : w \in all} \subseteq UNION {World[w] : w \in Worlds}
        BY <2>2
      <4>3. Target = (UNION {World[w] : w \in all}) \cap (UNION {World[w] : w \in Worlds})
        BY <4>1, <4>2, Zenon
      <4> QED BY <3>2, <4>3
    <3>3. CASE opt.intersect # {}
      <4>1. ASSUME NEW x PROVE x \in Target <=> \E w \in all : x \in World[w] /\ x \in Kept
        <5>1. x \in Target <=> \E w \in all : x \in items[w]
          BY Zenon DEF Target, Items
        <5>2. \A w \in all : x \in items[w] <=> x \in World[w] /\ x \in Kept
          BY <3>1, <3>3
        <5> QED BY <5>1, <5>2, Zenon
      <4>2. Target = (UNION {World[w] : w \in all}) \cap Kept
        BY <4>1
      <4> QED BY <3>3, <4>2 DEF Kept
    <3> QED BY <3>2, <3>3
  <2> QED BY <2>1, <2>3 DEF EveryItemAssigned
<1> QED BY <1>1, Invariance, PTL

\* The items of the target are interfaces.
LEMMA TargetIsKnown ==
  ASSUME IInv, stage \in {"mount", "done"}
  PROVE  Target \subseteq DOMAIN Info /\ IsFiniteSet(Target)
<1>1. /\ all \subseteq Worlds
      /\ items = [w \in Worlds |-> IF opt.intersect # {} /\ w \in all THEN World[w] \cap Kept ELSE World[w]]
  BY DEF IInv, Chosen, Cut
<1>2. \A w \in all : items[w] \subseteq DOMAIN Info
  BY <1>1, InfoAssumption
<1>3. Target \subseteq DOMAIN Info
  BY <1>2 DEF Target, Items
<1> QED BY <1>3, InfoAssumption, FS_Subset

\* Two packages that use a name, and two versions of one package's interface, are seen.
LEMMA TwoElements ==
  ASSUME NEW S, IsFiniteSet(S), NEW a \in S, NEW b \in S, a # b
  PROVE  Cardinality(S) > 1
<1>1. Cardinality(S) # 0
  BY FS_EmptySet
<1>2. Cardinality(S) # 1
  <2>1. ASSUME NEW x PROVE S # {x}
    OBVIOUS
  <2> QED BY <2>1, FS_Singleton
<1> QED BY <1>1, <1>2, FS_CardinalityType

LEMMA PackagesAreSeen ==
  ASSUME Target \subseteq DOMAIN Info, IsFiniteSet(Target), NEW j \in Target, NEW k \in Alike(j),
         Info[j].package # Info[k].package
  PROVE  Cardinality(Packages(j)) > 1 /\ Cardinality(Packages(k)) > 1
<1> DEFINE K == Alike(j)
           f == [i \in K |-> Info[i].package]
<1>1. IsFiniteSet(K) /\ j \in K /\ k \in K /\ Alike(k) = K
  BY FS_Subset DEF Alike
<1>2. Packages(j) = {f[i] : i \in K} /\ Packages(k) = Packages(j)
  BY <1>1 DEF Packages
<1>3. f \in Surjection(K, Packages(j))
  BY <1>2 DEF Surjection
<1>4. f[j] # f[k] /\ f[j] \in Packages(j) /\ f[k] \in Packages(j)
  BY <1>1, <1>2
<1> HIDE DEF K, f
<1>5. IsFiniteSet(Packages(j))
  BY <1>1, <1>3, FS_Surjection
<1> QED BY <1>2, <1>4, <1>5, TwoElements

LEMMA VersionsAreSeen ==
  ASSUME Target \subseteq DOMAIN Info, IsFiniteSet(Target), NEW j \in Target, NEW k \in Alike(j), j # k,
         Info[j].package = Info[k].package
  PROVE  Cardinality(Versions(j)) > 1 /\ Cardinality(Versions(k)) > 1
<1> DEFINE K == Versions(j)
<1>1. IsFiniteSet(K) /\ j \in K /\ k \in K /\ Versions(k) = K
  BY FS_Subset DEF Alike, Versions
<1>2. Cardinality(K) > 1
  <2> HIDE DEF K
  <2> QED BY <1>1, TwoElements
<1> QED BY <1>1, <1>2

\* How joined words are taken apart.
LEMMA JoinedAlike ==
  \A p, q, n, m \in Seq(STRING) : p \o n = q \o m => IsPrefix(p, q) \/ IsPrefix(q, p)
<1> SUFFICES ASSUME NEW p \in Seq(STRING), NEW q \in Seq(STRING),
                    NEW n \in Seq(STRING), NEW m \in Seq(STRING), p \o n = q \o m
             PROVE  IsPrefix(p, q) \/ IsPrefix(q, p)
  OBVIOUS
<1>1. /\ Len(p) \in Nat /\ Len(q) \in Nat
      /\ \A i \in 1 .. Len(p) : p[i] = (p \o n)[i]
      /\ \A i \in 1 .. Len(q) : q[i] = (q \o m)[i]
  BY ConcatProperties, LenProperties
<1>2. \A i \in 1 .. Len(p) : i \in 1 .. Len(q) => p[i] = q[i]
  BY <1>1
<1>3. CASE Len(p) <= Len(q)
  BY <1>1, <1>2, <1>3 DEF IsPrefix
<1>4. CASE Len(q) <= Len(p)
  BY <1>1, <1>2, <1>4 DEF IsPrefix
<1> QED BY <1>1, <1>3, <1>4

LEMMA Begins == \A p, n \in Seq(STRING) : IsPrefix(p, p \o n)
<1> SUFFICES ASSUME NEW p \in Seq(STRING), NEW n \in Seq(STRING) PROVE IsPrefix(p, p \o n)
  OBVIOUS
<1>1. Len(p) \in Nat /\ Len(n) \in Nat /\ Len(p \o n) = Len(p) + Len(n) /\ p \o n \in Seq(STRING)
  BY ConcatProperties, LenProperties
<1>2. \A i \in 1 .. Len(p) : p[i] = (p \o n)[i]
  BY ConcatProperties
<1> QED BY <1>1, <1>2 DEF IsPrefix

LEMMA Follows ==
  \A n, v \in Seq(STRING) : v # <<>> => Head(v) \in Range(n \o v)
<1> SUFFICES ASSUME NEW n \in Seq(STRING), NEW v \in Seq(STRING), v # <<>>
             PROVE  Head(v) \in Range(n \o v)
  OBVIOUS
<1>1. Len(n) + 1 \in DOMAIN (n \o v) /\ (n \o v)[Len(n) + 1] = Head(v)
  OBVIOUS
<1> QED BY <1>1 DEF Range

LEMMA Parted ==
  \A n, m, v, w \in Seq(STRING) :
    n \o v = m \o w /\ v # <<>> /\ w # <<>> /\ Head(v) \notin Range(m) /\ Head(w) \notin Range(n)
      => n = m /\ v = w
<1> SUFFICES ASSUME NEW n \in Seq(STRING), NEW m \in Seq(STRING),
                    NEW v \in Seq(STRING), NEW w \in Seq(STRING),
                    n \o v = m \o w, v # <<>>, w # <<>>,
                    Head(v) \notin Range(m), Head(w) \notin Range(n)
             PROVE  n = m /\ v = w
  OBVIOUS
<1>1. /\ Len(n) \in Nat /\ Len(m) \in Nat
      /\ \A i \in 1 .. Len(n) : n[i] = (n \o v)[i]
      /\ \A i \in 1 .. Len(m) : m[i] = (m \o w)[i]
      /\ (n \o v)[Len(n) + 1] = Head(v) /\ (m \o w)[Len(m) + 1] = Head(w)
  OBVIOUS
<1>2. ~(Len(n) < Len(m))
  <2> SUFFICES ASSUME Len(n) < Len(m) PROVE FALSE
    OBVIOUS
  <2>1. Len(n) + 1 \in DOMAIN m /\ m[Len(n) + 1] = Head(v)
    BY <1>1
  <2> QED BY <2>1 DEF Range
<1>3. ~(Len(m) < Len(n))
  <2> SUFFICES ASSUME Len(m) < Len(n) PROVE FALSE
    OBVIOUS
  <2>1. Len(m) + 1 \in DOMAIN n /\ n[Len(m) + 1] = Head(w)
    BY <1>1
  <2> QED BY <2>1 DEF Range
<1>4. n = m
  <2>1. Len(n) = Len(m) /\ \A i \in 1 .. Len(n) : n[i] = m[i]
    BY <1>1, <1>2, <1>3
  <2> QED BY <2>1, SeqEqual
<1> QED BY <1>4, ConcatSimplifications

LEMMA SameStart ==
  \A p, n, m \in Seq(STRING) : p \o n = p \o m => n = m
BY ConcatSimplifications

\* The three forms of a name.
Plain(name, j) ==
  /\ name = Info[j].name
  /\ Info[j].version # <<>> => ~(Cardinality(Versions(j)) > 1)
  /\ Info[j].package # <<>> => ~(Cardinality(Packages(j)) > 1)
Qualified(name, j) ==
  /\ Info[j].package # <<>> /\ name = PackageWords(j) \o Info[j].name
  /\ Info[j].version # <<>> => ~(Cardinality(Versions(j)) > 1)
Versioned(name, j) ==
  /\ Info[j].package # <<>> /\ Info[j].version # <<>>
  /\ name = PackageWords(j) \o (Info[j].name \o Info[j].version)

LEMMA InfoTypes ==
  ASSUME NEW j \in DOMAIN Info
  PROVE  /\ Info[j].name \in Seq(STRING) /\ Info[j].version \in Seq(STRING)
         /\ Info[j].name \o Info[j].version \in Seq(STRING)
         /\ Info[j].package # <<>> => PackageWords(j) \in Seq(STRING)
         /\ Info[j].package = <<>> => Info[j].version = <<>>
<1>1. IsInfo(Info[j])
  BY InfoAssumption
<1>2. Info[j].name \in Seq(STRING) /\ Info[j].version \in Seq(STRING)
  BY <1>1 DEF IsInfo
<1>3. ASSUME Info[j].package # <<>> PROVE PackageWords(j) \in Seq(STRING)
  <2>1. Info[j].package[1] \in Seq(STRING) /\ Info[j].package[2] \in Seq(STRING)
    BY <1>1, <1>3 DEF IsInfo
  <2> QED BY <2>1, ConcatProperties DEF PackageWords
<1>4. Info[j].package = <<>> => Info[j].version = <<>>
  <2>1. ASSUME Info[j].package \in Seq(STRING) \X Seq(STRING) PROVE Info[j].package # <<>>
    <3>1. DOMAIN Info[j].package = {1, 2}
      BY <2>1
    <3> QED BY <3>1, EmptyDomain
  <2> QED BY <1>1, <2>1 DEF IsInfo
<1> QED BY <1>2, <1>3, <1>4, ConcatProperties

LEMMA NameForms ==
  ASSUME NEW j \in DOMAIN Info, NEW full, NEW name, name = InterfaceName(j, j \in full)
  PROVE  Plain(name, j) \/ Qualified(name, j) \/ Versioned(name, j)
<1> DEFINE n == Info[j].name
           v == Info[j].version
<1>1. Info[j].package # <<>> => (PackageWords(j) \o n) \o v = PackageWords(j) \o (n \o v)
  <2> DEFINE p == PackageWords(j)
  <2>1. n \in Seq(STRING) /\ v \in Seq(STRING) /\ (Info[j].package # <<>> => p \in Seq(STRING))
    BY InfoTypes
  <2> HIDE DEF n, v, p
  <2>2. p \in Seq(STRING) => (p \o n) \o v = p \o (n \o v)
    BY <2>1, ConcatAssociative
  <2> QED BY <2>1, <2>2 DEF p
<1>2. name = IF Info[j].package = <<>> THEN n
             ELSE IF v # <<>> /\ (j \in full \/ Cardinality(Versions(j)) > 1) THEN (PackageWords(j) \o n) \o v
             ELSE IF j \in full \/ Cardinality(Packages(j)) > 1 THEN PackageWords(j) \o n
             ELSE n
  BY DEF InterfaceName
<1>3. Info[j].package = <<>> => v = <<>>
  BY InfoTypes
<1> QED BY <1>1, <1>2, <1>3, Zenon DEF Plain, Qualified, Versioned

\* For any target and any choice of full names, two interfaces of a side get two Python
\* modules (interface_names), if the words of the target can be taken apart.
THEOREM NamesAreUnambiguous == Spec => []NamesAreDistinct
<1>1. IInv => NamesAreDistinct
  <2> SUFFICES ASSUME IInv, stage = "done", Legible, NEW j \in Target, NEW k \in Target, j # k,
                      Info[j].side = Info[k].side, names[j] = names[k]
               PROVE  FALSE
    BY DEF NamesAreDistinct
  <2>1. Target \subseteq DOMAIN Info /\ IsFiniteSet(Target)
    BY TargetIsKnown
  <2>2. PICK full \in SUBSET Target : names = [i \in Target |-> InterfaceName(i, i \in full)]
    BY DEF IInv, Named
  <2> DEFINE a == Info[j]
             b == Info[k]
             name == names[j]
  <2>3. /\ a.name \in Seq(STRING) /\ a.version \in Seq(STRING) /\ a.name \o a.version \in Seq(STRING)
        /\ b.name \in Seq(STRING) /\ b.version \in Seq(STRING) /\ b.name \o b.version \in Seq(STRING)
        /\ a.package # <<>> => PackageWords(j) \in Seq(STRING)
        /\ b.package # <<>> => PackageWords(k) \in Seq(STRING)
    BY <2>1, InfoTypes
  <2>4. /\ a.package # <<>> => ~IsPrefix(PackageWords(j), b.name)
        /\ b.package # <<>> => ~IsPrefix(PackageWords(k), a.name)
        /\ a.package # <<>> /\ b.package # <<>> /\ a.package # b.package
             => ~IsPrefix(PackageWords(j), PackageWords(k)) /\ ~IsPrefix(PackageWords(k), PackageWords(j))
        /\ a.version # <<>> => Head(a.version) \notin Range(b.name)
        /\ b.version # <<>> => Head(b.version) \notin Range(a.name)
        /\ a.package = b.package /\ a.name = b.name => a.version # b.version
    BY DEF Legible
  <2>5. a.package = b.package /\ a.package # <<>> => PackageWords(j) = PackageWords(k)
    BY DEF PackageWords
  <2>6. /\ a.package = <<>> => a.version = <<>>
        /\ b.package = <<>> => b.version = <<>>
    BY <2>1, InfoTypes
  <2>7. a.name = b.name =>
          /\ a.package = b.package => /\ Cardinality(Versions(j)) > 1 /\ Cardinality(Versions(k)) > 1
          /\ a.package # b.package => /\ Cardinality(Packages(j)) > 1 /\ Cardinality(Packages(k)) > 1
    <3> SUFFICES ASSUME a.name = b.name PROVE
          /\ a.package = b.package => /\ Cardinality(Versions(j)) > 1 /\ Cardinality(Versions(k)) > 1
          /\ a.package # b.package => /\ Cardinality(Packages(j)) > 1 /\ Cardinality(Packages(k)) > 1
      OBVIOUS
    <3>1. k \in Alike(j)
      BY DEF Alike
    <3> QED BY <2>1, <3>1, VersionsAreSeen, PackagesAreSeen
  <2>8. /\ Plain(name, j) \/ Qualified(name, j) \/ Versioned(name, j)
        /\ Plain(name, k) \/ Qualified(name, k) \/ Versioned(name, k)
    <3>1. name = InterfaceName(j, j \in full) /\ name = InterfaceName(k, k \in full)
      BY <2>2
    <3> HIDE DEF name
    <3>2. Plain(name, j) \/ Qualified(name, j) \/ Versioned(name, j)
      BY <2>1, <3>1, NameForms, Zenon
    <3>3. Plain(name, k) \/ Qualified(name, k) \/ Versioned(name, k)
      BY <2>1, <3>1, NameForms, Zenon
    <3> QED BY <3>2, <3>3
  <2> DEFINE pj == PackageWords(j)
             pk == PackageWords(k)
             Long(p, n, v) == name = p \o n \/ name = p \o (n \o v)
  <2>9. /\ Plain(name, j) => name = a.name /\ (a.version # <<>> => ~(Cardinality(Versions(j)) > 1))
                             /\ (a.package # <<>> => ~(Cardinality(Packages(j)) > 1))
        /\ Plain(name, k) => name = b.name /\ (b.version # <<>> => ~(Cardinality(Versions(k)) > 1))
                             /\ (b.package # <<>> => ~(Cardinality(Packages(k)) > 1))
        /\ Qualified(name, j) => name = pj \o a.name /\ a.package # <<>>
                                 /\ (a.version # <<>> => ~(Cardinality(Versions(j)) > 1))
        /\ Qualified(name, k) => name = pk \o b.name /\ b.package # <<>>
                                 /\ (b.version # <<>> => ~(Cardinality(Versions(k)) > 1))
        /\ Versioned(name, j) => name = pj \o (a.name \o a.version) /\ a.package # <<>> /\ a.version # <<>>
        /\ Versioned(name, k) => name = pk \o (b.name \o b.version) /\ b.package # <<>> /\ b.version # <<>>
    BY DEF Plain, Qualified, Versioned
  <2> HIDE DEF a, b, name, pj, pk
  \* A short name is no qualified one.
  <2>10. ASSUME a.package # <<>>, Long(pj, a.name, a.version) PROVE name # b.name
    <3>1. IsPrefix(pj, name)
      BY <2>3, <2>10, Begins DEF pj
    <3> QED BY <2>4, <2>10, <3>1 DEF pj
  <2>11. ASSUME b.package # <<>>, Long(pk, b.name, b.version) PROVE name # a.name
    <3>1. IsPrefix(pk, name)
      BY <2>3, <2>11, Begins DEF pk
    <3> QED BY <2>4, <2>11, <3>1 DEF pk
  \* Two qualified names with the same words are of one package.
  <2>12. ASSUME a.package # <<>>, b.package # <<>>, NEW r \in Seq(STRING), NEW s \in Seq(STRING),
                pj \o r = pk \o s
         PROVE  a.package = b.package /\ r = s
    <3>1. pj \in Seq(STRING) /\ pk \in Seq(STRING)
      BY <2>3, <2>12 DEF pj, pk
    <3>2. IsPrefix(pj, pk) \/ IsPrefix(pk, pj)
      BY <2>12, <3>1, JoinedAlike, Zenon
    <3>3. a.package = b.package
      BY <2>4, <2>12, <3>2 DEF pj, pk
    <3>4. pj = pk
      BY <2>5, <2>12, <3>3 DEF pj, pk
    <3>5. r = s
      BY <2>12, <3>1, <3>4, SameStart, Zenon
    <3> QED BY <3>3, <3>5
  <2>13. ~(Plain(name, j) /\ Plain(name, k))
    BY <2>4, <2>6, <2>7, <2>9, Zenon
  <2>14. ~(Plain(name, j) /\ (Qualified(name, k) \/ Versioned(name, k)))
    BY <2>9, <2>11
  <2>15. ~(Plain(name, k) /\ (Qualified(name, j) \/ Versioned(name, j)))
    BY <2>9, <2>10
  <2>16. ~(Qualified(name, j) /\ Qualified(name, k))
    <3> SUFFICES ASSUME Qualified(name, j), Qualified(name, k) PROVE FALSE
      OBVIOUS
    <3>1. a.package = b.package /\ a.name = b.name
      BY <2>3, <2>9, <2>12
    <3> QED BY <2>4, <2>7, <2>9, <3>1
  <2>17. ~(Qualified(name, j) /\ Versioned(name, k))
    <3> SUFFICES ASSUME Qualified(name, j), Versioned(name, k) PROVE FALSE
      OBVIOUS
    <3>1. a.name = b.name \o b.version /\ b.version # <<>>
      BY <2>3, <2>9, <2>12
    <3>2. Head(b.version) \in Range(a.name)
      BY <2>3, <3>1, Follows
    <3> QED BY <2>4, <3>1, <3>2
  <2>18. ~(Versioned(name, j) /\ Qualified(name, k))
    <3> SUFFICES ASSUME Versioned(name, j), Qualified(name, k) PROVE FALSE
      OBVIOUS
    <3>1. b.name = a.name \o a.version /\ a.version # <<>>
      BY <2>3, <2>9, <2>12
    <3>2. Head(a.version) \in Range(b.name)
      BY <2>3, <3>1, Follows
    <3> QED BY <2>4, <3>1, <3>2
  <2>19. ~(Versioned(name, j) /\ Versioned(name, k))
    <3> SUFFICES ASSUME Versioned(name, j), Versioned(name, k) PROVE FALSE
      OBVIOUS
    <3>1. a.package = b.package /\ a.name \o a.version = b.name \o b.version
      BY <2>3, <2>9, <2>12
    <3>2. a.name = b.name /\ a.version = b.version
      BY <2>3, <2>4, <2>9, <3>1, Parted, Zenon
    <3> QED BY <2>4, <3>1, <3>2
  <2> QED BY <2>8, <2>13, <2>14, <2>15, <2>16, <2>17, <2>18, <2>19
<1> QED BY <1>1, Invariance, PTL

-----------------------------------------------------------------------------
(* Where a file is held.                                                   *)

Roots == in.roots

LEMMA RootTypes ==
  ASSUME IsInput(in)
  PROVE  /\ Len(Roots) \in Nat /\ DOMAIN Roots = 1 .. Len(Roots)
         /\ \A i \in DOMAIN Roots : Roots[i] \in Seq(STRING) /\ Len(Roots[i]) \in Nat
         /\ \A f \in in.files : f \in Seq(STRING) /\ Len(f) \in Nat
<1>1. Roots \in Seq(Seq(STRING)) /\ in.files \subseteq Seq(STRING)
  BY DEF IsInput, Roots
<1>2. Len(Roots) \in Nat /\ DOMAIN Roots = 1 .. Len(Roots)
  BY <1>1, LenProperties
<1>3. \A i \in DOMAIN Roots : Roots[i] \in Seq(STRING)
  BY <1>1, <1>2, ElementOfSeq
<1> QED BY <1>1, <1>2, <1>3, LenProperties

\* Two directories that hold a file are one if they are as deep, else one is inside
\* the other.
LEMMA HoldersNest ==
  ASSUME IsInput(in), NEW f \in in.files, NEW i \in Holders(f), NEW j \in Holders(f),
         Roots[i] # Roots[j]
  PROVE  Len(Roots[i]) # Len(Roots[j]) /\ Nested
<1>1. /\ i \in DOMAIN Roots /\ j \in DOMAIN Roots
      /\ IsPrefix(Roots[i], f) /\ IsPrefix(Roots[j], f)
  BY DEF Holders, Roots
<1> DEFINE p == Roots[i]
           q == Roots[j]
<1>2. /\ p \in Seq(STRING) /\ q \in Seq(STRING) /\ f \in Seq(STRING)
      /\ Len(p) \in Nat /\ Len(q) \in Nat /\ Len(f) \in Nat
  BY <1>1, RootTypes
<1>3. /\ Len(p) <= Len(f) /\ SubSeq(p, 1, Len(p)) = SubSeq(f, 1, Len(p))
      /\ Len(q) <= Len(f) /\ SubSeq(q, 1, Len(q)) = SubSeq(f, 1, Len(q))
  BY <1>1 DEF IsPrefix
<1> HIDE DEF p, q
<1>4. \A n \in 1 .. Len(p) : p[n] = f[n]
  <2> SUFFICES ASSUME NEW n \in 1 .. Len(p) PROVE p[n] = f[n]
    OBVIOUS
  <2>1. SubSeq(p, 1, Len(p))[n] = p[n] /\ SubSeq(f, 1, Len(p))[n] = f[n]
    BY <1>2, <1>3
  <2> QED BY <1>3, <2>1
<1>5. \A n \in 1 .. Len(q) : q[n] = f[n]
  <2> SUFFICES ASSUME NEW n \in 1 .. Len(q) PROVE q[n] = f[n]
    OBVIOUS
  <2>1. SubSeq(q, 1, Len(q))[n] = q[n] /\ SubSeq(f, 1, Len(q))[n] = f[n]
    BY <1>2, <1>3
  <2> QED BY <1>3, <2>1
<1>6. Len(p) # Len(q)
  <2> SUFFICES ASSUME Len(p) = Len(q) PROVE FALSE
    OBVIOUS
  <2>1. \A n \in 1 .. Len(p) : p[n] = q[n]
    BY <1>4, <1>5
  <2>2. p = q
    BY <1>2, <2>1, SeqEqual
  <2> QED BY <2>2 DEF p, q
<1>7. ASSUME NEW s \in Seq(STRING), NEW t \in Seq(STRING), Len(s) < Len(t),
             \A n \in 1 .. Len(s) : s[n] = f[n], \A n \in 1 .. Len(t) : t[n] = f[n]
      PROVE  IsStrictPrefix(s, t)
  <2>1. Len(s) \in Nat /\ Len(t) \in Nat
    BY <1>7
  <2>2. SubSeq(s, 1, Len(s)) \in Seq(STRING) /\ SubSeq(t, 1, Len(s)) \in Seq(STRING)
        /\ Len(SubSeq(s, 1, Len(s))) = Len(s) /\ Len(SubSeq(t, 1, Len(s))) = Len(s)
    BY <1>7, <2>1
  <2>3. \A n \in 1 .. Len(s) : SubSeq(s, 1, Len(s))[n] = SubSeq(t, 1, Len(s))[n]
    BY <1>7, <2>1
  <2>4. SubSeq(s, 1, Len(s)) = SubSeq(t, 1, Len(s))
    BY <2>2, <2>3, SeqEqual
  <2> QED BY <1>7, <2>1, <2>4 DEF IsPrefix, IsStrictPrefix
<1>8. CASE Len(p) < Len(q)
  <2>1. IsStrictPrefix(p, q)
    BY <1>2, <1>4, <1>5, <1>7, <1>8
  <2> QED BY <1>1, <1>6, <2>1 DEF Nested, p, q, Roots
<1>9. CASE Len(q) < Len(p)
  <2>1. IsStrictPrefix(q, p)
    BY <1>2, <1>4, <1>5, <1>7, <1>9
  <2> QED BY <1>1, <1>6, <2>1 DEF Nested, p, q, Roots
<1> QED BY <1>2, <1>6, <1>8, <1>9 DEF p, q

\* A nonempty set of numbers has a least one.
LEMMA LeastNumber ==
  ASSUME NEW T \in SUBSET Nat, T # {} PROVE \E x \in T : \A y \in T : x <= y
<1>1. PICK x \in T : \A y \in T : ~(<<y, x>> \in OpToRel(<, Nat))
  BY NatLessThanWellFounded, WFMin, Zenon
<1>2. \A y \in T : ~(y < x)
  <2> SUFFICES ASSUME NEW y \in T, y < x PROVE FALSE
    OBVIOUS
  <2>1. <<y, x>> \in {ss \in Nat \X Nat : ss[1] < ss[2]}
    OBVIOUS
  <2> QED BY <1>1, <2>1, Zenon DEF OpToRel
<1> QED BY <1>2

LEMMA InnermostHolds ==
  ASSUME IsInput(in), NEW f \in Found
  PROVE  LET i == Innermost(f) IN
         /\ i \in Holders(f)
         /\ \A j \in Holders(f) : Len(Roots[j]) <= Len(Roots[i])
                                  /\ (Roots[j] = Roots[i] => i <= j)
<1>1. f \in in.files /\ Holders(f) # {} /\ Holders(f) \subseteq DOMAIN Roots
  BY DEF Found, Holders, Roots
<1>2. /\ \A i \in Holders(f) : i \in Nat /\ Len(Roots[i]) \in Nat /\ Len(Roots[i]) <= Len(f)
      /\ Len(f) \in Nat
  <2>1. \A i \in Holders(f) : Len(Roots[i]) <= Len(f)
    BY DEF Holders, IsPrefix, Roots
  <2> QED BY <1>1, <2>1, RootTypes
<1> DEFINE T == {Len(f) - Len(Roots[i]) : i \in Holders(f)}
<1>3. PICK x \in T : \A y \in T : x <= y
  <2>1. T \subseteq Nat /\ T # {}
    BY <1>1, <1>2
  <2> HIDE DEF T
  <2> QED BY <2>1, LeastNumber
<1>4. PICK k \in Holders(f) : x = Len(f) - Len(Roots[k])
  OBVIOUS
<1>5. \A j \in Holders(f) : Len(Roots[j]) <= Len(Roots[k])
  <2> SUFFICES ASSUME NEW j \in Holders(f) PROVE Len(Roots[j]) <= Len(Roots[k])
    OBVIOUS
  <2>1. Len(f) - Len(Roots[k]) <= Len(f) - Len(Roots[j])
    BY <1>3, <1>4
  <2> QED BY <1>2, <2>1
<1> HIDE DEF T
<1> DEFINE U == {j \in Holders(f) : Len(Roots[j]) = Len(Roots[k])}
<1>6. PICK i \in U : \A j \in U : i <= j
  <2>1. U \subseteq Nat /\ U # {}
    BY <1>2
  <2> HIDE DEF U
  <2> QED BY <2>1, LeastNumber
<1>7. i \in Holders(f) /\ \A j \in Holders(f) :
        Len(Roots[i]) > Len(Roots[j]) \/ (Len(Roots[i]) = Len(Roots[j]) /\ i <= j)
  BY <1>2, <1>5, <1>6
<1> HIDE DEF U
<1>8. /\ Innermost(f) \in Holders(f)
      /\ \A j \in Holders(f) : \/ Len(Roots[Innermost(f)]) > Len(Roots[j])
                               \/ Len(Roots[Innermost(f)]) = Len(Roots[j]) /\ Innermost(f) <= j
  BY <1>7 DEF Innermost, Roots
<1> DEFINE m == Innermost(f)
<1> HIDE DEF m
<1>9. /\ m \in Holders(f)
      /\ \A j \in Holders(f) : \/ Len(Roots[m]) > Len(Roots[j])
                               \/ Len(Roots[m]) = Len(Roots[j]) /\ m <= j
  BY <1>8 DEF m
<1>10. \A j \in Holders(f) : Len(Roots[j]) <= Len(Roots[m]) /\ (Roots[j] = Roots[m] => m <= j)
  BY <1>2, <1>9
<1> QED BY <1>9, <1>10 DEF m

\* Without nested directories a file has one directory and one name.
LEMMA OneName ==
  ASSUME IsInput(in), ~Nested, NEW f \in Found, NEW i \in Holders(f)
  PROVE  Roots[i] = Roots[Innermost(f)] /\ ModuleName(Roots[i], f) = Module(f)
         /\ Innermost(f) <= i
<1>1. Innermost(f) \in Holders(f) /\ f \in in.files
  BY InnermostHolds DEF Found
<1>2. Roots[i] = Roots[Innermost(f)]
  BY <1>1, HoldersNest
<1> QED BY <1>2, InnermostHolds DEF Module, Roots

-----------------------------------------------------------------------------
(* What the search has found so far.                                       *)

\* The directories under which a file has been visited.
Reached(f) == {i \in Holders(f) : i < root \/ (i = root /\ f \notin pending)}

\* A configuration is of its file's deepest directory so far.
Traced ==
  \A n \in DOMAIN configs :
    LET c == configs[n] IN
    /\ c.file \in Found /\ c.module = ModuleName(c.root, c.file)
    /\ \E i \in Reached(c.file) :
         c.root = Roots[i] /\ \A j \in Reached(c.file) : Len(Roots[j]) <= Len(Roots[i])

Once == \A n, k \in DOMAIN configs : configs[n].file = configs[k].file => n = k

\* Only files that are wanted have one, and what has none gives way to one that has.
Right == \A n \in DOMAIN configs : configs[n].file \in Wanted
Supplanted(f) ==
  \E n \in DOMAIN configs :
    LET g == configs[n].file
    IN  g = f \/ (Module(g) = Module(f) /\ Innermost(g) < Innermost(f))
Complete == \A f \in Found : Reached(f) # {} => Supplanted(f)

\* A module has a name: its files are below its directory.
Below == \A n \in DOMAIN configs : Len(configs[n].root) < Len(configs[n].file)

Sought ==
  /\ stage = "order" => root = Len(in.roots) /\ pending = {}
  /\ Below
  /\ stage \in {"search", "order"} /\ Clear => Traced /\ Once /\ Right /\ Complete

LEMMA ConfigTypes ==
  ASSUME IInv
  PROVE  /\ configs \in Seq(Configs) /\ Len(configs) \in Nat
         /\ DOMAIN configs = 1 .. Len(configs)
         /\ IsInput(in) /\ root \in DOMAIN Roots /\ pending \subseteq in.files
BY InputsAssumption, LenProperties DEF IInv, Searched, Files, Roots

LEMMA InitSeeks == Init => Sought
<1> SUFFICES ASSUME Init PROVE Sought
  OBVIOUS
<1>1. stage = "search" /\ root = 1 /\ pending = Files(1) /\ configs = <<>>
  BY DEF Init
<1>2. DOMAIN configs = {}
  BY <1>1, EmptyDomain
<1>3. IsInput(in)
  BY InitHolds, ConfigTypes
<1>4. \A f \in Found : Reached(f) = {}
  <2> SUFFICES ASSUME NEW f \in Found, NEW i \in Reached(f) PROVE FALSE
    OBVIOUS
  <2>1. i \in DOMAIN Roots /\ i \in 1 .. Len(Roots) /\ f \in in.files
    BY <1>3, RootTypes DEF Reached, Holders, Found, Roots
  <2>2. i = 1 /\ f \notin Files(1)
    BY <1>1, <2>1 DEF Reached
  <2> QED BY <2>1, <2>2 DEF Reached, Holders, Files
<1> QED BY <1>1, <1>2, <1>4 DEF Sought, Below, Traced, Once, Right, Complete

LEMMA NextRootSeeks == IInv /\ Sought /\ NextRoot => Sought'
<1> SUFFICES ASSUME IInv, Sought, NextRoot PROVE Sought'
  OBVIOUS
<1>1. /\ stage = "search" /\ pending = {} /\ UNCHANGED <<in, configs>>
      /\ \/ root' = root + 1 /\ pending' = Files(root') /\ stage' = "search"
         \/ UNCHANGED <<root, pending>> /\ stage' = "order" /\ ~(root < Len(in.roots))
  BY DEF NextRoot, Files
<1>2. root \in Nat /\ Len(Roots) \in Nat /\ root \in 1 .. Len(Roots)
      /\ \A f : Holders(f) \subseteq Nat
  BY ConfigTypes, RootTypes DEF Holders, Roots
<1>3. stage' = "order" => root' = Len(in'.roots) /\ pending' = {}
  BY <1>1, <1>2 DEF Roots
<1>4. /\ Found' = Found /\ Wanted' = Wanted /\ Clear' = Clear
      /\ \A f : /\ Holders(f)' = Holders(f) /\ Module(f)' = Module(f)
                /\ Innermost(f)' = Innermost(f)
  BY <1>1 DEF Found, Wanted, Clear, Holders, Module, Innermost, Nested, Duplicate
<1>5. \A f \in Found : Reached(f)' = Reached(f)
  <2> SUFFICES ASSUME NEW f \in Found, NEW i \in Holders(f)
               PROVE  (i < root' \/ (i = root' /\ f \notin pending'))
                        = (i < root \/ (i = root /\ f \notin pending))
    BY <1>4 DEF Reached
  <2>1. CASE UNCHANGED <<root, pending>>
    BY <2>1
  <2>2. CASE root' = root + 1 /\ pending' = Files(root')
    <3>1. f \in Files(i)
      BY DEF Found, Holders, Files
    <3>2. i = root' => f \in pending'
      BY <2>2, <3>1
    <3> QED BY <1>1, <1>2, <2>2, <3>2
  <2> QED BY <1>1, <2>1, <2>2
<1>6. ASSUME Clear PROVE (Traced /\ Once /\ Right /\ Complete)'
  <2>1. Traced /\ Once /\ Right /\ Complete
    BY <1>1, <1>6 DEF Sought
  <2>2. Traced'
    BY <1>1, <1>4, <1>5, <2>1 DEF Traced, Roots
  <2>3. Once' /\ Right' /\ Complete'
    BY <1>1, <1>4, <1>5, <2>1 DEF Once, Right, Complete, Supplanted
  <2> QED BY <2>2, <2>3
<1>7. Below'
  BY <1>1 DEF Sought, Below
<1> QED BY <1>3, <1>4, <1>6, <1>7 DEF Sought

\* What the visit of a file f does: it appends a configuration, moves the one that f
\* has to a deeper directory, or leaves them, if another file has f's module.
LEMMA VisitCases ==
  ASSUME IInv, NEW f \in in.files, Visit(f), stage' # "error"
  PROVE  LET dir == Roots[root]
             m == ModuleName(dir, f)
         IN  \/ /\ \A n \in DOMAIN configs : configs[n].file # f /\ configs[n].module # m
                /\ configs' = Append(configs, [module |-> m, root |-> dir, file |-> f])
             \/ \E n \in DOMAIN configs :
                  /\ configs[n].file = f
                  /\ configs' = IF Deeper(dir, configs[n].root)
                                  THEN [configs EXCEPT ![n] = Reown(@, dir)] ELSE configs
             \/ \E n \in DOMAIN configs :
                  configs[n].file # f /\ configs[n].module = m /\ configs' = configs
<1> DEFINE dir == Roots[root]
           m == ModuleName(dir, f)
           Stops(i) == configs[i].file = f \/ m \in SeenAt(m, i) \/ configs[i].module = m
           halts == [i \in DOMAIN configs |-> Stops(i)]
           I == {i \in 1 .. Len(halts) : halts[i]}
           stop == SelectInSeq(halts, LAMBDA b : b)
<1>1. configs \in Seq(Configs) /\ Len(configs) \in Nat /\ DOMAIN configs = 1 .. Len(configs)
  BY ConfigTypes
<1>2. Len(halts) = Len(configs)
  BY <1>1
<1>3. I = {i \in DOMAIN configs : Stops(i)}
  BY <1>1, <1>2
<1>4. stop = IF I # {} THEN Min(I) ELSE 0
  BY DEF SelectInSeq
<1>5. I # {} => stop \in I
  <2> SUFFICES ASSUME I # {} PROVE stop \in I
    OBVIOUS
  <2>1. I \subseteq Nat
    BY <1>1, <1>3
  <2> HIDE DEF I, stop
  <2>2. \E x \in I : \A y \in I : x <= y
    BY <2>1, LeastNumber
  <2>3. Min(I) \in I
    BY <2>2 DEF Min
  <2> QED BY <1>4, <2>3
<1>6. I = {} => stop = 0
  BY <1>4
<1>7. stop = 0 => I = {}
  BY <1>1, <1>3, <1>5
<1>8. \/ /\ stop = 0
         /\ configs' = Append(configs, [module |-> m, root |-> dir, file |-> f])
      \/ /\ stop # 0 /\ configs[stop].file = f
         /\ configs' = IF Deeper(dir, configs[stop].root)
                         THEN [configs EXCEPT ![stop] = Reown(@, dir)] ELSE configs
      \/ /\ stop # 0 /\ configs[stop].file # f /\ m \notin SeenAt(m, stop)
         /\ configs' = configs
  BY DEF Visit, Fail, Roots
<1> HIDE DEF stop, I
<1>9. CASE stop = 0
  <2>1. \A n \in DOMAIN configs : ~Stops(n)
    BY <1>3, <1>7, <1>9
  <2> QED BY <1>8, <1>9, <2>1
<1>10. CASE stop # 0
  <2>1. stop \in DOMAIN configs /\ Stops(stop)
    BY <1>3, <1>5, <1>6, <1>10
  <2> QED BY <1>8, <1>10, <2>1
<1> QED BY <1>9, <1>10

\* A configuration of another file has f's module only where directories are not
\* nested, and then the files' own modules are the same.
LEMMA SameModule ==
  ASSUME IInv, Clear, Traced, NEW f \in Found, NEW i \in Holders(f),
         NEW n \in DOMAIN configs, configs[n].file # f,
         configs[n].module = ModuleName(Roots[i], f)
  PROVE  ~Nested /\ Module(configs[n].file) = Module(f)
<1> DEFINE g == configs[n].file
<1>1. g \in Found /\ IsInput(in)
  BY ConfigTypes DEF Traced
<1>2. PICK j \in Holders(g) : configs[n].module = ModuleName(Roots[j], g)
  BY DEF Traced, Reached
<1>3. ~Nested
  <2> SUFFICES ASSUME Nested PROVE FALSE
    OBVIOUS
  <2>1. \A k \in Holders(g) : ModuleName(Roots[k], g) = ModuleName(Roots[i], f) => g = f
    BY <1>1 DEF Clear, Roots
  <2> QED BY <1>2, <2>1
<1> HIDE DEF g
<1>4. ModuleName(Roots[j], g) = Module(g) /\ ModuleName(Roots[i], f) = Module(f)
  BY <1>1, <1>2, <1>3, OneName
<1> QED BY <1>2, <1>3, <1>4 DEF g

\* No file of f's module is supplanted where no configuration has f or f's name.
LEMMA SupplantedHere ==
  ASSUME IInv, Clear, Traced, NEW f \in Found, NEW i \in Holders(f), NEW h \in Found,
         Module(h) = Module(f), Supplanted(h),
         \A n \in DOMAIN configs : configs[n].file # f /\ configs[n].module # ModuleName(Roots[i], f)
  PROVE  FALSE
<1>1. PICK n \in DOMAIN configs : Module(configs[n].file) = Module(h)
  BY DEF Supplanted
<1> DEFINE g == configs[n].file
<1>2. g \in Found /\ IsInput(in) /\ g # f
  BY ConfigTypes DEF Traced
<1>3. PICK j \in Holders(g) : configs[n].module = ModuleName(Roots[j], g)
  BY DEF Traced, Reached
<1> HIDE DEF g
<1>4. CASE Nested
  <2>1. /\ Innermost(f) \in Holders(f) /\ Innermost(g) \in Holders(g)
        /\ ModuleName(Roots[Innermost(f)], f) = ModuleName(Roots[Innermost(g)], g)
    BY <1>1, <1>2, InnermostHolds DEF Module, Roots, g
  <2> QED BY <1>2, <1>4, <2>1 DEF Clear, Roots
<1>5. CASE ~Nested
  <2>1. ModuleName(Roots[j], g) = Module(g) /\ ModuleName(Roots[i], f) = Module(f)
    BY <1>2, <1>3, <1>5, OneName
  <2> QED BY <1>1, <1>3, <2>1 DEF g
<1> QED BY <1>4, <1>5

LEMMA VisitSeeks == ASSUME IInv, Sought, NEW f \in in.files, Visit(f) PROVE Sought'
<1> DEFINE dir == Roots[root]
           m == ModuleName(dir, f)
<1>1. /\ stage = "search" /\ f \in pending /\ pending' = pending \ {f} /\ UNCHANGED <<in, root>>
      /\ stage' \in {"search", "error"}
  BY DEF Visit, Fail
<1>2. /\ IsInput(in) /\ configs \in Seq(Configs) /\ Len(configs) \in Nat
      /\ DOMAIN configs = 1 .. Len(configs) /\ root \in DOMAIN Roots /\ root \in Nat
  BY ConfigTypes, RootTypes
<1>3. /\ Found' = Found /\ Wanted' = Wanted /\ Clear' = Clear /\ Roots' = Roots
      /\ \A g : /\ Holders(g)' = Holders(g) /\ Module(g)' = Module(g)
                /\ Innermost(g)' = Innermost(g)
  BY <1>1 DEF Found, Wanted, Clear, Holders, Module, Innermost, Nested, Duplicate, Roots
<1>4. root \in Holders(f) /\ f \in Found
  <2>1. f \in Files(root)
    BY <1>1 DEF IInv, Searched
  <2>2. root \in Holders(f)
    BY <1>2, <2>1 DEF Files, Holders, Roots
  <2> QED BY <2>2 DEF Found
<1>5. Reached(f)' = Reached(f) \cup {root} /\ \A g : g # f => Reached(g)' = Reached(g)
  BY <1>1, <1>3, <1>4 DEF Reached
<1>6. ASSUME Clear, stage' # "error" PROVE (Traced /\ Once /\ Right /\ Complete)'
  <2>1. Traced /\ Once /\ Right /\ Complete
    BY <1>1, <1>6 DEF Sought
  <2>2. \/ /\ \A n \in DOMAIN configs : configs[n].file # f /\ configs[n].module # m
           /\ configs' = Append(configs, [module |-> m, root |-> dir, file |-> f])
        \/ \E n \in DOMAIN configs :
             /\ configs[n].file = f
             /\ configs' = IF Deeper(dir, configs[n].root)
                             THEN [configs EXCEPT ![n] = Reown(@, dir)] ELSE configs
        \/ \E n \in DOMAIN configs :
             configs[n].file # f /\ configs[n].module = m /\ configs' = configs
    BY <1>6, VisitCases
  <2>3. CASE /\ \A n \in DOMAIN configs : configs[n].file # f /\ configs[n].module # m
             /\ configs' = Append(configs, [module |-> m, root |-> dir, file |-> f])
    <3> DEFINE c == [module |-> m, root |-> dir, file |-> f]
               k == Len(configs) + 1
    <3>1. /\ DOMAIN configs' = DOMAIN configs \cup {k} /\ k \notin DOMAIN configs
          /\ configs'[k] = c /\ \A n \in DOMAIN configs : configs'[n] = configs[n]
      <4>1. Len(configs') = k /\ DOMAIN configs' = 1 .. k
        BY <1>2, <2>3
      <4>2. \A n \in 1 .. k : n \in 1 .. Len(configs) \/ n = k
        BY <1>2
      <4> QED BY <1>2, <2>3, <4>1, <4>2
    <3>2. c.file = f /\ c.root = dir /\ c.module = m
      OBVIOUS
    <3> HIDE DEF c, k
    <3>3. Reached(f) = {}
      BY <1>4, <1>6, <2>1, <2>3, SupplantedHere DEF Complete
    <3>4. Traced'
      <4>1. ASSUME NEW n \in DOMAIN configs
            PROVE  /\ configs'[n].file \in Found /\ configs'[n].file # f
                   /\ configs'[n].module = ModuleName(configs'[n].root, configs'[n].file)
                   /\ \E i \in Reached(configs'[n].file) : configs'[n].root = Roots[i]
                        /\ \A j \in Reached(configs'[n].file) : Len(Roots[j]) <= Len(Roots[i])
        BY <2>1, <2>3, <3>1 DEF Traced
      <4>2. Reached(f)' = {root} /\ Len(Roots[root]) \in Nat
        BY <1>2, <1>5, <3>3, RootTypes
      <4> QED BY <1>3, <1>4, <1>5, <3>1, <3>2, <4>1, <4>2 DEF Traced
    <3>5. f \in Wanted
      <4> SUFFICES ASSUME NEW g \in Found \ {f}, Module(g) = Module(f)
                   PROVE  Innermost(f) < Innermost(g)
        BY <1>4 DEF Wanted
      <4>1. Innermost(f) \in Holders(f) /\ Innermost(g) \in Holders(g)
        BY <1>2, <1>4, InnermostHolds
      <4>2. ~Nested
        BY <1>4, <1>6, <4>1 DEF Clear, Module
      <4>3. Innermost(f) <= root /\ Innermost(f) \in Nat /\ Innermost(g) \in Nat
        BY <1>2, <1>4, <4>1, <4>2, OneName, RootTypes DEF Holders, Roots
      <4>4. Innermost(g) # Innermost(f)
        BY <1>4, <1>6, <4>1 DEF Clear, Duplicate, Module
      <4>5. ~(Innermost(g) < Innermost(f))
        <5> SUFFICES ASSUME Innermost(g) < Innermost(f) PROVE FALSE
          OBVIOUS
        <5>1. Innermost(g) \in Reached(g)
          BY <1>2, <4>1, <4>3 DEF Reached
        <5>2. Supplanted(g)
          BY <2>1, <5>1 DEF Complete
        <5> QED BY <1>4, <1>6, <2>1, <2>3, <4>2, <5>2, SupplantedHere
      <4> QED BY <4>3, <4>4, <4>5
    <3>6. Once' /\ Right'
      BY <1>3, <2>1, <2>3, <3>1, <3>2, <3>5 DEF Once, Right
    <3>7. Complete'
      <4>1. \A g \in Found : Supplanted(g) => Supplanted(g)'
        BY <1>3, <3>1 DEF Supplanted
      <4>2. Supplanted(f)'
        BY <3>1, <3>2 DEF Supplanted
      <4> QED BY <1>3, <1>5, <2>1, <4>1, <4>2 DEF Complete
    <3> QED BY <3>4, <3>6, <3>7
  <2>4. ASSUME NEW n \in DOMAIN configs, configs[n].file = f,
               configs' = IF Deeper(dir, configs[n].root)
                            THEN [configs EXCEPT ![n] = Reown(@, dir)] ELSE configs
        PROVE  (Traced /\ Once /\ Right /\ Complete)'
    <3>1. DOMAIN configs' = DOMAIN configs /\ \A k \in DOMAIN configs : k # n => configs'[k] = configs[k]
      BY <2>4
    <3>2. /\ configs'[n].file = f
          /\ \/ Deeper(dir, configs[n].root) /\ configs'[n].root = dir /\ configs'[n].module = m
             \/ ~Deeper(dir, configs[n].root) /\ configs'[n] = configs[n]
      <4>1. configs[n] \in Configs
        BY <1>2
      <4>2. CASE Deeper(dir, configs[n].root)
        <5>1. configs'[n] = Reown(configs[n], dir)
          BY <2>4, <4>2
        <5> QED BY <2>4, <4>1, <4>2, <5>1 DEF Reown, Configs
      <4>3. CASE ~Deeper(dir, configs[n].root)
        BY <2>4, <4>3
      <4> QED BY <4>2, <4>3
    <3>3. \A k \in DOMAIN configs : k # n => configs[k].file # f
      BY <2>1, <2>4 DEF Once
    <3>4. \A k \in DOMAIN configs : configs'[k].file = configs[k].file
      BY <2>4, <3>1, <3>2
    <3>5. Once' /\ Right'
      BY <1>3, <2>1, <3>1, <3>4 DEF Once, Right
    <3>6. Complete'
      <4>1. \A g \in Found : Supplanted(g) => Supplanted(g)'
        BY <1>3, <3>1, <3>4 DEF Supplanted
      <4>2. Supplanted(f)'
        BY <2>4, <3>1, <3>2 DEF Supplanted
      <4> QED BY <1>3, <1>5, <2>1, <4>1, <4>2 DEF Complete
    <3>7. Traced'
      <4>1. ASSUME NEW k \in DOMAIN configs, k # n
            PROVE  /\ configs'[k].file \in Found /\ configs'[k].file # f
                   /\ configs'[k].module = ModuleName(configs'[k].root, configs'[k].file)
                   /\ \E i \in Reached(configs'[k].file) : configs'[k].root = Roots[i]
                        /\ \A j \in Reached(configs'[k].file) : Len(Roots[j]) <= Len(Roots[i])
        BY <2>1, <3>1, <3>3, <4>1 DEF Traced
      <4>2. PICK i \in Reached(f) : /\ configs[n].root = Roots[i]
                                    /\ \A j \in Reached(f) : Len(Roots[j]) <= Len(Roots[i])
        BY <2>1, <2>4 DEF Traced
      <4>3. \A j \in Reached(f)' : Len(Roots[j]) \in Nat
        BY <1>2, <1>4, <1>5, RootTypes DEF Reached, Holders, Roots
      <4>4. /\ configs'[n].module = ModuleName(configs'[n].root, f)
            /\ \E l \in Reached(f)' : configs'[n].root = Roots[l]
                 /\ \A j \in Reached(f)' : Len(Roots[j]) <= Len(Roots[l])
        <5>1. CASE Deeper(dir, configs[n].root)
          <6>1. Len(Roots[i]) < Len(Roots[root]) /\ root \in Reached(f)' /\ i \in Reached(f)'
            BY <1>5, <4>2, <4>3, <5>1 DEF Deeper
          <6>2. \A j \in Reached(f)' : Len(Roots[j]) <= Len(Roots[root])
            BY <1>5, <4>2, <4>3, <6>1
          <6> QED BY <3>2, <5>1, <6>1, <6>2
        <5>2. CASE ~Deeper(dir, configs[n].root)
          <6>1. i \in Reached(f)' /\ root \in Reached(f)' /\ Len(Roots[root]) <= Len(Roots[i])
            BY <1>5, <4>2, <4>3, <5>2 DEF Deeper
          <6>2. \A j \in Reached(f)' : Len(Roots[j]) <= Len(Roots[i])
            BY <1>5, <4>2, <6>1
          <6>3. configs[n].module = ModuleName(configs[n].root, f)
            BY <2>1, <2>4 DEF Traced
          <6> QED BY <3>2, <4>2, <5>2, <6>1, <6>2, <6>3
        <5> QED BY <5>1, <5>2
      <4> QED BY <1>3, <1>4, <1>5, <3>1, <3>2, <4>1, <4>4 DEF Traced
    <3> QED BY <3>5, <3>6, <3>7
  <2>5. ASSUME NEW n \in DOMAIN configs, configs[n].file # f, configs[n].module = m,
               configs' = configs
        PROVE  (Traced /\ Once /\ Right /\ Complete)'
    <3> DEFINE g == configs[n].file
    <3>1. ~Nested /\ Module(g) = Module(f)
      BY <1>4, <1>6, <2>1, <2>5, SameModule
    <3>2. g \in Wanted /\ Innermost(g) < Innermost(f)
      BY <1>4, <2>1, <2>5, <3>1 DEF Right, Wanted
    <3>3. \A k \in DOMAIN configs : configs[k].file # f
      <4> SUFFICES ASSUME f \in Wanted PROVE FALSE
        BY <2>1 DEF Right
      <4>1. Innermost(f) < Innermost(g) /\ g \in Found
        BY <2>5, <3>1, <3>2 DEF Wanted
      <4>2. Innermost(f) \in Nat /\ Innermost(g) \in Nat
        BY <1>2, <1>4, <4>1, InnermostHolds, RootTypes DEF Holders, Roots
      <4> QED BY <3>2, <4>1, <4>2
    <3>4. Once' /\ Right' /\ Traced'
      BY <1>3, <1>5, <2>1, <2>5, <3>3 DEF Once, Right, Traced
    <3>5. Complete'
      <4>1. \A h \in Found : Supplanted(h) => Supplanted(h)'
        BY <1>3, <2>5 DEF Supplanted
      <4>2. Supplanted(f)'
        BY <1>3, <2>5, <3>1, <3>2 DEF Supplanted
      <4> QED BY <1>3, <1>5, <2>1, <4>1, <4>2 DEF Complete
    <3> QED BY <3>4, <3>5
  <2> QED BY <2>2, <2>3, <2>4, <2>5
<1>7. Below'
  <2>1. CASE stage' = "error"
    BY <1>1, <1>2, <2>1 DEF Sought, Below, Visit, Fail
  <2>2. CASE stage' # "error"
    <3>1. Len(dir) < Len(f)
      <4>1. Len(dir) <= Len(f) /\ Len(dir) # Len(f)
        BY <1>4 DEF Visit, Unnamed, Holders, IsPrefix, Roots
      <4>2. Len(dir) \in Nat /\ Len(f) \in Nat
        BY <1>2, RootTypes
      <4> QED BY <4>1, <4>2
    <3>2. Below
      BY DEF Sought
    <3>3. CASE configs' = Append(configs, [module |-> m, root |-> dir, file |-> f])
      <4> DEFINE c == [module |-> m, root |-> dir, file |-> f]
                 k == Len(configs) + 1
      <4>1. Len(configs') = k /\ DOMAIN configs' = 1 .. k /\ configs'[k] = c
            /\ \A n \in 1 .. Len(configs) : configs'[n] = configs[n]
        BY <1>2, <3>3
      <4>2. \A n \in 1 .. k : n \in 1 .. Len(configs) \/ n = k
        BY <1>2
      <4>3. c.file = f /\ c.root = dir
        OBVIOUS
      <4> HIDE DEF c, k
      <4> QED BY <1>2, <3>1, <3>2, <4>1, <4>2, <4>3 DEF Below
    <3>4. ASSUME NEW n \in DOMAIN configs, configs[n].file = f,
                 configs' = [configs EXCEPT ![n] = Reown(@, dir)]
          PROVE  Below'
      <4>1. configs[n] \in Configs /\ configs'[n] = Reown(configs[n], dir)
        BY <1>2, <3>4
      <4>2. configs'[n].file = f /\ configs'[n].root = dir
        BY <3>4, <4>1 DEF Reown, Configs
      <4>3. DOMAIN configs' = DOMAIN configs
            /\ \A k \in DOMAIN configs : k # n => configs'[k] = configs[k]
        BY <3>4
      <4> QED BY <3>1, <3>2, <4>2, <4>3 DEF Below
    <3>5. CASE configs' = configs
      BY <3>2, <3>5 DEF Below
    <3> QED BY <2>2, <3>3, <3>4, <3>5, VisitCases
  <2> QED BY <2>1, <2>2
<1> QED BY <1>1, <1>3, <1>6, <1>7 DEF Sought

\* At the end of the search every directory has been visited.
LEMMA SearchEnds ==
  ASSUME IInv, Sought, stage = "order", Clear
  PROVE  /\ Right
         /\ \A n \in DOMAIN configs :
              LET c == configs[n] IN
              /\ c.root = Roots[Innermost(c.file)] /\ c.module = Module(c.file)
              /\ Len(c.root) < Len(c.file)
         /\ \A f \in Found : Supplanted(f)
<1>1. Traced /\ Right /\ Complete /\ Below /\ root = Len(Roots) /\ pending = {}
  BY DEF Sought, Roots
<1>2. IsInput(in)
  BY ConfigTypes
<1>3. \A f : Reached(f) = Holders(f)
  <2> SUFFICES ASSUME NEW f, NEW i \in Holders(f) PROVE i < root \/ i = root
    BY <1>1 DEF Reached
  <2>1. i \in 1 .. Len(Roots) /\ Len(Roots) \in Nat
    BY <1>2, RootTypes DEF Holders, Roots
  <2> QED BY <1>1, <2>1
<1>4. ASSUME NEW n \in DOMAIN configs
      PROVE  /\ configs[n].root = Roots[Innermost(configs[n].file)]
             /\ configs[n].module = Module(configs[n].file)
  <2> DEFINE f == configs[n].file
  <2>1. PICK i \in Holders(f) : /\ f \in Found /\ configs[n].root = Roots[i]
                                /\ configs[n].module = ModuleName(configs[n].root, f)
                                /\ \A j \in Holders(f) : Len(Roots[j]) <= Len(Roots[i])
    BY <1>1, <1>3 DEF Traced
  <2> HIDE DEF f
  <2>2. Innermost(f) \in Holders(f) /\ Len(Roots[i]) <= Len(Roots[Innermost(f)])
    BY <1>2, <2>1, InnermostHolds
  <2>3. Len(Roots[i]) = Len(Roots[Innermost(f)])
    BY <1>2, <2>1, <2>2, RootTypes DEF Holders, Roots
  <2>4. Roots[i] = Roots[Innermost(f)]
    BY <1>2, <2>1, <2>2, <2>3, HoldersNest DEF Found
  <2> QED BY <2>1, <2>4 DEF Module, Roots, f
<1>5. \A f \in Found : Supplanted(f)
  BY <1>1, <1>3 DEF Complete, Found
<1> QED BY <1>1, <1>4, <1>5 DEF Below

LEMMA NextSeeks == IInv /\ Sought /\ [Next]_vars => Sought'
<1> SUFFICES ASSUME IInv, Sought, [Next]_vars PROVE Sought'
  OBVIOUS
<1>1. ASSUME NEW f \in in.files, Visit(f) PROVE Sought'
  BY <1>1, VisitSeeks
<1>2. CASE NextRoot
  BY <1>2, NextRootSeeks
<1>3. CASE UNCHANGED configs /\ stage' \notin {"search", "order"}
  BY <1>3 DEF Sought, Below
<1>4. ASSUME NEW f \in in.files, VisitUnnamed(f) PROVE UNCHANGED configs /\ stage' = "error"
  BY <1>4 DEF VisitUnnamed, Fail
<1>5. CASE Order \/ Select \/ Intersect \/ Split \/ Name \/ Mount
  <2>1. UNCHANGED configs /\ stage' \notin {"search", "order"}
    BY <1>5 DEF Order, Select, Intersect, Split, Name, Mount, Fail
  <2> QED BY <1>3, <2>1
<1>6. CASE UNCHANGED vars
  <2>1. UNCHANGED <<in, stage, root, pending, configs>>
    BY <1>6 DEF vars
  <2>2. /\ Found' = Found /\ Wanted' = Wanted /\ Clear' = Clear /\ Roots' = Roots
        /\ \A g : /\ Holders(g)' = Holders(g) /\ Module(g)' = Module(g)
                  /\ Innermost(g)' = Innermost(g)
    BY <2>1 DEF Found, Wanted, Clear, Holders, Module, Innermost, Nested, Duplicate, Roots
  <2>3. \A g : Reached(g)' = Reached(g) /\ Supplanted(g)' = Supplanted(g)
    BY <2>1, <2>2 DEF Reached, Supplanted
  <2>4. Traced' = Traced /\ Once' = Once /\ Right' = Right /\ Complete' = Complete /\ Below' = Below
    BY <2>1, <2>2, <2>3 DEF Traced, Once, Right, Complete, Below
  <2> QED BY <2>1, <2>2, <2>4 DEF Sought
<1> QED BY <1>1, <1>2, <1>3, <1>4, <1>5, <1>6 DEF Next, Resting

LEMMA SearchInvariance == Spec => []Sought
BY InitSeeks, NextSeeks, Invariance, PTL DEF Spec

\* For any Python path and any files with clear names, in whatever order the entries of
\* directories come: a search that does not fail has found each file under its innermost
\* directory, and of the files of a module the one that Python would import
\* (search_directory of prelink.rs).
THEOREM SearchIsRight == Spec => []SearchFindsOwners
<1>1. IInv /\ Sought => SearchFindsOwners
  <2> SUFFICES ASSUME IInv, Sought, stage = "order", Clear
               PROVE  {<<configs[i].module, configs[i].file>> : i \in DOMAIN configs}
                        = {<<Module(f), f>> : f \in Wanted}
    BY DEF SearchFindsOwners
  <2>1. /\ \A n \in DOMAIN configs : /\ configs[n].file \in Wanted
                                     /\ configs[n].module = Module(configs[n].file)
        /\ \A f \in Found : Supplanted(f)
    BY SearchEnds DEF Right
  <2>2. ASSUME NEW f \in Wanted PROVE \E n \in DOMAIN configs : configs[n].file = f
    <3>1. PICK n \in DOMAIN configs :
            \/ configs[n].file = f
            \/ /\ Module(configs[n].file) = Module(f)
               /\ Innermost(configs[n].file) < Innermost(f)
      BY <2>1 DEF Supplanted, Wanted
    <3> DEFINE g == configs[n].file
    <3>2. g \in Found /\ f \in Found /\ IsInput(in)
      BY <2>1, ConfigTypes DEF Wanted
    <3>3. Innermost(f) \in Nat /\ Innermost(g) \in Nat
      BY <3>2, InnermostHolds, RootTypes DEF Holders, Roots
    <3>4. g = f
      <4> SUFFICES ASSUME g # f PROVE FALSE
        OBVIOUS
      <4>1. Innermost(f) < Innermost(g) /\ Innermost(g) < Innermost(f)
        BY <3>1, <3>2 DEF Wanted
      <4> HIDE DEF g
      <4> QED BY <3>3, <4>1
    <3> QED BY <3>4
  <2> QED BY <2>1, <2>2
<1> QED BY <1>1, Invariance, SearchInvariance, PTL

-----------------------------------------------------------------------------
(* What is imported.                                                       *)

\* After the search: a module has the wanted file of its name, from its directory.
Origin(m) ==
  LET f == owned[m].file
  IN  /\ f \in Wanted /\ Module(f) = m
      /\ owned[m].root = Roots[Innermost(f)] /\ Len(owned[m].root) < Len(f)

Laid ==
  /\ \A m \in DOMAIN assigned : MountPoints(m) \subseteq DOMAIN mounts
  /\ \A p \in DOMAIN mounts : mounts[p] \in DOMAIN assigned /\ p \in MountPoints(mounts[p])
  /\ opt.worldModule \in DOMAIN assigned => helpers = opt.worldModule

Generated ==
  /\ stage \in {"select", "intersect", "split", "name", "mount", "done"} /\ Clear =>
       \A m \in DOMAIN owned : Origin(m)
  /\ stage \in {"name", "mount", "done"} => Own \subseteq DOMAIN owned
  /\ stage = "done" => Laid

LEMMA ConfigFound ==
  ASSUME IInv, NEW m \in ModulesFound
  PROVE  \E n \in DOMAIN configs : ConfigOf(m) = configs[n] /\ configs[n].module = m
<1> DEFINE I == {i \in 1 .. Len(configs) : configs[i].module = m}
<1>1. Len(configs) \in Nat /\ DOMAIN configs = 1 .. Len(configs)
  BY ConfigTypes
<1>2. PICK i \in 1 .. Len(configs) : configs[i].module = m
  BY <1>1 DEF ModulesFound
<1>3. Max(I) \in I
  BY <1>1, <1>2, LastExists
<1>4. SelectLastInSeq(configs, LAMBDA c : c.module = m) = Max(I)
  BY <1>2 DEF SelectLastInSeq
<1> QED BY <1>1, <1>3, <1>4 DEF ConfigOf

\* What depends on the input alone.
LEMMA SameInput ==
  ASSUME UNCHANGED in
  PROVE  /\ Wanted' = Wanted /\ Clear' = Clear /\ Roots' = Roots
         /\ \A g : Module(g)' = Module(g) /\ Innermost(g)' = Innermost(g)
BY DEF Found, Wanted, Clear, Holders, Module, Innermost, Nested, Duplicate, Roots

LEMMA OrderGenerates == IInv /\ Sought /\ Order => Generated'
<1> SUFFICES ASSUME IInv, Sought, Order PROVE Generated'
  OBVIOUS
<1>1. UNCHANGED <<in, configs>> /\ stage = "order" /\ stage' \in {"select", "error"}
  BY DEF Order, Fail
<1>2. ASSUME stage' = "select", Clear, NEW m \in DOMAIN owned' PROVE Origin(m)'
  <2>1. owned' = [n \in ModulesFound |->
                    [file |-> ConfigOf(n).file, root |-> ConfigOf(n).root, worlds |-> WorldsFor(n)]]
    BY <1>2 DEF Order, Fail
  <2>2. PICK n \in DOMAIN configs : ConfigOf(m) = configs[n] /\ configs[n].module = m
    BY <1>2, <2>1, ConfigFound
  <2>3. owned'[m].file = configs[n].file /\ owned'[m].root = configs[n].root
    BY <1>2, <2>1, <2>2
  <2>4. LET c == configs[n] IN
        /\ c.file \in Wanted /\ c.module = Module(c.file)
        /\ c.root = Roots[Innermost(c.file)] /\ Len(c.root) < Len(c.file)
    BY <1>1, <1>2, SearchEnds DEF Right
  <2> QED BY <1>1, <2>2, <2>3, <2>4, SameInput DEF Origin
<1> QED BY <1>1, <1>2, SameInput DEF Generated

LEMMA OriginStays ==
  ASSUME UNCHANGED <<in, owned>>
  PROVE  Clear' = Clear /\ \A m : Origin(m)' = Origin(m)
BY SameInput DEF Origin

LEMMA NextGenerates == IInv /\ Sought /\ Generated /\ [Next]_vars => Generated'
<1> SUFFICES ASSUME IInv, Sought, Generated, [Next]_vars PROVE Generated'
  OBVIOUS
<1>1. CASE Order
  BY <1>1, OrderGenerates
<1>2. CASE stage' \in {"search", "order", "error"}
  BY <1>2 DEF Generated
<1>3. CASE Select \/ Intersect
  <2>1. /\ UNCHANGED <<in, owned>> /\ stage \in {"select", "intersect"}
        /\ stage' \in {"intersect", "split", "error"}
    BY <1>3 DEF Select, Intersect, Fail
  <2> QED BY <2>1, OriginStays DEF Generated
<1>4. CASE Split
  <2>1. UNCHANGED <<in, opt, owned>> /\ stage = "split" /\ stage' = "name"
    BY <1>4 DEF Split
  <2>2. Own' \subseteq DOMAIN owned'
    <3> DEFINE rest == all \ Elsewhere
               mine == [m \in {b \in Binders : Covered(b) # {}} |-> Items(Covered(m))]
               D == DOMAIN mine \cup (IF rest = {} THEN {} ELSE {opt.worldModule})
    <3>1. DOMAIN assigned' = D
      BY <1>4 DEF Split
    <3>2. DOMAIN mine \subseteq DOMAIN owned
      BY DEF Binders
    <3> QED BY <2>1, <3>1, <3>2 DEF Own
  <2> QED BY <2>1, <2>2, OriginStays DEF Generated
<1>5. CASE Name
  <2>1. /\ UNCHANGED <<in, opt, owned, assigned>>
        /\ stage = "name" /\ stage' = "mount"
    BY <1>5 DEF Name
  <2> QED BY <2>1, OriginStays DEF Generated, Own
<1>6. CASE Mount
  <2>1. /\ UNCHANGED <<in, opt, owned, assigned>>
        /\ stage = "mount" /\ stage' = "done"
    BY <1>6 DEF Mount
  <2>2. \A m : MountPoints(m)' = MountPoints(m)
    BY <2>1 DEF MountPoints, MountedIn, BindingModule
  <2>3. Laid'
    <3> DEFINE P == UNION {MountPoints(m) : m \in DOMAIN assigned}
               Of(p) == CHOOSE m \in DOMAIN assigned : p \in MountPoints(m)
    <3>1. mounts' = [p \in P |-> Of(p)]
      BY <1>6 DEF Mount
    <3>2. \A p \in P : Of(p) \in DOMAIN assigned /\ p \in MountPoints(Of(p))
      OBVIOUS
    <3>3. \A m \in DOMAIN assigned : MountPoints(m) \subseteq P
      OBVIOUS
    <3>4. opt.worldModule \in DOMAIN assigned => helpers' = opt.worldModule
      BY <1>6 DEF Mount
    <3> HIDE DEF P, Of
    <3> QED BY <2>1, <2>2, <3>1, <3>2, <3>3, <3>4 DEF Laid
  <2>4. Own' = Own
    BY <2>1 DEF Own
  <2>5. Clear => \A m \in DOMAIN owned : Origin(m)
    BY <2>1 DEF Generated
  <2>6. Clear' => \A m \in DOMAIN owned' : Origin(m)'
    BY <2>1, <2>5, OriginStays
  <2> QED BY <2>1, <2>3, <2>4, <2>6 DEF Generated
<1>7. CASE UNCHANGED vars
  <2>1. UNCHANGED <<in, opt, stage, owned, assigned, mounts, helpers>>
    BY <1>7 DEF vars
  <2>2. \A m : MountPoints(m)' = MountPoints(m)
    BY <2>1 DEF MountPoints, MountedIn, BindingModule
  <2>3. Laid => Laid'
    BY <2>1, <2>2 DEF Laid
  <2>4. Own' = Own
    BY <2>1 DEF Own
  <2>5. /\ stage' \in {"select", "intersect", "split", "name", "mount", "done"} /\ Clear' =>
             \A m \in DOMAIN owned' : Origin(m)'
        /\ stage' \in {"name", "mount", "done"} => Own' \subseteq DOMAIN owned'
    <3>1. Clear' = Clear /\ \A m : Origin(m)' = Origin(m)
      BY <2>1, OriginStays
    <3> QED BY <2>1, <2>4, <3>1 DEF Generated
  <2>6. stage' = "done" => Laid'
    BY <2>1, <2>3 DEF Generated
  <2> QED BY <2>5, <2>6 DEF Generated
<1>8. CASE NextRoot \/ \E f \in in.files : Visit(f) \/ VisitUnnamed(f)
  <2>1. stage' \in {"search", "order", "error"}
    BY <1>8 DEF NextRoot, Visit, VisitUnnamed, Fail
  <2> QED BY <1>2, <2>1
<1> QED BY <1>1, <1>3, <1>4, <1>5, <1>6, <1>7, <1>8 DEF Next, Resting

LEMMA GeneratedInvariance == Spec => []Generated
<1>1. Init => Generated
  BY DEF Init, Generated
<1> QED BY <1>1, NextGenerates, Invariance, SearchInvariance, PTL DEF Spec

LEMMA One ==
  ASSUME NEW S, NEW x \in S PROVE <<x>> \in Seq(S) /\ Len(<<x>>) = 1 /\ <<x>>[1] = x
OBVIOUS

LEMMA Two ==
  ASSUME NEW S, NEW x \in S, NEW y \in S
  PROVE  <<x, y>> \in Seq(S) /\ Len(<<x, y>>) = 2 /\ <<x, y>>[1] = x /\ <<x, y>>[2] = y
OBVIOUS

LEMMA Joined ==
  ASSUME NEW S, NEW s \in Seq(S), NEW t \in Seq(S)
  PROVE  /\ s \o t \in Seq(S) /\ Len(s) \in Nat /\ Len(t) \in Nat
         /\ Len(s \o t) = Len(s) + Len(t)
         /\ \A i \in 1 .. Len(s) : (s \o t)[i] = s[i]
         /\ \A i \in 1 .. Len(t) : (s \o t)[Len(s) + i] = t[i]
<1>1. Len(s) \in Nat /\ Len(t) \in Nat
  BY LenProperties
<1>2. /\ s \o t \in Seq(S)
      /\ Len(s \o t) = Len(s) + Len(t)
      /\ \A i \in 1 .. Len(s) + Len(t) : (s \o t)[i] =
                     IF i <= Len(s) THEN s[i] ELSE t[i - Len(s)]
  BY ConcatProperties
<1> DEFINE u == s \o t
<1>3. \A i \in 1 .. Len(s) + Len(t) : u[i] = IF i <= Len(s) THEN s[i] ELSE t[i - Len(s)]
  BY <1>2
<1> HIDE DEF u
<1>4. ASSUME NEW i \in 1 .. Len(s) PROVE u[i] = s[i]
  BY <1>1, <1>3
<1>5. ASSUME NEW i \in 1 .. Len(t) PROVE u[Len(s) + i] = t[i]
  <2>1. Len(s) + i \in 1 .. Len(s) + Len(t) /\ ~(Len(s) + i <= Len(s)) /\ (Len(s) + i) - Len(s) = i
    BY <1>1
  <2> QED BY <1>3, <2>1
<1> QED BY <1>1, <1>2, <1>4, <1>5, Zenon DEF u

LEMMA Remainder ==
  ASSUME NEW f \in Seq(STRING), NEW n \in Nat, n < Len(f)
  PROVE  LET s == SubSeq(f, n + 1, Len(f))
         IN  s \in Seq(STRING) /\ Len(s) = Len(f) - n /\ s[1] = f[n + 1]
<1> DEFINE s == SubSeq(f, n + 1, Len(f))
<1>1. Len(f) \in Nat /\ \A i \in 1 .. Len(f) : f[i] \in STRING
  BY LenProperties, ElementOfSeq
<1>2. n + 1 \in Int /\ Len(f) \in Int /\ \A i \in n + 1 .. Len(f) : f[i] \in STRING
  BY <1>1
<1>3. s \in Seq(STRING)
  BY <1>2, SubSeqProperties
<1>4. Len(s) = IF n + 1 <= Len(f) THEN Len(f) - (n + 1) + 1 ELSE 0
  BY <1>2, SubSeqProperties
<1>5. \A i \in 1 .. Len(f) - (n + 1) + 1 : s[i] = f[n + 1 + i - 1]
  BY <1>2, SubSeqProperties
<1> HIDE DEF s
<1>6. Len(s) = Len(f) - n /\ s[1] = f[n + 1]
  BY <1>1, <1>4, <1>5
<1> QED BY <1>3, <1>6 DEF s

LEMMA PathEntries ==
  ASSUME IsInput(in)
  PROVE  /\ PythonPath[1] = "python" /\ PythonPath[2] = "world"
         /\ Len(PythonPath) = Len(Roots) + 3
         /\ \A i \in DOMAIN Roots : PythonPath[i + 2] = Guest(i)
<1> DEFINE h == <<"python", "world">>
           g == [i \in DOMAIN in.roots |-> Guest(i)]
           b == <<"bundled">>
           S == {"python", "world", "bundled"} \cup {Guest(i) : i \in DOMAIN Roots}
<1>1. h \in Seq(S) /\ Len(h) = 2 /\ h[1] = "python" /\ h[2] = "world"
  BY Two
<1>2. b \in Seq(S) /\ Len(b) = 1
  BY One
<1>3. Len(Roots) \in Nat /\ DOMAIN Roots = 1 .. Len(Roots)
  BY RootTypes
<1>4. g \in Seq(S) /\ Len(g) = Len(Roots) /\ \A i \in DOMAIN Roots : g[i] = Guest(i)
  <2> HIDE DEF Guest
  <2>1. \A i \in DOMAIN Roots : Guest(i) \in S
    OBVIOUS
  <2> HIDE DEF S
  <2>2. g \in [1 .. Len(Roots) -> S]
    BY <1>3, <2>1 DEF Roots
  <2> QED BY <1>3, <2>2, LenProperties DEF Roots
<1>5. PythonPath = (h \o g) \o b
  BY DEF PythonPath
<1> HIDE DEF h, g, b, S
<1> DEFINE u == h \o g
<1>6. /\ u \in Seq(S) /\ Len(u) = 2 + Len(Roots)
      /\ \A i \in 1 .. 2 : u[i] = h[i]
      /\ \A i \in 1 .. Len(Roots) : u[2 + i] = g[i]
  <2>1. /\ h \o g \in Seq(S) /\ Len(h \o g) = Len(h) + Len(g)
        /\ \A i \in 1 .. Len(h) : (h \o g)[i] = h[i]
        /\ \A i \in 1 .. Len(g) : (h \o g)[Len(h) + i] = g[i]
    BY <1>1, <1>4, Joined
  <2> QED BY <1>1, <1>4, <2>1, Zenon
<1> HIDE DEF u
<1> DEFINE v == u \o b
<1>7. Len(v) = Len(u) + Len(b) /\ \A i \in 1 .. Len(u) : v[i] = u[i]
  <2>1. u \in Seq(S) /\ b \in Seq(S)
    BY <1>2, <1>6, Zenon
  <2> QED BY <2>1, Joined, Zenon
<1> HIDE DEF v
<1>8. PythonPath = v
  BY <1>5 DEF u, v
<1>9. v[1] = "python" /\ v[2] = "world"
  <2>1. 1 \in 1 .. 2 /\ 2 \in 1 .. 2 /\ 1 \in 1 .. Len(u) /\ 2 \in 1 .. Len(u)
    BY <1>3, <1>6
  <2> QED BY <1>1, <1>6, <1>7, <2>1
<1>10. ASSUME NEW i \in DOMAIN Roots PROVE v[i + 2] = Guest(i)
  <2>1. i \in 1 .. Len(Roots) /\ 2 + i = i + 2 /\ i + 2 \in 1 .. Len(u)
    BY <1>3, <1>6
  <2>2. v[i + 2] = u[i + 2] /\ u[2 + i] = g[i] /\ g[i] = Guest(i)
    BY <1>4, <1>6, <1>7, <2>1
  <2> QED BY <2>1, <2>2, Zenon
<1>11. Len(v) = Len(Roots) + 3
  BY <1>2, <1>3, <1>6, <1>7
<1> QED BY <1>8, <1>9, <1>10, <1>11, Zenon

LEMMA LeastIs ==
  ASSUME NEW I, NEW k \in I, \A j \in I : j \in Nat /\ k <= j PROVE Min(I) = k
<1>1. \E x \in I : \A y \in I : x <= y
  OBVIOUS
<1>2. Min(I) \in I /\ \A y \in I : Min(I) <= y
  BY <1>1 DEF Min
<1>3. Min(I) <= k /\ k <= Min(I) /\ Min(I) \in Nat /\ k \in Nat
  BY <1>2
<1> QED BY <1>3

\* The first entry that has the package decides.
LEMMA FirstEntry ==
  ASSUME NEW q, NEW k \in 1 .. Len(PythonPath), Len(PythonPath) \in Nat,
         Has(PythonPath[k], Head(q)),
         \A j \in 1 .. Len(PythonPath) : j < k => ~Has(PythonPath[j], Head(q)),
         <<PythonPath[k]>> \o q \in DOMAIN mounts
  PROVE  Imported(q) = mounts[<<PythonPath[k]>> \o q]
<1> DEFINE I == {i \in 1 .. Len(PythonPath) : Has(PythonPath[i], Head(q))}
<1> HIDE DEF PythonPath, Has
<1>1. k \in I /\ \A j \in I : j \in Nat /\ k <= j
  OBVIOUS
<1>2. Min(I) = k
  <2> HIDE DEF I
  <2> QED BY <1>1, LeastIs
<1>3. SelectInSeq(PythonPath, LAMBDA e : Has(e, Head(q))) = Min(I)
  BY <1>1 DEF SelectInSeq
<1> HIDE DEF I
<1> QED BY <1>2, <1>3 DEF Imported

\* An import of a module's bindings begins with the module.
LEMMA BindingHead ==
  ASSUME IsInput(in), NEW m \in DOMAIN owned, Origin(m)
  PROVE  LET q == BindingModule(m)
         IN  q \in Seq(STRING \cup {"b"}) /\ 1 \in 1 .. Len(q) /\ q[1] = m /\ Head(q) = m
<1> DEFINE f == owned[m].file
           r == owned[m].root
           s == SubSeq(f, Len(r) + 1, Len(f))
           S == STRING \cup {"b"}
<1>1. f \in Found /\ f \in in.files /\ Innermost(f) \in Holders(f)
  BY InnermostHolds DEF Origin, Wanted, Found
<1>2. r = Roots[Innermost(f)] /\ Len(r) < Len(f) /\ Module(f) = m
  BY DEF Origin
<1>3. Len(r) \in Nat /\ f \in Seq(STRING) /\ Len(f) \in Nat
  BY <1>1, <1>2, RootTypes DEF Holders, Roots
<1>4. f[Len(r) + 1] = m
  BY <1>2 DEF Module, ModuleName, Roots
<1> HIDE DEF f, r
<1>5. s \in Seq(STRING) /\ Len(s) = Len(f) - Len(r) /\ s[1] = f[Len(r) + 1]
  BY <1>2, <1>3, Remainder
<1>6. BindingModule(m) = s \o <<"b">>
  BY DEF BindingModule, f, r
<1> HIDE DEF s
<1>7. s \in Seq(S) /\ <<"b">> \in Seq(S)
  <2>1. STRING \subseteq S /\ "b" \in S
    OBVIOUS
  <2> HIDE DEF S
  <2>2. <<"b">> \in Seq(S)
    BY <2>1, One
  <2> QED BY <1>5, <2>1, <2>2, SeqMonotonic
<1> HIDE DEF S
<1> DEFINE q == s \o <<"b">>
<1>8. q \in Seq(S) /\ Len(q) = Len(s) + 1 /\ \A i \in 1 .. Len(s) : q[i] = s[i]
  BY <1>7, One, Joined
<1> HIDE DEF q
<1>9. 1 \in 1 .. Len(s) /\ 1 \in 1 .. Len(q)
  BY <1>2, <1>3, <1>5, <1>8
<1>10. q[1] = m
  BY <1>4, <1>5, <1>8, <1>9
<1>11. Head(q) = q[1]
  BY <1>8, <1>9
<1>12. BindingModule(m) = q
  BY <1>6 DEF q
<1> QED BY <1>8, <1>9, <1>10, <1>11, <1>12 DEF S

\* A file is below a directory's package when the directory holds it and its module
\* has the name of the package.
LEMMA PrefixMore ==
  ASSUME IsInput(in), NEW i \in DOMAIN Roots, NEW f \in in.files, NEW m \in STRING
  PROVE  IsPrefix(Roots[i] \o <<m>>, f)
           <=> i \in Holders(f) /\ Len(Roots[i]) < Len(f) /\ ModuleName(Roots[i], f) = m
<1> DEFINE r == Roots[i]
           p == r \o <<m>>
<1>1. r \in Seq(STRING) /\ Len(r) \in Nat /\ f \in Seq(STRING) /\ Len(f) \in Nat
  BY RootTypes
<1>2. i \in Holders(f) <=> IsPrefix(r, f)
  BY DEF Holders, Roots
<1>3. ModuleName(Roots[i], f) = f[Len(r) + 1]
  BY DEF ModuleName
<1> HIDE DEF r
<1>4. /\ p \in Seq(STRING) /\ Len(p) = Len(r) + 1
      /\ \A n \in 1 .. Len(r) : p[n] = r[n]
      /\ p[Len(r) + 1] = m
  BY <1>1, ConcatProperties
<1> HIDE DEF p
<1>5. ASSUME NEW s \in Seq(STRING)
      PROVE  IsPrefix(s, f) <=> Len(s) <= Len(f) /\ \A n \in 1 .. Len(s) : s[n] = f[n]
  <2>1. CASE Len(s) <= Len(f)
    <3> DEFINE a == SubSeq(s, 1, Len(s))
               b == SubSeq(f, 1, Len(s))
    <3>1. Len(s) \in Nat
      BY LenProperties
    <3>2. a \in Seq(STRING) /\ Len(a) = Len(s) /\ \A n \in 1 .. Len(s) : a[n] = s[n]
      BY <3>1, SubSeqProperties
    <3>3. b \in Seq(STRING) /\ Len(b) = Len(s) /\ \A n \in 1 .. Len(s) : b[n] = f[n]
      BY <1>1, <2>1, <3>1, SubSeqProperties
    <3>4. IsPrefix(s, f) <=> a = b
      BY <2>1 DEF IsPrefix
    <3> HIDE DEF a, b
    <3>5. (\A n \in 1 .. Len(s) : a[n] = b[n]) => a = b
      BY <3>1, <3>2, <3>3, SeqEqual
    <3> QED BY <2>1, <3>2, <3>3, <3>4, <3>5
  <2>2. CASE ~(Len(s) <= Len(f))
    BY <2>2 DEF IsPrefix
  <2> QED BY <2>1, <2>2
<1>6. IsPrefix(r, f) <=> Len(r) <= Len(f) /\ \A n \in 1 .. Len(r) : r[n] = f[n]
  BY <1>1, <1>5
<1>7. IsPrefix(p, f) <=> Len(p) <= Len(f) /\ \A n \in 1 .. Len(p) : p[n] = f[n]
  BY <1>4, <1>5
<1>8. (\A n \in 1 .. Len(p) : p[n] = f[n])
        <=> (\A n \in 1 .. Len(r) : p[n] = f[n]) /\ p[Len(r) + 1] = f[Len(r) + 1]
  BY <1>1, <1>4
<1>9. IsPrefix(Roots[i] \o <<m>>, f) <=> IsPrefix(p, f)
  BY DEF p, r
<1>10. Len(p) <= Len(f) <=> Len(r) < Len(f)
  BY <1>1, <1>4
<1>11. Len(Roots[i]) = Len(r)
  BY DEF r
<1> QED BY <1>1, <1>2, <1>3, <1>4, <1>6, <1>7, <1>8, <1>9, <1>10, <1>11

\* The directory of the path that has a module first is the one it was taken from.
LEMMA FirstDirectory ==
  ASSUME IsInput(in), Clear, NEW m \in DOMAIN owned, Origin(m), NEW k \in DOMAIN Roots,
         NEW g \in Found, k \in Holders(g), ModuleName(Roots[k], g) = m,
         \A i \in DOMAIN Roots : i < k => ~(i \in Holders(owned[m].file) /\ ModuleName(Roots[i], owned[m].file) = m)
  PROVE  Roots[k] = owned[m].root
<1> DEFINE f == owned[m].file
           o == Innermost(f)
<1>1. /\ f \in Wanted /\ f \in Found /\ Module(f) = m
      /\ owned[m].root = Roots[o] /\ o \in Holders(f)
  BY InnermostHolds DEF Origin, Wanted
<1>2. ModuleName(Roots[o], f) = m /\ o \in DOMAIN Roots
  BY <1>1 DEF Module, Roots, Holders
<1>3. CASE Nested
  BY <1>1, <1>2, <1>3 DEF Clear, Roots
<1>4. CASE ~Nested
  <2>1. ModuleName(Roots[k], g) = Module(g) /\ Innermost(g) <= k
    BY <1>4, OneName
  <2>2. g = f
    <3> SUFFICES ASSUME g # f PROVE FALSE
      OBVIOUS
    <3>1. o < Innermost(g)
      BY <1>1, <2>1 DEF Wanted
    <3>2. k \in Nat /\ o \in Nat /\ Innermost(g) \in Nat
      <4>1. Innermost(g) \in Holders(g)
        BY InnermostHolds
      <4> QED BY <1>2, <4>1, RootTypes DEF Holders, Roots
    <3> HIDE DEF o
    <3>3. o < k
      BY <2>1, <3>1, <3>2
    <3> QED BY <1>1, <1>2, <3>3
  <2> QED BY <1>1, <1>4, <2>2, OneName
<1> QED BY <1>3, <1>4

Settled == /\ IInv /\ Laid /\ Own \subseteq DOMAIN owned
           /\ Clear /\ \A m \in DOMAIN owned : Origin(m)

\* Which module a place of the guest's file system was given to.
LEMMA MountedAs ==
  ASSUME Settled, NEW p \in DOMAIN mounts
  PROVE  \/ p = <<"world", opt.worldModule>> /\ mounts[p] = opt.worldModule
         \/ /\ mounts[p] \in Own
            /\ \E i \in DOMAIN Roots : p = <<Guest(i)>> \o BindingModule(mounts[p])
            /\ p[1] # "world" /\ p[2] = mounts[p]
<1> DEFINE n == mounts[p]
<1>1. n \in DOMAIN assigned /\ p \in MountPoints(n) /\ IsInput(in) /\ in \in Inputs
  BY ConfigTypes DEF Settled, Laid, IInv, Searched
<1> HIDE DEF n
<1>2. CASE n = opt.worldModule
  BY <1>1, <1>2 DEF MountPoints, n
<1>3. CASE n # opt.worldModule
  <2>1. n \in Own /\ n \in DOMAIN owned /\ Origin(n)
    BY <1>1, <1>3 DEF Own, Settled
  <2>2. PICK i \in DOMAIN Roots : p = <<Guest(i)>> \o BindingModule(n)
    BY <1>1, <1>3 DEF MountPoints, MountedIn, Roots
  <2> DEFINE q == BindingModule(n)
             S == STRING \cup {"b"} \cup {Guest(i)}
  <2>3. q \in Seq(STRING \cup {"b"}) /\ 1 \in 1 .. Len(q) /\ q[1] = n
    BY <1>1, <2>1, BindingHead
  <2> HIDE DEF q
  <2>4. q \in Seq(S) /\ <<Guest(i)>> \in Seq(S) /\ Len(<<Guest(i)>>) = 1 /\ <<Guest(i)>>[1] = Guest(i)
    <3>1. STRING \cup {"b"} \subseteq S /\ Guest(i) \in S
      OBVIOUS
    <3> HIDE DEF S
    <3> QED BY <2>3, <3>1, One, SeqMonotonic
  <2> HIDE DEF S
  <2> DEFINE h == <<Guest(i)>>
  <2>5. h \in Seq(S) /\ Len(h) = 1 /\ h[1] = Guest(i)
    BY <2>4
  <2> HIDE DEF h
  <2>6. /\ \A j \in 1 .. Len(h) : (h \o q)[j] = h[j]
        /\ \A j \in 1 .. Len(q) : (h \o q)[Len(h) + j] = q[j]
    <3>1. h \in Seq(S) /\ q \in Seq(S)
      BY <2>4, <2>5
    <3>2. \A j \in 1 .. Len(h) : (h \o q)[j] = h[j]
      BY <3>1, Joined
    <3>3. \A j \in 1 .. Len(q) : (h \o q)[Len(h) + j] = q[j]
      BY <3>1, Joined
    <3> QED BY <3>2, <3>3
  <2>7. p = h \o q
    BY <2>2 DEF h, q
  <2> DEFINE u == h \o q
  <2>8. (\A j \in 1 .. 1 : u[j] = h[j]) /\ \A j \in 1 .. Len(q) : u[1 + j] = q[j]
    BY <2>5, <2>6
  <2> HIDE DEF u
  <2>9. p[1] = Guest(i) /\ p[2] = n
    <3>1. u[1] = Guest(i)
      BY <2>5, <2>8
    <3>2. u[1 + 1] = q[1]
      BY <2>3, <2>8
    <3>3. p = u
      BY <2>7 DEF u
    <3> QED BY <2>3, <3>1, <3>2, <3>3
  <2>10. Guest(i) # "world"
    BY <1>1, GuestsAssumption DEF Roots
  <2> QED BY <2>1, <2>2, <2>9, <2>10 DEF n
<1> QED BY <1>2, <1>3

\* What the entries of the path have.
LEMMA EntryHas ==
  ASSUME Settled, NEW m
  PROVE  /\ ~Has("python", m)
         /\ Has("world", m) <=> m = opt.worldModule /\ opt.worldModule \in DOMAIN assigned
         /\ m # opt.worldModule =>
              \A i \in DOMAIN Roots :
                Has(Guest(i), m) <=> \E f \in in.files : IsPrefix(Roots[i] \o <<m>>, f)
<1>1. /\ in \in Inputs /\ \A i \in DOMAIN Roots : Guest(i) # "python" /\ Guest(i) # "world"
      /\ \A i, j \in DOMAIN Roots : Guest(i) = Guest(j) => i = j
  BY GuestsAssumption DEF Settled, IInv, Searched, Roots
<1> HIDE DEF Guest
<1>2. ~Has("python", m)
  BY <1>1 DEF Has, Roots
<1>3. Has("world", m) <=> \E p \in DOMAIN mounts : p = <<"world", m>>
  BY <1>1 DEF Has, Roots
<1>4. <<"world", m>> \in DOMAIN mounts => m = opt.worldModule /\ opt.worldModule \in DOMAIN assigned
  <2> SUFFICES ASSUME <<"world", m>> \in DOMAIN mounts
               PROVE  m = opt.worldModule /\ opt.worldModule \in DOMAIN assigned
    OBVIOUS
  <2> DEFINE p == <<"world", m>>
  <2>1. p[1] = "world" /\ p[2] = m
    OBVIOUS
  <2> HIDE DEF p
  <2>2. p \in DOMAIN mounts
    BY DEF p
  <2>3. p = <<"world", opt.worldModule>> /\ mounts[p] = opt.worldModule
    BY <2>1, <2>2, MountedAs, Zenon
  <2>4. mounts[p] \in DOMAIN assigned
    BY <2>2 DEF Settled, Laid
  <2> QED BY <2>3, <2>4 DEF p
<1>5. opt.worldModule \in DOMAIN assigned => <<"world", opt.worldModule>> \in DOMAIN mounts
  BY DEF Settled, Laid, MountPoints
<1>6. ASSUME m # opt.worldModule, NEW i \in DOMAIN Roots
      PROVE  Has(Guest(i), m) <=> \E f \in in.files : IsPrefix(Roots[i] \o <<m>>, f)
  BY <1>1, <1>6 DEF Has, Roots
<1> QED BY <1>2, <1>3, <1>4, <1>5, <1>6, Zenon

LEMMA OwnIsImported ==
  ASSUME Settled, NEW m \in Own PROVE Imported(BindingModule(m)) = m
<1> DEFINE f == owned[m].file
           o == Innermost(f)
           q == BindingModule(m)
           Under(i) == \E g \in in.files : IsPrefix(Roots[i] \o <<m>>, g)
           T == {i \in DOMAIN Roots : Under(i)}
<1>1. /\ in \in Inputs /\ IsInput(in) /\ Clear /\ m \in DOMAIN owned /\ m # opt.worldModule
      /\ Origin(m) /\ m \in DOMAIN assigned
  BY ConfigTypes DEF Settled, IInv, Searched, Own
<1>2. /\ f \in Wanted /\ f \in Found /\ f \in in.files /\ o \in Holders(f) /\ o \in DOMAIN Roots
      /\ ModuleName(Roots[o], f) = m /\ owned[m].root = Roots[o] /\ Len(Roots[o]) < Len(f)
  <2>1. f \in Wanted /\ f \in Found /\ f \in in.files /\ Module(f) = m
        /\ owned[m].root = Roots[o] /\ Len(owned[m].root) < Len(f)
    BY <1>1 DEF Origin, Wanted, Found
  <2>2. o \in Holders(f)
    BY <1>1, <2>1, InnermostHolds
  <2> QED BY <2>1, <2>2 DEF Module, Holders, Roots
<1>3. q[1] = m /\ Head(q) = m
  BY <1>1, BindingHead
<1>4. m \in STRING
  <2>1. /\ Len(Roots[o]) \in Nat /\ f \in Seq(STRING) /\ Len(f) \in Nat
    BY <1>1, <1>2, RootTypes
  <2>2. Len(Roots[o]) + 1 \in 1 .. Len(f)
    BY <1>2, <2>1
  <2>3. f[Len(Roots[o]) + 1] \in STRING
    BY <2>1, <2>2, ElementOfSeq
  <2> QED BY <1>2, <2>3 DEF ModuleName
<1> HIDE DEF f, o
<1>5. ASSUME NEW i \in DOMAIN Roots, NEW g \in in.files
      PROVE  IsPrefix(Roots[i] \o <<m>>, g)
               <=> i \in Holders(g) /\ Len(Roots[i]) < Len(g) /\ ModuleName(Roots[i], g) = m
  BY <1>1, <1>4, PrefixMore
<1>6. o \in T
  BY <1>2, <1>5
<1>7. T \subseteq Nat /\ T \subseteq DOMAIN Roots /\ DOMAIN Roots = 1 .. Len(Roots) /\ Len(Roots) \in Nat
  BY <1>1, RootTypes
<1>8. PICK k \in T : \A i \in T : k <= i
  BY <1>6, <1>7, LeastNumber
<1>9. PICK g \in in.files : IsPrefix(Roots[k] \o <<m>>, g)
  BY <1>8
<1>10. k \in DOMAIN Roots /\ k \in Holders(g) /\ g \in Found /\ ModuleName(Roots[k], g) = m
  BY <1>5, <1>8, <1>9 DEF Found
<1>11. ASSUME NEW i \in DOMAIN Roots, i < k, i \in Holders(f), ModuleName(Roots[i], f) = m PROVE FALSE
  <2>1. Len(Roots[i]) <= Len(Roots[o]) /\ Len(Roots[i]) \in Nat /\ Len(Roots[o]) \in Nat /\ Len(f) \in Nat
    BY <1>1, <1>2, <1>11, InnermostHolds, RootTypes DEF o
  <2>2. Len(Roots[i]) < Len(f)
    BY <1>2, <2>1
  <2>3. i \in T
    BY <1>2, <1>5, <1>11, <2>2
  <2> QED BY <1>7, <1>8, <1>11, <2>3
<1>12. Roots[k] = owned[m].root
  BY <1>1, <1>10, <1>11, FirstDirectory DEF f
<1>13. Has(Guest(k), m) /\ \A i \in DOMAIN Roots : i < k => ~Has(Guest(i), m)
  <2>1. \A i \in DOMAIN Roots : Has(Guest(i), m) <=> Under(i)
    BY <1>1, EntryHas
  <2>2. \A i \in DOMAIN Roots : i < k => ~Under(i)
    BY <1>7, <1>8
  <2> HIDE DEF Under
  <2> QED BY <1>8, <2>1, <2>2
<1>14. /\ PythonPath[1] = "python" /\ PythonPath[2] = "world" /\ Len(PythonPath) = Len(Roots) + 3
       /\ \A i \in DOMAIN Roots : PythonPath[i + 2] = Guest(i)
  BY <1>1, PathEntries
<1> DEFINE p == <<Guest(k)>> \o q
<1>15. p \in DOMAIN mounts
  <2>1. k \in MountedIn(m)
    BY <1>10, <1>12 DEF MountedIn, Roots
  <2>2. p \in MountPoints(m)
    BY <1>1, <2>1 DEF MountPoints
  <2> QED BY <1>1, <2>2 DEF Settled, Laid
<1> HIDE DEF T, q, p, Guest, Has, PythonPath
<1>16. ~Has("python", m) /\ ~Has("world", m)
  BY <1>1, EntryHas
<1>17. ASSUME NEW j \in 1 .. Len(PythonPath), j < k + 2 PROVE ~Has(PythonPath[j], m)
  <2>1. CASE j = 1 \/ j = 2
    BY <1>14, <1>16, <2>1
  <2>2. CASE ~(j = 1 \/ j = 2)
    <3>1. j - 2 \in DOMAIN Roots /\ j - 2 < k /\ (j - 2) + 2 = j
      BY <1>7, <1>8, <1>14, <1>17, <2>2
    <3>2. PythonPath[j] = Guest(j - 2)
      BY <1>14, <3>1
    <3> QED BY <1>13, <3>1, <3>2
  <2> QED BY <2>1, <2>2
<1>18. k + 2 \in 1 .. Len(PythonPath) /\ Len(PythonPath) \in Nat /\ PythonPath[k + 2] = Guest(k)
  BY <1>7, <1>10, <1>14
<1>19. Imported(q) = mounts[p]
  <2>1. Has(PythonPath[k + 2], Head(q))
    BY <1>3, <1>13, <1>18
  <2>2. \A j \in 1 .. Len(PythonPath) : j < k + 2 => ~Has(PythonPath[j], Head(q))
    BY <1>3, <1>17
  <2>3. <<PythonPath[k + 2]>> \o q = p
    BY <1>18 DEF p
  <2> HIDE DEF Imported
  <2> QED BY <1>15, <1>18, <2>1, <2>2, <2>3, FirstEntry, Zenon
<1>20. p[1] = Guest(k) /\ p[2] = m
  <2> DEFINE S == STRING \cup {"b"} \cup {Guest(k)}
             h == <<Guest(k)>>
  <2>1. q \in Seq(STRING \cup {"b"}) /\ 1 \in 1 .. Len(q)
    BY <1>1, BindingHead DEF q
  <2>2. STRING \cup {"b"} \subseteq S /\ Guest(k) \in S
    OBVIOUS
  <2> HIDE DEF S
  <2>3. q \in Seq(S) /\ h \in Seq(S) /\ Len(h) = 1 /\ h[1] = Guest(k)
    BY <2>1, <2>2, One, SeqMonotonic
  <2>4. p = h \o q
    BY DEF p
  <2> HIDE DEF h
  <2>5. \A j \in 1 .. Len(h) : (h \o q)[j] = h[j]
    BY <2>3, Joined
  <2>6. \A j \in 1 .. Len(q) : (h \o q)[Len(h) + j] = q[j]
    BY <2>3, Joined
  <2> DEFINE u == h \o q
  <2>7. (\A j \in 1 .. 1 : u[j] = h[j]) /\ \A j \in 1 .. Len(q) : u[1 + j] = q[j]
    BY <2>3, <2>5, <2>6
  <2> HIDE DEF u
  <2>8. u[1] = h[1] /\ u[1 + 1] = q[1]
    BY <2>1, <2>7
  <2>9. p = u
    BY <2>4 DEF u
  <2> QED BY <1>3, <2>3, <2>8, <2>9
<1>21. Guest(k) # "world"
  BY <1>1, <1>10, GuestsAssumption DEF Roots
<1>22. mounts[p] = m
  <2>1. p # <<"world", opt.worldModule>>
    <3>1. <<"world", opt.worldModule>>[1] = "world"
      OBVIOUS
    <3> QED BY <1>20, <1>21, <3>1
  <2>2. p[2] = mounts[p]
    BY <1>15, <2>1, MountedAs
  <2> QED BY <1>20, <2>2
<1> QED BY <1>19, <1>22 DEF q

LEMMA WorldIsImported ==
  ASSUME Settled, opt.worldModule \in DOMAIN assigned
  PROVE  Imported(<<opt.worldModule>>) = opt.worldModule
<1> DEFINE m == opt.worldModule
           q == <<m>>
           p == <<"world", m>>
<1>1. IsInput(in)
  BY ConfigTypes DEF Settled
<1>2. /\ PythonPath[1] = "python" /\ PythonPath[2] = "world" /\ Len(PythonPath) = Len(Roots) + 3
      /\ Len(Roots) \in Nat
  BY <1>1, PathEntries, RootTypes
<1> HIDE DEF PythonPath
<1>3. ~Has("python", m) /\ Has("world", m)
  BY EntryHas
<1>4. p \in DOMAIN mounts
  BY DEF Settled, Laid, MountPoints
<1>5. mounts[p] = m
  <2>1. p[1] = "world"
    OBVIOUS
  <2> HIDE DEF p
  <2> QED BY <1>4, <2>1, MountedAs
<1>6. Head(q) = m /\ <<PythonPath[2]>> \o q = p
  <2> DEFINE S == {"world", m}
             u == <<"world">> \o <<m>>
  <2>1. <<"world">> \in Seq(S) /\ <<m>> \in Seq(S) /\ Len(<<"world">>) = 1 /\ Len(<<m>>) = 1
        /\ <<"world">>[1] = "world" /\ <<m>>[1] = m
    BY One
  <2>2. p \in Seq(S) /\ Len(p) = 2 /\ p[1] = "world" /\ p[2] = m
    BY Two
  <2> HIDE DEF p, S
  <2>3. /\ u \in Seq(S) /\ Len(u) = 1 + 1
        /\ (\A i \in 1 .. 1 : u[i] = <<"world">>[i]) /\ \A i \in 1 .. 1 : u[1 + i] = <<m>>[i]
    BY <2>1, Joined
  <2> HIDE DEF u
  <2>4. u[1] = "world" /\ u[1 + 1] = m
    BY <2>1, <2>3
  <2>5. u = p
    BY <2>2, <2>3, <2>4, SeqEqual
  <2> QED BY <1>2, <2>1, <2>5 DEF u
<1>7. 2 \in 1 .. Len(PythonPath) /\ Len(PythonPath) \in Nat
      /\ \A j \in 1 .. Len(PythonPath) : j < 2 => j = 1
  BY <1>2
<1> HIDE DEF q, p, Has, Imported
<1>8. Imported(q) = mounts[p]
  <2>1. Has(PythonPath[2], Head(q))
    BY <1>2, <1>3, <1>6
  <2>2. \A j \in 1 .. Len(PythonPath) : j < 2 => ~Has(PythonPath[j], Head(q))
    BY <1>2, <1>3, <1>6, <1>7
  <2> QED BY <1>4, <1>6, <1>7, <2>1, <2>2, FirstEntry, Zenon
<1> QED BY <1>5, <1>8 DEF q

\* An import of a module's bindings finds the generated ones, in whatever directory
\* of the path the module is, and so does one of the world's module and the helpers'
\* import of it (the mounts of componentize and PYTHONPATH).
THEOREM ImportsAreGenerated == Spec => []GeneratedIsImported
<1>1. IInv /\ Generated => GeneratedIsImported
  <2> SUFFICES ASSUME IInv, Generated, stage = "done", Clear
               PROVE  /\ \A m \in Own : Imported(BindingModule(m)) = m
                      /\ opt.worldModule \in DOMAIN assigned =>
                           /\ Imported(<<opt.worldModule>>) = opt.worldModule
                           /\ in.unpacked = {} \/ opt.worldModule = "wit_world" =>
                                Imported(<<ImportedByHelpers>>) = opt.worldModule
    BY DEF GeneratedIsImported
  <2>1. Settled
    BY DEF Settled, Generated
  <2>2. ASSUME NEW m \in Own PROVE Imported(BindingModule(m)) = m
    BY <2>1, OwnIsImported
  <2>3. ASSUME opt.worldModule \in DOMAIN assigned
        PROVE  Imported(<<opt.worldModule>>) = opt.worldModule /\ helpers = opt.worldModule
    BY <2>1, <2>3, WorldIsImported DEF Settled, Laid
  <2>4. ASSUME opt.worldModule \in DOMAIN assigned, in.unpacked = {} \/ opt.worldModule = "wit_world"
        PROVE  Imported(<<ImportedByHelpers>>) = opt.worldModule
    <3>1. ImportedByHelpers = opt.worldModule
      BY <2>3, <2>4 DEF ImportedByHelpers
    <3> HIDE DEF Imported
    <3> QED BY <2>3, <2>4, <3>1
  <2> HIDE DEF Imported
  <2> QED BY <2>2, <2>3, <2>4
<1> QED BY <1>1, Invariance, GeneratedInvariance, PTL
=============================================================================
