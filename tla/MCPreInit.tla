------------------------------ MODULE MCPreInit ------------------------------
(***************************************************************************)
(* PreInit on small builds: two worlds, two interfaces of WASI, of which   *)
(* one is too new for the linker, and two others, and every way in which   *)
(* the script of the application can leave the state of the interpreter.   *)
(***************************************************************************)
EXTENDS PreInit

CONSTANTS x, y

MCEntries == [wasi |-> {"get"}, newer |-> {"get"}, iface |-> {"f", "r"}, types |-> {}, func |-> {"func"}]
MCProvided == [wasi |-> {"get", "set"}]
MCKeys == {"PYTHONHOME", "A"}
MCHostEnv == [i \in Instances |-> IF i = x THEN {"A"} ELSE Keys]
MCHostArgs == [i \in Instances |-> IF i = x THEN 2 ELSE 1]

Plain ==
  [worlds |-> << {"wasi", "iface"} >>, libraries |-> <<"numpy">>,
   wasi |-> <<"wasi_snapshot_preview1", "wasi:cli">>, needAsync |-> FALSE, stubWasi |-> FALSE, embedder |-> FALSE, given |-> {},
   sets |-> {}, adds |-> 0, draws |-> 0, calls |-> {}, raises |-> FALSE, lacks |-> FALSE]

\* The worlds, and what the linkers are given.
Worlds ==
  {[Plain EXCEPT !.worlds = <<v, u>>, !.stubWasi = TRUE] :
     v \in SUBSET Imports, u \in {{}, {"wasi", "types"}, {"iface", "types", "func"}}}
Linkings ==
  {[Plain EXCEPT !.libraries = l, !.wasi = a, !.needAsync = n, !.stubWasi = t] :
     l \in {<<>>, <<"numpy", "re">>}, n \in BOOLEAN, t \in BOOLEAN,
     a \in {SubSeq(<<"wasi_snapshot_preview1", "wasi:cli", "wasi:io">>, 1, k) : k \in 1 .. 3}}

\* What the script does.
Scripts ==
  {[Plain EXCEPT !.sets = s, !.adds = a, !.draws = d, !.stubWasi = t] :
     s \in SUBSET Keys, a \in 0 .. 2, d \in 0 .. 1, t \in BOOLEAN}
Failing ==
  {[Plain EXCEPT !.calls = c, !.raises = r, !.lacks = k] :
     c \in SUBSET {"wasi", "iface"}, r \in BOOLEAN, k \in BOOLEAN}

Embedded ==
  {[Plain EXCEPT !.embedder = TRUE, !.given = Definitions(MCEntries, g), !.calls = c] :
     g \in {{"wasi"}, {"wasi", "iface", "func"}}, c \in SUBSET {"wasi", "iface"}}

MCBuilds == Worlds \cup Linkings \cup Scripts \cup Failing \cup Embedded
=============================================================================
