----------------------------- MODULE MCBuildPlan ----------------------------
(* Inputs for TLC: up to MaxFiles configuration files in a small tree, with
   every kind of contents and option.                                      *)
EXTENDS BuildPlan

CONSTANTS MaxFiles

MCWorld == [w1 |-> {"a", "b"}, w2 |-> {"b", "c", "e"}, w3 |-> {"a", "c", "d", "f"}]

\* Two versions of p:q/x, another package's x, an x without a package, an export, and
\* p:r/q-x, whose words run together with those of p:r-q/x.
MCInfo ==
  [a |-> [side |-> "imports", package |-> << <<"p">>, <<"q">> >>, name |-> <<"x">>, version |-> <<"1", "0">>],
   b |-> [side |-> "imports", package |-> << <<"p">>, <<"q">> >>, name |-> <<"x">>, version |-> <<"2", "0">>],
   c |-> [side |-> "imports", package |-> << <<"p">>, <<"r", "q">> >>, name |-> <<"x">>, version |-> <<>>],
   d |-> [side |-> "imports", package |-> <<>>, name |-> <<"x">>, version |-> <<>>],
   e |-> [side |-> "imports", package |-> << <<"p">>, <<"r">> >>, name |-> <<"q", "x">>, version |-> <<>>],
   f |-> [side |-> "exports", package |-> << <<"p">>, <<"r", "q">> >>, name |-> <<"x">>, version |-> <<>>]]

Paths == {<< <<"p">> >>, << <<"p">>, <<"q">> >>, << <<"p">>, <<"p", "x">> >>,
          << <<"p", "x">>, <<"p">> >>, << <<"p">>, <<"p">> >>, << <<"p">>, <<"q">>, <<"p", "x">> >>}
Tree == {<<"p", "x">>, <<"p", "y">>, <<"p", "z">>, <<"p", "x", "y">>, <<"q", "y">>}
Contents == {[wit |-> {}, bindings |-> TRUE], [wit |-> {"w1"}, bindings |-> TRUE],
             [wit |-> {"w1", "w2"}, bindings |-> FALSE]}
MCOptions == [worlds: {{}, {"w1"}, {"w1", "w3"}}, intersect: {{}, {"w3"}},
              moduleWorlds: {<<>>, << [module |-> "y", worlds |-> {"w2"}] >>},
              worldModule: {"wit_world"}]
             \cup [worlds: {{"w1", "w3"}}, intersect: {{}}, moduleWorlds: {<<>>}, worldModule: {"cli_world"}]

\* Directories with unpacked bindings, in the smaller trees.
MCInputs ==
  UNION {{[roots |-> r, files |-> F, extern |-> {"w3"},
           wit |-> [f \in F |-> c[f].wit], bindings |-> {f \in F : c[f].bindings}, unpacked |-> u] :
            c \in [F -> Contents], u \in IF Cardinality(F) <= 1 THEN {{}, DOMAIN r} ELSE {{}}} :
         r \in Paths, F \in {G \in SUBSET Tree : Cardinality(G) <= MaxFiles}}
=============================================================================
