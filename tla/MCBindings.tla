---------------------------- MODULE MCBindings ----------------------------
(***************************************************************************)
(* Bindings on small WIT packages.                                         *)
(***************************************************************************)
EXTENDS Bindings, TLC

T(kind, parts, owner, words) == [kind |-> kind, parts |-> parts, owner |-> owner, words |-> words]
F(name, async, res, parts) == [name |-> name, async |-> async, res |-> res, parts |-> parts]
I(interface, words, declares, funcs) ==
  [interface |-> interface, words |-> words, types |-> declares, funcs |-> funcs]

\* Interface a declares a record with a handle to a resource whose method takes
\* the record; b uses types of a; c declares a resource before the types of its
\* methods, a record with the name of that in a, and a named stream; d has only
\* functions; and the world has a type and functions.
MCType ==
  [e |-> T("enum", <<>>, "a", <<"e">>), p |-> T("record", <<"e", "own_r">>, "a", <<"p">>),
   r |-> T("resource", <<>>, "a", <<"r">>), own_r |-> T("handle", <<"r">>, NoItem, <<>>),
   be |-> T("alias", <<"e">>, "b", <<"e">>), br |-> T("alias", <<"r">>, "b", <<"r">>),
   bp |-> T("alias", <<"p">>, "b", <<"p">>), own_br |-> T("handle", <<"br">>, NoItem, <<>>),
   opt_br |-> T("wrap", <<"own_br">>, NoItem, <<"option">>),
   v |-> T("variant", <<"be", "opt_br">>, "b", <<"v">>),
   st |-> T("stream", <<"bp">>, NoItem, <<"stream">>), so |-> T("stream", <<"opt_br">>, NoItem, <<"stream">>),
   s |-> T("resource", <<>>, "c", <<"s">>), q |-> T("record", <<"list_o">>, "c", <<"p">>),
   list_o |-> T("list", <<"opt_o">>, NoItem, <<"list">>), opt_o |-> T("wrap", <<"o">>, NoItem, <<"option">>),
   o |-> T("enum", <<>>, "c", <<"o">>), sq |-> T("stream", <<"q">>, "c", <<"stream">>),
   sa |-> T("stream", <<"q">>, NoItem, <<"stream">>), sl |-> T("stream", <<"list_o">>, NoItem, <<"stream">>),
   opt |-> T("wrap", <<>>, NoItem, <<"option">>), we |-> T("enum", <<>>, "wt", <<"we">>)]
MCItem ==
  [a |-> I(TRUE, <<"a">>, <<"r", "p", "e">>,
           <<F("make", FALSE, "r", <<>>), F("use", TRUE, "r", <<"p">>)>>),
   b |-> I(TRUE, <<"b">>, <<"be", "br", "bp", "v">>,
           <<F("f", FALSE, NoType, <<"v">>), F("g", TRUE, NoType, <<"st", "so">>)>>),
   c |-> I(TRUE, <<"c">>, <<"s", "q", "o", "sq">>,
           <<F("take", FALSE, "s", <<"q", "list_o">>), F("h", FALSE, NoType, <<"sa", "sl">>)>>),
   d |-> I(TRUE, <<"d">>, <<>>, <<F("k", TRUE, NoType, <<"opt">>)>>),
   wt |-> I(FALSE, <<>>, <<"we">>, <<>>),
   wf |-> I(FALSE, <<>>, <<>>, <<F("wf", TRUE, NoType, <<"we">>)>>),
   wg |-> I(FALSE, <<>>, <<>>, <<F("wg", FALSE, NoType, <<>>)>>)]

MCTypes == DOMAIN MCType
MCItems == DOMAIN MCItem
MCWorlds == {"w1", "w2"}
MCModules == {"wit_world", "sdk"}

Wit(worlds, all, modules) ==
  [types |-> MCType, items |-> MCItem, worlds |-> worlds, all |-> all, modules |-> modules]
Module(name, worlds) == [name |-> name, worlds |-> worlds]
W(import, export) == [import |-> import, export |-> export]
Empty == W(<<>>, <<>>)

\* The sublists of a list of items that are a side of a world: b uses a.
Sublists(s) == {SelectSeq(s, LAMBDA i : i \in keep) : keep \in SUBSET Range(s)}
Sides1 == {w \in {W(x, y) : x \in Sublists(<<"wt", "a", "b", "c", "wf">>),
                             y \in Sublists(<<"a", "b", "c", "wf">>)} :
             /\ Contains(w.import, "b") => Contains(w.import, "a")
             /\ Contains(w.export, "b") => Contains(w.import, "a") \/ Contains(w.export, "a")
             /\ Contains(w.import, "wf") \/ Contains(w.export, "wf") => Contains(w.import, "wt")
             /\ ~(Contains(w.import, "wf") /\ Contains(w.export, "wf"))}
OneWorld ==
  {Wit([w1 |-> w, w2 |-> Empty], <<"w1">>, <<Module("wit_world", {"w1"})>>) : w \in Sides1}

\* Two worlds, each with a module of its own.  They share an imported interface
\* with functions and a type that needs no class, and nothing else: a second
\* module would have to take it from the first.
TwoModules ==
  {Wit([w1 |-> W(<<"a", "d">>, x), w2 |-> W(y, z)], <<"w1", "w2">>,
       <<Module("sdk", {"w1"}), Module("wit_world", {"w2"})>>) :
     x \in {<<>>, <<"a">>, <<"wg">>}, y \in {<<"wt", "c">>, <<"d", "wt", "c">>},
     z \in {<<>>, <<"d">>, <<"d", "wf">>}}

UsualWits == {w \in OneWorld \cup TwoModules : WorldsAreApart(w)}

\* Two worlds given for one module.
MergedWits ==
  {Wit([w1 |-> W(<<"a">>, <<>>), w2 |-> W(<<"c">>, x)], <<"w1", "w2">>,
       <<Module("wit_world", {"w1", "w2"})>>) : x \in {y \in Sublists(<<"a", "b", "c">>) : Contains(y, "b") => Contains(y, "a")}}
===========================================================================
