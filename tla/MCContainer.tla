---------------------------- MODULE MCContainer -------------------------------
(* Container, for TLC: the trees, tars and rules of the change set. *)
EXTENDS Container, TLC

MCPath == {<<"d">>, <<"d", "f">>, <<"d", ".git">>, <<"u">>, <<"x">>}

\* One path is no UTF-8, another one holds a control character.
MCNotUtf8  == {<<"x">>}
MCNotPlain == {<<"u">>}

Node(kind, body, exec) == [kind |-> kind, body |-> body, exec |-> exec]
None  == Node("none", 0, FALSE)
Files == {Node("file", 1, FALSE), Node("file", 2, FALSE), Node("file", 1, TRUE)}
Dir(beneath) == Node("dir", beneath, FALSE)

Tree(d, f, git, u) == <<"d">> :> d @@ <<"d", "f">> :> f @@ <<"d", ".git">> :> git @@ <<"u">> :> u @@ <<"x">> :> None
Trees ==
  {Tree(d, None, None, u) :
     d \in Files \cup {None, Node("link", 0, FALSE), Node("special", 0, FALSE)},
     u \in {None, Node("file", 1, FALSE)}}
  \cup {Tree(Dir(0), f, git, u) :
     f \in Files \cup {None, Node("link", 0, FALSE), Dir(0)},
     git \in {None, Dir(2)},
     u \in {None, Node("file", 1, FALSE)}}
  \cup {[Tree(None, None, None, None) EXCEPT ![<<"x">>] = Node("file", 1, FALSE)]}

Member(p, kind, body, exec) == [path |-> p, kind |-> kind, body |-> body, exec |-> exec]
Tars ==
  {{},
   {Member(<<"d">>, "file", 1, FALSE)},
   {Member(<<"d", "f">>, "file", 1, TRUE), Member(<<"u">>, "file", 1, FALSE)},
   {Member(<<"d">>, "dir", 0, FALSE), Member(<<"u">>, "file", 2, FALSE)},
   {Member(<<"u">>, "link", 0, FALSE)},
   {Member(<<"u">>, "file", 1, FALSE), Member(<<"u">>, "file", 2, FALSE)}}

Caps(e, f, t, a) == [entries |-> e, file_bytes |-> f, total_bytes |-> t, added_files |-> a]

MCInputs ==
  [tar : Tars, tree : Trees,
   generated : {{}, {<<"**", "f">>}, {<<"d", "*">>, <<"u">>}},
   withheld : {{}, {<<"d">>}, {<<"u">>}},
   caps : {Caps(6, 2, 9, 9), Caps(3, 2, 2, 9), Caps(5, 1, 9, 1)}]
=============================================================================
