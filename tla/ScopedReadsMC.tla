---------------------------- MODULE ScopedReadsMC ----------------------------
(* Two repositories; 8 names files, 1 and 2 folders, and 7 is excluded.     *)
EXTENDS ScopedReads, TLC

Names    == {1, 2, 7, 8}
DotNames == {7}
Repos    == {1, 2}

Root  == <<8>>
Upper == <<1, 8>>
Lower == <<1, 2, 8>>
Dot   == <<7, 8>>
Files == {Root, Upper, Lower, Dot}

\* In the first repository what lies deeper matches better; the second has one file.
Scores     == [h \in Repos \X Files |->
                 CASE h = <<1, Upper>> -> 4 [] h = <<1, Lower>> -> 3 [] h = <<2, Root>> -> 2 [] h = <<1, Root>> -> 1
                   [] OTHER -> 0]
EvenScores == [h \in Repos \X Files |-> 1]

Changing(r, kind, paths) == [repo |-> r, kind |-> kind, paths |-> paths]
SomeEdits ==
  {Changing(1, "put", <<Upper>>), Changing(1, "delete", <<Root>>), Changing(1, "several", <<Root, Lower>>),
   Changing(1, "move", <<Lower, Root>>), Changing(1, "move", <<Upper, Lower>>),
   Changing(1, "move", <<Dot, Upper>>), Changing(1, "move", <<Upper, Dot>>), Changing(2, "put", <<Root>>)}

Setting(r, folder, level) == [repo |-> r, folder |-> folder, level |-> level]
SomeSettings ==
  {Setting(1, <<1>>, "none"), Setting(1, <<1, 2>>, "write"), Setting(1, <<>>, "read"),
   Setting(1, <<1>>, "inherit"), Setting(2, <<>>, "none")}

Ruled(folder, level) == [path |-> folder, level |-> level]
SomeRules ==
  {r1 :> one @@ r2 :> two :
     r1 \in {1}, r2 \in {2},
     one \in {{Ruled(<<>>, "write")}, {Ruled(<<>>, "none"), Ruled(<<1, 2>>, "write")},
              {Ruled(<<>>, "read"), Ruled(<<1>>, "none"), Ruled(<<1, 2>>, "read")}},
     two \in {{Ruled(<<>>, "read")}}}

Tree(n, paths) == [p \in paths |-> <<n, p>>]
Moved(n) == [p \in {Lower} |-> <<n, Upper>>]
SomeLogs ==
  {1 :> one @@ 2 :> <<Tree(1, {Root})>> :
     one \in {<<Tree(1, {Lower}), Tree(1, {Lower}) @@ Tree(2, {Root}),
               Tree(1, {Lower}) @@ Tree(2, {Root}) @@ Tree(3, {Upper})>>,
              <<Tree(1, {Upper, Dot}), Moved(1) @@ Tree(1, {Dot}), Moved(1) @@ Tree(1, {Dot}) @@ Tree(3, {Root})>>}}
=============================================================================
