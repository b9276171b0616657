------------------------------ MODULE MCBridge ------------------------------
(* Instances of Bridge for TLC: small torrents of two files.               *)
EXTENDS Bridge

CONSTANTS n1, n2

File(p, d) == [path |-> p, data |-> d]
a == <<"a">>
b == <<"d", "b">>

\* A piece of two bytes reaches across the files; the second torrent ends
\* with a short piece and has an odd number of chunks, and one path leaves.
SmallTorrents == {<<File(b, <<0>>), File(a, <<0, 1>>)>>,
                  <<File(a, <<1, 1, 1>>), File(b, <<>>)>>,
                  <<File(a, <<0, 1>>)>>,
                  <<File(<<"..", "a">>, <<1>>), File(b, <<1>>)>>}
OtherTrees == {<<File(a, <<0, 1>>), File(b, <<0, 0>>)>>}
Pair(x, y) == [n \in Nodes |-> IF n = n1 THEN x ELSE y]
AllRoles == {Pair("local", "source"), Pair("magnet", "source"), Pair("pack", "get")}
Sorted == <<<<"..", "a">>, <<"C:">>, a, b>>
=============================================================================
