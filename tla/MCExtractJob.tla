----------------------------- MODULE MCExtractJob -----------------------------
(* A destination with a place a in it and a place x in its directory d, and *)
(* archives of up to three of twelve entries: files for a and x in several  *)
(* sizes and spellings, one whose stream is longer than declared and one    *)
(* whose is shorter, a directory and a file for d, links for a and d that   *)
(* stay inside, and one that leads out, a path that climbs, one too deep.   *)
EXTENDS ExtractJob

A == <<"a">>
D == <<"d">>
X == <<"d", "x">>

MCName == {<<>>, A, D, X}

E(k, p, s, t) == [path |-> p, kind |-> k, target |-> Path(<<>>), size |-> s, actual |-> t]
L(p, target)  == [path |-> p, kind |-> "link", target |-> target, size |-> 0, actual |-> 0]

InsideLink == L(Path(D), Path(<<"a">>))

MCEntry == {E("file", Path(A), 2, 2), E("file", Path(<<".", "a">>), 1, 1),
            E("file", Path(<<"d", "", "x">>), 1, 2), E("file", Path(X), 2, 2),
            E("dir", Path(<<"d", "">>), 0, 0), E("file", Path(D), 0, 0),
            E("file", Path(X), 2, 1),
            InsideLink, L(Path(A), Path(<<"d", "..", "a">>)),
            L(Path(A), Path(<<"..", "a">>)),
            E("file", Path(<<"d", "..", "a">>), 1, 1), E("file", Path(<<"d", "d", "x">>), 1, 1)}

(* A link to the destination itself, and one that goes up from there.      *)
MCChainEntry == {L(Path(A), Path(<<".">>)), L(Path(D), Path(<<"a", "..">>))}

MCLinkEntry == {InsideLink, E("file", Path(A), 1, 1)}
===============================================================================
