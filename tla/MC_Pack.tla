------------------------------ MODULE MC_Pack ------------------------------
(* Names, contents and indexes for TLC.                                    *)
EXTENDS Pack

CONSTANTS a, long, x, y, z

MCstrlen == [n \in Names |-> IF n = long THEN 20 ELSE 1]
MCContents == {<<>>, <<x>>, <<x, y>>}
MCStubs == {<<z>>, <<z, z>>}

Files(s) == [k \in DOMAIN s |-> <<"file", s[k]>>]
Index(v, n, s) == <<<<"mflversion", v>>, <<"filecount", n>>, <<"other">>>> \o Files(s)

NameSeqs == {<<>>, <<a>>, <<long>>, <<a, long>>, <<long, a>>, <<a, a>>, <<long, long>>}
MCInfos ==
  {Index(v, Len(s), s) : v \in {20, 30}, s \in NameSeqs \cup {<<a, long, a>>}}
  \cup {Index(30, 2, <<a>>), Index(30, 1, <<long, a>>), Files(<<a>>), Index(11, 1, <<a>>),
        <<<<"bad">>>> \o Index(30, 1, <<a>>), <<<<"filecount", 1>>, <<"file", a>>>>}
=============================================================================
