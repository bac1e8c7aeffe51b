------------------------------- MODULE MCMedia ------------------------------
(***************************************************************************)
(* Media with small sets for TLC.                                          *)
(***************************************************************************)
EXTENDS Media

CONSTANTS arod, other_arod
MCThreads == arod :> {1, 2} @@ other_arod :> {1}
MCSpans == {[start |-> 0, end |-> 1], [start |-> 1, end |-> 1]}

\* 1 is the user's home, 2 and 5 are in it, 3 is in 2 and 4 in 3.
MCParent == [d \in 1..5 |-> <<1, 1, 2, 3, 1>>[d]]

\* The paths of 4 and 5 have one hash.
MCBucketOf == [d \in 1..5 |-> <<7, -8, 9, -1, -1>>[d]]
MCPlacements ==
    {[f \in 1..3 |-> [in         |-> <<a, b, c>>[f],
                      media_type |-> <<Image, t, Image>>[f],
                      date       |-> <<1, 2, d>>[f]]] :
       a \in {2, 4}, b \in {3, 4}, c \in {3, 5}, t \in {Video, Other}, d \in {1, 2}}
MCRootSets == {{2, 5}, {3, 5}, {2, 3}}

\* ro < build by length, build < ro by bytes; the last name ends in a dot.
Segment(len, rank) == [len |-> len, rank |-> rank]
MCLines ==
    LET ro    == Segment(2, 3)
        build == Segment(5, 2)
        a     == Segment(1, 1)
        z     == Segment(1, 4)
        Line(name, len) == [name |-> name, value |-> [len |-> len]]
    IN  {Line(<<ro>>, 2), Line(<<ro, build>>, 3), Line(<<ro, build>>, 92), Line(<<ro, a>>, 1),
         Line(<<ro, z>>, 91), Line(<<build>>, 0), Line(<<a>>, 1), Line(<<z, Segment(0, 0)>>, 1)}
=============================================================================
