---------------------------- MODULE PropertyArea ----------------------------
(***************************************************************************)
(* The property area aro-props writes for bionic (crates/aro-props/src/    *)
(* lib.rs; its lines come from write_properties of                         *)
(* crates/aro-exec/src/prepare.rs): an arena with a trie over the dot-     *)
(* separated segments of the names, in which the children of a node are a  *)
(* binary tree, ordered by length and then by bytes.  bionic walks the     *)
(* same links in every process of the app.                                 *)
(*                                                                         *)
(* A node is named by its offset in the arena, and a link that is 0 leads  *)
(* nowhere: the root is at 0.  What is left out is the layout inside a     *)
(* node and the other two files, which hold no property.                   *)
(***************************************************************************)
EXTENDS Integers, Sequences, FiniteSets, SequencesExt

CONSTANTS
    Lines,       \* name and value of build.prop, of ARO's own list, of the caller
    ArenaSize,   \* PA_SIZE - HEADER_SIZE
    MaxLines     \* bound: lines of one directory

PROP_BT_SIZE   == 20
PROP_INFO_SIZE == 96
PROP_VALUE_MAX == 92

\* A segment is its length and its rank among all segments in the order of their
\* bytes; a value its length and which it is.
Segments == [len : Nat, rank : Nat]

ASSUME AreaAssumption ==
    /\ \A line \in Lines :
          line.name \in Seq(Segments) \ {<<>>} /\ line.value.len \in Nat
    /\ ArenaSize \in Nat /\ ArenaSize >= PROP_BT_SIZE /\ MaxLines \in Nat

VARIABLES
    props,       \* the lines so far, in increasing priority
    area         \* the area that is written for them, or that failed

areaVars == <<props, area>>

\* PropArea::new: a root without a name.
Links      == {"left", "right", "children"}
RootName   == [len |-> 0, rank |-> 0]
Node(name) == [name |-> name, prop |-> 0, link |-> [l \in Links |-> 0]]
NewArea    == [ok |-> TRUE, used |-> PROP_BT_SIZE, node |-> [n \in {0} |-> Node(RootName)],
               info |-> <<>>, at |-> 0]

AreaTypeOK ==
    /\ props \in Seq(Lines) /\ Len(props) <= MaxLines
    /\ area.ok \in BOOLEAN /\ area.used \in PROP_BT_SIZE..ArenaSize
    /\ DOMAIN area.node \cup DOMAIN area.info \subseteq 0..area.used

-----------------------------------------------------------------------------
(* The arena.                                                              *)

\* alloc: whole words.
Aligned(size) == ((size + 3) \div 4) * 4

Failed(a) == [a EXCEPT !.ok = FALSE]

Fits(a, size) == a.used + size <= ArenaSize

\* What the arena holds at an offset.
With(held, offset, x) == [n \in DOMAIN held \cup {offset} |-> IF n = offset THEN x ELSE held[n]]

NodeSize(segment) == Aligned(PROP_BT_SIZE + segment.len + 1)

NameLength(name) == Len(name) - 1 + SumFunction([i \in DOMAIN name |-> name[i].len])

\* A long value is in an allocation of its own, behind the others.
InfoSize(name, value) ==
    Aligned(PROP_INFO_SIZE + NameLength(name) + 1)
        + (IF value.len >= PROP_VALUE_MAX THEN Aligned(value.len + 1) ELSE 0)

\* new_bt, linked to the node that was missing it, and where add goes on.
NewNode(a, from, link, segment) ==
    IF ~Fits(a, NodeSize(segment)) THEN Failed(a)
    ELSE [a EXCEPT !.node = With([@ EXCEPT ![from].link[link] = a.used], a.used, Node(segment)),
                   !.used = @ + NodeSize(segment),
                   !.at   = a.used]

-----------------------------------------------------------------------------
(* The trie.                                                               *)

\* Mutant: segments in the order of their bytes alone.
BytesOnly(x, y) == x.rank < y.rank

cmp_name(x, y) == x.len < y.len \/ (x.len = y.len /\ x.rank < y.rank)

Branch(a, n, segment) == IF cmp_name(segment, a.node[n].name) THEN "left" ELSE "right"

\* The node of the segment among the siblings of `first`, or the one it is to hang on.
Nearest(a, first, segment) ==
    LET walk[n \in DOMAIN a.node] ==
            LET next == a.node[n].link[Branch(a, n, segment)]
            IN  IF a.node[n].name = segment \/ next = 0 THEN n ELSE walk[next]
    IN  walk[first]

find_bt(a, first, segment) ==
    LET n == Nearest(a, first, segment)
    IN  IF a.node[n].name = segment THEN [a EXCEPT !.at = n]
        ELSE NewNode(a, n, Branch(a, n, segment), segment)

Descend(a, segment) ==
    IF ~a.ok THEN a
    ELSE IF segment.len = 0 THEN Failed(a)
    ELSE LET first == a.node[a.at].link["children"]
         IN  IF first = 0 THEN NewNode(a, a.at, "children", segment)
             ELSE find_bt(a, first, segment)

\* From the root, segment by segment.
Descent(a, name) ==
    LET down[i \in 0..Len(name)] ==
            IF i = 0 THEN [a EXCEPT !.at = 0] ELSE Descend(down[i - 1], name[i])
    IN  down[Len(name)]

\* Once a property failed, so has the area.
add(a, name, value) ==
    LET end == Descent(a, name)
    IN  IF ~end.ok \/ end.node[end.at].prop # 0 \/ ~Fits(end, InfoSize(name, value))
        THEN Failed(end)
        ELSE [end EXCEPT !.node[end.at].prop = end.used,
                         !.info = With(@, end.used, value),
                         !.used = @ + InfoSize(name, value)]

\* Mutant: the first line of a name counts.
FirstWins(lines, line) ==
    IF \E i \in DOMAIN lines : lines[i].name = line.name THEN lines ELSE Append(lines, line)

\* A later line overrides the value of an earlier one, in its place.
Override(lines, line) ==
    IF \E i \in DOMAIN lines : lines[i].name = line.name
    THEN [i \in DOMAIN lines |-> IF lines[i].name = line.name THEN line ELSE lines[i]]
    ELSE Append(lines, line)

merged(lines) ==
    LET upTo[i \in 0..Len(lines)] ==
            IF i = 0 THEN <<>> ELSE Override(upTo[i - 1], lines[i])
    IN  upTo[Len(lines)]

Write(lines) ==
    LET upTo[i \in 0..Len(lines)] ==
            IF i = 0 THEN NewArea ELSE add(upTo[i - 1], lines[i].name, lines[i].value)
    IN  upTo[Len(lines)]

write_properties_dir(lines) == Write(merged(lines))

-----------------------------------------------------------------------------
AreaInit == props = <<>> /\ area = NewArea

ReadLine(line) ==
    /\ Len(props) < MaxLines
    /\ props' = Append(props, line)
    /\ area' = write_properties_dir(props')

AreaNext == \E line \in Lines : ReadLine(line)

-----------------------------------------------------------------------------
(* bionic's prop_area::find, by the order it compares segments in.         *)

BionicNext(node, segment) ==
    IF segment.len < node.name.len \/ (segment.len = node.name.len /\ segment.rank < node.name.rank)
    THEN node.link["left"] ELSE node.link["right"]

BionicSibling(a, first, segment) ==
    LET walk[n \in DOMAIN a.node \cup {0}] ==
            IF n = 0 \/ a.node[n].name = segment THEN n
            ELSE walk[BionicNext(a.node[n], segment)]
    IN  walk[first]

\* The offset of the node of a name, or 0.
BionicNode(a, name) ==
    LET down[i \in 0..Len(name)] ==
            IF i = 0 THEN 0
            ELSE IF i > 1 /\ down[i - 1] = 0 THEN 0
            ELSE BionicSibling(a, a.node[down[i - 1]].link["children"], name[i])
    IN  down[Len(name)]

BionicFind(a, name) ==
    LET n == BionicNode(a, name)
    IN  IF n = 0 \/ a.node[n].prop = 0 THEN <<>> ELSE <<a.info[a.node[n].prop]>>

-----------------------------------------------------------------------------
(* Properties.                                                             *)

Given   == {props[i].name : i \in DOMAIN props}
Nodes   == UNION {{SubSeq(name, 1, i) : i \in 1..Len(name)} : name \in Given}

\* The value of the last line with the name.
Latest(name) == props[CHOOSE i \in DOMAIN props :
    props[i].name = name /\ \A j \in DOMAIN props : props[j].name = name => j <= i].value

\* A node for every prefix of a name, once, and a property for every name.
SizeNeeded ==
    PROP_BT_SIZE + SumFunction([prefix \in Nodes |-> NodeSize(Last(prefix))])
                 + SumFunction([name \in Given |-> InfoSize(name, Latest(name))])

WellFormed == \A name \in Given : \A i \in DOMAIN name : name[i].len > 0

\* Every property is found with its last value, and a name that was not given is not
\* found, in whatever order names come that share segments; the write fails only where
\* a name has an empty segment or there is no room for what has to be there.
PropertiesAreFound ==
    /\ area.ok <=> WellFormed /\ SizeNeeded <= ArenaSize
    /\ area.ok => \A line \in Lines :
          BionicFind(area, line.name) =
              IF line.name \in Given THEN <<Latest(line.name)>> ELSE <<>>
=============================================================================
