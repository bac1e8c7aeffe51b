------------------------------ MODULE MediaIndex ----------------------------
(***************************************************************************)
(* The media provider (src/crates/arod/src/services/media.rs): at the      *)
(* session's start it walks the user's picture and video directories, and  *)
(* from then on answers queries over what it found.  A file the user chose *)
(* in the portal's dialog gets an id too, from the same counter.           *)
(*                                                                         *)
(* Directories and files are numbered in the order of their names.  A file *)
(* is an image, a video or something else, by the ending of its name.      *)
(* Directories are a tree: links to directories above are left out.  They  *)
(* and the files are those that the walk can see: it passes over names     *)
(* that begin with a dot, and over directories and files that it cannot    *)
(* read.                                                                   *)
(***************************************************************************)
EXTENDS Integers, FiniteSets, Sequences, SequencesExt, VecRetain

CONSTANTS
    Directories, Files,
    Parent,               \* the directory a directory is in; of the topmost, itself
    bucket_of,            \* of a directory: a hash of its path in lower case, which
                          \* two directories may share
    Placements,           \* bound: where the files may be, with their types and dates
    RootSets,             \* bound: what the directories to walk may be
    Sounds,               \* audio files of the system image: the first ids
    MAX_VISUAL_ITEMS, MAX_WALK_DEPTH,
    MaxChosen,            \* bound: files that are chosen
    Unset

Image == 1
Video == 3
Other == 0

ASSUME MediaAssumption ==
    /\ Directories \subseteq Nat /\ Files \subseteq Nat
    /\ IsFiniteSet(Directories) /\ IsFiniteSet(Files)
    /\ Parent \in [Directories -> Directories] /\ RootSets \subseteq SUBSET Directories
    /\ bucket_of \in [Directories -> Int]
    /\ \E level \in [Directories -> 0..Cardinality(Directories)] :
          \A d \in Directories : Parent[d] # d => level[Parent[d]] < level[d]
    /\ \A p \in Placements :
          p \in [Files -> [in : Directories, media_type : {Image, Video, Other}, date : Nat]]
    /\ MAX_VISUAL_ITEMS \in Nat /\ MAX_WALK_DEPTH \in Nat /\ MaxChosen \in Nat /\ Sounds \in Nat
    /\ Unset \notin Int

VARIABLES
    place,         \* the user's files
    roots,         \* the directories to walk: from user-dirs.dirs, and some fixed names
    loaded,
    visual,        \* MediaService::visual
    next_id,
    choosing,      \* files that were chosen, and have an id and no entry yet
    documents      \* the entries: ids with files

mediaVars == <<place, roots, loaded, visual, next_id, choosing, documents>>

Item(id, file) == [id |-> id, file |-> file, bucket_id |-> bucket_of[place[file].in],
                   media_type |-> place[file].media_type, date |-> place[file].date]

MediaTypeOK ==
    /\ place \in Placements /\ roots \in RootSets /\ loaded \in BOOLEAN
    /\ Len(visual) <= MAX_VISUAL_ITEMS
    /\ \A i \in DOMAIN visual : visual[i] = Item(visual[i].id, visual[i].file)
    /\ next_id \in Nat
    /\ choosing \cup documents \subseteq Nat \X Files

MediaInit ==
    /\ place \in Placements /\ roots \in RootSets
    /\ loaded = FALSE /\ visual = <<>>
    /\ next_id = Sounds + 1
    /\ choosing = {} /\ documents = {}

-----------------------------------------------------------------------------
(* The index.                                                              *)

\* sort and sort_by: each in the place that those before it leave.
InOrder(S, Before(_, _)) ==
    [k \in 1..Cardinality(S) |->
        CHOOSE x \in S : Cardinality({y \in S : Before(y, x)}) = k - 1]

ByName(S) == InOrder(S, LAMBDA a, b : a < b)

Pictures(dir)       == {f \in Files : place[f].in = dir /\ place[f].media_type # Other}
Subdirectories(dir) == {d \in Directories : Parent[d] = dir /\ d # dir}

\* Mutant: the limit is the number of levels.
TooManyLevels(depth) == depth + 1 > MAX_WALK_DEPTH

\* Directories at the depth of the limit are walked, deeper ones are not.
TooDeep(depth) == depth > MAX_WALK_DEPTH

\* Mutant: the limit is looked at once for a directory, not for each file.
RoomForAll(files, items) == files

Room(files, items) == Min({files, MAX_VISUAL_ITEMS - items})

\* One walk after the other, each going on with what was found before.
WalkEach(walk, dirs, found) ==
    LET upTo[i \in 0..Len(dirs)] ==
            IF i = 0 THEN found ELSE walk[dirs[i]][upTo[i - 1]]
    IN  upTo[Len(dirs)]

\* The files of a directory by name, then its directories by name; the index may be
\* full in the middle.
walk_visual[depth \in 0..MAX_WALK_DEPTH + 1] ==
    [dir \in Directories |-> [found \in Seq(Files) |->
        IF TooDeep(depth) \/ Len(found) >= MAX_VISUAL_ITEMS THEN found
        ELSE LET files == ByName(Pictures(dir))
                 room  == Room(Len(files), Len(found))
             IN  WalkEach(walk_visual[depth + 1], ByName(Subdirectories(dir)),
                          found \o SubSeq(files, 1, room))]]

\* The latest first; of one date, the one that was found last.
Later(a, b) == a.date > b.date \/ (a.date = b.date /\ a.id > b.id)

\* Ids are given in the order in which files are found.
index_visual_media ==
    LET found == WalkEach(walk_visual[0], ByName(roots), <<>>)
    IN  InOrder({Item(Sounds + i, found[i]) : i \in DOMAIN found}, Later)

\* MediaService::load.
LoadMedia ==
    /\ ~loaded
    /\ loaded' = TRUE
    /\ visual' = index_visual_media
    /\ next_id' = Sounds + Len(index_visual_media) + 1
    /\ UNCHANGED <<place, roots, choosing, documents>>

-----------------------------------------------------------------------------
(* Files that are chosen; the dialogs of several apps may end at one time. *)

\* Mutant: the id is the number of files that were chosen.
CountDocuments == Cardinality(documents) + 1

NextDocumentId == next_id

DocumentId(file) ==
    /\ loaded
    /\ Cardinality(choosing \cup documents) < MaxChosen
    /\ choosing' = choosing \cup {<<NextDocumentId, file>>}
    /\ next_id' = next_id + 1
    /\ UNCHANGED <<place, roots, loaded, visual, documents>>

DocumentEntry(chosen) ==
    /\ chosen \in choosing
    /\ choosing' = choosing \ {chosen}
    /\ documents' = documents \cup {chosen}
    /\ UNCHANGED <<place, roots, loaded, visual, next_id>>

MediaNext ==
    \/ LoadMedia
    \/ \E file \in Files : DocumentId(file)
    \/ \E chosen \in choosing : DocumentEntry(chosen)

-----------------------------------------------------------------------------
(* Queries.                                                                *)

NoFilter == [id |-> Unset, id_min |-> Unset, id_max |-> Unset, bucket_id |-> Unset,
             media_type |-> Unset, offset |-> 0, limit |-> Unset]

\* A selection is a sequence of terms: a column that must have a value, or _id that
\* must be between two.  Of terms on one column the last counts, and a word it does
\* not know, OR among them, is passed over.
Apply(g, term) ==
    IF term.col = "between" THEN [g EXCEPT !.id_min = term.lo, !.id_max = term.hi]
    ELSE IF term.col \in {"id", "bucket_id", "media_type"} THEN [g EXCEPT ![term.col] = term.val]
    ELSE g

apply_selection(f, terms) ==
    LET upTo[i \in 0..Len(terms)] == IF i = 0 THEN f ELSE Apply(upTo[i - 1], terms[i])
    IN  upTo[Len(terms)]

\* The id of the uri first, then the selection, the limit and the offset.
parse_query_filter(id, terms, offset, limit) ==
    [apply_selection([NoFilter EXCEPT !.id = id], terms)
        EXCEPT !.offset = offset, !.limit = limit]

\* The type the uri names: images, video, or all files.
TypeRestrict(kind) ==
    CASE kind = "images" -> Image [] kind = "video" -> Video [] OTHER -> Unset

\* Mutant: the last id is not in the range.
MatchesBelow(item, f, restrict) ==
    LET type == IF restrict # Unset THEN restrict ELSE f.media_type
    IN  /\ type \in {Unset, item.media_type}
        /\ f.id \in {Unset, item.id}
        /\ f.id_min # Unset => item.id >= f.id_min
        /\ f.id_max # Unset => item.id < f.id_max
        /\ f.bucket_id \in {Unset, item.bucket_id}

matches_visual(item, f, restrict) ==
    LET type == IF restrict # Unset THEN restrict ELSE f.media_type
    IN  /\ type \in {Unset, item.media_type}
        /\ f.id \in {Unset, item.id}
        /\ f.id_min # Unset => item.id >= f.id_min
        /\ f.id_max # Unset => item.id <= f.id_max
        /\ f.bucket_id \in {Unset, item.bucket_id}

\* Mutant: the limit is applied to what precedes the offset.
LimitFirst(s, offset, limit) ==
    LET most == IF limit = Unset THEN Len(s) ELSE Min({limit, Len(s)})
    IN  SubSeq(s, offset + 1, most)

Page(s, offset, limit) ==
    LET most == IF limit = Unset THEN Len(s) ELSE Min({offset + limit, Len(s)})
    IN  SubSeq(s, offset + 1, most)

Matching(kind, f) ==
    Retain(visual, {item \in ToSet(visual) : matches_visual(item, f, TypeRestrict(kind))})

query_visual(kind, f) == Page(Matching(kind, f), f.offset, f.limit)

\* Queries of COUNT only leave the offset and the limit aside.
count_visual(kind, f) == Len(Matching(kind, f))

\* OPEN_FILE and its kin: the file behind a uri, or Unset.  A chosen file is opened
\* for reading only, unless a type is asked for.
lookup_open(kind, id, mode, typed) ==
    LET entries == IF kind # "aro-files" THEN {<<v.id, v.file>> : v \in ToSet(visual)}
                   ELSE IF typed \/ mode = "r" THEN documents ELSE {}
        named   == {e \in entries : e[1] = id}
    IN  IF named = {} THEN Unset ELSE (CHOOSE e \in named : TRUE)[2]

-----------------------------------------------------------------------------
(* Properties.                                                             *)

Kinds == {"images", "video", "file"}

\* The directory, the one it is in, and so on, as far as a walk gets down.
Above(dir) ==
    LET up[n \in 0..MAX_WALK_DEPTH] == IF n = 0 THEN dir ELSE Parent[up[n - 1]]
    IN  {up[n] : n \in 0..MAX_WALK_DEPTH}

\* Every image and video of the directories, down to the limit, is in the index once for
\* each directory to walk that it is in or below, and nothing else is, unless the index is
\* full (media.rs:493 "Unique existing directories").
IndexIsTheTree ==
    loaded /\ Len(visual) < MAX_VISUAL_ITEMS =>
        \A f \in Files :
            Cardinality({i \in DOMAIN visual : visual[i].file = f}) =
                IF place[f].media_type = Other THEN 0
                ELSE Cardinality(roots \cap Above(place[f].in))

\* The pages of limit items each have every match once, in order, and COUNT is their
\* number.
PagesOf(limit) ==
    \A kind \in Kinds :
        LET all   == query_visual(kind, NoFilter)
            pages == [p \in 1..Len(all) |->
                        query_visual(kind, parse_query_filter(Unset, <<>>, (p - 1) * limit, limit))]
        IN  /\ FlattenSeq(pages) = all
            /\ count_visual(kind, NoFilter) = Len(all)

\* So it is for pages of one item, and for larger ones.
PagesCoverTheMatches == \A limit \in 1..2 : PagesOf(limit)

\* A selection of terms joined by AND, each on another column, has the items that
\* all the terms and the uri say, and only these.  Asked for the bucket of a directory,
\* it has the items of every directory that shares it.
SelectionsAreConjunctions ==
    \A kind \in Kinds, lo, hi \in {v.id : v \in ToSet(visual)}, dir \in Directories :
        LET between == [col |-> "between", lo |-> lo, hi |-> hi]
            bucket  == [col |-> "bucket_id", val |-> bucket_of[dir]]
            rows    == query_visual(kind, parse_query_filter(Unset, <<between, bucket>>, 0, Unset))
        IN  ToSet(rows) = {v \in ToSet(visual) :
                              /\ v.id \in lo..hi
                              /\ bucket_of[place[v.file].in] = bucket_of[dir]
                              /\ kind = "images" => v.media_type = Image
                              /\ kind = "video" => v.media_type = Video}

\* An id names one thing of the session: what is opened under the uri of an item, or
\* of a chosen file, is that file, also when several were chosen at once.
UrisOpenTheirFile ==
    /\ \A i \in DOMAIN visual, kind \in Kinds :
          lookup_open(kind, visual[i].id, "rw", FALSE) = visual[i].file
    /\ \A d \in documents :
          /\ lookup_open("aro-files", d[1], "r", FALSE) = d[2]
          /\ \A v \in ToSet(visual) : d[1] > Sounds /\ d[1] # v.id

\* The index answers for the files it was made of, in every query, page and uri.
IndexKnowsItsFiles ==
    IndexIsTheTree /\ PagesCoverTheMatches /\ SelectionsAreConjunctions /\ UrisOpenTheirFile
=============================================================================
