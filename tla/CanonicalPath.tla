--------------------------- MODULE CanonicalPath ---------------------------
(***************************************************************************)
(* os_canonical_path, src/os.c, lines 284 to 367, on Unix and on Windows,  *)
(* while another process creates and removes files between its two looks   *)
(* at the file system.  The system may refuse either look: for permissions *)
(* or for memory.                                                          *)
(*                                                                         *)
(* A path is the sequence of its components, "/" where a separator has     *)
(* nothing before or behind it: "/x" is <<"/", "x">>, "/" is <<"/", "/">>, *)
(* "x/" is <<"x", "/">>.  A place in the tree is the list of names from    *)
(* the root.  Names that differ in case are one name on Windows, where the *)
(* result is in lower case; there an absolute path begins with a drive,    *)
(* which is the root, and paths like "/x" without one are left aside.      *)
(***************************************************************************)
EXTENDS Integers, Sequences, SequencesExt, FiniteSets

CONSTANTS
    Systems,           \* of "unix", "windows"
    Names,             \* of files
    Trees,             \* functions from places to what is there
    Paths,             \* that the program asks about
    Capacity,          \* of output, in components
    MaxChanges,        \* bound: files that the other process creates or removes
    MaxLinks,          \* that the system follows on one path
    MaxLength          \* bound: components of a path, and of one that a link leads to

Components == Names \cup {"/", ".", ".."}

IsDirectory(t, p) == p \in DOMAIN t /\ t[p].kind = "dir"

\* Everything is in a directory, the root too.
IsTree(t) ==
    /\ DOMAIN t \subseteq Seq(Names) /\ IsDirectory(t, <<>>)
    /\ \A p \in DOMAIN t :
          /\ p # <<>> => IsDirectory(t, Front(p))
          /\ t[p].kind \in {"dir", "file", "link"}
          /\ t[p].kind = "link" => t[p].to \in Seq(Components) \ {<<>>} /\ Len(t[p].to) <= MaxLength

PathAssumption ==
    /\ Systems \subseteq {"unix", "windows"} /\ {Capacity, MaxChanges, MaxLinks, MaxLength} \subseteq Nat
    /\ Names \cap {"/", ".", ".."} = {} /\ \A t \in Trees : IsTree(t)
    /\ \A p \in Paths : p \in Seq(Components) \ {<<>>, <<"/">>}
    /\ \A p \in Paths, t \in Trees : \A d \in DOMAIN t : Len(d) + Len(p) < MaxLength

VARIABLES
    system, cwd, path, \* chosen once; cwd is a place
    tree,              \* [kind] or [kind |-> "link", to |-> a path]
    pc,
    result, output,    \* what is returned; output is a path
    changes,
    look               \* history: "missing" once the first look has found nothing under the
                       \* path, "refused" if the system has refused one, "none" till then

vars == <<system, cwd, path, tree, pc, result, output, changes, look>>

Init ==
    /\ system \in Systems /\ path \in Paths /\ tree \in Trees
    /\ cwd \in {p \in DOMAIN tree : IsDirectory(tree, p)}
    /\ pc = "start" /\ result = -1 /\ output = <<>> /\ changes = 0
    /\ look = "none"

-----------------------------------------------------------------------------
(* The file system *)

Absolute(p) == p[1] = "/"
Base(p) == IF Absolute(p) THEN <<>> ELSE cwd

Up(p) == IF p = <<>> THEN p ELSE Front(p)

\* One component of the way w in tree t: where it is, what is left, what went wrong.
OneStep(t, w) ==
    LET c == Head(w.rest)
        q == Append(w.at, c)
        to(p) == [w EXCEPT !.at = p, !.rest = Tail(@)]
    IN  IF w.error # "none" \/ w.rest = <<>> THEN w
        ELSE IF ~IsDirectory(t, w.at) THEN [w EXCEPT !.error = "ENOTDIR"]
        ELSE IF c \in {"/", "."} THEN to(w.at)
        ELSE IF c = ".." THEN to(Up(w.at))
        ELSE IF q \notin DOMAIN t THEN [w EXCEPT !.error = "ENOENT"]
        ELSE IF t[q].kind # "link" THEN to(q)
        ELSE IF w.links = MaxLinks THEN [w EXCEPT !.error = "ELOOP"]
        ELSE [w EXCEPT !.at = IF Absolute(t[q].to) THEN <<>> ELSE @,
                       !.rest = t[q].to \o Tail(@), !.links = @ + 1]

\* More steps than any walk takes.
MaxSteps == (MaxLinks + 1) * (MaxLength + 1)

\* From place p, follow the components in rest.
Walk(t, p, rest) ==
    LET way[i \in 0 .. MaxSteps] ==
            IF i = 0 THEN [error |-> "none", at |-> p, rest |-> rest, links |-> 0]
            ELSE OneStep(t, way[i - 1])
    IN  way[MaxSteps]

\* _fullpath: the text alone of a path from the place base.
Lexical(base, p) ==
    LET at[i \in 0 .. Len(p)] ==
            IF i = 0 THEN base
            ELSE IF p[i] \in {"/", "."} THEN at[i - 1]
            ELSE IF p[i] = ".." THEN Up(at[i - 1]) ELSE Append(at[i - 1], p[i])
    IN  at[Len(p)]

\* realpath; on Windows CreateFile, which treats ".." as text, and then
\* GetFinalPathNameByHandle.
Resolved(p) ==
    IF system = "unix" THEN Walk(tree, Base(p), p)
    ELSE Walk(tree, <<>>, Lexical(Base(p), p) \o (IF Last(p) = "/" THEN <<"/">> ELSE <<>>))

\* Another process creates or removes a file.
Change ==
    /\ pc # "done" /\ changes < MaxChanges /\ changes' = changes + 1
    /\ \E d \in DOMAIN tree, n \in Names :
          LET p == Append(d, n)
          IN  /\ tree[d].kind = "dir"
              /\ tree' = IF p \notin DOMAIN tree
                         THEN [q \in DOMAIN tree \cup {p} |-> IF q = p THEN [kind |-> "file"] ELSE tree[q]]
                         ELSE [q \in DOMAIN tree \ {p} |-> tree[q]]
              /\ p \in DOMAIN tree => tree[p].kind = "file"
    /\ UNCHANGED <<system, cwd, path, pc, result, output, look>>

-----------------------------------------------------------------------------
(* os_canonical_path *)

\* A place as realpath writes it.
Written(p) == IF p = <<>> THEN <<"/", "/">> ELSE <<"/">> \o p

Returns(r, p) ==
    /\ pc' = "done" /\ result' = r /\ output' = p
    /\ UNCHANGED <<system, cwd, path, tree, changes, look>>

\* Lines 297 and 366.
Answers(p) == IF Len(p) <= Capacity THEN Returns(0, p) ELSE Returns(1, <<>>)

\* Lines 293 to 328.
ResolveExisting ==
    /\ pc = "start"
    /\ LET r == Resolved(path)
       IN  CASE r.error = "none" -> Answers(Written(r.at))
             [] r.error \in {"ENOENT", "ENOTDIR"} ->
                  /\ pc' = "parent" /\ look' = "missing"
                  /\ UNCHANGED <<system, cwd, path, tree, result, output, changes>>
             [] OTHER -> Returns(1, <<>>)

\* Lines 331 to 349.
ParentPath(p) ==
    IF Len(p) = 1 THEN <<".">>
    ELSE IF Front(p) = <<"/">> THEN <<"/", "/">>
    ELSE Front(p)

\* Lines 351 to 358: what the parent is.
ParentPlace ==
    LET parent == ParentPath(path)
    IN  IF system = "unix" THEN Resolved(parent) ELSE [error |-> "none", at |-> Lexical(Base(parent), parent)]

\* Takes the parent as it is written.
Faulty_Composed == (IF Absolute(path) THEN <<>> ELSE Written(cwd)) \o path

\* Lines 354 and 363.
Composed == Append(Written(ParentPlace.at), Last(path))

\* Lines 330 to 366.
ResolveParent ==
    /\ pc = "parent"
    /\ IF Last(path) = "/" \/ ParentPlace.error # "none" THEN Returns(1, <<>>) ELSE Answers(Composed)

\* Lines 299, 314, 324, 353 and 358: the system refuses a look.
Refused ==
    /\ pc # "done" /\ pc' = "done" /\ result' = 1 /\ output' = <<>> /\ look' = "refused"
    /\ UNCHANGED <<system, cwd, path, tree, changes>>

-----------------------------------------------------------------------------
Next == ResolveExisting \/ ResolveParent \/ Refused \/ Change

Spec == Init /\ [][Next]_vars

-----------------------------------------------------------------------------
(* Properties *)

\* The directory of a path.
Directory(p) == Resolved(ParentPath(p))

\* Where a file that is created under the path would be, if it can be created.
Place(p) ==
    LET at == Append(Directory(p).at, Last(p))
    IN  IF Last(p) \in Names /\ IsDirectory(tree, Directory(p).at) /\ Directory(p).error = "none" /\ at \notin DOMAIN tree
        THEN {at} ELSE {}

\* The last component is a link.
EndsInLink(p) ==
    LET at == Append(Directory(p).at, Last(p))
    IN  Directory(p).error = "none" /\ at \in DOMAIN tree /\ tree[at].kind = "link"

\* On Windows the parent of a missing file is taken from the text, without a look at the
\* junctions it goes through, and a dot at the end stays in the answer.
LexicalFails(p) ==
    LET at == Lexical(Base(p), p)
    IN  /\ system = "windows"
        /\ \/ Last(p) \in {".", ".."}
           \/ \E n \in 1 .. Len(at) - 1 :
                 SubSeq(at, 1, n) \in DOMAIN tree /\ tree[SubSeq(at, 1, n)].kind = "link"

\* Where the second look goes wrong: the first one has found nothing, and the path ends
\* in a link (to nothing, then), or is one that Windows' text gets wrong.
SetAside == look = "missing" /\ (EndsInLink(path) \/ LexicalFails(path))

\* An answer names a place: "//x" is "/x".
Denotes(answer, p) == answer \in {Written(p), <<"/", "/">> \o p}

\* os.h: "resolving the existing path or, if the final component does not exist, its
\* parent directory".  The answer names the file that the path names, through whatever
\* links, or the one that would come to be under it: the name of a file stays the same
\* when it is created or removed, also while the question is answered.  Set aside is a
\* path that the first look finds nothing under and that ends in a link, and on Windows
\* one under which it finds nothing and whose text alone is not enough.
NamesTheFile ==
    pc = "done" /\ result = 0 /\ ~SetAside =>
        /\ Resolved(path).error = "none" => Denotes(output, Resolved(path).at)
        /\ \A p \in Place(path) : Denotes(output, p)

\* If the system refuses no look, a path is refused only if it names no file and none
\* could be created under it, or if the answer does not fit.
RefusesOnlyTheImpossible ==
    pc = "done" /\ result = 1 /\ look # "refused" /\ ~SetAside =>
        \A p \in Place(path) \cup (IF Resolved(path).error = "none" THEN {Resolved(path).at} ELSE {}) :
            Len(p) + 1 >= Capacity
=============================================================================
