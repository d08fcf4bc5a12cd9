---------------------------- MODULE Directories ----------------------------
(***************************************************************************)
(* os_remove and os_listdir of src/os.c on Unix, while another process     *)
(* renames entries of the same file system between any two system calls.   *)
(* A directory maps names to nodes; a node is a directory, a file, or a    *)
(* symbolic link, and has the identity that st_dev and st_ino give it.     *)
(* The path of a call names the entry Name of the directory Parent.  The   *)
(* system may refuse every call: for permissions, a limit, or an error of  *)
(* the device.                                                             *)
(***************************************************************************)
EXTENDS Integers, Sequences, FiniteSets, SequencesExt

CONSTANTS
    Names, Dirs, Files, Links,
    Target,        \* the directory a symbolic link leads to
    Start,         \* the entries at the start: a function from Dirs
    Parent, Name,  \* the path
    MaxMoves,      \* bound: renames of the other process
    None

Nodes == Dirs \cup Files \cup Links

DirectoriesAssumption ==
    /\ Start \in [Dirs -> [Names -> Nodes \cup {None}]] /\ Target \in [Links -> Dirs]
    /\ Parent \in Dirs /\ Name \in Names /\ MaxMoves \in Nat
    /\ IsFiniteSet(Dirs) /\ None \notin Nodes \cup {"remove", "empty", "list"}

VARIABLES
    tree,          \* the entries now
    op,            \* "remove", "empty" (the path ends in "/."), "list", or None
    pc,
    expected,      \* what lstat or fstatat has found
    stack,         \* a frame for each directory the call has open
    result,        \* of the call, 0 or 1
    given,         \* names os_listdir has given to the callback
    moves,
    moved,         \* history: nodes the other process has renamed
    inside,        \* history: nodes that were in the tree of the opened directory
    named,         \* history: nodes the path has named
    gone           \* history: nodes the call has removed

vars == <<tree, op, pc, expected, stack, result, given, moves, moved, inside, named, gone>>
Call == <<op, pc, expected, stack, result, given>>

-----------------------------------------------------------------------------
(* The file system *)

Children(t, d) == {t[d][n] : n \in Names} \ {None}

\* What can be reached from these nodes through directories.
Below(t, nodes) ==
    LET f[k \in 0 .. Cardinality(Dirs)] ==
            IF k = 0 THEN nodes
            ELSE f[k - 1] \cup UNION {Children(t, d) : d \in f[k - 1] \cap Dirs}
    IN  f[Cardinality(Dirs)]

\* History, after a step that makes t the tree.
Observe(t) ==
    /\ tree' = t /\ inside' = Below(t, inside)
    /\ named' = (IF op = None THEN named ELSE named \cup ({t[Parent][Name]} \ {None}))

Empty(d) == Children(tree, d) = {}

\* unlinkat of what is at the entry now: with AT_REMOVEDIR an empty directory,
\* without it anything else.
Removable(d, n, dir) ==
    /\ tree[d][n] # None
    /\ IF dir THEN tree[d][n] \in Dirs /\ Empty(tree[d][n]) ELSE tree[d][n] \notin Dirs

Detach(d, n) ==
    /\ gone' = gone \cup {tree[d][n]} /\ Observe([tree EXCEPT ![d][n] = None])

Keep == UNCHANGED <<tree, inside, named, gone>>

-----------------------------------------------------------------------------
(* Opening a directory that was found *)

\* Follows symbolic links, and takes what it gets.
Faulty_Opened(d, n) ==
    LET node == tree[d][n] IN IF node \in Links THEN Target[node] ELSE IF node \in Dirs THEN node ELSE None

\* Lines 839 to 847, 878 to 886: O_NOFOLLOW, and still what was found.
Opened(d, n) == IF tree[d][n] \in Dirs /\ tree[d][n] = expected THEN expected ELSE None

\* A directory's stream: names still to come are those there at opendir, and
\* perhaps later ones.
Frame(d, n) == [dir |-> d, name |-> n, listed |-> {m \in Names : tree[d][m] # None}, seen |-> {}, result |-> 0]

Top == Last(stack)
SetTop(f) == Front(stack) \o <<f>>
Fault == SetTop([Top EXCEPT !.result = 1])

-----------------------------------------------------------------------------
(* os_remove *)

\* Lines 867 to 876.
Begin(what) ==
    /\ op = None /\ pc = "idle" /\ op' = what /\ expected' = tree[Parent][Name]
    /\ named' = {tree[Parent][Name]} \ {None} /\ inside' = {} /\ gone' = {}
    /\ given' = {} /\ stack' = <<>> /\ result' = 0
    /\ \/ what = "list" /\ pc' = "opendir"
       \/ what # "list" /\ pc' = "fail" \* nothing there, refused, or no directory before "/."
       \/ what # "list" /\ tree[Parent][Name] \in Dirs /\ pc' = "open"
       \/ what = "remove" /\ tree[Parent][Name] \in Nodes \ Dirs /\ pc' = "remove"
    /\ UNCHANGED <<tree, moves, moved>>

Fail ==
    /\ pc = "fail" /\ pc' = "done" /\ result' = 1 /\ Keep
    /\ UNCHANGED <<op, expected, stack, given, moves, moved>>

\* Where os_remove goes on when the directory has been worked through: line 891.
AfterBase == IF op = "remove" THEN "lstat" ELSE "done"

\* Lines 884 to 890, 812 to 816: the directory of the path, and its stream.
OpenBase ==
    /\ pc = "open" /\ stack = <<>>
    /\ LET d == Opened(Parent, Name)
       IN  \/ pc' = "fail" /\ UNCHANGED <<stack, result, inside>>
           \/ d # None /\ pc' = AfterBase /\ result' = 1 /\ UNCHANGED <<stack, inside>>
           \/ /\ d # None /\ pc' = "loop" /\ result' = result
              /\ stack' = <<Frame(d, Name)>> /\ inside' = Below(tree, inside \cup {d})
    /\ UNCHANGED <<tree, op, expected, given, moves, moved, named, gone>>

Removing == op \in {"remove", "empty"} /\ stack # <<>>

\* Lines 819 to 838: the next entry, and what it is.  One that has gone since
\* opendir may come or not.
Examine(n) ==
    /\ Removing /\ pc = "loop" /\ n \notin Top.seen
    /\ LET node == tree[Top.dir][n]
           frame == [Top EXCEPT !.seen = @ \cup {n}, !.name = n]
       IN  /\ node # None \/ n \in Top.listed
           /\ expected' = node
           /\ \/ pc' = "loop" /\ stack' = SetTop([frame EXCEPT !.result = 1])
              \/ /\ node # None /\ stack' = SetTop(frame)
                 /\ pc' = (IF node \in Dirs THEN "open" ELSE "unlink")
    /\ Keep /\ UNCHANGED <<op, result, given, moves, moved>>

\* Line 835.
Unlink ==
    /\ Removing /\ pc = "unlink" /\ pc' = "loop"
    /\ \/ Removable(Top.dir, Top.name, FALSE) /\ Detach(Top.dir, Top.name) /\ stack' = stack
       \/ stack' = Fault /\ Keep
    /\ UNCHANGED <<op, expected, result, given, moves, moved>>

\* Lines 845 to 852 and 812 to 816: into the directory, if it is still the one that was
\* found.
OpenChild ==
    /\ Removing /\ pc = "open" /\ pc' = "loop"
    /\ LET d == Opened(Top.dir, Top.name)
       IN  \/ stack' = Fault
           \/ d # None /\ stack' = Append(stack, Frame(d, Name))
    /\ Keep /\ UNCHANGED <<op, expected, result, given, moves, moved>>

\* Everything that was there at opendir, and is, has come.
NoMore == \A n \in Top.listed : tree[Top.dir][n] # None => n \in Top.seen

\* Takes a readdir that fails for the end, and does not look at what closedir returns.
Faulty_Outcomes == {Top.result}

\* Lines 822 to 825, 854 and 855 (740 to 743, 763 and 764): what a directory's loop
\* ends with.  readdir may fail at any entry, and closedir may fail.
Outcomes == {1} \cup (IF NoMore THEN {Top.result} ELSE {})

\* The end of a directory below.
LeaveChild ==
    /\ Removing /\ pc = "loop" /\ Len(stack) > 1
    /\ LET up == stack[Len(stack) - 1]
       IN  \/ 0 \in Outcomes /\ pc' = "rmdir" /\ stack' = Front(stack)
           \/ /\ 1 \in Outcomes /\ pc' = "loop"
              /\ stack' = Append(Front(Front(stack)), [up EXCEPT !.result = 1])
    /\ Keep /\ UNCHANGED <<op, expected, result, given, moves, moved>>

\* Line 852.
RemoveChild ==
    /\ Removing /\ pc = "rmdir" /\ pc' = "loop"
    /\ \/ Removable(Top.dir, Top.name, TRUE) /\ Detach(Top.dir, Top.name) /\ stack' = stack
       \/ stack' = Fault /\ Keep
    /\ UNCHANGED <<op, expected, result, given, moves, moved>>

\* Line 890, and what was opened.
LeaveBase ==
    /\ Removing /\ pc = "loop" /\ Len(stack) = 1
    /\ result' \in Outcomes /\ expected' = Top.dir /\ stack' = <<>> /\ pc' = AfterBase
    /\ Keep /\ UNCHANGED <<op, given, moves, moved>>

\* Lines 894 to 898.
SameBase == tree[Parent][Name] = expected

CheckBase ==
    /\ pc = "lstat"
    /\ \/ SameBase /\ pc' = "remove" /\ result' = result
       \/ pc' = "done" /\ result' = 1
    /\ Keep /\ UNCHANGED <<op, expected, stack, given, moves, moved>>

\* Lines 876 and 900: remove(base), of a file or of an empty directory.
RemoveBase ==
    /\ pc = "remove" /\ pc' = "done"
    /\ \/ /\ Removable(Parent, Name, TRUE) \/ Removable(Parent, Name, FALSE)
          /\ Detach(Parent, Name) /\ result' = result
       \/ result' = 1 /\ Keep
    /\ UNCHANGED <<op, expected, stack, given, moves, moved>>

-----------------------------------------------------------------------------
(* os_listdir: by the path, also for each entry *)

\* The directory a path leads to; opendir follows links.
Resolved(t, d, n) ==
    LET node == t[d][n]
    IN  IF node \in Links THEN Target[node] ELSE IF node \in Dirs THEN node ELSE None

OpenDirectory ==
    /\ op = "list" /\ pc = "opendir"
    /\ LET d == Resolved(tree, Parent, Name)
       IN  \/ pc' = "fail" /\ stack' = stack
           \/ d # None /\ pc' = "loop" /\ stack' = <<Frame(d, Name)>>
    /\ Keep /\ UNCHANGED <<op, expected, result, given, moves, moved>>

\* Lines 750 to 757: there, no link.
Listable(node) == node # None /\ node \notin Links

\* Lines 744 to 761: lstat may be refused.
List(n) ==
    /\ op = "list" /\ pc = "loop" /\ n \notin Top.seen /\ (tree[Top.dir][n] # None \/ n \in Top.listed)
    /\ LET d == Resolved(tree, Parent, Name)
           node == IF d = None THEN None ELSE tree[d][n]
           frame == [Top EXCEPT !.seen = @ \cup {n}]
       IN  \/ Listable(node) /\ given' = given \cup {n} /\ stack' = SetTop(frame)
           \/ given' = given /\ stack' = SetTop([frame EXCEPT !.result = 1])
    /\ Keep /\ UNCHANGED <<op, pc, expected, result, moves, moved>>

CloseDirectory ==
    /\ op = "list" /\ pc = "loop" /\ pc' = "done" /\ result' \in Outcomes
    /\ Keep /\ UNCHANGED <<op, expected, stack, given, moves, moved>>

-----------------------------------------------------------------------------
\* The other process renames an entry to a free one, no directory into itself.
Rename(d, n, e, m) ==
    /\ moves < MaxMoves /\ tree[d][n] # None /\ tree[e][m] = None
    /\ tree[d][n] \in Dirs => e \notin Below(tree, {tree[d][n]})
    /\ {d, e} \cap gone = {} /\ moves' = moves + 1 /\ moved' = moved \cup {tree[d][n]}
    /\ Observe([tree EXCEPT ![e][m] = tree[d][n], ![d][n] = None])
    /\ UNCHANGED <<Call, gone>>

Init ==
    /\ tree = Start /\ op = None /\ pc = "idle" /\ expected = None /\ stack = <<>> /\ result = 0
    /\ given = {} /\ moves = 0 /\ moved = {} /\ inside = {} /\ named = {} /\ gone = {}

CallStep ==
    \/ Fail \/ OpenBase \/ Unlink \/ OpenChild \/ LeaveChild \/ RemoveChild \/ LeaveBase
    \/ CheckBase \/ RemoveBase \/ OpenDirectory \/ CloseDirectory
    \/ \E n \in Names : Examine(n) \/ List(n)

Next ==
    \/ \E what \in {"remove", "empty", "list"} : Begin(what)
    \/ CallStep
    \/ \E d, e \in Dirs, n, m \in Names : Rename(d, n, e, m)

Spec == Init /\ [][Next]_vars

-----------------------------------------------------------------------------
(* Properties *)

\* Whatever is renamed under way, os_remove removes nothing but what the path has
\* named and what has been, at some time, below the directory it opened: a link
\* or another directory put in the place of one it has looked at leads nowhere.
OnlyTheTreeIsRemoved == gone \subseteq inside \cup named

\* If os_remove returns 0, nothing was left out: what stood in the directory at
\* the start is gone unless it was renamed; and the directory itself is, unless the
\* path has named something else meanwhile (between line 898 and line 900).
ZeroMeansGone ==
    pc = "done" /\ op # "list" /\ result = 0 =>
        /\ expected \in Dirs => Children(Start, expected) \subseteq gone \cup moved
        /\ op = "remove" /\ named = {expected} => expected \in gone

\* If os_listdir returns 0, the callback has had every entry that nobody renamed,
\* and no symbolic link is among them.
ListingIsComplete ==
    pc = "done" /\ op = "list" /\ result = 0 /\ moves = 0 =>
        LET d == Resolved(Start, Parent, Name)
        IN  given = {n \in Names : Start[d][n] # None} /\ \A n \in given : Start[d][n] \notin Links
=============================================================================
