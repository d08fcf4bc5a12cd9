--------------------------- MODULE MCSystemParts ---------------------------
(* TLC instance of SystemParts. *)
EXTENDS SystemParts, TLC

CONSTANTS root, dir, sub, other, file, alien, link, a, b

Entry(x, y) == a :> x @@ b :> y

\* a tree of two directories, a file and a link beside a directory that is not in it
MCStart ==
    root :> Entry(dir, other) @@ dir :> Entry(sub, link) @@ sub :> Entry(file, None)
        @@ other :> Entry(alien, None)

MCTarget == link :> other

\* For paths: a directory a, a link b to it, and files and links inside; the third link
\* is a loop.
MCNames == {"a", "b", "c"}

Dir == [kind |-> "dir"]
Regular == [kind |-> "file"]
Link(p) == [kind |-> "link", to |-> p]

MCTrees ==
    {(<<>> :> Dir) @@ (<<"a">> :> Dir) @@ (<<"b">> :> Link(<<"a">>)) @@ (<<"a", "a">> :> Dir) @@ t :
        t \in {<<"c">> :> Regular,
               <<"a", "c">> :> Regular,
               <<"a", "c">> :> Link(<<"/", "b", "c">>),
               <<"c">> :> Link(<<"/", "b", "c">>)}}

MCComponents == {"/", ".", ".."} \cup MCNames
MCPaths == UNION {[1 .. n -> MCComponents] : n \in 1 .. 3} \ {<<"/">>}
=============================================================================
