---------------------------- MODULE MCDataParts ----------------------------
(* TLC instance of DataParts. *)
EXTENDS DataParts

\* The hash map: string keys and numbers, a string value.
MCKeys == 1 .. 5
MCVals == {11, 12}
MCStrings == {1, 2, 12}

\* Keys that all collide, that part only in a larger table, that spread.
MCHashes == { [k \in MCKeys |-> 7], [k \in MCKeys |-> 4 * k], [k \in MCKeys |-> 3 * k] }

\* The memory pool: two classes and a size beyond both.
MCLimit == <<2, 4>>
MCSizes == {1, 3, 9}

\* Pieces of messages: no byte, less than the length field, about one block, several;
\* almost a word's worth: one that always ends, one that does not at a block's start,
\* one that never does.
MCPieces == {0, 1, 3, 7, 8, 9, 21, 55, 56, 63}
=============================================================================
