---------------------------- MODULE MCRetrieval ----------------------------
(* A small instance of Retrieval. *)
EXTENDS Retrieval, TLC

CONSTANTS t1, t2, t3, server, container

ServerAndContainer == (t1 :> server) @@ (t2 :> server) @@ (t3 :> container)

\* Chunks that overlap, and an overlap of more than a whole chunk.
SomeTexts ==
    {[length |-> 5, size |-> 3, overlap |-> 1],
     [length |-> 3, size |-> 2, overlap |-> 3]}
=============================================================================
