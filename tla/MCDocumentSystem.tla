-------------------------- MODULE MCDocumentSystem --------------------------
(* Small instances of the collaboration relay. *)
EXTENDS DocumentSystem, TLC

CONSTANTS r1, r2, p1, p2, e1, e2

\* One process with two peers and two edits; two processes with a peer each
\* and one edit.
MCDeployments ==
    {[serves |-> r1 :> {p1, p2}, edits |-> {e1, e2}, incidents |-> 2],
     [serves |-> r1 :> {p1} @@ r2 :> {p2}, edits |-> {e1}, incidents |-> 1]}
=============================================================================
