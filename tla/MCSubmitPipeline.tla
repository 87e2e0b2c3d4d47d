-------------------------- MODULE MCSubmitPipeline --------------------------
(* A small instance of SubmitPipeline for TLC: an XNM hit, an XUNI hit, a row *)
(* of an earlier session that can be POSTed and one that cannot; Windows with *)
(* the bag on, POSIX with it off, POSIX with submits off.                     *)
EXTENDS SubmitPipeline

CONSTANTS xnm, xuni, row, broken

Digests    == {xnm, xuni, row, broken}
XuniHits   == {xuni}
Rows       == {row, broken}
BrokenRows == {broken}

Processes == {[store |-> TRUE,  submit |-> TRUE,  handler |-> "thread"],
              [store |-> FALSE, submit |-> TRUE,  handler |-> "main"],
              [store |-> TRUE,  submit |-> FALSE, handler |-> "main"]}
=============================================================================
