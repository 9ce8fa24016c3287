---------------------------- MODULE MCShmChannel ----------------------------
(***************************************************************************)
(* Instances of ShmChannel for TLC.  The .cfg files give the threads as    *)
(* model values and the bounds.                                            *)
(***************************************************************************)
EXTENDS ShmChannel, TLC

\* The writers are interchangeable in the safety properties.
WriterSymmetry == Permutations(Writers)

\* Channel 0 (sink to source): the JavaScript thread writes, and closes the
\* write end between two writes.
SinkEnds == {"write"}

\* Channel 1 (source to sink): any thread may close either end.
NoEnds == {}

=============================================================================
