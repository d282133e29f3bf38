------------------------------- MODULE MCPipes -------------------------------
(* Pipes of two bytes; a write of three is longer than a chunk.            *)
EXTENDS Pipes

MCWrites == {<<0>>, <<0, 1, 1>>}
=============================================================================
