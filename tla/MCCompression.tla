---------------------------- MODULE MCCompression ----------------------------
(* Instances of Compression for TLC. *)
EXTENDS Compression

=============================================================================
