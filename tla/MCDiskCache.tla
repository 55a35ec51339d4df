----------------------------- MODULE MCDiskCache -----------------------------
(* Three sectors over two lines: sectors 0 and 2 share a line.  A sector  *)
(* holds the zeros of an unused line or something else; a third value      *)
(* tells no property more, for each compares two contents at a time.       *)
EXTENDS DiskCache
=============================================================================
