---------------------------- MODULE MCEnumeration ----------------------------
(* The instance of Enumeration for TLC. *)
EXTENDS Enumeration

(* Nothing, a header, less than one interface, less than four, the length  *)
(* of one and of three interfaces' configuration to the byte, the value    *)
(* hosts use for strings, and more than there ever is.                     *)
HostLengths == {0, 9, 18, 40, 52, 64, 100, 138, 255, 4096}

ShortAndLong == {0, 7, 126}
=============================================================================
