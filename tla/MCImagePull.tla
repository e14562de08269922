---------------------------- MODULE MCImagePull ----------------------------
(* ImagePull with two calls, the second of which may follow the first.      *)
EXTENDS ImagePull

CONSTANTS p1, p2
MCCalls == {p1, p2}
=============================================================================
