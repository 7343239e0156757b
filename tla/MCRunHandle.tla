---------------------------- MODULE MCRunHandle ----------------------------
(* RunHandle with every kind of line. *)
EXTENDS RunHandle

MCKinds == {"event", "long", "newer"}
=============================================================================
