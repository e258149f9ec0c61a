---------------------------- MODULE MCRawSession ----------------------------
(* RawSession on its own.  Sessions share nothing in it, so one is enough. *)
EXTENDS RawSession

CONSTANT s1
OneSession == {s1}

=============================================================================
