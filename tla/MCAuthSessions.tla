--------------------------- MODULE MCAuthSessions ---------------------------
(* AuthSessions for TLC: requests in flight are interchangeable. *)
EXTENDS AuthSessions, TLC

Symmetry == Permutations(Req)
=============================================================================
