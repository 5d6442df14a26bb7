-------------------------- MODULE MCLogindResolve ---------------------------
(* LogindResolve for a caller with two sessions of its own beside another  *)
(* user's.                                                                 *)
EXTENDS LogindResolve

CONSTANTS a, b, c
=============================================================================
