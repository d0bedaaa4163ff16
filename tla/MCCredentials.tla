--------------------------- MODULE MCCredentials ---------------------------
(* Small instances of Credentials for TLC. *)
EXTENDS Credentials

CONSTANTS admin, boss, nobody, w1, w2
=============================================================================
