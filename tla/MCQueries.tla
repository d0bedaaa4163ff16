------------------------------ MODULE MCQueries ------------------------------
(* Small instances of Queries for TLC. *)
EXTENDS Queries
=============================================================================
