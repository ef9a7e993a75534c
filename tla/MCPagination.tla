---------------------------- MODULE MCPagination ----------------------------
(* A table for Pagination: two of its rows have the same created_at.       *)
EXTENDS Pagination

MCCreated == <<3, 3, 2, 1>>
=============================================================================
