---------------------------- MODULE MCPagination ----------------------------
(* An instance of Pagination for TLC: every service with four pages of up   *)
(* to two records, cyclic ones included.                                    *)
EXTENDS Pagination
=============================================================================
