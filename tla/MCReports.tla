----------------------------- MODULE MCReports ------------------------------
(* Reports with containers that write a line at a time. *)
EXTENDS Reports
MCText == {<<65, NewLine>>, <<66, 66, NewLine>>}
=============================================================================
