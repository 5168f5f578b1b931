------------------------------ MODULE MCUsers -------------------------------
(* What users do: the commands that change the catalogue, and the logs they  *)
(* read.  The two have nothing in common, so in a behavior one of them moves. *)
EXTENDS Catalogue, Reports

\* Bytes of headers among them; a newline at an end, and alone; a rune in two parts.
MCText == {<<195>>, <<NewLine>>, <<169, NewLine>>, <<NUL, 1>>}

UsersInit == Init /\ ReportInit
UsersNext ==
    \/ output = <<>> /\ Next /\ UNCHANGED reportVars
    \/ commands = 0 /\ ReportNext /\ UNCHANGED vars
UsersSpec == UsersInit /\ [][UsersNext]_<<vars, reportVars>>
=============================================================================
