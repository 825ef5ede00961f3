--------------------------- MODULE MCProgramGenerator ---------------------------
(* Small programs, each drawn from one of a few small languages.           *)
EXTENDS ProgramGenerator

\* Lifting shows what it does to order and to jumps in nests of five, and so do
\* facts that are gone through again.
MCRoom(language) ==
  IF {"if", "emi"} \subseteq language \/ "move" \in language THEN 5 ELSE 4

\* One pointer takes what the other has; that one, a local or null.  With
\* branches and gotos, it is where locals are declared that counts.
MCMoves(language) ==
  IF {"if", "goto", "local"} \subseteq language THEN {<<"q", "local">>}
  ELSE {<<"p", "q">>, <<"q", IF "local" \in language THEN "local" ELSE "null">>}

=============================================================================
