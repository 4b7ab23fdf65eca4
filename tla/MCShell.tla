------------------------------ MODULE MCShell ------------------------------
(* A background job can take the slot, the files or the pipe that a later  *)
(* pipeline needs.                                                         *)
EXTENDS Shell

EXEC(prog) == [type |-> "EXEC", prog |-> prog]
PIPE(l, r) == [type |-> "PIPE", left |-> l, right |-> r]
LIST(l, r) == [type |-> "LIST", left |-> l, right |-> r]
REDIR(c) == [type |-> "REDIR", fd |-> 1, cmd |-> c]
BACK(c) == [type |-> "BACK", cmd |-> c]

MCCommands ==
  {[cmd |-> PIPE(EXEC("echo"), EXEC("wc")), count |-> 2],
   [cmd |-> PIPE(EXEC("echo"), EXEC("cat")), count |-> 0],
   [cmd |-> LIST(EXEC("echo"), BACK(REDIR(EXEC("cat")))), count |-> 0]}
=============================================================================
