-------------------------------- MODULE Clock --------------------------------
(* The clock of the processes and the database, which Accounts and Screens  *)
(* share.                                                                   *)
CONSTANT MaxNow  \* bound of the clock
VARIABLE now     \* from 1 on: the time 0 is SQL's NULL
=============================================================================
