----------------------------- MODULE MCIceDebug -----------------------------
(***************************************************************************)
(* Small sessions of the debugger.  The program enters at 1, runs 1 -> 2,  *)
(* and 2 loops to 1 or returns to the escape address 3; 0 is where eip     *)
(* stands before the program is loaded.                                    *)
(***************************************************************************)
EXTENDS IceDebug

MCAddr == 0 .. 3
MCSucc == [a \in MCAddr |-> CASE a = 0 -> {1} [] a = 1 -> {2} [] a = 2 -> {1, 3} [] a = 3 -> {3}]
=============================================================================
