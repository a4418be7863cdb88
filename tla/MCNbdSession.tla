---------------------------- MODULE MCNbdSession ----------------------------
(* NbdSession for TLC: reads that take less than a buffer, more than one,  *)
(* nothing, more than there is, and more than an offset can count, and one *)
(* of every other command.                                                 *)
EXTENDS NbdSession

R(c, o, l) == [cmd |-> c, off |-> o, len |-> l]

TheRequests ==
    {R("READ", 0, 3), R("READ", 3, 1), R("READ", 4, 0), R("READ", 3, 2), R("READ", 14, 3),
     R("FLUSH", 0, 0), R("TRIM", 0, 1), R("DISC", 0, 0), R("WRITE", 0, 3), R("WRITE", 0, 0),
     R("OTHER", 0, 0)}
=============================================================================
