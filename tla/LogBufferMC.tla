------------------------------ MODULE LogBufferMC ------------------------------
(***************************************************************************)
(* LogBuffer with two threads: more events than the buffer holds, and      *)
(* every choice of levels for the daemon, one of its modules and a name    *)
(* that is a prefix of the daemon's.                                       *)
(***************************************************************************)

EXTENDS LogBuffer

CONSTANTS t1, t2

MCArcella == <<"arc", "ella">>
MCTargets == {<<"arc">>, <<"arc", "ella">>, <<"arc", "ella", "::runtime">>}

================================================================================
