------------------------------ MODULE AlmeServerMC ------------------------------
(***************************************************************************)
(* A small instance of AlmeServer: two connections, every kind of line.    *)
(***************************************************************************)

EXTENDS AlmeServer, TLC

CONSTANTS c1, c2

CONSTANTS Install, Garbage, Blank, Binary

MCLines == {Install, Garbage, Blank, Binary}

MCKind == (Install :> "command") @@ (Garbage :> "rejected")
            @@ (Blank :> "blank") @@ (Binary :> "garbled")

\* One client pipelines, the other sends one line.
MCMaxLines == (c1 :> 2) @@ (c2 :> 1)

================================================================================
