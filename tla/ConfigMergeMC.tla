------------------------------ MODULE ConfigMergeMC ------------------------------
(***************************************************************************)
(* ConfigMerge with one key of each kind.                                  *)
(***************************************************************************)

EXTENDS ConfigMerge

CONSTANTS default, custom, other

MCWritings == {<<>>, <<"plain">>, <<"redef">>, <<"redef", "plain">>}

================================================================================
