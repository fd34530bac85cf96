----------------------------- MODULE TomlDocumentMC -----------------------------
(***************************************************************************)
(* A small instance of TomlDocument: keys a, b and "a.b", arrays of up to  *)
(* two tables, includes at every depth, and a depth of 3.                  *)
(***************************************************************************)

EXTENDS TomlDocument

MCParts == {"a", "b", "#1", "#2", "includes"}

A == <<"a">>
B == <<"b">>
AB == <<"a", "b">>
First == <<"#1">>
Second == <<"#2">>
Inc == <<"includes">>

MCElements == <<First, Second>>

Plain == {<<A>>, <<B>>, <<AB>>, <<A, B>>, <<A, AB>>, <<AB, A>>, <<A, B, A>>, <<A, B, A, B>>,
          <<A, First, B>>, <<A, Second, B>>, <<A, First, AB>>, <<A, B, First, A>>, <<AB, First, A>>,
          <<A, First, A, B>>, <<A, First, A, First, A>>}

Including == {<<Inc>>, <<A, Inc>>, <<A, B, A, Inc>>, <<A, B, A, B, Inc>>, <<A, First, Inc>>, <<Inc, First, Inc>>}

At(paths, item) == {[path |-> p, item |-> item] : p \in paths}

MCLeaves ==
  At(Plain, "number") \cup At(Including, "texts") \cup At({<<Inc>>}, "number")
    \cup At({<<A, First>>, <<A, Second>>, <<A, B, First>>, <<B>>}, "empty")
    \cup At({<<A, B>>, <<A, First, A, B>>, <<Inc, A>>}, "unsupported")

MCPrefix == <<"a">>

================================================================================
