-------------------------------- MODULE ModuleIds --------------------------------
(***************************************************************************)
(* Module identifiers (arcella-types/src/module_id.rs): a name and a       *)
(* version, and the text name@version that names the directory of a module,*)
(* its lock and its file.  A text is a sequence of characters; a result    *)
(* that may be an error is a set of at most one value.                     *)
(***************************************************************************)

EXTENDS Naturals, Sequences

CONSTANTS
  NameChars,   \* ASCII letters and digits, '_' and '-'
  Digits,
  Zero,        \* the digit 0
  At,          \* '@'
  Dot,         \* '.'
  MaxName      \* bounds the length of a name, 128 in the code

ASSUME ModuleIdsAssumption ==
  /\ Digits \subseteq NameChars
  /\ Zero \in Digits
  /\ At \notin NameChars /\ Dot \notin NameChars /\ At # Dot
  /\ MaxName \in Nat

Before(text, i) == SubSeq(text, 1, i - 1)
After(text, i) == SubSeq(text, i + 1, Len(text))

Places(char, text) == {i \in DOMAIN text : text[i] = char}

IsValidName(name) == name \in Seq(NameChars) /\ Len(name) \in 1..MaxName

IsNumber(text) ==
  /\ text \in Seq(Digits)
  /\ text # <<>>
  /\ text[1] = Zero => Len(text) = 1

\* x.y.z: two dots, which cut the version into three numbers.
IsValidVersion(version) ==
  \E i, j \in Places(Dot, version) :
    /\ i < j
    /\ IsNumber(Before(version, i))
    /\ IsNumber(SubSeq(version, i + 1, j - 1))
    /\ IsNumber(After(version, j))

New(name, version) ==
  {id \in {[name |-> name, version |-> version]} :
     IsValidName(id.name) /\ IsValidVersion(id.version)}

Display(id) == id.name \o <<At>> \o id.version

\* The expression of from_str cuts the text at an '@', and new checks the parts.
FromStr(text) == UNION {New(Before(text, i), After(text, i)) : i \in Places(At, text)}

================================================================================
