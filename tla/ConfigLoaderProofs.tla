--------------------------- MODULE ConfigLoaderProofs ---------------------------
(***************************************************************************)
(* Proofs about ConfigLoader: for any files, include graphs, depth and     *)
(* edits, the layers are those of the files that were read, in order; none *)
(* is lost silently or lies too deep, and a start that succeeds has read   *)
(* arcella.toml as it is.                                                  *)
(***************************************************************************)

EXTENDS ConfigLoader, Induction

(***************************************************************************)
(* The inductive invariant, part by part.                                  *)
(***************************************************************************)

Layer == [path : Paths, content : Contents, file : Nat]
Frame == [path : Paths \cup {Builtin}, resolved : BOOLEAN, todo : Seq(Paths), acc : Seq(Layer)]

Starting == phase \in {"template", "write_template", "main", "copy_template", "watch"}

TypeOK ==
  /\ disk \in [Paths -> Contents]
  /\ mtime \in Nat /\ edits \in Nat /\ watched \in Nat
  /\ Starting \/ phase \in {"load", "verify", "ok", "failed"}
  /\ visited \subseteq Paths
  /\ files \in Seq(Paths \cup {Builtin})
  /\ stack \in Seq(Frame)
  /\ configs \in Seq(Layer)
  /\ wanted \subseteq Paths \X Paths

\* Nothing is kept from one load to the next, and a call only while they run.
PhaseInv ==
  /\ Starting => files = <<Builtin>> /\ visited = {} /\ wanted = {} /\ error = "none"
  /\ phase = "load" <=> stack # <<>>
  /\ phase # "failed" => error = "none"

\* Every file read is registered once, after the built-in defaults.
FilesInv ==
  /\ Len(files) >= 1 /\ files[1] = Builtin
  /\ \A i \in 2..Len(files) : files[i] \in visited
  /\ \A path \in visited : \E i \in 2..Len(files) : files[i] = path
  /\ \A i, j \in DOMAIN files : files[i] = files[j] => i = j

\* The outermost call is for no file.  Each of the others has entered its own
\* document as its first layer, and only the innermost has yet to resolve it.
FramesInv ==
  \A k \in DOMAIN stack :
    /\ k = 1 => stack[k].path = Builtin /\ stack[k].resolved
    /\ k > 1 => /\ stack[k].path \in Paths
                /\ stack[k].acc # <<>> /\ stack[k].acc[1].path = stack[k].path
    /\ ~stack[k].resolved => k = Len(stack) /\ Len(stack[k].acc) = 1 /\ stack[k].todo = <<>>

\* The layers of the calls in progress, the outermost first, are numbered in
\* the order of the files, and what was returned likewise.
Numbered(layers, before) ==
  \A i \in DOMAIN layers :
    /\ layers[i].file = before + i
    /\ before + i < Len(files)
    /\ files[before + i + 1] = layers[i].path

Before(k) == IF k = 1 THEN 0 ELSE stack[k].acc[1].file - 1

NumbersInv ==
  /\ \A k \in DOMAIN stack :
       /\ Numbered(stack[k].acc, Before(k))
       /\ Before(k) + Len(stack[k].acc) =
            IF k = Len(stack) THEN Len(files) - 1 ELSE Before(k + 1)
  /\ Done => Numbered(configs, 0) /\ Len(configs) = Len(files) - 1

\* A call for a file is one include deeper than that of its includer.
DepthInv ==
  /\ Len(stack) <= MaxDepth + 2
  /\ \A k \in DOMAIN stack :
       /\ k > 1 => stack[k].path \in Within[k - 2]
       /\ k <= MaxDepth + 1 => \A i \in DOMAIN stack[k].todo : stack[k].todo[i] \in Within[k - 1]
  /\ visited \subseteq Within[MaxDepth]

\* A file that was found is read, refused as too deep, or still to do.
PendingInv ==
  phase = "load" \/ Done =>
    \A pair \in wanted :
      \/ pair[2] \in visited
      \/ Warning("deep", pair[2]) \in warnings
      \/ \E k \in DOMAIN stack : \E i \in DOMAIN stack[k].todo : stack[k].todo[i] = pair[2]

\* The includes of a resolved layer were found, or a warning names them.
Settled(layer) ==
  \A path \in layer.content.includes \cap ValidPaths :
    <<layer.path, path>> \in wanted \/ Warning("skipped", path) \in warnings

SettledInv ==
  /\ \A k \in DOMAIN stack :
       stack[k].resolved => \A i \in DOMAIN stack[k].acc : Settled(stack[k].acc[i])
  /\ \A i \in DOMAIN configs : Settled(configs[i])

\* Until somebody edits the directory, what is still to do is there.
PresentInv ==
  edits = 0 => \A k \in DOMAIN stack : \A i \in DOMAIN stack[k].todo : Present(stack[k].todo[i])

BlameInv ==
  error \in {"read", "parse"} /\ edits = 0 =>
    \E path \in Within[MaxDepth] :
      disk[path].kind = (IF error = "read" THEN "unreadable" ELSE "garbled")

\* arcella.toml is read first, and its layer stays the first; it is what the
\* disk holds for as long as the modification time is the one noted.
Current(layer) == mtime = watched => layer.content = disk[Main]

CurrentInv ==
  /\ phase = "load" \/ Done => watched <= mtime
  /\ phase = "load" =>
       \/ /\ Len(stack) = 1 /\ stack[1].todo = <<Main>> /\ stack[1].acc = <<>>
          /\ files = <<Builtin>>
       \/ /\ Len(stack) = 1 /\ stack[1].todo = <<>>
          /\ stack[1].acc # <<>> /\ Current(stack[1].acc[1])
       \/ /\ Len(stack) > 1 /\ stack[1].todo = <<>> /\ stack[1].acc = <<>>
          /\ Current(stack[2].acc[1])
  /\ Done => configs # <<>>
  /\ phase = "verify" => Current(configs[1])

IInv ==
  /\ TypeOK /\ PhaseInv /\ FilesInv /\ FramesInv /\ NumbersInv /\ DepthInv
  /\ PendingInv /\ SettledInv /\ PresentInv /\ BlameInv /\ CurrentInv

(***************************************************************************)
(* Within.                                                                 *)
(***************************************************************************)

Links(w, S) == {pair[2] : pair \in {p \in w : p[1] \in S}}

\* w is the function that the definition of Within describes.
Layered(w) ==
  /\ w \in [0..MaxDepth -> SUBSET Paths]
  /\ w[0] = {Main}
  /\ \A n \in 1..MaxDepth : w[n] = w[n - 1] \cup Links(wanted, w[n - 1])

\* The recursion of Within has a solution.
LEMMA WithinUnfolds == wanted \subseteq Paths \X Paths => Layered(Within)
<1> SUFFICES ASSUME wanted \subseteq Paths \X Paths
             PROVE  Layered(Within)
  OBVIOUS
<1> DEFINE m == MaxDepth
           S == SUBSET Paths
           Body(v) == v \cup Links(wanted, v)
           base == {Main}
           step == [vn \in S \X (1..m) |-> Body(vn[1])]
           Solves(g) == g = [n \in 0..m |-> IF n = 0 THEN {Main} ELSE Body(g[n - 1])]
<1>1. m \in Nat /\ base \in S
  BY ContentsAssumption, PathsAssumption
<1>2. \A v \in S : Body(v) \in S
  BY DEF Links
<1>3. step \in [S \X (1..m) -> S]
  BY <1>2
<1>4. \A v \in S, n \in 1..m : step[<<v, n>>] = Body(v)
  OBVIOUS
<1> HIDE DEF m, S, Body, base, step
<1>5. \E f \in [0..m -> S] : Recursion(f, base, step, m)
  BY <1>1, <1>3, FiniteRecursion
<1>6. PICK f \in [0..m -> S] : /\ f[0] = base
                               /\ \A n \in 1..m : f[n] = step[<<f[n - 1], n>>]
  BY <1>5 DEF Recursion
<1>7. \A n \in 1..m : n - 1 \in 0..m /\ f[n - 1] \in S
  BY <1>1
<1>8. \A n \in 1..m : f[n] = Body(f[n - 1])
  BY <1>4, <1>6, <1>7
<1>9. Solves(f)
  <2>1. \A n \in 0..m : f[n] = IF n = 0 THEN {Main} ELSE Body(f[n - 1])
    BY <1>1, <1>6, <1>8 DEF base
  <2> QED
    BY <2>1
<1>10. Within = CHOOSE g : Solves(g)
  BY DEF Within, m, Body, Links
<1>11. Solves(Within)
  <2> HIDE DEF Solves
  <2> QED
    BY <1>9, <1>10
<1>12. Within[0] = {Main} /\ \A n \in 1..m : Within[n] = Body(Within[n - 1])
  <2>1. \A n \in 0..m : Within[n] = IF n = 0 THEN {Main} ELSE Body(Within[n - 1])
    BY <1>11
  <2> QED
    BY <1>1, <2>1
<1>13. \A n \in 0..m : Within[n] = f[n]
  <2> DEFINE Equal == {n \in Nat : n <= m => Within[n] = f[n]}
  <2>1. 0 \in Equal
    BY <1>6, <1>12 DEF base
  <2>2. ASSUME NEW n \in Nat, n \in Equal
        PROVE  n + 1 \in Equal
    <3> SUFFICES ASSUME n + 1 <= m
                 PROVE  Within[n + 1] = f[n + 1]
      OBVIOUS
    <3>1. n + 1 \in 1..m /\ (n + 1) - 1 = n /\ Within[n] = f[n]
      BY <1>1, <2>2
    <3> QED
      BY <1>8, <1>12, <3>1
  <2>3. Nat \subseteq Equal
    <3> HIDE DEF Equal
    <3> QED
      BY <2>1, <2>2, NatSetInduction
  <2> QED
    BY <1>1, <2>3
<1>14. Within = [n \in 0..m |-> IF n = 0 THEN {Main} ELSE Body(Within[n - 1])]
  BY <1>11
<1>15. \A n \in 0..m : Within[n] \in S
  BY <1>13
<1>16. Within \in [0..m -> S]
  BY <1>14, <1>15
<1> QED
  BY <1>12, <1>16 DEF Layered, m, S, Body

\* What is near enough stays so when more is included.
LEMMA WithinGrows ==
  ASSUME wanted \subseteq Paths \X Paths, wanted' \subseteq Paths \X Paths, wanted \subseteq wanted'
  PROVE  \A n \in 0..MaxDepth : Within[n] \subseteq Within'[n]
<1>1. Layered(Within)
  BY WithinUnfolds
<1>2. (wanted \subseteq Paths \X Paths => Layered(Within))'
  BY WithinUnfolds, PTL
<1>3. Layered(Within)'
  BY <1>2
<1> DEFINE Growing == {n \in Nat : n <= MaxDepth => Within[n] \subseteq Within'[n]}
<1>4. 0 \in Growing
  BY <1>1, <1>3 DEF Layered
<1>5. ASSUME NEW n \in Nat, n \in Growing
      PROVE  n + 1 \in Growing
  <2> SUFFICES ASSUME n + 1 <= MaxDepth
               PROVE  Within[n + 1] \subseteq Within'[n + 1]
    OBVIOUS
  <2>1. n + 1 \in 1..MaxDepth /\ (n + 1) - 1 = n /\ Within[n] \subseteq Within'[n]
    BY <1>5, ContentsAssumption
  <2>2. Within[n + 1] = Within[n] \cup Links(wanted, Within[n])
    BY <1>1, <2>1 DEF Layered
  <2>3. Within'[n + 1] = Within'[n] \cup Links(wanted', Within'[n])
    BY <1>3, <2>1 DEF Layered
  <2> QED
    BY <2>1, <2>2, <2>3 DEF Links
<1>6. Nat \subseteq Growing
  <2> HIDE DEF Growing
  <2> QED
    BY <1>4, <1>5, NatSetInduction
<1> QED
  BY <1>6, ContentsAssumption

\* What is near is near enough for any greater distance.
LEMMA WithinNested ==
  ASSUME wanted \subseteq Paths \X Paths
  PROVE  \A n \in 0..MaxDepth : Within[n] \subseteq Within[MaxDepth]
<1>1. Layered(Within)
  BY WithinUnfolds
<1> DEFINE Nested == {k \in Nat : k <= MaxDepth => Within[MaxDepth - k] \subseteq Within[MaxDepth]}
<1>2. 0 \in Nested
  <2>1. MaxDepth - 0 = MaxDepth
    BY ContentsAssumption
  <2> QED
    BY <2>1
<1>3. ASSUME NEW k \in Nat, k \in Nested
      PROVE  k + 1 \in Nested
  <2> SUFFICES ASSUME k + 1 <= MaxDepth
               PROVE  Within[MaxDepth - (k + 1)] \subseteq Within[MaxDepth]
    OBVIOUS
  <2>1. MaxDepth - k \in 1..MaxDepth /\ MaxDepth - (k + 1) = (MaxDepth - k) - 1
    BY ContentsAssumption
  <2>2. Within[(MaxDepth - k) - 1] \subseteq Within[MaxDepth - k]
    BY <1>1, <2>1 DEF Layered
  <2>3. Within[MaxDepth - k] \subseteq Within[MaxDepth]
    BY <1>3, ContentsAssumption
  <2> QED
    BY <2>1, <2>2, <2>3
<1>4. Nat \subseteq Nested
  <2> HIDE DEF Nested
  <2> QED
    BY <1>2, <1>3, NatSetInduction
<1> SUFFICES ASSUME NEW n \in 0..MaxDepth
             PROVE  Within[n] \subseteq Within[MaxDepth]
  OBVIOUS
<1>5. MaxDepth - n \in Nat /\ MaxDepth - n <= MaxDepth /\ MaxDepth - (MaxDepth - n) = n
  BY ContentsAssumption
<1>6. MaxDepth - n \in Nested
  <2> HIDE DEF Nested
  <2> QED
    BY <1>4, <1>5
<1> QED
  BY <1>5, <1>6

(***************************************************************************)
(* Lists and stacks.                                                       *)
(***************************************************************************)

\* A sorted list of a set has its elements and no others.
LEMMA SortedLists ==
  ASSUME NEW found \in SUBSET Paths, NEW list \in Sorted(found)
  PROVE  /\ list \in Seq(Paths)
         /\ \A i \in DOMAIN list : list[i] \in found
         /\ \A path \in found : \E i \in DOMAIN list : list[i] = path
<1> DEFINE D == 1..Cardinality(found)
<1>1. IsFiniteSet(found) /\ Cardinality(found) \in Nat
  BY PathsAssumption, FS_Subset, FS_CardinalityType
<1>2. list \in [D -> found] /\ \A i, j \in D : i # j => list[i] # list[j]
  BY DEF Sorted, SetToSeqs
<1>3. IsFiniteSet(D) /\ Cardinality(D) = Cardinality(found)
  BY <1>1, FS_Interval
<1> HIDE DEF D
<1>4. list \in Injection(D, found)
  BY <1>2 DEF Injection, IsInjective
<1>5. list \in Surjection(D, found)
  BY <1>1, <1>3, <1>4, FS_Injection
<1>6. \A path \in found : \E i \in D : list[i] = path
  BY <1>5 DEF Surjection
<1>7. list \in [D -> Paths] /\ DOMAIN list = D
  BY <1>2
<1>8. list \in Seq(Paths)
  BY <1>1, <1>7 DEF D
<1> QED
  BY <1>2, <1>6, <1>7, <1>8

\* The calls in progress while the configuration is loaded.
LEMMA Calls ==
  ASSUME TypeOK, PhaseInv, phase = "load"
  PROVE  /\ Len(stack) \in Nat \ {0} /\ DOMAIN stack = 1..Len(stack)
         /\ \A k \in DOMAIN stack : stack[k] \in Frame
         /\ Top = stack[Len(stack)] /\ Top \in Frame
<1>1. stack \in Seq(Frame) /\ stack # <<>>
  BY DEF TypeOK, PhaseInv
<1>2. Len(stack) \in Nat \ {0}
  BY <1>1
<1> QED
  BY <1>1, <1>2 DEF Top, Last

\* The frames of a stack of which the last was replaced.
LEMMA Replacing ==
  ASSUME TypeOK, PhaseInv, phase = "load", NEW frame \in Frame, NEW s, s = WithTop(frame)
  PROVE  /\ s \in Seq(Frame) /\ Len(s) = Len(stack)
         /\ \A k \in DOMAIN stack : s[k] = IF k = Len(stack) THEN frame ELSE stack[k]
<1>1. stack \in Seq(Frame) /\ Len(stack) \in DOMAIN stack
  BY Calls DEF TypeOK
<1> QED
  BY <1>1 DEF WithTop

\* The innermost frame without the path that is next.
LEMMA Popping ==
  ASSUME TypeOK, PhaseInv, NEW path \in Paths, Calling(path)
  PROVE  /\ Popped \in Frame
         /\ Popped.path = Top.path /\ Popped.resolved = Top.resolved /\ Popped.acc = Top.acc
         /\ Top.resolved /\ 1 \in DOMAIN Top.todo /\ Top.todo[1] = path
         /\ Len(Popped.todo) = Len(Top.todo) - 1
         /\ \A i \in DOMAIN Popped.todo : i + 1 \in DOMAIN Top.todo /\ Popped.todo[i] = Top.todo[i + 1]
         /\ \A i \in DOMAIN Top.todo : i > 1 => /\ i - 1 \in DOMAIN Popped.todo
                                              /\ Popped.todo[i - 1] = Top.todo[i]
<1>1. Top \in Frame /\ Top.todo \in Seq(Paths) /\ Top.todo # <<>>
  BY Calls DEF Calling, Frame
<1>2. Tail(Top.todo) \in Seq(Paths) /\ path = Head(Top.todo) /\ Top.resolved
  BY <1>1 DEF Calling
<1>3. PICK r \in Frame : r = Top
  BY <1>1
<1>4. LET p == [r EXCEPT !.todo = Tail(@)]
      IN  p \in Frame /\ p.path = r.path /\ p.resolved = r.resolved /\ p.acc = r.acc
          /\ p.todo = Tail(r.todo)
  BY <1>2, <1>3 DEF Frame
<1>5. Len(Top.todo) \in Nat \ {0} /\ Len(Tail(Top.todo)) = Len(Top.todo) - 1
  BY <1>1
<1>6. \A i \in 1..Len(Top.todo) - 1 : Tail(Top.todo)[i] = Top.todo[i + 1]
  BY <1>1
<1>7. Popped = [r EXCEPT !.todo = Tail(@)]
  BY <1>3 DEF Popped
<1>8. /\ Popped \in Frame
      /\ Popped.path = Top.path /\ Popped.resolved = Top.resolved /\ Popped.acc = Top.acc
      /\ Popped.todo = Tail(Top.todo)
  <2> HIDE DEF Popped, Top
  <2> QED
    BY <1>3, <1>4, <1>7
<1>9. 1 \in DOMAIN Top.todo /\ Top.todo[1] = path
  BY <1>1, <1>2, <1>5
<1>10. \A i \in DOMAIN Popped.todo : i + 1 \in DOMAIN Top.todo /\ Popped.todo[i] = Top.todo[i + 1]
  BY <1>1, <1>2, <1>5, <1>6, <1>8
<1>11. \A i \in DOMAIN Top.todo : i > 1 => i - 1 \in DOMAIN Popped.todo /\ Popped.todo[i - 1] = Top.todo[i]
  <2> SUFFICES ASSUME NEW i \in DOMAIN Top.todo, i > 1
               PROVE  i - 1 \in DOMAIN Popped.todo /\ Popped.todo[i - 1] = Top.todo[i]
    OBVIOUS
  <2>1. i - 1 \in 1..Len(Top.todo) - 1 /\ (i - 1) + 1 = i
    BY <1>1, <1>5
  <2> QED
    BY <1>1, <1>2, <1>5, <1>6, <1>8, <2>1
<1> QED
  BY <1>2, <1>5, <1>8, <1>9, <1>10, <1>11

\* The stack when the innermost call takes the next path off what it has to do.
LEMMA Taking ==
  ASSUME TypeOK, PhaseInv, NEW path \in Paths, Calling(path), NEW s, s = WithTop(Popped)
  PROVE  /\ s \in Seq(Frame) /\ Len(s) = Len(stack)
         /\ \A k \in 1..Len(stack) : /\ k # Len(stack) => s[k] = stack[k]
                                   /\ s[k].path = stack[k].path
                                   /\ s[k].resolved = stack[k].resolved
                                   /\ s[k].acc = stack[k].acc
         /\ \A k \in 1..Len(stack) : \A i \in DOMAIN s[k].todo :
              \E j \in DOMAIN stack[k].todo : s[k].todo[i] = stack[k].todo[j]
         /\ \A k \in 1..Len(stack) : \A i \in DOMAIN stack[k].todo :
              \/ stack[k].todo[i] = path
              \/ \E j \in DOMAIN s[k].todo : s[k].todo[j] = stack[k].todo[i]
         /\ stack[Len(stack)].resolved
         /\ 1 \in DOMAIN stack[Len(stack)].todo /\ stack[Len(stack)].todo[1] = path
         /\ Len(s[Len(stack)].todo) = Len(stack[Len(stack)].todo) - 1
<1> DEFINE n == Len(stack)
<1>2. phase = "load" /\ n \in Nat \ {0} /\ DOMAIN stack = 1..n /\ Top = stack[n]
      /\ \A k \in DOMAIN stack : stack[k] \in Frame
  BY Calls DEF Calling
<1>3. /\ Popped \in Frame
      /\ Popped.path = Top.path /\ Popped.resolved = Top.resolved /\ Popped.acc = Top.acc
      /\ Top.resolved /\ 1 \in DOMAIN Top.todo /\ Top.todo[1] = path
      /\ Len(Popped.todo) = Len(Top.todo) - 1
  BY Popping
<1>4. /\ \A i \in DOMAIN Popped.todo : i + 1 \in DOMAIN Top.todo /\ Popped.todo[i] = Top.todo[i + 1]
      /\ \A i \in DOMAIN Top.todo : i > 1 => i - 1 \in DOMAIN Popped.todo /\ Popped.todo[i - 1] = Top.todo[i]
  BY Popping
<1>5. /\ s \in Seq(Frame) /\ Len(s) = n
      /\ \A k \in DOMAIN stack : s[k] = IF k = n THEN Popped ELSE stack[k]
  BY <1>2, <1>3, Replacing
<1>7. \A k \in 1..n : /\ s[k].path = stack[k].path
                      /\ s[k].resolved = stack[k].resolved
                      /\ s[k].acc = stack[k].acc
  BY <1>2, <1>3, <1>5
<1>8. \A k \in 1..n : \A i \in DOMAIN s[k].todo :
        \E j \in DOMAIN stack[k].todo : s[k].todo[i] = stack[k].todo[j]
  <2> SUFFICES ASSUME NEW k \in 1..n, NEW i \in DOMAIN s[k].todo
               PROVE  \E j \in DOMAIN stack[k].todo : s[k].todo[i] = stack[k].todo[j]
    OBVIOUS
  <2>1. CASE k = n
    BY <1>2, <1>4, <1>5, <2>1
  <2>2. CASE k # n
    BY <1>2, <1>5, <2>2
  <2> QED
    BY <2>1, <2>2
<1>9. \A k \in 1..n : \A i \in DOMAIN stack[k].todo :
        \/ stack[k].todo[i] = path
        \/ \E j \in DOMAIN s[k].todo : s[k].todo[j] = stack[k].todo[i]
  <2> SUFFICES ASSUME NEW k \in 1..n, NEW i \in DOMAIN stack[k].todo, stack[k].todo[i] # path
               PROVE  \E j \in DOMAIN s[k].todo : s[k].todo[j] = stack[k].todo[i]
    OBVIOUS
  <2>1. CASE k = n
    <3>1. Top.todo \in Seq(Paths)
      BY <1>2 DEF Frame
    <3>2. i \in DOMAIN Top.todo /\ i > 1
      BY <1>2, <1>3, <2>1, <3>1
    <3> QED
      BY <1>2, <1>4, <1>5, <2>1, <3>2
  <2>2. CASE k # n
    BY <1>2, <1>5, <2>2
  <2> QED
    BY <2>1, <2>2
<1>10. \A k \in 1..n : k # n => s[k] = stack[k]
  BY <1>2, <1>5
<1>11. Len(s[n].todo) = Len(stack[n].todo) - 1 /\ stack[n].resolved
       /\ 1 \in DOMAIN stack[n].todo /\ stack[n].todo[1] = path
  BY <1>2, <1>3, <1>5
<1> QED
  BY <1>5, <1>7, <1>8, <1>9, <1>10, <1>11

\* The layers of a call, and the numbers they start from.
LEMMA LayersOf ==
  ASSUME TypeOK, FramesInv, NEW k \in DOMAIN stack
  PROVE  /\ stack[k].acc \in Seq(Layer) /\ Len(stack[k].acc) \in Nat
         /\ DOMAIN stack[k].acc = 1..Len(stack[k].acc)
         /\ \A i \in DOMAIN stack[k].acc : stack[k].acc[i] \in Layer /\ stack[k].acc[i].file \in Nat
         /\ Before(k) \in Int
<1>1. stack[k] \in Frame
  BY DEF TypeOK
<1>2. PICK a \in Seq(Layer) : a = stack[k].acc
  BY <1>1 DEF Frame
<1>3. \A i \in DOMAIN a : a[i] \in Layer /\ a[i].file \in Nat
  <2>1. \A i \in DOMAIN a : a[i] \in Layer
    OBVIOUS
  <2>2. \A l \in Layer : l.file \in Nat
    BY DEF Layer
  <2> QED
    BY <2>1, <2>2
<1>4. k > 1 => 1 \in DOMAIN a
  BY <1>2 DEF FramesInv
<1>5. k \in Nat \ {0}
  BY DEF TypeOK
<1>6. Before(k) \in Int
  BY <1>2, <1>3, <1>4, <1>5 DEF Before
<1> QED
  BY <1>2, <1>3, <1>6

(***************************************************************************)
(* The steps of the recursion.                                             *)
(***************************************************************************)

\* A call that returns no layer: it takes its path off what is to do.
LEMMA RefusedInv ==
  ASSUME IInv, NEW path \in Paths, Calling(path),
         path \in visited \/ (Warning("deep", path) \in warnings' /\ Len(stack) > 1),
         stack' = WithTop(Popped), warnings \subseteq warnings',
         UNCHANGED <<disk, mtime, edits, phase, error, watched, visited, files, configs, wanted>>
  PROVE  IInv'
<1> DEFINE n == Len(stack)
<1>1. /\ TypeOK /\ PhaseInv /\ FilesInv /\ FramesInv /\ NumbersInv /\ DepthInv
      /\ PendingInv /\ SettledInv /\ PresentInv /\ BlameInv /\ CurrentInv
  BY DEF IInv
<1>2. phase = "load" /\ n \in Nat \ {0} /\ DOMAIN stack = 1..n /\ Top = stack[n]
      /\ \A k \in DOMAIN stack : stack[k] \in Frame
  BY <1>1, Calls DEF Calling
<1>3. /\ stack' \in Seq(Frame) /\ Len(stack') = n
      /\ \A k \in 1..n : /\ k # n => stack'[k] = stack[k]
                         /\ stack'[k].path = stack[k].path
                         /\ stack'[k].resolved = stack[k].resolved
                         /\ stack'[k].acc = stack[k].acc
  BY <1>1, Taking
<1>4. /\ stack[n].resolved
      /\ 1 \in DOMAIN stack[n].todo /\ stack[n].todo[1] = path
  BY <1>1, Taking
<1>5. \A k \in 1..n : \A i \in DOMAIN stack'[k].todo :
        \E j \in DOMAIN stack[k].todo : stack'[k].todo[i] = stack[k].todo[j]
  BY <1>1, Taking
<1>6. \A k \in 1..n : \A i \in DOMAIN stack[k].todo :
        \/ stack[k].todo[i] = path
        \/ \E j \in DOMAIN stack'[k].todo : stack'[k].todo[j] = stack[k].todo[i]
  BY <1>1, Taking
<1>7. DOMAIN stack' = 1..n /\ stack' # <<>>
  <2> HIDE DEF n
  <2> QED
    BY <1>2, <1>3
<1> HIDE DEF n
<1>10. TypeOK' /\ PhaseInv' /\ FilesInv' /\ BlameInv'
  <2>1. Within' = Within
    BY DEF Within
  <2> QED
    BY <1>1, <1>2, <1>3, <1>7, <2>1 DEF TypeOK, PhaseInv, FilesInv, BlameInv, Starting, Done
<1>11. FramesInv'
  <2>1. \A k \in 1..n : ~stack[k].resolved => stack'[k].todo = stack[k].todo
    BY <1>2, <1>3, <1>4
  <2> QED
    BY <1>1, <1>2, <1>3, <1>7, <2>1 DEF FramesInv
<1>12. NumbersInv'
  <2>1. \A k \in 1..n : Before(k)' = Before(k)
    BY <1>3 DEF Before
  <2>2. ASSUME NEW k \in 1..n
        PROVE  Numbered(stack[k].acc, Before(k))'
    <3>1. Numbered(stack[k].acc, Before(k))
      BY <1>1, <1>2 DEF NumbersInv
    <3>2. stack'[k].acc = stack[k].acc
      BY <1>3
    <3> QED
      BY <2>1, <3>1, <3>2 DEF Numbered
  <2>3. ASSUME NEW k \in 1..n
        PROVE  Before(k)' + Len(stack'[k].acc) =
                 IF k = n THEN Len(files) - 1 ELSE Before(k + 1)'
    <3>1. Before(k) + Len(stack[k].acc) = IF k = n THEN Len(files) - 1 ELSE Before(k + 1)
      BY <1>1, <1>2 DEF NumbersInv, n
    <3>2. stack'[k].acc = stack[k].acc
      BY <1>3
    <3>3. k # n => k + 1 \in 1..n
      BY <1>2
    <3> QED
      BY <2>1, <3>1, <3>2, <3>3
  <2> QED
    BY <1>1, <1>2, <1>3, <1>7, <2>2, <2>3 DEF NumbersInv, Done, n
<1>13. DepthInv'
  <2>1. Within' = Within
    BY DEF Within
  <2> QED
    <3>1. ASSUME NEW k \in 1..n, k <= MaxDepth + 1, NEW i \in DOMAIN stack'[k].todo
          PROVE  stack'[k].todo[i] \in Within[k - 1]
      BY <1>1, <1>2, <1>5, <3>1 DEF DepthInv
    <3>2. \A k \in 1..n : k > 1 => stack'[k].path \in Within[k - 2]
      BY <1>1, <1>2, <1>3 DEF DepthInv
    <3>3. Len(stack') <= MaxDepth + 2 /\ visited \subseteq Within[MaxDepth]
      BY <1>1, <1>3 DEF DepthInv, n
    <3> QED
      BY <1>7, <2>1, <3>1, <3>2, <3>3 DEF DepthInv
<1>14. PendingInv'
  <2> SUFFICES ASSUME NEW pair \in wanted
               PROVE  \/ pair[2] \in visited
                      \/ Warning("deep", pair[2]) \in warnings'
                      \/ \E k \in 1..n : \E i \in DOMAIN stack'[k].todo : stack'[k].todo[i] = pair[2]
    BY <1>7 DEF PendingInv, Warning
  <2>1. \/ pair[2] \in visited
        \/ Warning("deep", pair[2]) \in warnings
        \/ \E k \in 1..n : \E i \in DOMAIN stack[k].todo : stack[k].todo[i] = pair[2]
    BY <1>1, <1>2 DEF PendingInv
  <2> QED
    BY <1>6, <2>1
<1>15. SettledInv'
  BY <1>1, <1>2, <1>3, <1>7 DEF SettledInv, Settled, Warning
<1>16. PresentInv'
  BY <1>1, <1>2, <1>5, <1>7 DEF PresentInv, Present
<1>17. CurrentInv'
  <2>1. n > 1
    BY <1>1, <1>2, <1>4 DEF CurrentInv, FilesInv
  <2>2. 1 # n /\ 1 \in 1..n /\ 2 \in 1..n
    BY <1>2, <2>1
  <2>3. stack'[1] = stack[1] /\ stack'[2].acc = stack[2].acc
    BY <1>2, <1>3, <2>2
  <2> QED
    BY <1>1, <1>2, <1>3, <2>1, <2>3 DEF CurrentInv, Current, Done, n
<1> QED
  BY <1>10, <1>11, <1>12, <1>13, <1>14, <1>15, <1>16, <1>17 DEF IInv

\* A file that is read becomes the last layer, that of a call of its own.
LEMMA ReadInv ==
  ASSUME IInv, NEW path \in Paths, Read(path)
  PROVE  IInv'
<1>a. PICK n, m : n = Len(stack) /\ m = Len(files)
  OBVIOUS
<1>b. PICK layer : layer = [path |-> path, content |-> disk[path], file |-> m]
  OBVIOUS
<1>c. PICK frame : frame = [path |-> path, resolved |-> FALSE, todo |-> <<>>, acc |-> <<layer>>]
  OBVIOUS
<1>1. /\ TypeOK /\ PhaseInv /\ FilesInv /\ FramesInv /\ NumbersInv /\ DepthInv
      /\ PendingInv /\ SettledInv /\ PresentInv /\ BlameInv /\ CurrentInv
  BY DEF IInv
<1>2. /\ Calling(path) /\ ~Exceeded /\ path \notin visited
      /\ visited' = visited \cup {path} /\ files' = Append(files, path)
      /\ stack' = Append(WithTop(Popped), frame)
      /\ UNCHANGED <<disk, mtime, edits, phase, error, watched, warnings, configs, wanted>>
  BY <1>a, <1>b, <1>c DEF Read, Reading, Entered
<1>3. phase = "load" /\ n \in Nat \ {0} /\ DOMAIN stack = 1..n
      /\ \A k \in DOMAIN stack : stack[k] \in Frame
  BY <1>1, <1>2, <1>a, Calls DEF Calling
<1>4. PICK s : s = WithTop(Popped)
  OBVIOUS
<1>5. /\ s \in Seq(Frame) /\ Len(s) = n
      /\ \A k \in 1..n : /\ k # n => s[k] = stack[k]
                         /\ s[k].path = stack[k].path
                         /\ s[k].resolved = stack[k].resolved
                         /\ s[k].acc = stack[k].acc
      /\ stack[n].resolved
      /\ 1 \in DOMAIN stack[n].todo /\ stack[n].todo[1] = path
      /\ Len(s[n].todo) = Len(stack[n].todo) - 1
  BY <1>1, <1>2, <1>4, <1>a, Taking
<1>6. \A k \in 1..n : \A i \in DOMAIN s[k].todo :
        \E j \in DOMAIN stack[k].todo : s[k].todo[i] = stack[k].todo[j]
  BY <1>1, <1>2, <1>4, <1>a, Taking
<1>7. \A k \in 1..n : \A i \in DOMAIN stack[k].todo :
        \/ stack[k].todo[i] = path
        \/ \E j \in DOMAIN s[k].todo : s[k].todo[j] = stack[k].todo[i]
  BY <1>1, <1>2, <1>4, <1>a, Taking
<1>8. layer \in Layer /\ m \in Nat \ {0} /\ DOMAIN files = 1..m
  BY <1>1, <1>a, <1>b DEF TypeOK, Layer, FilesInv
<1>9. frame \in Frame
  BY <1>8, <1>c DEF Frame
<1>10. /\ stack' \in Seq(Frame) /\ Len(stack') = n + 1 /\ DOMAIN stack' = 1..n + 1
       /\ \A k \in 1..n : stack'[k] = s[k]
       /\ stack'[n + 1] = frame
  BY <1>2, <1>3, <1>4, <1>5, <1>9
<1>11. /\ files' \in Seq(Paths \cup {Builtin}) /\ Len(files') = m + 1 /\ DOMAIN files' = 1..m + 1
       /\ \A i \in 1..m : files'[i] = files[i]
       /\ files'[m + 1] = path
  <2>1. files \in Seq(Paths \cup {Builtin})
    BY <1>1 DEF TypeOK
  <2> QED
    BY <1>2, <1>8, <1>a, <2>1
<1>12. frame.path = path /\ frame.resolved = FALSE /\ frame.todo = <<>>
       /\ Len(frame.acc) = 1 /\ DOMAIN frame.acc = {1} /\ frame.acc[1] = layer
  BY <1>c
<1>13. layer.path = path /\ layer.content = disk[path] /\ layer.file = m
  BY <1>b
<1>14. TypeOK' /\ PhaseInv'
  BY <1>1, <1>2, <1>3, <1>10, <1>11 DEF TypeOK, PhaseInv, Starting, Done
<1>15. FilesInv'
  <2>1. \A i \in 1..m : files[i] # path
    BY <1>1, <1>2, <1>8, PathsAssumption DEF FilesInv
  <2>2. Len(files') >= 1 /\ files'[1] = Builtin
    BY <1>1, <1>8, <1>11 DEF FilesInv
  <2>3. \A i \in 2..m + 1 : files'[i] \in visited'
    BY <1>1, <1>2, <1>8, <1>11, <1>a DEF FilesInv
  <2>4. \A p \in visited' : \E i \in 2..m + 1 : files'[i] = p
    BY <1>1, <1>2, <1>8, <1>11, <1>a DEF FilesInv
  <2>5. \A i, j \in 1..m + 1 : files'[i] = files'[j] => i = j
    BY <1>1, <1>8, <1>11, <2>1, <1>a DEF FilesInv
  <2> QED
    BY <1>11, <2>2, <2>3, <2>4, <2>5 DEF FilesInv
<1>16. FramesInv'
  <2>1. ASSUME NEW k \in 1..n
        PROVE  /\ k = 1 => stack'[k].path = Builtin /\ stack'[k].resolved
               /\ k > 1 => /\ stack'[k].path \in Paths
                           /\ stack'[k].acc # <<>> /\ stack'[k].acc[1].path = stack'[k].path
               /\ stack'[k].resolved
    <3>1. /\ k = 1 => stack[k].path = Builtin /\ stack[k].resolved
          /\ k > 1 => /\ stack[k].path \in Paths
                      /\ stack[k].acc # <<>> /\ stack[k].acc[1].path = stack[k].path
          /\ ~stack[k].resolved => k = n
      BY <1>1, <1>3, <1>a DEF FramesInv
    <3>2. stack'[k].path = stack[k].path /\ stack'[k].resolved = stack[k].resolved /\ stack'[k].acc = stack[k].acc
      BY <1>5, <1>10
    <3> QED
      BY <1>5, <3>1, <3>2
  <2>2. frame.acc # <<>>
    BY <1>12
  <2> QED
    BY <1>3, <1>10, <1>12, <1>13, <2>1, <2>2 DEF FramesInv
<1>17. NumbersInv'
  <2>1. /\ \A k \in 1..n : Before(k)' = Before(k)
        /\ Before(n + 1)' = m - 1
    BY <1>3, <1>5, <1>10, <1>12, <1>13 DEF Before
  <2>2. ASSUME NEW k \in 1..n
        PROVE  /\ Numbered(stack[k].acc, Before(k))'
               /\ Before(k)' + Len(stack'[k].acc) = Before(k + 1)'
    <3>1. /\ Numbered(stack[k].acc, Before(k))
          /\ Before(k) + Len(stack[k].acc) = IF k = n THEN m - 1 ELSE Before(k + 1)
      BY <1>1, <1>3, <1>a DEF NumbersInv
    <3>2. stack'[k].acc = stack[k].acc
      BY <1>5, <1>10
    <3>3. k # n => k + 1 \in 1..n
      BY <1>3
    <3>4. Before(k)' + Len(stack'[k].acc) = Before(k + 1)'
      BY <2>1, <3>1, <3>2, <3>3
    <3>5. Before(k) \in Int
      BY <1>1, <1>3, LayersOf
    <3>6. ASSUME NEW i \in DOMAIN stack[k].acc
          PROVE  /\ stack[k].acc[i].file = Before(k) + i
                 /\ Before(k) + i < Len(files')
                 /\ files'[Before(k) + i + 1] = stack[k].acc[i].path
      <4>1. /\ stack[k].acc[i].file = Before(k) + i /\ Before(k) + i < m
            /\ files[Before(k) + i + 1] = stack[k].acc[i].path
        BY <3>1, <1>a DEF Numbered
      <4>2. stack[k].acc[i].file \in Nat
        BY <1>1, <1>3, LayersOf
      <4>3. Before(k) + i + 1 \in 1..m
        BY <1>8, <4>1, <4>2
      <4> QED
        BY <1>8, <1>11, <4>1, <4>2, <4>3
    <3> QED
      BY <2>1, <3>2, <3>4, <3>6 DEF Numbered
  <2>3. Numbered(frame.acc, m - 1)'
    BY <1>8, <1>11, <1>12, <1>13 DEF Numbered
  <2>4. Numbered(stack[n + 1].acc, Before(n + 1))'
    BY <1>10, <2>1, <2>3 DEF Numbered
  <2>5. Before(n + 1)' + Len(stack'[n + 1].acc) = Len(files') - 1
    BY <1>8, <1>10, <1>11, <1>12, <2>1
  <2>6. ~Done' /\ n # n + 1
    BY <1>2, <1>3 DEF Done
  <2> QED
    BY <1>3, <1>10, <2>2, <2>4, <2>5, <2>6 DEF NumbersInv
<1>18. DepthInv'
  <2>1. Within' = Within
    BY <1>2 DEF Within
  <2>2. n <= MaxDepth + 1
    BY <1>2, <1>3, ContentsAssumption, <1>a DEF Exceeded, Depth
  <2>3. path \in Within[n - 1]
    BY <1>1, <1>3, <1>5, <2>2 DEF DepthInv
  <2>4. path \in Within[MaxDepth]
    <3>1. n - 1 \in 0..MaxDepth
      BY <1>3, <2>2, ContentsAssumption
    <3>2. wanted \subseteq Paths \X Paths
      BY <1>1 DEF TypeOK
    <3> QED
      BY <2>3, <3>1, <3>2, WithinNested
  <2>5. ASSUME NEW k \in 1..n, k <= MaxDepth + 1, NEW i \in DOMAIN stack'[k].todo
        PROVE  stack'[k].todo[i] \in Within[k - 1]
    BY <1>1, <1>3, <1>6, <1>10, <2>5 DEF DepthInv
  <2>6. \A k \in 1..n : k > 1 => stack'[k].path \in Within[k - 2]
    BY <1>1, <1>3, <1>5, <1>10 DEF DepthInv
  <2>7. stack'[n + 1].path \in Within[(n + 1) - 2] /\ DOMAIN stack'[n + 1].todo = {}
    BY <1>3, <1>10, <1>12, <2>3
  <2>8. Len(stack') <= MaxDepth + 2 /\ visited' \subseteq Within[MaxDepth]
    BY <1>1, <1>2, <1>3, <1>10, <2>2, <2>4, ContentsAssumption DEF DepthInv
  <2>9. ASSUME NEW k \in 1..n + 1
        PROVE  /\ k > 1 => stack'[k].path \in Within[k - 2]
               /\ k <= MaxDepth + 1 =>
                    \A i \in DOMAIN stack'[k].todo : stack'[k].todo[i] \in Within[k - 1]
    <3>1. CASE k = n + 1
      BY <2>7, <3>1
    <3>2. CASE k \in 1..n
      BY <2>5, <2>6, <3>2
    <3> QED
      BY <1>3, <3>1, <3>2
  <2> QED
    BY <1>10, <2>1, <2>8, <2>9 DEF DepthInv
<1>19. PendingInv'
  <2> SUFFICES ASSUME NEW pair \in wanted
               PROVE  \/ pair[2] \in visited'
                      \/ Warning("deep", pair[2]) \in warnings
                      \/ \E k \in 1..n + 1 : \E i \in DOMAIN stack'[k].todo : stack'[k].todo[i] = pair[2]
    <3>1. wanted' = wanted /\ warnings' = warnings
      BY <1>2
    <3> QED
      BY <1>10, <3>1 DEF PendingInv, Warning
  <2>1. \/ pair[2] \in visited
        \/ Warning("deep", pair[2]) \in warnings
        \/ \E k \in 1..n : \E i \in DOMAIN stack[k].todo : stack[k].todo[i] = pair[2]
    BY <1>1, <1>3 DEF PendingInv
  <2> QED
    BY <1>2, <1>3, <1>7, <1>10, <2>1
<1>20. SettledInv'
  <2>1. \A k \in 1..n : stack'[k].resolved =>
          \A i \in DOMAIN stack'[k].acc : Settled(stack'[k].acc[i])
    BY <1>1, <1>3, <1>5, <1>10 DEF SettledInv
  <2> QED
    BY <1>1, <1>2, <1>3, <1>10, <1>12, <2>1 DEF SettledInv, Settled, Warning
<1>21. PresentInv'
  <2>1. \A k \in 1..n + 1 : \A i \in DOMAIN stack'[k].todo :
          k \in 1..n /\ \E j \in DOMAIN stack[k].todo : stack'[k].todo[i] = stack[k].todo[j]
    <3>1. DOMAIN stack'[n + 1].todo = {}
      BY <1>10, <1>12
    <3> QED
      BY <1>3, <1>6, <1>10, <3>1
  <2> QED
    BY <1>1, <1>2, <1>3, <1>10, <2>1 DEF PresentInv, Present
<1>22. BlameInv'
  BY <1>1, <1>2, <1>3 DEF BlameInv, PhaseInv
<1>23. CurrentInv'
  <2>1. CASE n = 1
    <3>1. stack[1].todo = <<Main>> /\ stack[1].acc = <<>> /\ path = Main
      BY <1>1, <1>3, <1>5, <2>1, <1>a DEF CurrentInv
    <3>2. s[1].todo \in Seq(Paths) /\ Len(s[1].todo) = 0
        <4>1. s[1] \in Frame
        <5>1. 1 \in DOMAIN s
          BY <1>5, <2>1
        <5> QED
          BY <1>5, <5>1
      <4> QED
        BY <1>5, <2>1, <3>1, <4>1 DEF Frame
    <3>3. stack'[1].todo = <<>> /\ stack'[1].acc = <<>>
      BY <1>5, <1>10, <2>1, <3>1, <3>2
    <3>4. stack'[2].acc[1].content = disk[Main]
      BY <1>10, <1>12, <1>13, <2>1, <3>1
    <3> QED
      BY <1>1, <1>2, <1>3, <1>10, <2>1, <3>3, <3>4 DEF CurrentInv, Current, Done
  <2>2. CASE n > 1
    <3>1. 1 # n /\ 1 \in 1..n /\ 2 \in 1..n
      BY <1>3, <2>2
    <3>2. stack'[1] = stack[1] /\ stack'[2].acc = stack[2].acc
      BY <1>5, <1>10, <3>1
    <3> QED
      BY <1>1, <1>2, <1>3, <1>10, <2>2, <3>2, <1>a DEF CurrentInv, Current, Done
  <2> QED
    BY <1>3, <2>1, <2>2
<1> QED
  BY <1>14, <1>15, <1>16, <1>17, <1>18, <1>19, <1>20, <1>21, <1>22, <1>23 DEF IInv

\* The includes of a document become what its call has to do.
LEMMA ResolveInv ==
  ASSUME IInv, Resolve
  PROVE  IInv'
<1>a. PICK n : n = Len(stack)
  OBVIOUS
<1>1. /\ TypeOK /\ PhaseInv /\ FilesInv /\ FramesInv /\ NumbersInv /\ DepthInv
      /\ PendingInv /\ SettledInv /\ PresentInv /\ BlameInv /\ CurrentInv
  BY DEF IInv
<1>2. phase = "load" /\ n \in Nat \ {0} /\ DOMAIN stack = 1..n /\ Top = stack[n]
      /\ \A k \in DOMAIN stack : stack[k] \in Frame
  BY <1>1, <1>a, Calls DEF Resolve
<1>3. PICK layer, found, skipped :
        /\ layer = Top.acc[1] /\ found = Found(layer.content.includes)
        /\ Skipped(layer.content.includes) \subseteq skipped
        /\ warnings' = warnings \cup {Warning("skipped", p) : p \in skipped}
  <2>1. PICK gone \in SUBSET Vacant(Top.acc[1].content.includes) :
          warnings' = warnings \cup
            {Warning("skipped", p) : p \in Skipped(Top.acc[1].content.includes) \cup gone}
    BY DEF Resolve
  <2> QED
    BY <2>1
<1>4. PICK list \in Sorted(found) :
        /\ ~Top.resolved
        /\ stack' = WithTop([Top EXCEPT !.resolved = TRUE, !.todo = list])
        /\ warnings' = warnings \cup {Warning("skipped", p) : p \in skipped}
        /\ wanted' = wanted \cup {<<Top.path, p>> : p \in found}
        /\ UNCHANGED <<disk, mtime, edits, phase, error, watched, visited, files, configs>>
  BY <1>3 DEF Resolve
<1>5. found \in SUBSET Paths /\ \A p \in found : p \in ValidPaths /\ Present(p)
  BY <1>3, PathsAssumption DEF Found
<1>6. /\ list \in Seq(Paths)
      /\ \A i \in DOMAIN list : list[i] \in found
      /\ \A p \in found : \E i \in DOMAIN list : list[i] = p
  BY <1>5, SortedLists
<1>7. PICK r \in Frame : r = stack[n]
  BY <1>2
<1>8. PICK frame : frame = [r EXCEPT !.resolved = TRUE, !.todo = list]
  OBVIOUS
<1>9. /\ frame \in Frame
      /\ frame.path = stack[n].path /\ frame.acc = stack[n].acc
      /\ frame.resolved /\ frame.todo = list
  <2>1. /\ frame \in Frame
        /\ frame.path = r.path /\ frame.acc = r.acc
        /\ frame.resolved /\ frame.todo = list
    BY <1>6, <1>8 DEF Frame
  <2> QED
    BY <1>7, <2>1
<1>10. stack' = WithTop(frame)
  BY <1>2, <1>4, <1>7, <1>8
<1>11. /\ stack' \in Seq(Frame) /\ Len(stack') = n /\ DOMAIN stack' = 1..n
       /\ \A k \in 1..n : stack'[k] = IF k = n THEN frame ELSE stack[k]
  <2>1. /\ stack' \in Seq(Frame) /\ Len(stack') = n
        /\ \A k \in 1..n : stack'[k] = IF k = n THEN frame ELSE stack[k]
    <3>1. /\ stack' \in Seq(Frame) /\ Len(stack') = Len(stack)
          /\ \A k \in DOMAIN stack : stack'[k] = IF k = Len(stack) THEN frame ELSE stack[k]
      BY <1>1, <1>2, <1>9, <1>10, Replacing
    <3> QED
      BY <1>2, <1>a, <3>1
  <2> QED
    BY <1>2, <2>1
<1>12. /\ n > 1 /\ stack[n].path \in Paths /\ stack[n].todo = <<>>
       /\ Len(stack[n].acc) = 1 /\ layer = stack[n].acc[1] /\ layer.path = stack[n].path
  BY <1>1, <1>2, <1>3, <1>4 DEF FramesInv
<1>13. /\ wanted \subseteq wanted' /\ warnings \subseteq warnings'
       /\ wanted \subseteq Paths \X Paths /\ wanted' \subseteq Paths \X Paths
  <2>1. {<<Top.path, p>> : p \in found} \subseteq Paths \X Paths
    BY <1>2, <1>5, <1>12
  <2> QED
    BY <1>1, <1>4, <2>1 DEF TypeOK
<1>14. \A k \in 1..n : stack'[k].path = stack[k].path /\ stack'[k].acc = stack[k].acc
  BY <1>9, <1>11
<1>15. TypeOK' /\ PhaseInv' /\ FilesInv'
  <2>1. stack' # <<>>
    BY <1>2, <1>11
  <2>2. UNCHANGED <<disk, mtime, edits, phase, error, watched, visited, files, configs>>
    BY <1>4
  <2> QED
    BY <1>1, <1>2, <1>11, <1>13, <2>1, <2>2 DEF TypeOK, PhaseInv, FilesInv, Starting, Done
<1>16. FramesInv'
  <2> SUFFICES ASSUME NEW k \in 1..n
               PROVE  /\ k = 1 => stack'[k].path = Builtin /\ stack'[k].resolved
                      /\ k > 1 => /\ stack'[k].path \in Paths
                                  /\ stack'[k].acc # <<>> /\ stack'[k].acc[1].path = stack'[k].path
                      /\ stack'[k].resolved
    BY <1>11 DEF FramesInv
  <2>1. /\ k = 1 => stack[k].path = Builtin /\ stack[k].resolved
        /\ k > 1 => /\ stack[k].path \in Paths
                    /\ stack[k].acc # <<>> /\ stack[k].acc[1].path = stack[k].path
        /\ ~stack[k].resolved => k = n
    BY <1>1, <1>2, <1>a DEF FramesInv
  <2>2. stack'[k].resolved
    BY <1>9, <1>11, <2>1
  <2> QED
    BY <1>14, <2>1, <2>2
<1>17. NumbersInv'
  <2>1. \A k \in 1..n : Before(k)' = Before(k)
    BY <1>14 DEF Before
  <2>2. files' = files /\ ~Done'
    BY <1>2, <1>4 DEF Done
  <2>3. ASSUME NEW k \in 1..n
        PROVE  /\ Numbered(stack[k].acc, Before(k))'
               /\ Before(k)' + Len(stack'[k].acc) = IF k = n THEN Len(files') - 1 ELSE Before(k + 1)'
    <3>1. /\ Numbered(stack[k].acc, Before(k))
          /\ Before(k) + Len(stack[k].acc) = IF k = n THEN Len(files) - 1 ELSE Before(k + 1)
      BY <1>1, <1>2, <1>a DEF NumbersInv
    <3>2. stack'[k].acc = stack[k].acc
      BY <1>14
    <3>3. k # n => k + 1 \in 1..n
      BY <1>2
    <3> QED
      BY <2>1, <2>2, <3>1, <3>2, <3>3 DEF Numbered
  <2> QED
    BY <1>11, <2>2, <2>3 DEF NumbersInv
<1>18. BlameInv'
  BY <1>1, <1>2, <1>4 DEF BlameInv, PhaseInv
<1>19. DepthInv'
  <2>1. \A k \in 0..MaxDepth : Within[k] \subseteq Within'[k]
    BY <1>13, WithinGrows
  <2>2. (wanted \subseteq Paths \X Paths => Layered(Within))'
    BY WithinUnfolds, PTL
  <2>3. Layered(Within)'
    BY <1>13, <2>2
  <2>4. n <= MaxDepth + 2 /\ MaxDepth \in Nat
    BY <1>1, <1>a, ContentsAssumption DEF DepthInv
  <2>5. ASSUME NEW k \in 1..n, k > 1
        PROVE  stack'[k].path \in Within'[k - 2]
    <3>1. stack[k].path \in Within[k - 2] /\ k - 2 \in 0..MaxDepth
      BY <1>1, <1>2, <2>4, <2>5 DEF DepthInv
    <3> QED
      BY <1>14, <2>1, <3>1
  <2>6. ASSUME NEW k \in 1..n, k <= MaxDepth + 1, NEW i \in DOMAIN stack'[k].todo
        PROVE  stack'[k].todo[i] \in Within'[k - 1]
    <3>1. k - 1 \in 0..MaxDepth
      BY <1>2, <2>4, <2>6
    <3>2. CASE k # n
      BY <1>1, <1>2, <1>11, <2>1, <2>6, <3>1, <3>2 DEF DepthInv
    <3>3. CASE k = n
      <4>1. n - 1 \in 1..MaxDepth /\ (n - 1) - 1 = n - 2
        BY <1>2, <1>12, <2>4, <2>6, <3>3
      <4>2. Within'[n - 1] = Within'[n - 2] \cup Links(wanted', Within'[n - 2])
        BY <2>3, <4>1 DEF Layered
      <4>3. stack[n].path \in Within'[n - 2]
        BY <1>2, <1>12, <1>14, <2>5
      <4>4. stack'[k].todo[i] \in found
        BY <1>6, <1>9, <1>11, <2>6, <3>3
      <4>5. <<stack[n].path, stack'[k].todo[i]>> \in wanted'
        BY <1>2, <1>4, <4>4
      <4> QED
        BY <3>3, <4>2, <4>3, <4>5 DEF Links
    <3> QED
      BY <3>2, <3>3
  <2>7. visited' \subseteq Within'[MaxDepth]
    BY <1>1, <1>4, <2>1, <2>4 DEF DepthInv
  <2> QED
    BY <1>11, <2>4, <2>5, <2>6, <2>7 DEF DepthInv
<1>20. PendingInv'
  <2> SUFFICES ASSUME NEW pair \in wanted'
               PROVE  \/ pair[2] \in visited
                      \/ Warning("deep", pair[2]) \in warnings'
                      \/ \E k \in 1..n : \E i \in DOMAIN stack'[k].todo : stack'[k].todo[i] = pair[2]
    <3>1. visited' = visited
      BY <1>4
    <3> QED
      BY <1>11, <3>1 DEF PendingInv, Warning
  <2>1. CASE pair \in wanted
    <3>1. \/ pair[2] \in visited
          \/ Warning("deep", pair[2]) \in warnings
          \/ \E k \in 1..n : \E i \in DOMAIN stack[k].todo : stack[k].todo[i] = pair[2]
      BY <1>1, <1>2, <2>1 DEF PendingInv
    <3>2. \A k \in 1..n : \A i \in DOMAIN stack[k].todo : stack'[k].todo = stack[k].todo
      BY <1>11, <1>12
    <3> QED
      BY <1>13, <3>1, <3>2
  <2>2. CASE pair \notin wanted
    <3>1. pair[2] \in found
      BY <1>4, <2>2
    <3> QED
      BY <1>2, <1>6, <1>9, <1>11, <3>1
  <2> QED
    BY <2>1, <2>2
<1>21. SettledInv'
  <2>1. \A l : Settled(l) => Settled(l)'
    BY <1>13 DEF Settled, Warning
  <2>2. Settled(layer)'
    <3> SUFFICES ASSUME NEW path \in layer.content.includes \cap ValidPaths
                 PROVE  <<layer.path, path>> \in wanted' \/ Warning("skipped", path) \in warnings'
      BY DEF Settled, Warning
    <3>1. path \in Paths /\ path \notin Dirs
      BY PathsAssumption
    <3>2. CASE Present(path)
      <4>1. path \in found
        BY <1>3, <3>1, <3>2 DEF Found, Covers
      <4> QED
        BY <1>2, <1>4, <1>12, <4>1
    <3>3. CASE ~Present(path)
      <4>1. path \in skipped
        BY <1>3, <3>1, <3>3 DEF Skipped
      <4> QED
        BY <1>4, <4>1
    <3> QED
      BY <3>2, <3>3
  <2>3. ASSUME NEW k \in 1..n, NEW i \in DOMAIN stack'[k].acc
        PROVE  Settled(stack[k].acc[i])'
    <3>1. PICK l : l = stack'[k].acc[i]
      OBVIOUS
    <3>2. CASE k = n
      <4>1. i = 1
        <5>1. stack[n].acc \in Seq(Layer) /\ DOMAIN stack[n].acc = 1..1
          BY <1>1, <1>2, <1>12, LayersOf
        <5> QED
          BY <1>14, <2>3, <3>2, <5>1
      <4>2. l = layer
        BY <1>12, <1>14, <3>1, <3>2, <4>1
      <4>3. Settled(l)'
        BY <2>2, <4>2
      <4> QED
        BY <3>1, <4>3 DEF Settled
    <3>3. CASE k # n
      <4>1. stack[k].resolved /\ stack'[k] = stack[k]
        BY <1>1, <1>2, <1>11, <1>a, <3>3 DEF FramesInv
      <4>2. Settled(l)
        BY <1>1, <1>2, <3>1, <4>1 DEF SettledInv
      <4>3. Settled(l)'
        BY <2>1, <4>2
      <4> QED
        BY <3>1, <4>3 DEF Settled
    <3> QED
      BY <3>2, <3>3
  <2>4. configs' = configs
    BY <1>4
  <2>5. ASSUME NEW i \in DOMAIN configs
        PROVE  Settled(configs[i])'
    <3>1. PICK l : l = configs[i]
      OBVIOUS
    <3>2. Settled(l)'
      BY <1>1, <2>1, <3>1 DEF SettledInv
    <3> QED
      BY <2>4, <3>1, <3>2 DEF Settled
  <2> QED
    BY <1>11, <2>3, <2>4, <2>5 DEF SettledInv
<1>22. PresentInv'
  <2> SUFFICES ASSUME edits = 0, NEW k \in 1..n, NEW i \in DOMAIN stack'[k].todo
               PROVE  Present(stack'[k].todo[i])
    <3>1. edits' = edits /\ disk' = disk
      BY <1>4
    <3> QED
      BY <1>11, <3>1 DEF PresentInv, Present
  <2>1. CASE k = n
    BY <1>5, <1>6, <1>9, <1>11, <2>1
  <2>2. CASE k # n
    BY <1>1, <1>2, <1>11, <2>2 DEF PresentInv
  <2> QED
    BY <2>1, <2>2
<1>23. CurrentInv'
  <2>1. 1 # n /\ 1 \in 1..n /\ 2 \in 1..n
    BY <1>2, <1>12
  <2>2. stack'[1] = stack[1] /\ stack'[2].acc = stack[2].acc
    BY <1>11, <1>14, <2>1
  <2>3. disk' = disk /\ mtime' = mtime /\ phase' = phase /\ watched' = watched
    BY <1>4
  <2>4. /\ watched <= mtime /\ stack[1].todo = <<>> /\ stack[1].acc = <<>>
        /\ Current(stack[2].acc[1])
    BY <1>1, <1>2, <1>12, <1>a DEF CurrentInv
  <2>5. Current(stack[2].acc[1])'
    BY <2>2, <2>3, <2>4 DEF Current
  <2> QED
    BY <1>2, <1>11, <1>12, <2>2, <2>3, <2>4, <2>5 DEF CurrentInv, Done
<1> QED
  BY <1>15, <1>16, <1>17, <1>18, <1>19, <1>20, <1>21, <1>22, <1>23 DEF IInv

\* A call hands its layers to its caller, behind those the caller has.
LEMMA LeaveInv ==
  ASSUME IInv, Leave
  PROVE  IInv'
<1>a. PICK n : n = Len(stack)
  OBVIOUS
<1>1. /\ TypeOK /\ PhaseInv /\ FilesInv /\ FramesInv /\ NumbersInv /\ DepthInv
      /\ PendingInv /\ SettledInv /\ PresentInv /\ BlameInv /\ CurrentInv
  BY DEF IInv
<1>2. phase = "load" /\ n \in Nat \ {0} /\ DOMAIN stack = 1..n /\ Top = stack[n]
      /\ \A k \in DOMAIN stack : stack[k] \in Frame
  BY <1>1, <1>a, Calls DEF Leave
<1>3. n > 1 /\ stack[n].resolved /\ stack[n].todo = <<>>
      /\ stack' = [Front(stack) EXCEPT ![Len(Front(stack))] = Returned(@)]
      /\ UNCHANGED <<disk, mtime, edits, phase, error, watched, visited, files, warnings, configs, wanted>>
  BY <1>2, <1>a DEF Leave, loadState
<1>b. PICK c : c = n - 1
  OBVIOUS
<1>4. c \in 1..n /\ c \in Nat \ {0} /\ c + 1 = n /\ n \in 1..n /\ c # n
  BY <1>2, <1>3, <1>b
<1>5. PICK callers \in Seq(Frame) :
        /\ callers = Front(stack) /\ Len(callers) = c
        /\ \A k \in 1..c : callers[k] = stack[k]
  <2>1. stack \in Seq(Frame)
    BY <1>1 DEF TypeOK
  <2> QED
    <3>1. /\ SubSeq(stack, 1, c) \in Seq(Frame) /\ Len(SubSeq(stack, 1, c)) = c
          /\ \A k \in 1..c : SubSeq(stack, 1, c)[k] = stack[k]
      <4>1. 1 <= c /\ c <= Len(stack) /\ c - 1 + 1 = c
        <5>1. n \in Nat /\ c \in 1..n
          BY <1>2, <1>4
        <5>2. 1 <= c /\ c <= n /\ c - 1 + 1 = c
          BY <5>1
        <5> QED
          BY <1>a, <5>2
      <4>2. \A k \in 1..c : 1 + k - 1 = k
        BY <1>4
      <4> QED
        BY <1>4, <2>1, <4>1, <4>2, SubSeqProperties
    <3>2. Front(stack) = SubSeq(stack, 1, c)
      BY <1>a, <1>b DEF Front
    <3> QED
      BY <3>1, <3>2
<1>6. PICK r \in Frame : r = stack[c]
  BY <1>2, <1>4
<1>7. PICK frame : frame = [r EXCEPT !.acc = @ \o stack[n].acc]
  OBVIOUS
<1>8. /\ stack[n].acc \in Seq(Layer) /\ stack[c].acc \in Seq(Layer)
      /\ Len(stack[n].acc) \in Nat /\ Len(stack[c].acc) \in Nat
  BY <1>1, <1>2, <1>4, LayersOf
<1>9. /\ frame \in Frame
      /\ frame.path = stack[c].path /\ frame.resolved = stack[c].resolved /\ frame.todo = stack[c].todo
      /\ frame.acc = stack[c].acc \o stack[n].acc
  <2>1. r.acc \o stack[n].acc \in Seq(Layer)
    BY <1>6, <1>8
  <2>2. /\ frame \in Frame
        /\ frame.path = r.path /\ frame.resolved = r.resolved /\ frame.todo = r.todo
        /\ frame.acc = r.acc \o stack[n].acc
    BY <1>7, <2>1 DEF Frame
  <2> QED
    BY <1>6, <2>2
<1>10. stack' = [callers EXCEPT ![c] = frame]
  <2>1. callers[c] = r
    BY <1>4, <1>5, <1>6
  <2> QED
    BY <1>2, <1>3, <1>5, <1>7, <2>1 DEF Returned
<1>11. /\ stack' \in Seq(Frame) /\ Len(stack') = c /\ DOMAIN stack' = 1..c /\ stack' # <<>>
       /\ \A k \in 1..c : stack'[k] = IF k = c THEN frame ELSE stack[k]
  BY <1>4, <1>5, <1>9, <1>10
<1>12. \A k \in 1..c : /\ stack'[k].path = stack[k].path
                       /\ stack'[k].resolved = stack[k].resolved
                       /\ stack'[k].todo = stack[k].todo
                       /\ k \in 1..n /\ stack[k].resolved
  <2>1. \A k \in 1..c : k \in 1..n /\ k # n
    BY <1>2, <1>4
  <2>2. \A k \in 1..c : stack[k].resolved
    BY <1>1, <1>2, <1>a, <2>1 DEF FramesInv
  <2> QED
    BY <1>9, <1>11, <2>1, <2>2
<1>13. stack'[c].acc = stack[c].acc \o stack[n].acc
  <2>1. c \in 1..c
    BY <1>4
  <2>2. stack'[c] = frame
    BY <1>11, <2>1
  <2> QED
    BY <1>9, <2>2
<1>14. /\ DOMAIN stack'[c].acc = 1..Len(stack[c].acc) + Len(stack[n].acc)
       /\ Len(stack'[c].acc) = Len(stack[c].acc) + Len(stack[n].acc)
       /\ \A i \in 1..Len(stack[c].acc) : stack'[c].acc[i] = stack[c].acc[i]
       /\ \A i \in 1..Len(stack[n].acc) : stack'[c].acc[Len(stack[c].acc) + i] = stack[n].acc[i]
  <2>1. PICK a \in Seq(Layer), b \in Seq(Layer) : a = stack[c].acc /\ b = stack[n].acc
    BY <1>8
  <2>2. /\ Len(a \o b) = Len(a) + Len(b) /\ DOMAIN (a \o b) = 1..Len(a) + Len(b)
        /\ \A i \in 1..Len(a) : (a \o b)[i] = a[i]
        /\ \A i \in 1..Len(b) : (a \o b)[Len(a) + i] = b[i]
    OBVIOUS
  <2> QED
    BY <1>13, <2>1, <2>2
<1>15. \A i \in DOMAIN stack'[c].acc :
         \/ i \in 1..Len(stack[c].acc) /\ stack'[c].acc[i] = stack[c].acc[i]
         \/ \E j \in 1..Len(stack[n].acc) :
              i = Len(stack[c].acc) + j /\ stack'[c].acc[i] = stack[n].acc[j]
  <2> SUFFICES ASSUME NEW i \in DOMAIN stack'[c].acc, i \notin 1..Len(stack[c].acc)
               PROVE  \E j \in 1..Len(stack[n].acc) :
                        i = Len(stack[c].acc) + j /\ stack'[c].acc[i] = stack[n].acc[j]
    BY <1>14
  <2>1. /\ i - Len(stack[c].acc) \in 1..Len(stack[n].acc)
        /\ i = Len(stack[c].acc) + (i - Len(stack[c].acc))
    <3>1. PICK p \in Nat, q \in Nat : p = Len(stack[c].acc) /\ q = Len(stack[n].acc)
      BY <1>8
    <3>2. i \in 1..p + q /\ i \notin 1..p
      BY <1>14, <3>1
    <3>3. i - p \in 1..q /\ i = p + (i - p)
      BY <3>2
    <3> QED
      BY <3>1, <3>3
  <2> QED
    BY <1>14, <2>1
<1>16. TypeOK' /\ PhaseInv' /\ FilesInv' /\ BlameInv'
  <2>1. Within' = Within
    BY <1>3 DEF Within
  <2> QED
    BY <1>1, <1>2, <1>3, <1>11, <2>1 DEF TypeOK, PhaseInv, FilesInv, BlameInv, Starting, Done
<1>17. FramesInv'
  <2> SUFFICES ASSUME NEW k \in 1..c, k > 1
               PROVE  stack'[k].acc # <<>> /\ stack'[k].acc[1].path = stack'[k].path
    BY <1>1, <1>2, <1>11, <1>12 DEF FramesInv
  <2>1. stack[k].acc # <<>> /\ stack[k].acc[1].path = stack[k].path
    BY <1>1, <1>2, <1>12 DEF FramesInv
  <2>2. CASE k # c
    BY <1>11, <2>1, <2>2
  <2>3. CASE k = c
    <3>1. 1 \in 1..Len(stack[c].acc)
      BY <1>8, <2>1, <2>3
    <3>2. stack'[c].acc[1] = stack[c].acc[1] /\ 1 \in DOMAIN stack'[c].acc
      <4>1. PICK p \in Nat, q \in Nat : p = Len(stack[c].acc) /\ q = Len(stack[n].acc)
        BY <1>8
      <4>2. 1 \in 1..p + q
        <5>1. 1 \in 1..p
          BY <3>1, <4>1
        <5> QED
          BY <5>1
      <4> QED
        BY <1>14, <3>1, <4>1, <4>2
    <3> QED
      BY <1>12, <2>1, <2>3, <3>2
  <2> QED
    BY <2>2, <2>3
<1>18. NumbersInv'
  <2>1. ASSUME NEW k \in 1..c
        PROVE  Before(k)' = Before(k)
    <3>1. CASE k # c \/ k = 1
      BY <1>11, <3>1 DEF Before
    <3>2. CASE k = c /\ k # 1
      <4>1. 1 \in 1..Len(stack[c].acc)
        <5>1. stack[c].acc # <<>>
          BY <1>1, <1>2, <1>4, <3>2 DEF FramesInv
        <5> QED
          BY <1>8, <5>1
      <4> QED
        BY <1>14, <3>2, <4>1 DEF Before
    <3> QED
      BY <3>1, <3>2
  <2>2. \A k \in 1..n : /\ Numbered(stack[k].acc, Before(k))
                        /\ Before(k) + Len(stack[k].acc) = IF k = n THEN Len(files) - 1 ELSE Before(k + 1)
    BY <1>1, <1>2, <1>a DEF NumbersInv
  <2>3. /\ Before(c) + Len(stack[c].acc) = Before(n)
        /\ Before(n) + Len(stack[n].acc) = Len(files) - 1
    BY <1>4, <2>2
  <2>4. Before(c) \in Int /\ Before(n) \in Int
    BY <1>1, <1>2, <1>4, LayersOf
  <2>5. files' = files /\ ~Done'
    BY <1>2, <1>3 DEF Done
  <2>6. ASSUME NEW i \in DOMAIN stack'[c].acc
        PROVE  /\ stack'[c].acc[i].file = Before(c) + i
               /\ Before(c) + i < Len(files)
               /\ files[Before(c) + i + 1] = stack'[c].acc[i].path
    <3>1. CASE i \in 1..Len(stack[c].acc) /\ stack'[c].acc[i] = stack[c].acc[i]
      BY <1>4, <1>8, <2>2, <3>1 DEF Numbered
    <3>2. ASSUME NEW j \in 1..Len(stack[n].acc),
                 i = Len(stack[c].acc) + j, stack'[c].acc[i] = stack[n].acc[j]
          PROVE  /\ stack'[c].acc[i].file = Before(c) + i
                 /\ Before(c) + i < Len(files)
                 /\ files[Before(c) + i + 1] = stack'[c].acc[i].path
      <4>1. Before(n) + j = Before(c) + i
        BY <1>8, <2>3, <2>4, <3>2
      <4>2. /\ stack[n].acc[j].file = Before(n) + j
            /\ Before(n) + j < Len(files)
            /\ files[Before(n) + j + 1] = stack[n].acc[j].path
        BY <1>4, <1>8, <2>2 DEF Numbered
      <4> QED
        BY <3>2, <4>1, <4>2
    <3> QED
      BY <1>15, <3>1, <3>2
  <2>7. ASSUME NEW k \in 1..c
        PROVE  Numbered(stack[k].acc, Before(k))'
    <3>1. CASE k = c
      BY <2>1, <2>5, <2>6, <3>1 DEF Numbered
    <3>2. CASE k # c
      <4>1. stack'[k].acc = stack[k].acc /\ Numbered(stack[k].acc, Before(k))
        BY <1>11, <1>12, <2>2, <3>2
      <4> QED
        BY <2>1, <2>5, <4>1 DEF Numbered
    <3> QED
      BY <3>1, <3>2
  <2>8. ASSUME NEW k \in 1..c
        PROVE  Before(k)' + Len(stack'[k].acc) = IF k = c THEN Len(files') - 1 ELSE Before(k + 1)'
    <3>1. CASE k = c
      <4>1. Len(stack'[c].acc) = Len(stack[c].acc) + Len(stack[n].acc) /\ Before(c)' = Before(c)
        BY <1>14, <2>1, <3>1
      <4>2. Before(c) + (Len(stack[c].acc) + Len(stack[n].acc)) = Len(files) - 1
        <5>1. PICK p \in Nat, q \in Nat : p = Len(stack[c].acc) /\ q = Len(stack[n].acc)
          BY <1>8
        <5>2. PICK b \in Int, e \in Int : b = Before(c) /\ e = Before(n)
          BY <2>4
        <5>3. b + p = e /\ e + q = Len(files) - 1
          BY <2>3, <5>1, <5>2
        <5>4. b + (p + q) = e + q
          BY <5>3
        <5> QED
          BY <5>1, <5>2, <5>3, <5>4
      <4> QED
        BY <2>5, <3>1, <4>1, <4>2
    <3>2. CASE k # c
      <4>1. k + 1 \in 1..c /\ k \in 1..n /\ k # n
        BY <1>4, <1>12, <3>2
      <4> QED
        BY <1>11, <2>1, <2>2, <3>2, <4>1
    <3> QED
      BY <3>1, <3>2
  <2> QED
    BY <1>11, <2>5, <2>7, <2>8 DEF NumbersInv
<1>19. DepthInv'
  <2>1. Within' = Within
    BY <1>3 DEF Within
  <2>2. ASSUME NEW k \in 1..c
        PROVE  /\ k > 1 => stack'[k].path \in Within[k - 2]
               /\ k <= MaxDepth + 1 =>
                    \A i \in DOMAIN stack'[k].todo : stack'[k].todo[i] \in Within[k - 1]
    BY <1>1, <1>2, <1>12 DEF DepthInv
  <2>3. Len(stack') <= MaxDepth + 2 /\ visited' \subseteq Within[MaxDepth]
    <3>1. n <= MaxDepth + 2 /\ visited' = visited
      BY <1>1, <1>3, <1>a DEF DepthInv
    <3>2. c <= MaxDepth + 2
      BY <1>2, <1>4, <3>1, ContentsAssumption
    <3> QED
      BY <1>1, <1>11, <3>1, <3>2 DEF DepthInv
  <2> QED
    BY <1>11, <2>1, <2>2, <2>3 DEF DepthInv
<1>20. PendingInv'
  <2> SUFFICES ASSUME NEW pair \in wanted
               PROVE  \/ pair[2] \in visited
                      \/ Warning("deep", pair[2]) \in warnings
                      \/ \E k \in 1..c : \E i \in DOMAIN stack'[k].todo : stack'[k].todo[i] = pair[2]
    <3>1. wanted' = wanted /\ warnings' = warnings /\ visited' = visited
      BY <1>3
    <3> QED
      BY <1>11, <3>1 DEF PendingInv, Warning
  <2>1. \/ pair[2] \in visited
        \/ Warning("deep", pair[2]) \in warnings
        \/ \E k \in 1..n : \E i \in DOMAIN stack[k].todo : stack[k].todo[i] = pair[2]
    BY <1>1, <1>2 DEF PendingInv
  <2>2. \A k \in 1..n : \A i \in DOMAIN stack[k].todo : k \in 1..c
    BY <1>2, <1>3, <1>4
  <2> QED
    BY <1>12, <2>1, <2>2
<1>21. SettledInv'
  <2>1. \A l : Settled(l)' <=> Settled(l)
    <3>1. wanted' = wanted /\ warnings' = warnings
      BY <1>3
    <3> QED
      BY <3>1 DEF Settled, Warning
  <2>2. \A k \in 1..n : stack[k].resolved => \A i \in DOMAIN stack[k].acc : Settled(stack[k].acc[i])
    BY <1>1, <1>2 DEF SettledInv
  <2>3. ASSUME NEW k \in 1..c, NEW i \in DOMAIN stack'[k].acc
        PROVE  Settled(stack[k].acc[i])'
    <3>1. PICK l : l = stack'[k].acc[i]
      OBVIOUS
    <3>2. CASE k = c
      <4>1. \/ \E j \in DOMAIN stack[c].acc : l = stack[c].acc[j]
            \/ \E j \in DOMAIN stack[n].acc : l = stack[n].acc[j]
        BY <1>8, <1>15, <2>3, <3>1, <3>2
      <4>2. Settled(l)
        BY <1>3, <1>4, <1>12, <2>2, <4>1
      <4>3. Settled(l)'
        BY <2>1, <4>2
      <4> QED
        BY <3>1, <4>3 DEF Settled
    <3>3. CASE k # c
      <4>1. Settled(l)
        BY <1>11, <1>12, <2>2, <2>3, <3>1, <3>3
      <4>2. Settled(l)'
        BY <2>1, <4>1
      <4> QED
        BY <3>1, <4>2 DEF Settled
    <3> QED
      BY <3>2, <3>3
  <2>4. configs' = configs
    BY <1>3
  <2>5. ASSUME NEW i \in DOMAIN configs
        PROVE  Settled(configs[i])'
    <3>1. PICK l : l = configs[i]
      OBVIOUS
    <3>2. Settled(l)'
      BY <1>1, <2>1, <3>1 DEF SettledInv
    <3> QED
      BY <2>4, <3>1, <3>2 DEF Settled
  <2> QED
    BY <1>11, <2>3, <2>4, <2>5 DEF SettledInv
<1>22. PresentInv'
  <2>1. edits' = edits /\ disk' = disk
    BY <1>3
  <2> QED
    BY <1>1, <1>2, <1>11, <1>12, <2>1 DEF PresentInv, Present
<1>23. CurrentInv'
  <2>1. disk' = disk /\ mtime' = mtime /\ phase' = phase /\ watched' = watched
    BY <1>3
  <2>2. /\ watched <= mtime /\ stack[1].todo = <<>> /\ stack[1].acc = <<>>
        /\ Current(stack[2].acc[1])
    BY <1>1, <1>2, <1>3, <1>a DEF CurrentInv
  <2>3. 2 \in 1..n /\ stack[2].acc # <<>>
    BY <1>1, <1>2, <1>3 DEF FramesInv
  <2>4. 1 \in 1..c /\ stack'[1].todo = <<>>
    BY <1>4, <1>12, <2>2
  <2>5. CASE c = 1
    <3>1. n = 2
      BY <1>4, <2>5
    <3>2. stack'[1].acc # <<>> /\ stack'[1].acc[1] = stack[2].acc[1]
      <4>1. PICK b \in Seq(Layer) : b = stack[2].acc
        BY <1>8, <3>1
      <4>2. <<>> \o b = b
        OBVIOUS
      <4> QED
        BY <1>13, <2>2, <2>3, <2>5, <3>1, <4>1, <4>2
    <3>3. Current(stack[1].acc[1])'
      BY <2>1, <2>2, <3>2 DEF Current
    <3> QED
      BY <1>2, <1>11, <2>1, <2>2, <2>4, <2>5, <3>2, <3>3 DEF CurrentInv, Done
  <2>6. CASE c # 1
    <3>1. 1 # c /\ 2 \in 1..c /\ c > 1
      BY <1>4, <2>6
    <3>2. stack'[1].acc = <<>>
      BY <1>11, <2>2, <2>4, <3>1
    <3>3. stack'[2].acc[1] = stack[2].acc[1]
      <4>1. CASE c = 2
        <5>1. 1 \in 1..Len(stack[c].acc)
          BY <1>8, <2>3, <4>1
        <5> QED
          BY <1>14, <4>1, <5>1
      <4>2. CASE c # 2
        BY <1>11, <3>1, <4>2
      <4> QED
        BY <4>1, <4>2
    <3>4. Current(stack[2].acc[1])'
      BY <2>1, <2>2, <3>3 DEF Current
    <3> QED
      BY <1>2, <1>11, <2>1, <2>2, <2>4, <3>1, <3>2, <3>4 DEF CurrentInv, Done
  <2> QED
    BY <2>5, <2>6
<1> QED
  BY <1>16, <1>17, <1>18, <1>19, <1>20, <1>21, <1>22, <1>23 DEF IInv

\* The outermost call returns: its layers are all there are.
LEMMA LoadedInv ==
  ASSUME IInv, Loaded
  PROVE  IInv'
<1>1. /\ TypeOK /\ PhaseInv /\ FilesInv /\ FramesInv /\ NumbersInv /\ DepthInv
      /\ PendingInv /\ SettledInv /\ PresentInv /\ BlameInv /\ CurrentInv
  BY DEF IInv
<1>2. phase = "load" /\ Len(stack) = 1 /\ DOMAIN stack = 1..1 /\ Top = stack[1]
      /\ stack[1] \in Frame
  BY <1>1, Calls DEF Loaded
<1>3. /\ stack[1].todo = <<>> /\ configs' = stack[1].acc /\ stack' = <<>> /\ phase' = "verify"
      /\ UNCHANGED <<disk, mtime, edits, error, watched, visited, files, warnings, wanted>>
  BY <1>2 DEF Loaded, loadState
<1>4. /\ configs' \in Seq(Layer) /\ Len(stack') = 0 /\ DOMAIN stack' = {}
      /\ stack' \in Seq(Frame)
  BY <1>2, <1>3 DEF Frame
<1>5. Within' = Within
  BY <1>3 DEF Within
<1>6. TypeOK' /\ PhaseInv' /\ FilesInv' /\ FramesInv' /\ PresentInv' /\ BlameInv'
  BY <1>1, <1>2, <1>3, <1>4, <1>5
     DEF TypeOK, PhaseInv, FilesInv, FramesInv, PresentInv, BlameInv, Starting, Done
<1>7. NumbersInv'
  <2>1. /\ Numbered(stack[1].acc, 0) /\ Before(1) = 0
        /\ Before(1) + Len(stack[1].acc) = Len(files) - 1
    BY <1>1, <1>2 DEF NumbersInv, Before
  <2>2. Len(stack[1].acc) = Len(files) - 1
    <3>1. Len(stack[1].acc) \in Nat
      BY <1>1, <1>2, LayersOf
    <3> QED
      BY <2>1, <3>1
  <2>3. Numbered(configs, 0)'
    BY <1>3, <2>1 DEF Numbered
  <2> QED
    BY <1>3, <1>4, <2>2, <2>3 DEF NumbersInv
<1>8. DepthInv'
  BY <1>1, <1>3, <1>4, <1>5, ContentsAssumption DEF DepthInv
<1>9. PendingInv'
  <2> SUFFICES ASSUME NEW pair \in wanted
               PROVE  pair[2] \in visited \/ Warning("deep", pair[2]) \in warnings
    BY <1>3 DEF PendingInv, Warning
  <2>1. \/ pair[2] \in visited
        \/ Warning("deep", pair[2]) \in warnings
        \/ \E k \in 1..1 : \E i \in DOMAIN stack[k].todo : stack[k].todo[i] = pair[2]
    BY <1>1, <1>2 DEF PendingInv
  <2> QED
    BY <1>3, <2>1
<1>10. SettledInv'
  <2>1. stack[1].resolved
    BY <1>1, <1>2 DEF FramesInv
  <2>2. \A i \in DOMAIN configs' : Settled(stack[1].acc[i])
    BY <1>1, <1>2, <1>3, <2>1 DEF SettledInv
  <2> QED
    BY <1>3, <1>4, <2>2 DEF SettledInv, Settled, Warning
<1>11. CurrentInv'
  <2>1. watched <= mtime /\ stack[1].acc # <<>> /\ Current(stack[1].acc[1])
    BY <1>1, <1>2, <1>3 DEF CurrentInv
  <2> QED
    BY <1>3, <2>1 DEF CurrentInv, Current, Done
<1> QED
  BY <1>6, <1>7, <1>8, <1>9, <1>10, <1>11 DEF IInv

\* A load that fails drops its calls.
LEMMA FailInv ==
  ASSUME IInv, phase # "failed", NEW reason, Fail(reason),
         reason \in {"read", "parse"} /\ edits = 0 =>
           \E path \in Within[MaxDepth] :
             disk[path].kind = (IF reason = "read" THEN "unreadable" ELSE "garbled")
  PROVE  IInv'
<1>1. /\ TypeOK /\ PhaseInv /\ FilesInv /\ NumbersInv /\ DepthInv /\ SettledInv
  BY DEF IInv
<1>2. /\ phase' = "failed" /\ error' = reason /\ stack' = <<>>
      /\ UNCHANGED <<disk, mtime, edits, watched, visited, files, warnings, configs, wanted>>
  BY DEF Fail, loadState
<1>3. stack' \in Seq(Frame) /\ Len(stack') = 0 /\ DOMAIN stack' = {}
  BY <1>2
<1>4. Within' = Within
  BY <1>2 DEF Within
<1>5. TypeOK' /\ PhaseInv' /\ FilesInv' /\ FramesInv' /\ PresentInv'
  BY <1>1, <1>2, <1>3 DEF TypeOK, PhaseInv, FilesInv, FramesInv, PresentInv, Starting, Done
<1>6. NumbersInv' /\ PendingInv' /\ CurrentInv'
  BY <1>2, <1>3 DEF NumbersInv, PendingInv, CurrentInv, Done
<1>7. DepthInv' /\ BlameInv'
  BY <1>1, <1>2, <1>3, <1>4, ContentsAssumption DEF DepthInv, BlameInv
<1>8. SettledInv'
  BY <1>1, <1>2, <1>3 DEF SettledInv, Settled, Warning
<1> QED
  BY <1>5, <1>6, <1>7, <1>8 DEF IInv

\* What is so until the load starts.
LEMMA StartingFacts ==
  ASSUME IInv, Starting
  PROVE  /\ phase # "load" /\ phase # "failed" /\ ~Done /\ stack = <<>> /\ files = <<Builtin>>
         /\ visited = {} /\ wanted = {} /\ error = "none"
BY DEF IInv, PhaseInv, Starting, Done

\* Until then only the disk changes.
LEMMA StartingInv ==
  ASSUME IInv, Starting, Starting', disk' \in [Paths -> Contents], mtime' \in Nat,
         UNCHANGED <<edits, error, watched, visited, files, warnings, stack, configs, wanted>>
  PROVE  IInv'
<1>1. /\ TypeOK /\ PhaseInv /\ FilesInv /\ NumbersInv /\ DepthInv /\ SettledInv
  BY DEF IInv
<1>2. /\ ~Done /\ stack' = <<>> /\ wanted = {} /\ error = "none"
  BY StartingFacts
<1>3. ~Done' /\ phase' \notin {"load", "verify", "failed"}
  BY DEF Starting, Done
<1>4. Within' = Within
  BY DEF Within
<1>5. Len(stack') = 0 /\ DOMAIN stack' = {}
  BY <1>2
<1>6. TypeOK' /\ PhaseInv' /\ FilesInv' /\ FramesInv' /\ NumbersInv' /\ PresentInv'
  BY <1>1, <1>2, <1>3, <1>5 DEF TypeOK, PhaseInv, FilesInv, FramesInv, NumbersInv, PresentInv
<1>7. DepthInv' /\ BlameInv'
  BY <1>1, <1>2, <1>4, <1>5 DEF DepthInv, BlameInv
<1>8. PendingInv' /\ SettledInv' /\ CurrentInv'
  BY <1>1, <1>3, <1>5 DEF PendingInv, SettledInv, Settled, Warning, CurrentInv
<1> QED
  BY <1>6, <1>7, <1>8 DEF IInv

\* The load starts with arcella.toml to be read.
LEMMA WatchInv ==
  ASSUME IInv, Watch
  PROVE  IInv'
<1>1. /\ TypeOK /\ PhaseInv /\ FilesInv /\ NumbersInv /\ DepthInv /\ SettledInv
  BY DEF IInv
<1>2. /\ phase = "watch" /\ phase' = "load" /\ Present(Main) /\ watched' = mtime
      /\ UNCHANGED <<disk, mtime, edits, error, visited, files, warnings, configs, wanted>>
  BY DEF Watch, StartLoad, loadState
<1>3. PICK frame :
        /\ frame = [path |-> Builtin, resolved |-> TRUE, todo |-> <<Main>>, acc |-> <<>>]
        /\ stack' = <<frame>>
  BY DEF Watch, StartLoad
<1>4. /\ files = <<Builtin>> /\ visited = {} /\ wanted = {} /\ error = "none"
      /\ ~Starting' /\ ~Done'
  BY <1>2, StartingFacts DEF Starting, Done
<1>5. Main \in Paths /\ Main \in Within[0] /\ MaxDepth \in Nat
  <2>1. Layered(Within)
    BY <1>4, WithinUnfolds
  <2> QED
    BY <2>1, PathsAssumption, ContentsAssumption DEF Layered
<1>6. Within' = Within
  BY <1>2 DEF Within
<1>7. /\ frame \in Frame /\ frame.path = Builtin /\ frame.resolved
      /\ frame.todo = <<Main>> /\ frame.acc = <<>>
      /\ DOMAIN frame.acc = {} /\ Len(frame.acc) = 0 /\ \A i \in DOMAIN frame.todo : frame.todo[i] = Main
  BY <1>3, <1>5 DEF Frame
<1>8. /\ stack' \in Seq(Frame) /\ stack' # <<>> /\ Len(stack') = 1 /\ DOMAIN stack' = 1..1
      /\ stack'[1] = frame
  BY <1>3, <1>7
<1>9. TypeOK' /\ PhaseInv' /\ FilesInv' /\ FramesInv'
  BY <1>1, <1>2, <1>4, <1>7, <1>8 DEF TypeOK, PhaseInv, FilesInv, FramesInv
<1>10. NumbersInv'
  <2>1. Before(1)' = 0 /\ Len(files') = 1
    BY <1>2, <1>4 DEF Before
  <2> QED
    BY <1>4, <1>7, <1>8, <2>1 DEF NumbersInv, Numbered
<1>11. DepthInv'
  BY <1>1, <1>2, <1>5, <1>6, <1>7, <1>8 DEF DepthInv
<1>12. PendingInv' /\ BlameInv'
  BY <1>2, <1>4 DEF PendingInv, BlameInv
<1>13. SettledInv'
  BY <1>1, <1>2, <1>7, <1>8 DEF SettledInv, Settled, Warning
<1>14. PresentInv'
  BY <1>2, <1>7, <1>8 DEF PresentInv, Present
<1>15. CurrentInv'
  <2>1. watched' <= mtime'
    BY <1>1, <1>2 DEF TypeOK
  <2> QED
    BY <1>2, <1>4, <1>7, <1>8, <2>1 DEF CurrentInv
<1> QED
  BY <1>9, <1>10, <1>11, <1>12, <1>13, <1>14, <1>15 DEF IInv

\* An edit by somebody else: one of arcella.toml changes its modification time.
LEMMA EditInv ==
  ASSUME IInv, NEW path \in Paths, Edit(path)
  PROVE  IInv'
<1>1. /\ TypeOK /\ PhaseInv /\ FilesInv /\ FramesInv /\ NumbersInv /\ DepthInv
      /\ PendingInv /\ SettledInv /\ CurrentInv
  BY DEF IInv
<1>2. PICK content \in Documents[path] : disk' = [disk EXCEPT ![path] = content]
  BY DEF Edit
<1>3. /\ edits' = edits + 1 /\ mtime' = (IF path = Main THEN mtime + 1 ELSE mtime)
      /\ UNCHANGED <<phase, error, watched, visited, files, warnings, stack, configs, wanted>>
  BY DEF Edit, loadState
<1>4. /\ disk' \in [Paths -> Contents] /\ edits' \in Nat /\ edits' # 0 /\ mtime' \in Nat
      /\ path # Main => disk'[Main] = disk[Main]
  <2>1. content \in Contents
    BY <1>2, ContentsAssumption
  <2>2. disk \in [Paths -> Contents] /\ edits \in Nat /\ mtime \in Nat /\ Main \in Paths
    BY <1>1, PathsAssumption DEF TypeOK
  <2>3. disk' \in [Paths -> Contents] /\ (path # Main => disk'[Main] = disk[Main])
    BY <1>2, <2>1, <2>2
  <2>4. edits' \in Nat /\ edits' # 0 /\ mtime' \in Nat
    BY <1>3, <2>2
  <2> QED
    BY <2>3, <2>4
<1>5. Within' = Within
  BY <1>3 DEF Within
<1>6. TypeOK' /\ PhaseInv' /\ FilesInv' /\ FramesInv'
  BY <1>1, <1>3, <1>4 DEF TypeOK, PhaseInv, FilesInv, FramesInv, Starting, Done
<1>7. NumbersInv' /\ DepthInv'
  <2>1. \A k : Before(k)' = Before(k)
    BY <1>3 DEF Before
  <2> QED
    BY <1>1, <1>3, <1>5, <2>1 DEF NumbersInv, DepthInv, Numbered, Done
<1>8. PendingInv' /\ SettledInv' /\ PresentInv' /\ BlameInv'
  BY <1>1, <1>3, <1>4 DEF PendingInv, SettledInv, Settled, Warning, PresentInv, BlameInv, Done
<1>9. CurrentInv'
  <2>1. mtime \in Nat /\ watched \in Nat
    BY <1>1 DEF TypeOK
  <2>2. watched <= mtime => watched' <= mtime'
    BY <1>3, <2>1
  <2>3. \A l : watched <= mtime /\ Current(l) => (mtime' = watched => l.content = disk'[Main])
    BY <1>3, <1>4, <2>1 DEF Current
  <2> QED
    BY <1>1, <1>3, <2>2, <2>3 DEF CurrentInv, Current, Done
<1> QED
  BY <1>6, <1>7, <1>8, <1>9 DEF IInv

\* The load is accepted.
LEMMA VerifyInv ==
  ASSUME IInv, Verify
  PROVE  IInv'
<1>1. /\ TypeOK /\ PhaseInv /\ FilesInv /\ FramesInv /\ NumbersInv /\ DepthInv
      /\ PendingInv /\ SettledInv /\ PresentInv /\ BlameInv /\ CurrentInv
  BY DEF IInv
<1>2. /\ phase = "verify" /\ phase' = "ok"
      /\ UNCHANGED <<disk, mtime, edits, error, watched, visited, files, warnings, stack, configs, wanted>>
  BY DEF Verify, Goto, loadState
<1>3. Within' = Within
  BY <1>2 DEF Within
<1>4. TypeOK' /\ PhaseInv' /\ FilesInv' /\ FramesInv' /\ PresentInv' /\ BlameInv'
  BY <1>1, <1>2, <1>3
     DEF TypeOK, PhaseInv, FilesInv, FramesInv, PresentInv, Present, BlameInv, Starting, Done
<1>5. NumbersInv' /\ DepthInv'
  <2>1. \A k : Before(k)' = Before(k)
    BY <1>2 DEF Before
  <2> QED
    BY <1>1, <1>2, <1>3, <2>1 DEF NumbersInv, DepthInv, Numbered, Done
<1>6. PendingInv' /\ SettledInv' /\ CurrentInv'
  BY <1>1, <1>2 DEF PendingInv, SettledInv, Settled, Warning, CurrentInv, Done
<1> QED
  BY <1>4, <1>5, <1>6 DEF IInv

\* A daemon that starts knows nothing of earlier loads.
Begun ==
  /\ phase = "template" /\ error = "none" /\ watched = 0
  /\ visited = {} /\ files = <<Builtin>> /\ stack = <<>> /\ configs = <<>> /\ wanted = {}
  /\ disk \in [Paths -> Contents] /\ mtime \in Nat /\ edits \in Nat

LEMMA BeginInv == Begun => IInv
<1> SUFFICES ASSUME Begun PROVE IInv
  OBVIOUS
<1> USE DEF Begun
<1>1. /\ Len(stack) = 0 /\ DOMAIN stack = {} /\ DOMAIN configs = {} /\ stack \in Seq(Frame)
      /\ configs \in Seq(Layer) /\ Len(files) = 1 /\ DOMAIN files = {1} /\ files[1] = Builtin
      /\ files \in Seq(Paths \cup {Builtin})
  OBVIOUS
<1>2. TypeOK /\ PhaseInv /\ FilesInv /\ FramesInv /\ NumbersInv
  BY <1>1 DEF TypeOK, PhaseInv, FilesInv, FramesInv, NumbersInv, Starting, Done
<1>3. DepthInv
  BY <1>1, ContentsAssumption DEF DepthInv
<1>4. PendingInv /\ SettledInv /\ PresentInv /\ BlameInv /\ CurrentInv
  BY <1>1 DEF PendingInv, SettledInv, PresentInv, BlameInv, CurrentInv, Done
<1> QED
  BY <1>2, <1>3, <1>4 DEF IInv

LEMMA RestartInv ==
  ASSUME IInv, Restart
  PROVE  IInv'
<1>1. disk' \in [Paths -> Contents] /\ mtime' \in Nat /\ edits' \in Nat
  BY DEF IInv, TypeOK, Restart
<1>2. Begun'
  BY <1>1 DEF Restart, Begun
<1>3. (Begun => IInv)'
  BY BeginInv, PTL
<1> QED
  BY <1>2, <1>3

(***************************************************************************)
(* The invariant, and the properties it gives.                             *)
(***************************************************************************)

\* IInv holds initially.
LEMMA InitIInv == Init => IInv
<1> SUFFICES ASSUME Init PROVE IInv
  OBVIOUS
<1>1. disk \in [Paths -> Contents]
  <2>1. \A path \in Paths : disk[path] \in Documents[path] /\ Documents[path] \subseteq Contents
    BY ContentsAssumption DEF Init
  <2>2. disk \in [Paths -> UNION Range(Documents)]
    BY DEF Init
  <2> QED
    BY <2>1, <2>2
<1> QED
  BY <1>1, BeginInv DEF Init, Begun

\* IInv is inductive: one case per action.
LEMMA NextIInv == IInv /\ [Next]_vars => IInv'
<1> SUFFICES ASSUME IInv, [Next]_vars PROVE IInv'
  OBVIOUS
<1>1. /\ disk \in [Paths -> Contents] /\ mtime \in Nat /\ watched \in Nat
      /\ Main \in Paths /\ Template \in Paths
  BY PathsAssumption DEF IInv, TypeOK
<1>2. CASE Create \/ Watch
  <2>1. CASE EnsureTemplate \/ WriteTemplate \/ EnsureMain \/ CopyTemplate
    <3>1. Starting /\ Starting'
      BY <2>1 DEF EnsureTemplate, WriteTemplate, EnsureMain, CopyTemplate, Goto, Starting
    <3>2. disk' \in [Paths -> Contents] /\ mtime' \in Nat
      BY <1>1, <2>1, ContentsAssumption DEF EnsureTemplate, WriteTemplate, EnsureMain, CopyTemplate
    <3>3. UNCHANGED <<edits, error, watched, visited, files, warnings, stack, configs, wanted>>
      BY <2>1 DEF EnsureTemplate, WriteTemplate, EnsureMain, CopyTemplate, Goto, loadState
    <3> QED
      BY <3>1, <3>2, <3>3, StartingInv
  <2>2. CASE CreateFails
    BY <2>2, FailInv DEF CreateFails
  <2> QED
    BY <1>2, <2>1, <2>2, WatchInv DEF Create
<1>3. CASE WatchFails \/ VerifyFails
  BY <1>3, FailInv DEF WatchFails, VerifyFails
<1>4. ASSUME NEW path \in Paths, Call(path)
      PROVE  IInv'
  <2>1. CASE TooDeep(path)
    <3>1. Len(stack) > 1
      <4>1. Len(stack) \in Nat
        BY <2>1, Calls DEF IInv, TooDeep, Calling
      <4> QED
        BY <2>1, <4>1, ContentsAssumption DEF TooDeep, Exceeded, Depth
    <3> QED
      <4>1. /\ Calling(path) /\ stack' = WithTop(Popped)
            /\ warnings' = warnings \cup {Warning("deep", path)}
            /\ UNCHANGED <<disk, mtime, edits, phase, error, watched, visited, files, configs, wanted>>
        BY <2>1 DEF TooDeep, Refuse
      <4>2. Warning("deep", path) \in warnings' /\ warnings \subseteq warnings'
        BY <4>1
      <4> QED
        BY <3>1, <4>1, <4>2, RefusedInv
  <2>2. CASE Duplicate(path)
    <3>1. /\ Calling(path) /\ stack' = WithTop(Popped) /\ path \in visited
          /\ warnings' = warnings \cup {Warning("duplicate", path)}
          /\ UNCHANGED <<disk, mtime, edits, phase, error, watched, visited, files, configs, wanted>>
      BY <2>2 DEF Duplicate, Refuse
    <3>2. warnings \subseteq warnings'
      BY <3>1
    <3>3. path \in visited \/ (Warning("deep", path) \in warnings' /\ Len(stack) > 1)
      BY <3>1
    <3>4. Calling(path) /\ stack' = WithTop(Popped)
      BY <3>1
    <3>5. UNCHANGED <<disk, mtime, edits, phase, error, watched, visited, files, configs, wanted>>
      BY <3>1
    <3> QED
      BY <3>2, <3>3, <3>4, <3>5, RefusedInv
  <2>3. CASE Read(path)
    BY <2>3, ReadInv
  <2>4. CASE ReadFails(path) \/ ParseFails(path)
    <3>1. Reading(path) /\ phase = "load"
      BY <2>4 DEF ReadFails, ParseFails, Reading, Calling
    <3>2. /\ Len(stack) \in Nat \ {0} /\ DOMAIN stack = 1..Len(stack)
          /\ 1 \in DOMAIN stack[Len(stack)].todo /\ stack[Len(stack)].todo[1] = path
      BY <3>1, Calls, Popping DEF IInv, Reading
    <3>3. Len(stack) <= MaxDepth + 1 /\ Len(stack) - 1 \in 0..MaxDepth
      BY <3>1, <3>2, ContentsAssumption DEF Reading, Exceeded, Depth
    <3>4. path \in Within[Len(stack) - 1]
      BY <3>2, <3>3 DEF IInv, DepthInv
    <3>5. path \in Within[MaxDepth]
      BY <3>3, <3>4, WithinNested DEF IInv, TypeOK
    <3>6. edits = 0 => Present(path)
      BY <3>2 DEF IInv, PresentInv
    <3>7. disk[path] \in Contents
      BY <1>1
    <3>8. disk[path].kind = "absent" => ~Present(path)
      BY <3>7 DEF Contents, Absent, Unreadable, Garbled, Toml, Present
    <3> QED
      BY <2>4, <3>1, <3>5, <3>6, <3>8, FailInv DEF ReadFails, ParseFails
  <2> QED
    BY <1>4, <2>1, <2>2, <2>3, <2>4 DEF Call
<1>5. CASE Resolve \/ ResolveFails
  BY <1>1, <1>5, ResolveInv, FailInv DEF ResolveFails
<1>6. CASE Leave
  BY <1>6, LeaveInv
<1>7. CASE Loaded
  BY <1>7, LoadedInv
<1>8. CASE Verify
  BY <1>8, VerifyInv
<1>9. CASE Restart
  BY <1>9, RestartInv
<1>10. ASSUME NEW path \in Paths, Edit(path)
       PROVE  IInv'
  BY <1>10, EditInv
<1>11. CASE UNCHANGED vars
  <2>1. UNCHANGED <<disk, mtime, edits, phase, error, watched, visited, files, warnings, stack, configs,
                    wanted>>
    BY <1>11 DEF vars, loadState
  <2>2. Within' = Within
    BY <2>1 DEF Within
  <2>3. (TypeOK /\ PhaseInv /\ FilesInv /\ FramesInv)'
    BY <2>1 DEF IInv, TypeOK, PhaseInv, FilesInv, FramesInv, Starting, Done
  <2>4. (NumbersInv /\ DepthInv /\ BlameInv)'
    <3>1. \A k : Before(k)' = Before(k)
      BY <2>1 DEF Before
    <3> QED
      BY <2>1, <2>2, <3>1 DEF IInv, NumbersInv, Numbered, DepthInv, BlameInv, Done
  <2>5. (PendingInv /\ SettledInv /\ PresentInv /\ CurrentInv)'
    BY <2>1 DEF IInv, PendingInv, SettledInv, Settled, PresentInv, Present, CurrentInv, Current, Done,
       Warning
  <2> QED
    BY <2>3, <2>4, <2>5 DEF IInv
<1> QED
  BY <1>2, <1>3, <1>4, <1>5, <1>6, <1>7, <1>8, <1>9, <1>10, <1>11 DEF Next, Load

THEOREM Invariance == Spec => []IInv
BY InitIInv, NextIInv, PTL DEF Spec

\* Every variable has its type: the files, layers and calls of a load are paths
\* of the directory with what may be found there.
THEOREM LoaderIsTyped == Spec => []TypeOK
<1>1. IInv => TypeOK
  BY DEF IInv
<1> QED
  BY <1>1, Invariance, PTL

\* The layers of a load that is done are those of the files it has read.
LEMMA LayersAreFiles ==
  ASSUME IInv, Done
  PROVE  /\ configs \in Seq(Layer) /\ Len(configs) = Len(files) - 1 /\ Len(configs) \in Nat
         /\ files \in Seq(Paths \cup {Builtin})
         /\ \A i \in DOMAIN configs : configs[i].file = i /\ files[i + 1] = configs[i].path
         /\ LayerPaths = visited
<1>1. /\ configs \in Seq(Layer) /\ files \in Seq(Paths \cup {Builtin})
      /\ Len(configs) = Len(files) - 1 /\ Len(configs) \in Nat
  BY DEF IInv, TypeOK, NumbersInv
<1>2. \A i \in DOMAIN configs : configs[i].file = i /\ files[i + 1] = configs[i].path
  BY <1>1 DEF IInv, NumbersInv, Numbered
<1>3. LayerPaths \subseteq visited
  <2> SUFFICES ASSUME NEW i \in DOMAIN configs
               PROVE  configs[i].path \in visited
    BY DEF LayerPaths, Range
  <2>1. i + 1 \in 2..Len(files)
    BY <1>1
  <2> QED
    BY <1>2, <2>1 DEF IInv, FilesInv
<1>4. visited \subseteq LayerPaths
  <2> SUFFICES ASSUME NEW path \in visited
               PROVE  path \in LayerPaths
    OBVIOUS
  <2>1. PICK i \in 2..Len(files) : files[i] = path
    BY DEF IInv, FilesInv
  <2>2. i - 1 \in DOMAIN configs /\ (i - 1) + 1 = i
    BY <1>1
  <2>3. configs[i - 1].path = path
    BY <1>2, <2>1, <2>2
  <2> QED
    BY <2>2, <2>3 DEF LayerPaths, Range
<1> QED
  BY <1>1, <1>2, <1>3, <1>4

\* Whatever the include graph and the order in which the recursion meets it,
\* a file that an included document names has its layer, or a warning.
THEOREM IncludesAreNotLost == Spec => []NothingLostSilently
<1>1. IInv => NothingLostSilently
  <2> SUFFICES ASSUME IInv, Done PROVE NothingLostSilently
    BY DEF NothingLostSilently
  <2>1. stack = <<>>
    BY DEF IInv, PhaseInv, Done
  <2>2. ASSUME NEW pair \in wanted
        PROVE  pair[2] \in LayerPaths \/ Warning("deep", pair[2]) \in warnings
    BY <2>1, LayersAreFiles DEF IInv, PendingInv
  <2>3. ASSUME NEW layer \in Range(configs), NEW path \in layer.content.includes \cap ValidPaths
        PROVE  <<layer.path, path>> \in wanted \/ Warning("skipped", path) \in warnings
    BY <2>3 DEF Range, IInv, SettledInv, Settled
  <2> QED
    BY <2>2, <2>3 DEF NothingLostSilently
<1> QED
  BY <1>1, Invariance, PTL

\* The layers and config_files agree, and no file has two layers.
THEOREM LayersComeInOrder == Spec => []LayersFollowFiles
<1>1. IInv => LayersFollowFiles
  <2> SUFFICES ASSUME IInv, Done PROVE LayersFollowFiles
    BY DEF LayersFollowFiles
  <2>1. PICK paths : paths = [i \in DOMAIN configs |-> configs[i].path]
    OBVIOUS
  <2>2. /\ configs \in Seq(Layer) /\ Len(configs) = Len(files) - 1 /\ Len(configs) \in Nat
        /\ files \in Seq(Paths \cup {Builtin})
        /\ \A i \in DOMAIN configs : configs[i].file = i /\ files[i + 1] = configs[i].path
    BY LayersAreFiles
  <2>3. paths \in Seq(Paths \cup {Builtin}) /\ Len(paths) = Len(configs)
    <3>1. \A i \in 1..Len(configs) : configs[i].path \in Paths \cup {Builtin}
      BY <2>2 DEF Layer
    <3> QED
      BY <2>1, <2>2, <3>1
  <2>4. PICK joined \in Seq(Paths \cup {Builtin}) :
          /\ joined = <<Builtin>> \o paths /\ Len(joined) = Len(paths) + 1
          /\ joined[1] = Builtin /\ \A i \in 1..Len(paths) : joined[i + 1] = paths[i]
    <3>1. PICK j : j = <<Builtin>> \o paths
      OBVIOUS
    <3>2. j \in Seq(Paths \cup {Builtin}) /\ Len(j) = Len(paths) + 1
      BY <2>3, <3>1
    <3>3. j[1] = Builtin /\ \A i \in 1..Len(paths) : j[i + 1] = paths[i]
      BY <2>3, <3>1
    <3> QED
      BY <3>1, <3>2, <3>3
  <2>5. ASSUME NEW i \in 1..Len(files)
        PROVE  files[i] = joined[i]
    <3>1. CASE i = 1
      BY <2>4, <3>1 DEF IInv, FilesInv
    <3>2. CASE i # 1
      <4>1. i - 1 \in DOMAIN configs /\ (i - 1) + 1 = i
        BY <2>2, <3>2
      <4> QED
        <5>1. files[i] = configs[i - 1].path
          BY <2>2, <4>1
        <5>2. i - 1 \in 1..Len(paths) /\ paths[i - 1] = configs[i - 1].path
          BY <2>1, <2>2, <2>3, <4>1
        <5>3. joined[i] = paths[i - 1]
          BY <2>4, <4>1, <5>2
        <5> QED
          BY <5>1, <5>2, <5>3
    <3> QED
      BY <3>1, <3>2
  <2>6. files = joined
    <3>1. Len(files) = Len(joined)
      BY <2>2, <2>3, <2>4
    <3> QED
      BY <2>2, <2>5, <3>1
  <2>7. \A i, j \in DOMAIN files : files[i] = files[j] => i = j
    BY DEF IInv, FilesInv
  <2> QED
    BY <2>1, <2>2, <2>4, <2>6, <2>7 DEF LayersFollowFiles
<1> QED
  BY <1>1, Invariance, PTL

\* The recursion ends at MAX_CONFIG_DEPTH, whatever cycles there are.
THEOREM RecursionIsBounded == Spec => []DepthIsBounded
<1>1. IInv => DepthIsBounded
  BY LayersAreFiles DEF IInv, DepthInv, DepthIsBounded
<1> QED
  BY <1>1, Invariance, PTL

\* A start that fails to read or to parse has met a broken file.
THEOREM FailuresHaveACause == Spec => []FailsOnlyForABrokenFile
<1>1. IInv => FailsOnlyForABrokenFile
  BY DEF IInv, BlameInv, FailsOnlyForABrokenFile
<1> QED
  BY <1>1, Invariance, PTL

\* An accepted load has read arcella.toml as it is: the layer that is its first
\* was read after the modification time was noted, and that has not changed.
THEOREM AcceptedLoadsAreCurrent == Spec => AcceptedMainIsCurrent
<1>1. IInv /\ [Next]_vars => [phase = "verify" /\ phase' = "ok" => configs[1].content = disk[Main]]_vars
  <2> SUFFICES ASSUME IInv, [Next]_vars, phase = "verify", phase' = "ok"
               PROVE  configs[1].content = disk[Main]
    OBVIOUS
  <2>1. Verify
    BY DEF vars, loadState, Next, Load, Create, EnsureTemplate, WriteTemplate, EnsureMain, CopyTemplate,
         CreateFails, Watch, WatchFails, Call, Calling, TooDeep, Duplicate, Reading, Read, ReadFails,
         ParseFails, Resolve, ResolveFails, Leave, Loaded, VerifyFails, Restart, Edit, Fail
  <2> QED
    BY <2>1 DEF Verify, Unmodified, IInv, CurrentInv, Current
<1> QED
  BY <1>1, Invariance, PTL DEF Spec, AcceptedMainIsCurrent

================================================================================
