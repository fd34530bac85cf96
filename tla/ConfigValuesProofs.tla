--------------------------- MODULE ConfigValuesProofs ---------------------------
(***************************************************************************)
(* What the configuration holds, in two parts that share no variable: the  *)
(* values of one document (TomlDocument), and the merge of the layers      *)
(* (ConfigMerge).                                                          *)
(*                                                                         *)
(* Documents: what is collected at a position is described by induction    *)
(* over the levels that are left, Flags for the flags and the includes and *)
(* Finds for the values, of any document that keeps the grammar.  A value  *)
(* is rooted at the position under whose key it is stored, no two values   *)
(* of a table share a place of the document, and so a value that an        *)
(* insertion replaces is shadowed by another place with the same keys.     *)
(*                                                                         *)
(* The merge gives every key the value the rules of CONFIGURATION.md name, *)
(* for any number of keys and layers.  The loop invariant says of every    *)
(* key that its entry is what the rules name among the layers merged so    *)
(* far, and that the permission it carries is that of a layer which gave   *)
(* one; in particular arcella.toml's own, which is merged last.  A value   *)
(* that gives way is reported when the layer that fixes its key is merged, *)
(* or at the end.                                                          *)
(***************************************************************************)

EXTENDS ConfigMerge, TomlDocument, Induction

Paths == Seq(Steps)
Places == [at : Seq(Steps), from : Paths]
Entries == [key : Steps, value : SUBSET Places]
Results == [values : Seq(Entries), includes : Seq(Paths), pruned : BOOLEAN, failed : BOOLEAN]

(***************************************************************************)
(* Prefixes.                                                               *)
(***************************************************************************)

LEMMA PrefixMeans ==
  ASSUME NEW X, NEW s \in Seq(X), NEW t \in Seq(X)
  PROVE  /\ IsPrefix(s, t) <=> Len(s) <= Len(t) /\ \A i \in 1..Len(s) : s[i] = t[i]
         /\ IsStrictPrefix(s, t) <=> Len(s) < Len(t) /\ \A i \in 1..Len(s) : s[i] = t[i]
<1>1. Len(s) \in Nat /\ Len(t) \in Nat
  OBVIOUS
<1>2. ASSUME Len(s) <= Len(t), \A i \in 1..Len(s) : s[i] = t[i]
      PROVE  SubSeq(s, 1, Len(s)) = SubSeq(t, 1, Len(s))
  <2>1. SubSeq(s, 1, Len(s)) = [i \in 1..Len(s) |-> s[i]]
    BY <1>1
  <2>2. SubSeq(t, 1, Len(s)) = [i \in 1..Len(s) |-> t[i]]
    BY <1>1, <1>2
  <2> QED
    BY <1>2, <2>1, <2>2
<1>3. ASSUME Len(s) <= Len(t), SubSeq(s, 1, Len(s)) = SubSeq(t, 1, Len(s)), NEW i \in 1..Len(s)
      PROVE  s[i] = t[i]
  <2>1. SubSeq(s, 1, Len(s))[i] = s[i]
    BY <1>1
  <2>2. SubSeq(t, 1, Len(s))[i] = t[i]
    BY <1>1, <1>3
  <2> QED
    BY <1>3, <2>1, <2>2
<1>4. IsPrefix(s, t) <=> Len(s) <= Len(t) /\ \A i \in 1..Len(s) : s[i] = t[i]
  BY <1>2, <1>3 DEF IsPrefix
<1>5. (Len(s) = Len(t) /\ \A i \in 1..Len(s) : s[i] = t[i]) => s = t
  BY SeqEqual
<1> QED
  BY <1>1, <1>4, <1>5 DEF IsStrictPrefix

LEMMA PrefixOrder ==
  ASSUME NEW X, NEW p \in Seq(X), NEW q \in Seq(X)
  PROVE  /\ IsPrefix(p, p) /\ IsPrefix(<<>>, p)
         /\ IsPrefix(p, q) => p = q \/ IsStrictPrefix(p, q)
         /\ IsStrictPrefix(p, q) => IsPrefix(p, q) /\ p # q /\ ~IsPrefix(q, p)
         /\ \A r \in Seq(X) : IsPrefix(p, q) /\ IsPrefix(q, r) => IsPrefix(p, r)
<1>1. \A s, t \in Seq(X) :
        /\ IsPrefix(s, t) <=> Len(s) <= Len(t) /\ \A i \in 1..Len(s) : s[i] = t[i]
        /\ IsStrictPrefix(s, t) <=> Len(s) < Len(t) /\ \A i \in 1..Len(s) : s[i] = t[i]
  BY PrefixMeans
<1>2. \A s \in Seq(X) : Len(s) \in Nat
  OBVIOUS
<1>3. IsPrefix(<<>>, p)
  <2> DEFINE none == <<>>
  <2>1. none \in Seq(X) /\ Len(none) = 0
    OBVIOUS
  <2> HIDE DEF none
  <2>2. Len(none) <= Len(p) /\ \A i \in 1..Len(none) : none[i] = p[i]
    BY <2>1, LenProperties
  <2>3. IsPrefix(none, p)
    BY <1>1, <2>1, <2>2
  <2> QED
    BY <2>3 DEF none
<1>4. IsPrefix(p, p) /\ IsPrefix(<<>>, p)
  BY <1>1, <1>2, <1>3
<1>5. IsPrefix(p, q) => p = q \/ IsStrictPrefix(p, q)
  BY DEF IsStrictPrefix
<1>6. IsStrictPrefix(p, q) => IsPrefix(p, q) /\ p # q /\ ~IsPrefix(q, p)
  BY <1>1, <1>2 DEF IsStrictPrefix
<1>7. ASSUME NEW r \in Seq(X), IsPrefix(p, q), IsPrefix(q, r)
      PROVE  IsPrefix(p, r)
  <2>1. Len(p) <= Len(q) /\ Len(q) <= Len(r) /\ \A i \in 1..Len(p) : i \in 1..Len(q)
    BY <1>1, <1>2, <1>7
  <2>2. \A i \in 1..Len(p) : p[i] = q[i] /\ q[i] = r[i]
    BY <1>1, <1>7, <2>1
  <2> QED
    BY <1>1, <1>2, <2>1, <2>2
<1> QED
  BY <1>4, <1>5, <1>6, <1>7

LEMMA PrefixAppend ==
  ASSUME NEW X, NEW p \in Seq(X), NEW q \in Seq(X), NEW x \in X
  PROVE  IsPrefix(Append(p, x), q) <=> IsStrictPrefix(p, q) /\ q[Len(p) + 1] = x
<1> DEFINE a == Append(p, x)
<1>1. a \in Seq(X) /\ Len(a) = Len(p) + 1 /\ a[Len(p) + 1] = x /\ \A i \in 1..Len(p) : a[i] = p[i]
  BY AppendProperties
<1>2. Len(p) \in Nat /\ Len(q) \in Nat
  OBVIOUS
<1> HIDE DEF a
<1>3. IsPrefix(a, q) <=> Len(a) <= Len(q) /\ \A i \in 1..Len(a) : a[i] = q[i]
  BY <1>1, PrefixMeans
<1>4. IsStrictPrefix(p, q) <=> Len(p) < Len(q) /\ \A i \in 1..Len(p) : p[i] = q[i]
  BY PrefixMeans
<1>5. IsPrefix(a, q) => IsStrictPrefix(p, q) /\ q[Len(p) + 1] = x
  BY <1>1, <1>2, <1>3, <1>4
<1>6. \A i \in 1..Len(a) : i \in 1..Len(p) \/ i = Len(p) + 1
  BY <1>1, <1>2
<1>7. IsStrictPrefix(p, q) /\ q[Len(p) + 1] = x => IsPrefix(a, q)
  BY <1>1, <1>2, <1>3, <1>4, <1>6
<1> QED
  BY <1>5, <1>7 DEF a

\* A prefix is what it is of the sequence, up to its length.
LEMMA PrefixSubSeq ==
  ASSUME NEW X, NEW q \in Seq(X)
  PROVE  /\ \A n \in 0..Len(q) : /\ SubSeq(q, 1, n) \in Seq(X) /\ Len(SubSeq(q, 1, n)) = n
                                 /\ IsPrefix(SubSeq(q, 1, n), q)
         /\ \A p \in Seq(X) : IsPrefix(p, q) => Len(p) \in 0..Len(q) /\ p = SubSeq(q, 1, Len(p))
<1>1. Len(q) \in Nat
  OBVIOUS
<1>2. ASSUME NEW n \in 0..Len(q)
      PROVE  /\ SubSeq(q, 1, n) \in Seq(X) /\ Len(SubSeq(q, 1, n)) = n
             /\ IsPrefix(SubSeq(q, 1, n), q)
  <2> DEFINE s == SubSeq(q, 1, n)
  <2>1. \A i \in 1..n : q[i] \in X
    BY <1>1
  <2>2. s \in Seq(X) /\ Len(s) = n /\ \A i \in 1..n : s[i] = q[i]
    BY <1>1, <2>1, SubSeqProperties
  <2> HIDE DEF s
  <2>3. IsPrefix(s, q)
    BY <1>1, <2>2, PrefixMeans
  <2> QED
    BY <2>2, <2>3 DEF s
<1>3. ASSUME NEW p \in Seq(X), IsPrefix(p, q)
      PROVE  Len(p) \in 0..Len(q) /\ p = SubSeq(q, 1, Len(p))
  <2>1. Len(p) \in Nat /\ Len(p) <= Len(q) /\ \A i \in 1..Len(p) : p[i] = q[i] /\ q[i] \in X
    BY <1>1, <1>3, PrefixMeans
  <2> DEFINE s == SubSeq(q, 1, Len(p))
  <2>2. s \in Seq(X) /\ Len(s) = Len(p) /\ \A i \in 1..Len(p) : s[i] = q[i]
    BY <1>1, <2>1, SubSeqProperties
  <2> HIDE DEF s
  <2>3. s = p
    BY <2>1, <2>2, SeqEqual
  <2> QED
    BY <1>1, <2>1, <2>3 DEF s
<1> QED
  BY <1>2, <1>3

(***************************************************************************)
(* The subtree.                                                            *)
(***************************************************************************)

LEMMA SubkeyType ==
  ASSUME NEW key \in Steps
  PROVE  Subkey(key) \in Steps
<1>1. Prefix \in Seq(Parts) /\ key \in Seq(Parts)
  BY TomlAssumption DEF Steps
<1>2. Len(Prefix) + 1 \in Nat /\ Len(key) \in Nat
  BY <1>1
<1> QED
  BY <1>1, <1>2, SubSeqProperties DEF Subkey, Steps

Inserted(tree, values, n) ==
  IF IsStrictPrefix(Prefix, values[n].key) THEN Insert(tree, Subkey(values[n].key)) ELSE tree

\* The recursion of Subtree has a solution, and Subtree is its last value.
LEMMA SubtreeUnfolds ==
  ASSUME NEW values \in Seq(Entries)
  PROVE  \E f \in [0..Len(values) -> SUBSET Steps] :
           /\ f[0] = {}
           /\ \A n \in 1..Len(values) : f[n] = Inserted(f[n - 1], values, n)
           /\ Subtree(values) = f[Len(values)]
<1> DEFINE m == Len(values)
           S == SUBSET Steps
           Body(v, n) == Inserted(v, values, n)
           base == {}
           step == [vn \in S \X (1..m) |-> Body(vn[1], vn[2])]
           Solves(g) == g = [n \in 0..m |-> IF n = 0 THEN base ELSE Body(g[n - 1], n)]
           upTo == CHOOSE g : Solves(g)
<1>1. m \in Nat /\ base \in S
  OBVIOUS
<1>2. ASSUME NEW v \in S, NEW n \in 1..m
      PROVE  Body(v, n) \in S
  <2>1. values[n] \in Entries
    OBVIOUS
  <2>2. values[n].key \in Steps
    BY <2>1 DEF Entries
  <2>3. Subkey(values[n].key) \in Steps
    BY <2>2, SubkeyType
  <2> QED
    BY <2>3 DEF Inserted, Insert
<1>3. step \in [S \X (1..m) -> S] /\ \A v \in S, n \in 1..m : step[<<v, n>>] = Body(v, n)
  BY <1>2
<1>4. Subtree(values) = upTo[m]
  BY DEF Subtree, Inserted
<1> HIDE DEF m, S, Body, base, step
<1>5. PICK f \in [0..m -> S] : Recursion(f, base, step, m)
  <2> HIDE DEF Solves, upTo
  <2> QED
    BY <1>1, <1>3, FiniteRecursion
<1>6. \A n \in 0..m : n = 0 \/ (n \in 1..m /\ n - 1 \in 0..m /\ f[n - 1] \in S)
  BY <1>1
<1>7. \A n \in 0..m : f[n] = IF n = 0 THEN base ELSE Body(f[n - 1], n)
  BY <1>3, <1>5, <1>6 DEF Recursion
<1>8. Solves(f)
  <2>1. f = [n \in 0..m |-> f[n]]
    OBVIOUS
  <2> QED
    BY <1>7, <2>1
<1>9. Solves(upTo)
  <2> HIDE DEF Solves
  <2> QED
    BY <1>8
<1> HIDE DEF upTo
<1>10. upTo[0] = base /\ \A n \in 1..m : upTo[n] = Body(upTo[n - 1], n)
  BY <1>1, <1>9
<1>11. \A n \in 0..m : upTo[n] \in S
  BY <1>1, <1>2, <1>10, RecursionKeeps
<1>12. upTo \in [0..m -> S]
  BY <1>9, <1>11
<1> QED
  BY <1>4, <1>10, <1>12 DEF m, S, Body, base

\* What the table is to the keys that were inserted.
Holds(tree, keys) ==
  /\ tree \subseteq keys
  /\ \A k \in keys : k \in tree \/ \E q \in keys : IsStrictPrefix(k, q) \/ IsStrictPrefix(q, k)
  /\ \A k, q \in tree : ~IsStrictPrefix(k, q)

LEMMA InsertHolds ==
  ASSUME NEW keys \in SUBSET Steps, NEW path \in Steps, NEW tree, Holds(tree, keys)
  PROVE  Holds(Insert(tree, path), keys \cup {path})
<1>1. \A q \in keys : /\ IsPrefix(path, q) => path = q \/ IsStrictPrefix(path, q)
                      /\ IsStrictPrefix(path, q) => IsPrefix(path, q)
  BY PrefixOrder DEF Steps
<1>2. ~IsStrictPrefix(path, path)
  BY PrefixOrder DEF Steps
<1>3. CASE \E q \in tree : IsStrictPrefix(q, path)
  <2>1. Insert(tree, path) = tree
    BY <1>3 DEF Insert
  <2> QED
    BY <1>3, <2>1 DEF Holds
<1>4. CASE ~\E q \in tree : IsStrictPrefix(q, path)
  <2>1. Insert(tree, path) = {q \in tree : ~IsPrefix(path, q)} \cup {path}
    BY <1>4 DEF Insert
  <2>2. Insert(tree, path) \subseteq keys \cup {path}
    BY <2>1 DEF Holds
  <2>3. ASSUME NEW k \in keys \cup {path}
        PROVE  \/ k \in Insert(tree, path)
               \/ \E q \in keys \cup {path} : IsStrictPrefix(k, q) \/ IsStrictPrefix(q, k)
    BY <1>1, <2>1 DEF Holds
  <2>4. ASSUME NEW k \in Insert(tree, path), NEW q \in Insert(tree, path)
        PROVE  ~IsStrictPrefix(k, q)
    BY <1>1, <1>2, <1>4, <2>1 DEF Holds
  <2> QED
    BY <2>2, <2>3, <2>4 DEF Holds
<1> QED
  BY <1>3, <1>4

LEMMA SubtreeHolds ==
  ASSUME NEW values \in Seq(Entries)
  PROVE  Holds(Subtree(values),
               {Subkey(v.key) : v \in {w \in Range(values) : IsStrictPrefix(Prefix, w.key)}})
<1> DEFINE m == Len(values)
           KeysTo(n) == {Subkey(values[i].key) : i \in {j \in 1..n : IsStrictPrefix(Prefix, values[j].key)}}
<1>1. m \in Nat /\ DOMAIN values = 1..m
  OBVIOUS
<1>2. PICK f \in [0..Len(values) -> SUBSET Steps] :
        /\ f[0] = {}
        /\ \A n \in 1..Len(values) : f[n] = Inserted(f[n - 1], values, n)
        /\ Subtree(values) = f[Len(values)]
  BY SubtreeUnfolds
<1>3. \A n \in 1..m : values[n].key \in Steps /\ Subkey(values[n].key) \in Steps
  <2> SUFFICES ASSUME NEW n \in 1..m
               PROVE  values[n].key \in Steps /\ Subkey(values[n].key) \in Steps
    OBVIOUS
  <2>1. values[n] \in Entries
    OBVIOUS
  <2>2. values[n].key \in Steps
    BY <2>1 DEF Entries
  <2> QED
    BY <2>2, SubkeyType
<1> DEFINE Held == {n \in Nat : n <= m => Holds(f[n], KeysTo(n))}
<1>4. 0 \in Held
  BY <1>2 DEF Holds
<1>5. ASSUME NEW n \in Nat, n \in Held
      PROVE  n + 1 \in Held
  <2> SUFFICES ASSUME n + 1 <= m
               PROVE  Holds(f[n + 1], KeysTo(n + 1))
    OBVIOUS
  <2>1. n + 1 \in 1..m /\ (n + 1) - 1 = n /\ Holds(f[n], KeysTo(n))
    BY <1>5
  <2>2. f[n + 1] = Inserted(f[n], values, n + 1)
    BY <1>1, <1>2, <2>1
  <2>3. \A i \in 1..n + 1 : i \in 1..n \/ i = n + 1
    OBVIOUS
  <2>4. CASE IsStrictPrefix(Prefix, values[n + 1].key)
    <3>1. KeysTo(n + 1) = KeysTo(n) \cup {Subkey(values[n + 1].key)}
      BY <2>3, <2>4
    <3>2. KeysTo(n) \in SUBSET Steps
      BY <1>3, <2>1
    <3> HIDE DEF KeysTo, m
    <3>3. Holds(Insert(f[n], Subkey(values[n + 1].key)), KeysTo(n) \cup {Subkey(values[n + 1].key)})
      BY <1>3, <2>1, <3>2, InsertHolds
    <3> QED
      BY <2>2, <2>4, <3>1, <3>3 DEF Inserted
  <2>5. CASE ~IsStrictPrefix(Prefix, values[n + 1].key)
    <3>1. KeysTo(n + 1) = KeysTo(n)
      BY <2>3, <2>5
    <3> HIDE DEF KeysTo, m
    <3> QED
      BY <2>1, <2>2, <2>5, <3>1 DEF Inserted
  <2> QED
    BY <2>4, <2>5
<1>6. Nat \subseteq Held
  <2> HIDE DEF Held
  <2> QED
    BY <1>4, <1>5, NatSetInduction
<1>7. Holds(f[m], KeysTo(m))
  <2>1. m \in Held
    <3> HIDE DEF Held, m
    <3> QED
      BY <1>1, <1>6
  <2> QED
    BY <2>1
<1>8. KeysTo(m) = {Subkey(v.key) : v \in {w \in Range(values) : IsStrictPrefix(Prefix, w.key)}}
  BY <1>1 DEF Range
<1> QED
  BY <1>2, <1>7, <1>8

(***************************************************************************)
(* The functions of parse_and_collect, one step of their recursions at a   *)
(* time.                                                                   *)
(***************************************************************************)

LEMMA NothingType == Nothing \in Results
BY DEF Nothing, Results

LEMMA AndType ==
  ASSUME NEW r \in Results, NEW s \in Results
  PROVE  And(r, s) \in Results
<1>1. /\ r.values \in Seq(Entries) /\ s.values \in Seq(Entries)
      /\ r.includes \in Seq(Paths) /\ s.includes \in Seq(Paths)
      /\ r.pruned \in BOOLEAN /\ s.pruned \in BOOLEAN /\ r.failed \in BOOLEAN /\ s.failed \in BOOLEAN
  BY DEF Results
<1>2. r.values \o s.values \in Seq(Entries) /\ r.includes \o s.includes \in Seq(Paths)
  BY <1>1, ConcatProperties
<1> QED
  BY <1>1, <1>2 DEF And, Results

LEMMA AllUnfolds ==
  ASSUME NEW results \in Seq(Results)
  PROVE  \E f \in [0..Len(results) -> Results] :
           /\ f[0] = Nothing
           /\ \A n \in 1..Len(results) : f[n] = And(f[n - 1], results[n])
           /\ All(results) = f[Len(results)]
<1> DEFINE m == Len(results)
           S == Results
           Body(v, n) == And(v, results[n])
           base == Nothing
           step == [vn \in S \X (1..m) |-> Body(vn[1], vn[2])]
           Solves(g) == g = [n \in 0..m |-> IF n = 0 THEN base ELSE Body(g[n - 1], n)]
           upTo == CHOOSE g : Solves(g)
<1>1. m \in Nat /\ base \in S
  BY NothingType
<1>2. ASSUME NEW v \in S, NEW n \in 1..m
      PROVE  Body(v, n) \in S
  <2>1. results[n] \in Results
    OBVIOUS
  <2> QED
    BY <2>1, AndType
<1>3. step \in [S \X (1..m) -> S] /\ \A v \in S, n \in 1..m : step[<<v, n>>] = Body(v, n)
  BY <1>2
<1>4. All(results) = upTo[m]
  BY DEF All
<1> HIDE DEF m, S, Body, base, step
<1>5. PICK f \in [0..m -> S] : Recursion(f, base, step, m)
  <2> HIDE DEF Solves, upTo
  <2> QED
    BY <1>1, <1>3, FiniteRecursion
<1>6. \A n \in 0..m : n = 0 \/ (n \in 1..m /\ n - 1 \in 0..m /\ f[n - 1] \in S)
  BY <1>1
<1>7. \A n \in 0..m : f[n] = IF n = 0 THEN base ELSE Body(f[n - 1], n)
  BY <1>3, <1>5, <1>6 DEF Recursion
<1>8. Solves(f)
  <2>1. f = [n \in 0..m |-> f[n]]
    OBVIOUS
  <2> QED
    BY <1>7, <2>1
<1>9. Solves(upTo)
  <2> HIDE DEF Solves
  <2> QED
    BY <1>8
<1> HIDE DEF upTo
<1>10. upTo[0] = base /\ \A n \in 1..m : upTo[n] = Body(upTo[n - 1], n)
  BY <1>1, <1>9
<1>11. \A n \in 0..m : upTo[n] \in S
  BY <1>1, <1>2, <1>10, RecursionKeeps
<1>12. upTo \in [0..m -> S]
  BY <1>9, <1>11
<1> QED
  BY <1>4, <1>10, <1>12 DEF m, S, Body, base

LEMMA PutType ==
  ASSUME NEW map \in Seq(Entries), NEW v \in Entries
  PROVE  Put(map, v) \in Seq(Entries)
<1>1. CASE \E i \in DOMAIN map : map[i].key = v.key
  <2> DEFINE put == [i \in DOMAIN map |-> IF map[i].key = v.key THEN v ELSE map[i]]
  <2>1. put \in [1..Len(map) -> Entries] /\ Len(map) \in Nat
    OBVIOUS
  <2>2. put \in Seq(Entries)
    <3> HIDE DEF put
    <3> QED
      BY <2>1, SeqDef
  <2> QED
    BY <1>1, <2>2 DEF Put
<1>2. CASE ~\E i \in DOMAIN map : map[i].key = v.key
  BY <1>2, AppendProperties DEF Put
<1> QED
  BY <1>1, <1>2

LEMMA IndexMapUnfolds ==
  ASSUME NEW values \in Seq(Entries)
  PROVE  \E f \in [0..Len(values) -> Seq(Entries)] :
           /\ f[0] = <<>>
           /\ \A n \in 1..Len(values) : f[n] = Put(f[n - 1], values[n])
           /\ IndexMap(values) = f[Len(values)]
<1> DEFINE m == Len(values)
           S == Seq(Entries)
           Body(v, n) == Put(v, values[n])
           base == <<>>
           step == [vn \in S \X (1..m) |-> Body(vn[1], vn[2])]
           Solves(g) == g = [n \in 0..m |-> IF n = 0 THEN base ELSE Body(g[n - 1], n)]
           upTo == CHOOSE g : Solves(g)
<1>1. m \in Nat /\ base \in S
  OBVIOUS
<1>2. ASSUME NEW v \in S, NEW n \in 1..m
      PROVE  Body(v, n) \in S
  <2>1. values[n] \in Entries
    OBVIOUS
  <2> QED
    BY <2>1, PutType
<1>3. step \in [S \X (1..m) -> S] /\ \A v \in S, n \in 1..m : step[<<v, n>>] = Body(v, n)
  BY <1>2
<1>4. IndexMap(values) = upTo[m]
  BY DEF IndexMap
<1> HIDE DEF m, S, Body, base, step
<1>5. PICK f \in [0..m -> S] : Recursion(f, base, step, m)
  <2> HIDE DEF Solves, upTo
  <2> QED
    BY <1>1, <1>3, FiniteRecursion
<1>6. \A n \in 0..m : n = 0 \/ (n \in 1..m /\ n - 1 \in 0..m /\ f[n - 1] \in S)
  BY <1>1
<1>7. \A n \in 0..m : f[n] = IF n = 0 THEN base ELSE Body(f[n - 1], n)
  BY <1>3, <1>5, <1>6 DEF Recursion
<1>8. Solves(f)
  <2>1. f = [n \in 0..m |-> f[n]]
    OBVIOUS
  <2> QED
    BY <1>7, <2>1
<1>9. Solves(upTo)
  <2> HIDE DEF Solves
  <2> QED
    BY <1>8
<1> HIDE DEF upTo
<1>10. upTo[0] = base /\ \A n \in 1..m : upTo[n] = Body(upTo[n - 1], n)
  BY <1>1, <1>9
<1>11. \A n \in 0..m : upTo[n] \in S
  BY <1>1, <1>2, <1>10, RecursionKeeps
<1>12. upTo \in [0..m -> S]
  BY <1>9, <1>11
<1> QED
  BY <1>4, <1>10, <1>12 DEF m, S, Body, base

Joined(key, step) == IF IsElement(step) THEN <<>> ELSE key \o step

LEMMA KeyOfUnfolds ==
  ASSUME NEW p \in Paths
  PROVE  \E f \in [0..Len(p) -> Steps] :
           /\ f[0] = <<>>
           /\ \A n \in 1..Len(p) : f[n] = Joined(f[n - 1], p[n])
           /\ KeyOf(p) = f[Len(p)]
<1> DEFINE m == Len(p)
           S == Steps
           Body(v, n) == Joined(v, p[n])
           base == <<>>
           step == [vn \in S \X (1..m) |-> Body(vn[1], vn[2])]
           Solves(g) == g = [n \in 0..m |-> IF n = 0 THEN base ELSE Body(g[n - 1], n)]
           upTo == CHOOSE g : Solves(g)
<1>1. m \in Nat /\ base \in S
  BY DEF Paths, Steps
<1>2. ASSUME NEW v \in S, NEW n \in 1..m
      PROVE  Body(v, n) \in S
  <2>1. p[n] \in Seq(Parts) /\ v \in Seq(Parts)
    BY DEF Paths, Steps
  <2>2. v \o p[n] \in Seq(Parts)
    BY <2>1, ConcatProperties
  <2> QED
    BY <2>2 DEF Joined, Steps
<1>3. step \in [S \X (1..m) -> S] /\ \A v \in S, n \in 1..m : step[<<v, n>>] = Body(v, n)
  BY <1>2
<1>4. KeyOf(p) = upTo[m]
  BY DEF KeyOf, Joined
<1> HIDE DEF m, S, Body, base, step
<1>5. PICK f \in [0..m -> S] : Recursion(f, base, step, m)
  <2> HIDE DEF Solves, upTo
  <2> QED
    BY <1>1, <1>3, FiniteRecursion
<1>6. \A n \in 0..m : n = 0 \/ (n \in 1..m /\ n - 1 \in 0..m /\ f[n - 1] \in S)
  BY <1>1
<1>7. \A n \in 0..m : f[n] = IF n = 0 THEN base ELSE Body(f[n - 1], n)
  BY <1>3, <1>5, <1>6 DEF Recursion
<1>8. Solves(f)
  <2>1. f = [n \in 0..m |-> f[n]]
    OBVIOUS
  <2> QED
    BY <1>7, <2>1
<1>9. Solves(upTo)
  <2> HIDE DEF Solves
  <2> QED
    BY <1>8
<1> HIDE DEF upTo
<1>10. upTo[0] = base /\ \A n \in 1..m : upTo[n] = Body(upTo[n - 1], n)
  BY <1>1, <1>9
<1>11. \A n \in 0..m : upTo[n] \in S
  BY <1>1, <1>2, <1>10, RecursionKeeps
<1>12. upTo \in [0..m -> S]
  BY <1>9, <1>11
<1> QED
  BY <1>4, <1>10, <1>12 DEF m, S, Body, base

Addresses == {a \in Paths : a # <<>>}

Extended(address, step) ==
  IF IsElement(step) THEN address \o <<step, <<>>>>
  ELSE Append(Front(address), Last(address) \o step)

LEMMA ExtendedType ==
  ASSUME NEW a \in Addresses, NEW step \in Steps
  PROVE  Extended(a, step) \in Addresses
<1>1. a \in Seq(Steps) /\ Len(a) \in Nat /\ Len(a) >= 1
  BY EmptySeq DEF Addresses, Paths
<1>2. <<step, <<>>>> \in Seq(Steps) /\ Len(<<step, <<>>>>) = 2
  BY DEF Steps
<1>3. a \o <<step, <<>>>> \in Seq(Steps) /\ Len(a \o <<step, <<>>>>) = Len(a) + 2
  BY <1>1, <1>2, ConcatProperties
<1>4. Last(a) \in Seq(Parts) /\ step \in Seq(Parts)
  BY <1>1 DEF Last, Steps
<1>5. Last(a) \o step \in Steps
  BY <1>4, ConcatProperties DEF Steps
<1>6. \A i \in 1..Len(a) - 1 : a[i] \in Steps
  BY <1>1
<1>7. Front(a) \in Seq(Steps)
  BY <1>1, <1>6, SubSeqProperties DEF Front
<1>8. /\ Append(Front(a), Last(a) \o step) \in Seq(Steps)
      /\ Len(Append(Front(a), Last(a) \o step)) = Len(Front(a)) + 1
  BY <1>5, <1>7, AppendProperties
<1>9. Len(Front(a)) \in Nat /\ Len(<<>>) = 0
  BY <1>7
<1>10. a \o <<step, <<>>>> # <<>> /\ Append(Front(a), Last(a) \o step) # <<>>
  BY <1>1, <1>3, <1>8, <1>9
<1> QED
  BY <1>3, <1>8, <1>10 DEF Extended, Addresses, Paths

LEMMA AddressUnfolds ==
  ASSUME NEW p \in Paths
  PROVE  \E f \in [0..Len(p) -> Addresses] :
           /\ f[0] = <<<<>>>>
           /\ \A n \in 1..Len(p) : f[n] = Extended(f[n - 1], p[n])
           /\ Address(p) = f[Len(p)]
<1> DEFINE m == Len(p)
           S == Addresses
           Body(v, n) == Extended(v, p[n])
           base == <<<<>>>>
           step == [vn \in S \X (1..m) |-> Body(vn[1], vn[2])]
           Solves(g) == g = [n \in 0..m |-> IF n = 0 THEN base ELSE Body(g[n - 1], n)]
           upTo == CHOOSE g : Solves(g)
<1>1. m \in Nat /\ base \in S
  BY DEF Paths, Addresses, Steps
<1>2. ASSUME NEW v \in S, NEW n \in 1..m
      PROVE  Body(v, n) \in S
  <2>1. p[n] \in Steps
    BY DEF Paths
  <2> QED
    BY <2>1, ExtendedType
<1>3. step \in [S \X (1..m) -> S] /\ \A v \in S, n \in 1..m : step[<<v, n>>] = Body(v, n)
  BY <1>2
<1>4. Address(p) = upTo[m]
  BY DEF Address, Extended
<1> HIDE DEF m, S, Body, base, step
<1>5. PICK f \in [0..m -> S] : Recursion(f, base, step, m)
  <2> HIDE DEF Solves, upTo
  <2> QED
    BY <1>1, <1>3, FiniteRecursion
<1>6. \A n \in 0..m : n = 0 \/ (n \in 1..m /\ n - 1 \in 0..m /\ f[n - 1] \in S)
  BY <1>1
<1>7. \A n \in 0..m : f[n] = IF n = 0 THEN base ELSE Body(f[n - 1], n)
  BY <1>3, <1>5, <1>6 DEF Recursion
<1>8. Solves(f)
  <2>1. f = [n \in 0..m |-> f[n]]
    OBVIOUS
  <2> QED
    BY <1>7, <2>1
<1>9. Solves(upTo)
  <2> HIDE DEF Solves
  <2> QED
    BY <1>8
<1> HIDE DEF upTo
<1>10. upTo[0] = base /\ \A n \in 1..m : upTo[n] = Body(upTo[n - 1], n)
  BY <1>1, <1>9
<1>11. \A n \in 0..m : upTo[n] \in S
  BY <1>1, <1>2, <1>10, RecursionKeeps
<1>12. upTo \in [0..m -> S]
  BY <1>9, <1>11
<1> QED
  BY <1>4, <1>10, <1>12 DEF m, S, Body, base

\* Appending the step of a leaf below p, unless it is there already.
WithStep(steps, p, l) ==
  IF IsStrictPrefix(p, l.path) /\ l.path[Len(p) + 1] \notin Range(steps)
  THEN Append(steps, l.path[Len(p) + 1]) ELSE steps

Leaved == [path : Paths, item : Items]

LEMMA LeavesType == Leaves \subseteq Leaved /\ \A l \in Leaves : l.path \in Paths /\ l.path # <<>>
BY TomlAssumption DEF Leaved, Paths

LEMMA NextStep ==
  ASSUME NEW p \in Paths, NEW q \in Paths, IsStrictPrefix(p, q)
  PROVE  Len(p) + 1 \in 1..Len(q) /\ q[Len(p) + 1] \in Steps
<1>1. Len(p) < Len(q) /\ Len(p) \in Nat /\ Len(q) \in Nat
  BY PrefixMeans DEF Paths
<1> QED
  BY <1>1 DEF Paths

LEMMA ChildrenUnfolds ==
  ASSUME NEW doc \in Seq(Leaves), NEW p \in Paths
  PROVE  \E f \in [0..Len(doc) -> Seq(Steps)] :
           /\ f[0] = <<>>
           /\ \A n \in 1..Len(doc) : f[n] = WithStep(f[n - 1], p, doc[n])
           /\ Children(doc, p) = f[Len(doc)]
<1> DEFINE m == Len(doc)
           S == Seq(Steps)
           Body(v, n) == WithStep(v, p, doc[n])
           base == <<>>
           step == [vn \in S \X (1..m) |-> Body(vn[1], vn[2])]
           Solves(g) == g = [n \in 0..m |-> IF n = 0 THEN base ELSE Body(g[n - 1], n)]
           upTo == CHOOSE g : Solves(g)
<1>1. m \in Nat /\ base \in S
  OBVIOUS
<1>2. ASSUME NEW v \in S, NEW n \in 1..m
      PROVE  Body(v, n) \in S
  <2>1. doc[n] \in Leaves
    OBVIOUS
  <2>2. doc[n].path \in Paths
    BY <2>1, LeavesType
  <2>3. IsStrictPrefix(p, doc[n].path) => doc[n].path[Len(p) + 1] \in Steps
    BY <2>2, NextStep
  <2> QED
    BY <2>3, AppendProperties DEF WithStep
<1>3. step \in [S \X (1..m) -> S] /\ \A v \in S, n \in 1..m : step[<<v, n>>] = Body(v, n)
  BY <1>2
<1>4. Children(doc, p) = upTo[m]
  BY DEF Children, WithStep
<1> HIDE DEF m, S, Body, base, step
<1>5. PICK f \in [0..m -> S] : Recursion(f, base, step, m)
  <2> HIDE DEF Solves, upTo
  <2> QED
    BY <1>1, <1>3, FiniteRecursion
<1>6. \A n \in 0..m : n = 0 \/ (n \in 1..m /\ n - 1 \in 0..m /\ f[n - 1] \in S)
  BY <1>1
<1>7. \A n \in 0..m : f[n] = IF n = 0 THEN base ELSE Body(f[n - 1], n)
  BY <1>3, <1>5, <1>6 DEF Recursion
<1>8. Solves(f)
  <2>1. f = [n \in 0..m |-> f[n]]
    OBVIOUS
  <2> QED
    BY <1>7, <2>1
<1>9. Solves(upTo)
  <2> HIDE DEF Solves
  <2> QED
    BY <1>8
<1> HIDE DEF upTo
<1>10. upTo[0] = base /\ \A n \in 1..m : upTo[n] = Body(upTo[n - 1], n)
  BY <1>1, <1>9
<1>11. \A n \in 0..m : upTo[n] \in S
  BY <1>1, <1>2, <1>10, RecursionKeeps
<1>12. upTo \in [0..m -> S]
  BY <1>9, <1>11
<1> QED
  BY <1>4, <1>10, <1>12 DEF m, S, Body, base

(***************************************************************************)
(* What these functions return.                                            *)
(***************************************************************************)

LEMMA AppendRange ==
  ASSUME NEW X, NEW s \in Seq(X), NEW x \in X
  PROVE  Range(Append(s, x)) = Range(s) \cup {x}
<1>1. /\ Append(s, x) \in Seq(X) /\ Len(Append(s, x)) = Len(s) + 1 /\ Len(s) \in Nat
      /\ Append(s, x)[Len(s) + 1] = x /\ \A i \in 1..Len(s) : Append(s, x)[i] = s[i]
  BY AppendProperties
<1>2. DOMAIN Append(s, x) = 1..Len(s) + 1 /\ DOMAIN s = 1..Len(s)
  BY <1>1
<1>3. \A i \in 1..Len(s) + 1 : i \in 1..Len(s) \/ i = Len(s) + 1
  BY <1>1
<1>4. Len(s) + 1 \in 1..Len(s) + 1 /\ \A i \in 1..Len(s) : i \in 1..Len(s) + 1
  BY <1>1
<1> QED
  BY <1>1, <1>2, <1>3, <1>4 DEF Range

Pairwise(s, R) == \A i, j \in DOMAIN s : i < j => <<s[i], s[j]>> \in R

LEMMA PairwiseConcat ==
  ASSUME NEW X, NEW s \in Seq(X), NEW t \in Seq(X), NEW R,
         Pairwise(s, R), Pairwise(t, R), \A x \in Range(s), y \in Range(t) : <<x, y>> \in R
  PROVE  Pairwise(s \o t, R)
<1> DEFINE st == s \o t
<1>1. /\ st \in Seq(X) /\ Len(st) = Len(s) + Len(t)
      /\ \A i \in 1..Len(s) : st[i] = s[i]
      /\ \A i \in 1..Len(t) : st[Len(s) + i] = t[i]
      /\ Len(s) \in Nat /\ Len(t) \in Nat
  BY ConcatProperties
<1> HIDE DEF st
<1>2. SUFFICES ASSUME NEW i \in 1..Len(st), NEW j \in 1..Len(st), i < j
               PROVE  <<st[i], st[j]>> \in R
  BY <1>1 DEF Pairwise, st
<1>3. CASE j <= Len(s)
  <2>1. i \in 1..Len(s) /\ j \in 1..Len(s)
    BY <1>1, <1>2, <1>3
  <2>2. <<s[i], s[j]>> \in R
    BY <1>2, <2>1 DEF Pairwise
  <2> QED
    BY <1>1, <2>1, <2>2
<1>4. CASE i > Len(s)
  <2>1. i - Len(s) \in 1..Len(t) /\ j - Len(s) \in 1..Len(t) /\ i - Len(s) < j - Len(s)
    BY <1>1, <1>2, <1>4
  <2>2. <<t[i - Len(s)], t[j - Len(s)]>> \in R
    BY <2>1 DEF Pairwise
  <2>3. i = Len(s) + (i - Len(s)) /\ j = Len(s) + (j - Len(s))
    BY <1>1, <1>2
  <2>4. st[i] = t[i - Len(s)] /\ st[j] = t[j - Len(s)]
    BY <1>1, <2>1, <2>3
  <2> QED
    BY <2>2, <2>4
<1>5. CASE i <= Len(s) /\ j > Len(s)
  <2>1. i \in 1..Len(s) /\ j - Len(s) \in 1..Len(t) /\ j = Len(s) + (j - Len(s))
    BY <1>1, <1>2, <1>5
  <2>2. st[i] = s[i] /\ st[j] = t[j - Len(s)]
    BY <1>1, <2>1
  <2>3. s[i] \in Range(s) /\ t[j - Len(s)] \in Range(t)
    BY <2>1 DEF Range
  <2> QED
    BY <2>2, <2>3
<1> QED
  BY <1>1, <1>2, <1>3, <1>4, <1>5

LEMMA AndMeans ==
  ASSUME NEW r, NEW s
  PROVE  /\ And(r, s).values = r.values \o s.values /\ And(r, s).includes = r.includes \o s.includes
         /\ And(r, s).pruned <=> r.pruned \/ s.pruned
         /\ And(r, s).failed <=> r.failed \/ s.failed
<1>1. And(r, s).values = r.values \o s.values /\ And(r, s).includes = r.includes \o s.includes
  BY DEF And
<1>2. And(r, s).pruned <=> r.pruned \/ s.pruned
  BY Zenon DEF And
<1>3. And(r, s).failed <=> r.failed \/ s.failed
  BY Zenon DEF And
<1> QED
  BY <1>1, <1>2, <1>3

\* All collects what its results hold, and keeps apart what they keep apart.
LEMMA AllMeans ==
  ASSUME NEW results \in Seq(Results)
  PROVE  /\ All(results) \in Results
         /\ All(results).pruned <=> \E k \in 1..Len(results) : results[k].pruned
         /\ All(results).failed <=> \E k \in 1..Len(results) : results[k].failed
         /\ Range(All(results).values) = UNION {Range(results[k].values) : k \in 1..Len(results)}
         /\ Range(All(results).includes) = UNION {Range(results[k].includes) : k \in 1..Len(results)}
         /\ \A R : /\ \A k \in 1..Len(results) : Pairwise(results[k].values, R)
                   /\ \A k, h \in 1..Len(results) : k < h =>
                        \A x \in Range(results[k].values), y \in Range(results[h].values) : <<x, y>> \in R
                   => Pairwise(All(results).values, R)
<1> DEFINE m == Len(results)
<1>1. PICK f \in [0..m -> Results] :
        /\ f[0] = Nothing
        /\ \A n \in 1..m : f[n] = And(f[n - 1], results[n])
        /\ All(results) = f[m]
  BY AllUnfolds
<1>2. m \in Nat /\ \A n \in 1..m : results[n] \in Results
  OBVIOUS
<1> HIDE DEF m
<1> DEFINE Means(n) ==
      /\ f[n].pruned <=> \E k \in 1..n : results[k].pruned
      /\ f[n].failed <=> \E k \in 1..n : results[k].failed
      /\ Range(f[n].values) = UNION {Range(results[k].values) : k \in 1..n}
      /\ Range(f[n].includes) = UNION {Range(results[k].includes) : k \in 1..n}
      /\ \A R : /\ \A k \in 1..n : Pairwise(results[k].values, R)
                /\ \A k, h \in 1..n : k < h =>
                     \A x \in Range(results[k].values), y \in Range(results[h].values) : <<x, y>> \in R
                => Pairwise(f[n].values, R)
<1>3. Means(0)
  <2>1. /\ f[0].pruned = FALSE /\ f[0].failed = FALSE /\ f[0].values = <<>> /\ f[0].includes = <<>>
    BY <1>1 DEF Nothing
  <2>2. Range(<<>>) = {} /\ \A R : Pairwise(<<>>, R)
    BY DEF Range, Pairwise
  <2>3. 1..0 = {}
    OBVIOUS
  <2> QED
    BY <2>1, <2>2, <2>3
<1>4. ASSUME NEW n \in Nat, n + 1 <= m, Means(n)
      PROVE  Means(n + 1)
  <2>1. /\ n + 1 \in 1..m /\ (n + 1) - 1 = n /\ n \in 0..m
        /\ 1..n + 1 = 1..n \cup {n + 1} /\ n + 1 \notin 1..n
        /\ \A k \in 1..n : k < n + 1 /\ k \in 1..m
    BY <1>2, <1>4
  <2> DEFINE r == f[n]
             s == results[n + 1]
  <2>2. f[n + 1] = And(r, s) /\ r \in Results /\ s \in Results
    BY <1>1, <1>2, <2>1
  <2> HIDE DEF r, s
  <2>3. /\ r.values \in Seq(Entries) /\ s.values \in Seq(Entries)
        /\ r.includes \in Seq(Paths) /\ s.includes \in Seq(Paths)
    BY <2>2 DEF Results
  <2>4. /\ f[n + 1].values = r.values \o s.values /\ f[n + 1].includes = r.includes \o s.includes
        /\ f[n + 1].pruned <=> r.pruned \/ s.pruned
        /\ f[n + 1].failed <=> r.failed \/ s.failed
    <3> DEFINE t == f[n + 1]
    <3>1. t = And(r, s)
      BY <2>2
    <3> HIDE DEF t
    <3>2. /\ t.values = r.values \o s.values /\ t.includes = r.includes \o s.includes
          /\ t.pruned <=> r.pruned \/ s.pruned
          /\ t.failed <=> r.failed \/ s.failed
      BY <3>1, AndMeans, Zenon
    <3> QED
      BY <3>2 DEF t
  <2>5. f[n + 1].pruned <=> \E k \in 1..n + 1 : results[k].pruned
    BY <1>4, <2>1, <2>4 DEF r, s
  <2>6. f[n + 1].failed <=> \E k \in 1..n + 1 : results[k].failed
    BY <1>4, <2>1, <2>4 DEF r, s
  <2>7. /\ Range(f[n + 1].values) = Range(r.values) \cup Range(s.values)
        /\ Range(f[n + 1].includes) = Range(r.includes) \cup Range(s.includes)
    BY <2>3, <2>4, RangeConcatenation
  <2>8. Range(f[n + 1].values) = UNION {Range(results[k].values) : k \in 1..n + 1}
    BY <1>4, <2>1, <2>7 DEF r, s
  <2>9. Range(f[n + 1].includes) = UNION {Range(results[k].includes) : k \in 1..n + 1}
    BY <1>4, <2>1, <2>7 DEF r, s
  <2>10. ASSUME NEW R,
                \A k \in 1..n + 1 : Pairwise(results[k].values, R),
                \A k, h \in 1..n + 1 : k < h =>
                  \A x \in Range(results[k].values), y \in Range(results[h].values) : <<x, y>> \in R
         PROVE  Pairwise(f[n + 1].values, R)
    <3>1. Pairwise(r.values, R) /\ Pairwise(s.values, R)
      BY <1>4, <2>1, <2>10 DEF r, s
    <3>2. \A x \in Range(r.values), y \in Range(s.values) : <<x, y>> \in R
      BY <1>4, <2>1, <2>10 DEF r, s
    <3> QED
      BY <2>3, <2>4, <3>1, <3>2, PairwiseConcat
  <2> QED
    BY <2>5, <2>6, <2>8, <2>9, <2>10
<1> HIDE DEF Means
<1>5. Means(m)
  <2> DEFINE Meant == {n \in Nat : n <= m => Means(n)}
  <2>1. 0 \in Meant
    BY <1>3
  <2>2. ASSUME NEW n \in Nat, n \in Meant
        PROVE  n + 1 \in Meant
    BY <1>2, <1>4, <2>2
  <2>3. Nat \subseteq Meant
    <3> HIDE DEF Meant
    <3> QED
      BY <2>1, <2>2, NatSetInduction
  <2> QED
    BY <1>2, <2>3
<1>6. f[m] \in Results
  BY <1>1, <1>2
<1> QED
  BY <1>1, <1>5, <1>6 DEF Means, m

\* A map holds values of the sequence only, and each of them that no later one replaces.
LEMMA IndexMapMeans ==
  ASSUME NEW values \in Seq(Entries)
  PROVE  /\ IndexMap(values) \in Seq(Entries)
         /\ Range(IndexMap(values)) \subseteq Range(values)
         /\ \A i \in DOMAIN values : \/ values[i] \in Range(IndexMap(values))
                                     \/ \E j \in DOMAIN values : i < j /\ values[j].key = values[i].key
<1> DEFINE m == Len(values)
<1>1. PICK f \in [0..m -> Seq(Entries)] :
        /\ f[0] = <<>>
        /\ \A n \in 1..m : f[n] = Put(f[n - 1], values[n])
        /\ IndexMap(values) = f[m]
  BY IndexMapUnfolds
<1>2. m \in Nat /\ DOMAIN values = 1..m /\ \A n \in 1..m : values[n] \in Entries
  OBVIOUS
<1> HIDE DEF m
<1> DEFINE Means(n) ==
      /\ \A v \in Range(f[n]) : \E i \in 1..n : v = values[i]
      /\ \A i \in 1..n : \/ values[i] \in Range(f[n])
                         \/ \E j \in 1..n : i < j /\ values[j].key = values[i].key
<1>3. Means(0)
  <2>1. Range(<<>>) = {} /\ 1..0 = {}
    BY DEF Range
  <2> QED
    BY <1>1, <2>1
<1>4. ASSUME NEW n \in Nat, n + 1 <= m, Means(n)
      PROVE  Means(n + 1)
  <2>1. /\ n + 1 \in 1..m /\ (n + 1) - 1 = n /\ n \in 0..m
        /\ 1..n + 1 = 1..n \cup {n + 1} /\ \A i \in 1..n : i < n + 1 /\ i \in 1..m
    BY <1>2, <1>4
  <2>2. PICK map \in Seq(Entries), v \in Entries :
          map = f[n] /\ v = values[n + 1] /\ f[n + 1] = Put(map, v)
    BY <1>1, <1>2, <2>1
  <2>3. v \in Range(Put(map, v)) /\ \A x \in Range(Put(map, v)) : x \in Range(map) \/ x = v
    <3>1. CASE \E i \in DOMAIN map : map[i].key = v.key
      BY <3>1 DEF Put, Range
    <3>2. CASE ~\E i \in DOMAIN map : map[i].key = v.key
      <4>1. Range(Put(map, v)) = Range(map) \cup {v}
        BY <3>2, AppendRange DEF Put
      <4> QED
        BY <4>1
    <3> QED
      BY <3>1, <3>2
  <2>4. \A x \in Range(map) : x.key # v.key => x \in Range(Put(map, v))
    <3>1. CASE \E i \in DOMAIN map : map[i].key = v.key
      BY <3>1 DEF Put, Range
    <3>2. CASE ~\E i \in DOMAIN map : map[i].key = v.key
      <4>1. Range(Put(map, v)) = Range(map) \cup {v}
        BY <3>2, AppendRange DEF Put
      <4> QED
        BY <4>1
    <3> QED
      BY <3>1, <3>2
  <2>5. \A x \in Range(f[n + 1]) : \E i \in 1..n + 1 : x = values[i]
    BY <1>4, <2>1, <2>2, <2>3
  <2>6. ASSUME NEW i \in 1..n + 1
        PROVE  \/ values[i] \in Range(f[n + 1])
               \/ \E j \in 1..n + 1 : i < j /\ values[j].key = values[i].key
    BY <1>4, <2>1, <2>2, <2>3, <2>4
  <2> QED
    BY <2>5, <2>6
<1> HIDE DEF Means
<1>5. Means(m)
  <2> DEFINE Meant == {n \in Nat : n <= m => Means(n)}
  <2>1. 0 \in Meant
    BY <1>3
  <2>2. ASSUME NEW n \in Nat, n \in Meant
        PROVE  n + 1 \in Meant
    BY <1>2, <1>4, <2>2
  <2>3. Nat \subseteq Meant
    <3> HIDE DEF Meant
    <3> QED
      BY <2>1, <2>2, NatSetInduction
  <2> QED
    BY <1>2, <2>3
<1>6. f[m] \in Seq(Entries)
  BY <1>1, <1>2
<1>7. ASSUME NEW v \in Range(IndexMap(values))
      PROVE  v \in Range(values)
  <2>1. PICK i \in 1..m : v = values[i]
    BY <1>1, <1>5, <1>7 DEF Means
  <2> QED
    BY <1>2, <2>1 DEF Range
<1> QED
  BY <1>1, <1>2, <1>5, <1>6, <1>7 DEF Means

LEMMA KeyOfAppend ==
  ASSUME NEW p \in Paths, NEW step \in Steps
  PROVE  /\ KeyOf(p) \in Steps /\ KeyOf(<<>>) = <<>>
         /\ KeyOf(Append(p, step)) = Joined(KeyOf(p), step)
<1> DEFINE m == Len(p)
           q == Append(p, step)
<1>1. /\ q \in Paths /\ Len(q) = m + 1 /\ m \in Nat
      /\ q[m + 1] = step /\ \A n \in 1..m : q[n] = p[n]
  BY AppendProperties DEF Paths
<1> HIDE DEF q
<1>2. PICK f :
        /\ f \in [0..m -> Steps] /\ f[0] = <<>>
        /\ \A n \in 1..m : f[n] = Joined(f[n - 1], p[n])
        /\ KeyOf(p) = f[m]
  BY KeyOfUnfolds
<1>3. PICK g :
        /\ g \in [0..Len(q) -> Steps] /\ g[0] = <<>>
        /\ \A n \in 1..Len(q) : g[n] = Joined(g[n - 1], q[n])
        /\ KeyOf(q) = g[Len(q)]
  BY <1>1, KeyOfUnfolds
<1> HIDE DEF m
<1>4. \A n \in 1..m : n \in 1..Len(q)
  BY <1>1
<1>5. \A n \in 1..m : g[n - 1] = f[n - 1] => g[n] = f[n]
  BY <1>1, <1>2, <1>3, <1>4
<1>6. \A n \in 0..m : g[n] = f[n]
  <2>1. m \in Nat /\ g[0] = f[0]
    BY <1>1, <1>2, <1>3
  <2> QED
    BY <1>5, <2>1, RecursionDetermined
<1>7. m + 1 \in 1..Len(q) /\ (m + 1) - 1 = m /\ m \in 0..m
  BY <1>1
<1>8. KeyOf(q) = Joined(KeyOf(p), step)
  BY <1>1, <1>2, <1>3, <1>6, <1>7
<1>9. KeyOf(<<>>) = <<>>
  <2> DEFINE none == <<>>
  <2>1. none \in Paths /\ Len(none) = 0
    BY DEF Paths
  <2> HIDE DEF none
  <2>2. KeyOf(none) = <<>>
    BY <2>1, KeyOfUnfolds
  <2> QED
    BY <2>2 DEF none
<1> QED
  BY <1>2, <1>7, <1>8, <1>9 DEF q

LEMMA AddressAppend ==
  ASSUME NEW p \in Paths, NEW step \in Steps
  PROVE  /\ Address(p) \in Addresses /\ Address(<<>>) = <<<<>>>>
         /\ Address(Append(p, step)) = Extended(Address(p), step)
<1> DEFINE m == Len(p)
           q == Append(p, step)
<1>1. /\ q \in Paths /\ Len(q) = m + 1 /\ m \in Nat
      /\ q[m + 1] = step /\ \A n \in 1..m : q[n] = p[n]
  BY AppendProperties DEF Paths
<1> HIDE DEF q
<1>2. PICK f :
        /\ f \in [0..m -> Addresses] /\ f[0] = <<<<>>>>
        /\ \A n \in 1..m : f[n] = Extended(f[n - 1], p[n])
        /\ Address(p) = f[m]
  BY AddressUnfolds
<1>3. PICK g :
        /\ g \in [0..Len(q) -> Addresses] /\ g[0] = <<<<>>>>
        /\ \A n \in 1..Len(q) : g[n] = Extended(g[n - 1], q[n])
        /\ Address(q) = g[Len(q)]
  BY <1>1, AddressUnfolds
<1> HIDE DEF m
<1>4. \A n \in 1..m : n \in 1..Len(q)
  BY <1>1
<1>5. \A n \in 1..m : g[n - 1] = f[n - 1] => g[n] = f[n]
  BY <1>1, <1>2, <1>3, <1>4
<1>6. \A n \in 0..m : g[n] = f[n]
  <2>1. m \in Nat /\ g[0] = f[0]
    BY <1>1, <1>2, <1>3
  <2> QED
    BY <1>5, <2>1, RecursionDetermined
<1>7. m + 1 \in 1..Len(q) /\ (m + 1) - 1 = m /\ m \in 0..m
  BY <1>1
<1>8. Address(q) = Extended(Address(p), step)
  BY <1>1, <1>2, <1>3, <1>6, <1>7
<1>9. Address(<<>>) = <<<<>>>>
  <2> DEFINE none == <<>>
  <2>1. none \in Paths /\ Len(none) = 0
    BY DEF Paths
  <2> HIDE DEF none
  <2>2. Address(none) = <<<<>>>>
    BY <2>1, AddressUnfolds
  <2> QED
    BY <2>2 DEF none
<1> QED
  BY <1>2, <1>7, <1>8, <1>9 DEF q

(***************************************************************************)
(* The tree that a document is.                                            *)
(***************************************************************************)

Injective(s) == \A i, j \in DOMAIN s : s[i] = s[j] => i = j

LEMMA WithStepMeans ==
  ASSUME NEW p \in Paths, NEW l \in Leaves, NEW steps \in Seq(Steps), Injective(steps)
  PROVE  /\ WithStep(steps, p, l) \in Seq(Steps)
         /\ Injective(WithStep(steps, p, l))
         /\ \A s : s \in Range(WithStep(steps, p, l)) <=>
                     s \in Range(steps) \/ (IsStrictPrefix(p, l.path) /\ s = l.path[Len(p) + 1])
<1> DEFINE new == l.path[Len(p) + 1]
<1>1. IsStrictPrefix(p, l.path) => new \in Steps
  BY LeavesType, NextStep
<1>2. CASE IsStrictPrefix(p, l.path) /\ new \notin Range(steps)
  <2> DEFINE more == Append(steps, new)
  <2>1. /\ more \in Seq(Steps) /\ Len(more) = Len(steps) + 1 /\ Len(steps) \in Nat
        /\ more[Len(steps) + 1] = new /\ \A i \in 1..Len(steps) : more[i] = steps[i]
    BY <1>1, <1>2, AppendProperties
  <2>2. Range(more) = Range(steps) \cup {new}
    BY <1>1, <1>2, AppendRange
  <2>3. WithStep(steps, p, l) = more
    BY <1>2 DEF WithStep
  <2> HIDE DEF more, new
  <2>4. \A i \in 1..Len(steps) : steps[i] # new
    BY <1>2 DEF Range
  <2>5. \A i \in DOMAIN more : i \in 1..Len(steps) \/ i = Len(steps) + 1
    BY <2>1
  <2>6. \A i, j \in 1..Len(steps) : steps[i] = steps[j] => i = j
    BY DEF Injective
  <2>7. Injective(more)
    BY <2>1, <2>4, <2>5, <2>6 DEF Injective
  <2> QED
    BY <1>2, <2>1, <2>2, <2>3, <2>7 DEF new
<1>3. CASE ~(IsStrictPrefix(p, l.path) /\ new \notin Range(steps))
  BY <1>3 DEF WithStep
<1> QED
  BY <1>2, <1>3

\* The children are the steps that leaves take below p, each of them once.
LEMMA ChildrenMeans ==
  ASSUME NEW doc \in Seq(Leaves), NEW p \in Paths
  PROVE  /\ Children(doc, p) \in Seq(Steps)
         /\ Injective(Children(doc, p))
         /\ \A s : s \in Range(Children(doc, p)) <=>
                     \E l \in Range(doc) : IsStrictPrefix(p, l.path) /\ s = l.path[Len(p) + 1]
<1> DEFINE m == Len(doc)
<1>1. PICK f \in [0..m -> Seq(Steps)] :
        /\ f[0] = <<>>
        /\ \A n \in 1..m : f[n] = WithStep(f[n - 1], p, doc[n])
        /\ Children(doc, p) = f[m]
  BY ChildrenUnfolds
<1>2. m \in Nat /\ DOMAIN doc = 1..m /\ \A n \in 1..m : doc[n] \in Leaves
  OBVIOUS
<1> HIDE DEF m
<1> DEFINE Means(n) ==
      /\ Injective(f[n])
      /\ \A s : s \in Range(f[n]) <=>
                  \E i \in 1..n : IsStrictPrefix(p, doc[i].path) /\ s = doc[i].path[Len(p) + 1]
<1>3. Means(0)
  <2>1. Injective(<<>>) /\ Range(<<>>) = {} /\ 1..0 = {}
    BY DEF Injective, Range
  <2> QED
    BY <1>1, <2>1
<1>4. ASSUME NEW n \in Nat, n + 1 <= m, Means(n)
      PROVE  Means(n + 1)
  <2>1. n + 1 \in 1..m /\ (n + 1) - 1 = n /\ n \in 0..m /\ 1..n + 1 = 1..n \cup {n + 1}
    BY <1>2, <1>4
  <2>2. PICK steps \in Seq(Steps), l \in Leaves :
          steps = f[n] /\ l = doc[n + 1] /\ f[n + 1] = WithStep(steps, p, l)
    BY <1>1, <1>2, <2>1
  <2>3. Injective(steps)
    BY <1>4, <2>2
  <2>4. /\ Injective(f[n + 1])
        /\ \A s : s \in Range(f[n + 1]) <=>
                    s \in Range(steps) \/ (IsStrictPrefix(p, l.path) /\ s = l.path[Len(p) + 1])
    BY <2>2, <2>3, WithStepMeans
  <2> QED
    BY <1>4, <2>1, <2>2, <2>4
<1> HIDE DEF Means
<1>5. Means(m)
  <2> DEFINE Meant == {n \in Nat : n <= m => Means(n)}
  <2>1. 0 \in Meant
    BY <1>3
  <2>2. ASSUME NEW n \in Nat, n \in Meant
        PROVE  n + 1 \in Meant
    BY <1>2, <1>4, <2>2
  <2>3. Nat \subseteq Meant
    <3> HIDE DEF Meant
    <3> QED
      BY <2>1, <2>2, NatSetInduction
  <2> QED
    BY <1>2, <2>3
<1>6. f[m] \in Seq(Steps)
  BY <1>1, <1>2
<1>7. \A s : s \in Range(f[m]) <=>
               \E i \in 1..m : IsStrictPrefix(p, doc[i].path) /\ s = doc[i].path[Len(p) + 1]
  BY <1>5 DEF Means
<1>8. \A s : s \in Range(f[m]) <=>
               \E l \in Range(doc) : IsStrictPrefix(p, l.path) /\ s = l.path[Len(p) + 1]
  <2>1. Range(doc) = {doc[i] : i \in 1..m}
    BY <1>2 DEF Range
  <2> QED
    BY <1>7, <2>1
<1> QED
  BY <1>1, <1>5, <1>6, <1>8 DEF Means

LEMMA ChildrenAppend ==
  ASSUME NEW doc \in Seq(Leaves), NEW l \in Leaves, NEW p \in Paths
  PROVE  Children(Append(doc, l), p) = WithStep(Children(doc, p), p, l)
<1> DEFINE m == Len(doc)
           more == Append(doc, l)
<1>1. /\ more \in Seq(Leaves) /\ Len(more) = m + 1 /\ m \in Nat
      /\ more[m + 1] = l /\ \A n \in 1..m : more[n] = doc[n]
  BY AppendProperties
<1> HIDE DEF more
<1>2. PICK f :
        /\ f \in [0..m -> Seq(Steps)] /\ f[0] = <<>>
        /\ \A n \in 1..m : f[n] = WithStep(f[n - 1], p, doc[n])
        /\ Children(doc, p) = f[m]
  BY ChildrenUnfolds
<1>3. PICK g :
        /\ g \in [0..Len(more) -> Seq(Steps)] /\ g[0] = <<>>
        /\ \A n \in 1..Len(more) : g[n] = WithStep(g[n - 1], p, more[n])
        /\ Children(more, p) = g[Len(more)]
  BY <1>1, ChildrenUnfolds
<1> HIDE DEF m
<1>4. \A n \in 1..m : n \in 1..Len(more)
  BY <1>1
<1>5. \A n \in 1..m : g[n - 1] = f[n - 1] => g[n] = f[n]
  BY <1>1, <1>2, <1>3, <1>4
<1>6. \A n \in 0..m : g[n] = f[n]
  <2>1. m \in Nat /\ g[0] = f[0]
    BY <1>1, <1>2, <1>3
  <2> QED
    BY <1>5, <2>1, RecursionDetermined
<1>7. m + 1 \in 1..Len(more) /\ (m + 1) - 1 = m /\ m \in 0..m
  BY <1>1
<1> QED
  BY <1>1, <1>2, <1>3, <1>6, <1>7 DEF more

LEMMA PositionsMeans ==
  ASSUME NEW doc \in Seq(Leaves)
  PROVE  /\ Positions(doc) = {q \in Paths : q = <<>> \/ \E l \in Range(doc) : IsPrefix(q, l.path)}
         /\ \A l \in Range(doc) : l \in Leaves /\ l.path \in Paths /\ l.path # <<>> /\ l.path \in Positions(doc)
<1>1. \A l \in Range(doc) : l \in Leaves /\ l.path \in Paths /\ l.path # <<>>
  BY LeavesType, RangeOfSeq
<1>2. <<>> \in Paths
  BY DEF Paths
<1>3. ASSUME NEW q \in Positions(doc)
      PROVE  q \in Paths /\ (q = <<>> \/ \E l \in Range(doc) : IsPrefix(q, l.path))
  <2>1. CASE q = <<>>
    BY <1>2, <2>1
  <2>2. ASSUME NEW l \in Range(doc), NEW n \in 0..Len(l.path), q = SubSeq(l.path, 1, n)
        PROVE  q \in Paths /\ IsPrefix(q, l.path)
    BY <1>1, <2>2, PrefixSubSeq DEF Paths
  <2> QED
    BY <2>1, <2>2 DEF Positions, PathsOf
<1>4. ASSUME NEW q \in Paths, NEW l \in Range(doc), IsPrefix(q, l.path)
      PROVE  q \in Positions(doc)
  <2>1. Len(q) \in 0..Len(l.path) /\ q = SubSeq(l.path, 1, Len(q))
    BY <1>1, <1>4, PrefixSubSeq DEF Paths
  <2>2. PICK path : path = l.path /\ path \in PathsOf(doc)
    BY DEF PathsOf
  <2>3. PICK n \in 0..Len(path) : q = SubSeq(path, 1, n)
    BY <2>1, <2>2
  <2> QED
    BY <2>2, <2>3 DEF Positions
<1>5. <<>> \in Positions(doc)
  BY DEF Positions
<1>6. \A l \in Range(doc) : l.path \in Positions(doc)
  BY <1>1, <1>4, PrefixOrder DEF Paths
<1> QED
  BY <1>1, <1>3, <1>4, <1>5, <1>6

\* A position's children lead to the positions one step below it.
LEMMA ChildPositions ==
  ASSUME NEW doc \in Seq(Leaves), NEW p \in Paths
  PROVE  /\ \A k \in DOMAIN Children(doc, p) :
              /\ Children(doc, p)[k] \in Steps
              /\ Append(p, Children(doc, p)[k]) \in Positions(doc)
              /\ Append(p, Children(doc, p)[k]) \in Paths
         /\ \A q \in Positions(doc) : IsStrictPrefix(p, q) =>
              \E k \in DOMAIN Children(doc, p) :
                q[Len(p) + 1] = Children(doc, p)[k] /\ IsPrefix(Append(p, Children(doc, p)[k]), q)
<1> DEFINE c == Children(doc, p)
<1>1. /\ c \in Seq(Steps)
      /\ \A s : s \in Range(c) <=> \E l \in Range(doc) : IsStrictPrefix(p, l.path) /\ s = l.path[Len(p) + 1]
  BY ChildrenMeans
<1> HIDE DEF c
<1>2. ASSUME NEW k \in DOMAIN c
      PROVE  c[k] \in Steps /\ Append(p, c[k]) \in Positions(doc) /\ Append(p, c[k]) \in Paths
  <2>1. c[k] \in Steps /\ c[k] \in Range(c)
    BY <1>1 DEF Range
  <2>2. PICK l \in Range(doc) : IsStrictPrefix(p, l.path) /\ c[k] = l.path[Len(p) + 1]
    BY <1>1, <2>1
  <2>3. l.path \in Seq(Steps) /\ p \in Seq(Steps)
    BY PositionsMeans DEF Paths
  <2>4. IsPrefix(Append(p, c[k]), l.path)
    BY <2>1, <2>2, <2>3, PrefixAppend
  <2>5. Append(p, c[k]) \in Paths
    BY <2>1, <2>3, AppendProperties DEF Paths
  <2> QED
    BY <2>1, <2>4, <2>5, PositionsMeans
<1>3. ASSUME NEW q \in Positions(doc), IsStrictPrefix(p, q)
      PROVE  \E k \in DOMAIN c : q[Len(p) + 1] = c[k] /\ IsPrefix(Append(p, c[k]), q)
  <2>1. q \in Paths /\ (q = <<>> \/ \E l \in Range(doc) : IsPrefix(q, l.path))
    BY PositionsMeans
  <2>2. q # <<>>
    <3>1. Len(p) \in Nat /\ Len(q) \in Nat /\ Len(p) < Len(q)
      BY <1>3, <2>1, PrefixMeans DEF Paths
    <3> QED
      BY <3>1
  <2>3. PICK l \in Range(doc) : IsPrefix(q, l.path)
    BY <2>1, <2>2
  <2>4. l.path \in Seq(Steps) /\ p \in Seq(Steps) /\ q \in Seq(Steps) /\ q[Len(p) + 1] \in Steps
    BY <1>3, <2>1, NextStep, PositionsMeans DEF Paths
  <2> DEFINE s == q[Len(p) + 1]
             a == Append(p, s)
  <2>5. IsPrefix(a, q) /\ a \in Seq(Steps)
    BY <1>3, <2>4, PrefixAppend
  <2>6. IsPrefix(a, l.path)
    <3> HIDE DEF a
    <3> QED
      BY <2>3, <2>4, <2>5, PrefixOrder
  <2>7. IsStrictPrefix(p, l.path) /\ l.path[Len(p) + 1] = s
    <3> HIDE DEF s
    <3> QED
      BY <2>4, <2>6, PrefixAppend DEF s
  <2>8. s \in Range(c)
    BY <1>1, <2>7
  <2> QED
    BY <2>5, <2>8 DEF Range
<1> QED
  BY <1>2, <1>3 DEF c

\* What Writable keeps: no leaf lies on the path to another one, and the
\* children of a position are either keys or the first tables of an array.
Grammatical(doc) ==
  /\ \A i, j \in DOMAIN doc : IsPrefix(doc[i].path, doc[j].path) => i = j
  /\ \A p \in Paths :
       \/ \A k \in DOMAIN Children(doc, p) : ~IsElement(Children(doc, p)[k])
       \/ /\ Len(Children(doc, p)) <= Len(Elements)
          /\ \A k \in DOMAIN Children(doc, p) : Children(doc, p)[k] = Elements[k]

LEMMA ElementsType ==
  Elements \in Seq(Steps) /\ Len(Elements) \in Nat /\ \A k \in 1..Len(Elements) : IsElement(Elements[k])
<1>1. Elements \in Seq(Steps) /\ Len(Elements) \in Nat
  BY TomlAssumption
<1> QED
  BY <1>1 DEF IsElement, Range

LEMMA NothingWritten == <<>> \in Seq(Leaves) /\ Grammatical(<<>>)
<1> DEFINE none == <<>>
<1>1. none \in Seq(Leaves) /\ Len(none) = 0 /\ DOMAIN none = {} /\ Range(none) = {}
  BY DEF Range
<1> HIDE DEF none
<1>2. ASSUME NEW p \in Paths
      PROVE  DOMAIN Children(none, p) = {}
  <2>1. Range(Children(none, p)) = {}
    BY <1>1, ChildrenMeans
  <2> QED
    BY <2>1 DEF Range
<1>3. Grammatical(none)
  BY <1>1, <1>2 DEF Grammatical
<1> QED
  BY <1>1, <1>3 DEF none

LEMMA WriteKeepsGrammar ==
  ASSUME document \in Seq(Leaves), Grammatical(document), NEW leaf \in Leaves, Writable(leaf)
  PROVE  Append(document, leaf) \in Seq(Leaves) /\ Grammatical(Append(document, leaf))
<1> DEFINE m == Len(document)
           more == Append(document, leaf)
<1>1. /\ more \in Seq(Leaves) /\ Len(more) = m + 1 /\ m \in Nat
      /\ more[m + 1] = leaf /\ \A n \in 1..m : more[n] = document[n]
  BY AppendProperties
<1> HIDE DEF more
<1>2. \A i \in 1..m : ~IsPrefix(document[i].path, leaf.path) /\ ~IsPrefix(leaf.path, document[i].path)
  BY DEF Writable, PathsOf, Range
<1>3. ASSUME NEW i \in DOMAIN more, NEW j \in DOMAIN more, IsPrefix(more[i].path, more[j].path)
      PROVE  i = j
  <2>1. (i \in 1..m \/ i = m + 1) /\ (j \in 1..m \/ j = m + 1)
    BY <1>1
  <2>2. CASE i \in 1..m /\ j \in 1..m
    BY <1>1, <1>3, <2>2 DEF Grammatical
  <2> QED
    BY <1>1, <1>2, <1>3, <2>1, <2>2
<1>4. ASSUME NEW p \in Paths
      PROVE  \/ \A k \in DOMAIN Children(more, p) : ~IsElement(Children(more, p)[k])
             \/ /\ Len(Children(more, p)) <= Len(Elements)
                /\ \A k \in DOMAIN Children(more, p) : Children(more, p)[k] = Elements[k]
  <2> DEFINE step == leaf.path[Len(p) + 1]
  <2>1. PICK c \in Seq(Steps) : c = Children(document, p)
    BY ChildrenMeans
  <2>2. PICK d : d = Children(more, p) /\ d = WithStep(c, p, leaf)
    BY <2>1, ChildrenAppend DEF more
  <2>3. \/ \A k \in DOMAIN c : ~IsElement(c[k])
        \/ Len(c) <= Len(Elements) /\ \A k \in DOMAIN c : c[k] = Elements[k]
    BY <2>1 DEF Grammatical
  <2>4. CASE d = c
    BY <2>2, <2>3, <2>4
  <2>5. CASE d # c
    <3>1. IsStrictPrefix(p, leaf.path) /\ step \notin Range(c) /\ d = Append(c, step)
      BY <2>2, <2>5 DEF WithStep
    <3>2. leaf.path \in Paths /\ Len(p) + 1 \in 1..Len(leaf.path) /\ step \in Steps
      BY <3>1, LeavesType, NextStep
    <3>3. SubSeq(leaf.path, 1, (Len(p) + 1) - 1) = p
      <4>1. Len(p) \in Nat /\ (Len(p) + 1) - 1 = Len(p)
        BY DEF Paths
      <4>2. p = SubSeq(leaf.path, 1, Len(p))
        BY <3>1, <3>2, PrefixSubSeq DEF Paths, IsStrictPrefix
      <4> QED
        BY <4>1, <4>2
    <3>4. IF IsElement(step)
          THEN \E k \in {Len(c), Len(c) + 1} \cap DOMAIN Elements :
                 step = Elements[k] /\ \A i \in 1..Len(c) : c[i] = Elements[i]
          ELSE \A i \in 1..Len(c) : ~IsElement(c[i])
      BY <2>1, <3>2, <3>3 DEF Writable
    <3>5. /\ d \in Seq(Steps) /\ Len(d) = Len(c) + 1 /\ Len(c) \in Nat
          /\ d[Len(c) + 1] = step /\ \A i \in 1..Len(c) : d[i] = c[i]
      BY <3>1, <3>2, AppendProperties
    <3>6. \A i \in DOMAIN d : i \in 1..Len(c) \/ i = Len(c) + 1
      BY <3>5
    <3>7. CASE IsElement(step)
      <4>1. PICK k \in {Len(c), Len(c) + 1} \cap DOMAIN Elements :
              step = Elements[k] /\ \A i \in 1..Len(c) : c[i] = Elements[i]
        BY <3>4, <3>7
      <4>2. k \in 1..Len(Elements)
        BY <4>1, ElementsType
      <4>3. k # Len(c)
        <5> SUFFICES ASSUME k = Len(c)
                     PROVE  FALSE
          OBVIOUS
        <5>1. k \in 1..Len(c) /\ c[k] = step
          BY <3>5, <4>1, <4>2
        <5> QED
          BY <3>1, <5>1 DEF Range
      <4>4. k = Len(c) + 1 /\ Len(d) <= Len(Elements)
        BY <3>5, <4>1, <4>2, <4>3, ElementsType
      <4>5. \A i \in DOMAIN d : d[i] = Elements[i]
        BY <3>5, <3>6, <4>1, <4>4
      <4> QED
        BY <2>2, <4>4, <4>5
    <3>8. CASE ~IsElement(step)
      <4>1. \A i \in DOMAIN d : ~IsElement(d[i])
        BY <3>4, <3>5, <3>6, <3>8
      <4> QED
        BY <2>2, <4>1
    <3> QED
      BY <3>7, <3>8
  <2> QED
    BY <2>4, <2>5
<1>5. Grammatical(more)
  BY <1>3, <1>4 DEF Grammatical
<1> QED
  BY <1>1, <1>5 DEF more

\* The children of a position are keys, or its tables in their order.
LEMMA ChildrenAreKeysOrTables ==
  ASSUME NEW doc \in Seq(Leaves), Grammatical(doc), NEW p \in Paths
  PROVE  IF Children(doc, p) # <<>> /\ IsElement(Children(doc, p)[1])
         THEN /\ Len(Children(doc, p)) <= Len(Elements)
              /\ \A k \in DOMAIN Children(doc, p) : Children(doc, p)[k] = Elements[k]
         ELSE \A k \in DOMAIN Children(doc, p) : ~IsElement(Children(doc, p)[k])
<1>1. PICK c \in Seq(Steps) : c = Children(doc, p)
  BY ChildrenMeans
<1>2. \/ \A k \in DOMAIN c : ~IsElement(c[k])
      \/ Len(c) <= Len(Elements) /\ \A k \in DOMAIN c : c[k] = Elements[k]
  BY <1>1 DEF Grammatical
<1>3. Len(c) \in Nat /\ DOMAIN c = 1..Len(c) /\ (c # <<>> => 1 \in DOMAIN c)
  BY EmptySeq
<1>4. CASE c # <<>> /\ IsElement(c[1])
  BY <1>1, <1>2, <1>3, <1>4
<1>5. CASE ~(c # <<>> /\ IsElement(c[1]))
  <2>1. ASSUME NEW k \in DOMAIN c, IsElement(c[k])
        PROVE  FALSE
    <3>1. c # <<>> /\ 1 \in DOMAIN c
      BY <1>3, <2>1
    <3>2. Len(c) <= Len(Elements) /\ c[1] = Elements[1]
      BY <1>2, <2>1, <3>1
    <3>3. 1 \in 1..Len(Elements)
      BY <1>3, <3>1, <3>2, ElementsType
    <3> QED
      BY <1>5, <3>1, <3>2, <3>3, ElementsType
  <2> QED
    BY <1>1, <1>5, <2>1
<1> QED
  BY <1>4, <1>5

ItemsAt(doc, p) == {l.item : l \in {m \in Range(doc) : m.path = p}}

\* There is one item at a leaf's path, and nothing below it.
LEMMA LeafAlone ==
  ASSUME NEW doc \in Seq(Leaves), Grammatical(doc), NEW l \in Range(doc)
  PROVE  /\ ItemsAt(doc, l.path) = {l.item} /\ l.item \in Items
         /\ \A q \in Positions(doc) : ~IsStrictPrefix(l.path, q)
<1>1. \A h \in Range(doc) : h \in Leaves /\ h.path \in Seq(Steps) /\ h.path # <<>>
  BY PositionsMeans DEF Paths
<1>2. l.item \in Items
  BY <1>1, TomlAssumption
<1>3. \A h \in Range(doc) : IsPrefix(l.path, h.path) => h = l
  BY DEF Grammatical, Range
<1>4. \A h \in Range(doc) : h.path = l.path => h = l
  BY <1>1, <1>3, PrefixOrder
<1>5. ASSUME NEW q \in Positions(doc), IsStrictPrefix(l.path, q)
      PROVE  FALSE
  <2>1. q \in Seq(Steps) /\ (q = <<>> \/ \E h \in Range(doc) : IsPrefix(q, h.path))
    BY PositionsMeans DEF Paths
  <2>2. Len(l.path) \in Nat /\ Len(q) \in Nat /\ Len(l.path) < Len(q)
    BY <1>1, <1>5, <2>1, PrefixMeans
  <2>3. q # <<>>
    BY <2>2
  <2>4. PICK h \in Range(doc) : IsPrefix(q, h.path)
    BY <2>1, <2>3
  <2>5. IsPrefix(l.path, q) /\ ~IsPrefix(q, l.path)
    BY <1>1, <1>5, <2>1, PrefixOrder
  <2>6. IsPrefix(l.path, h.path)
    BY <1>1, <2>1, <2>4, <2>5, PrefixOrder
  <2> QED
    BY <1>3, <2>4, <2>5, <2>6
<1>6. ItemsAt(doc, l.path) = {l.item}
  BY <1>4 DEF ItemsAt
<1> QED
  BY <1>2, <1>5, <1>6

(***************************************************************************)
(* The traversal.                                                          *)
(***************************************************************************)

LEMMA InsertionType ==
  ASSUME NEW p \in Paths, NEW value \in SUBSET Places
  PROVE  /\ Insertion(p, value) \in Entries
         /\ Insertion(p, value).key = KeyOf(p) /\ Insertion(p, value).value = value
<1>1. <<>> \in Steps
  BY DEF Steps
<1>2. KeyOf(p) \in Steps
  BY <1>1, KeyOfAppend
<1> QED
  BY <1>2 DEF Insertion, Entries

LEMMA SingleType ==
  ASSUME NEW X, NEW x \in X
  PROVE  <<x>> \in Seq(X) /\ Range(<<x>>) = {x} /\ \A R : Pairwise(<<x>>, R)
<1>1. <<x>> \in Seq(X) /\ DOMAIN <<x>> = {1} /\ <<x>>[1] = x
  OBVIOUS
<1> QED
  BY <1>1 DEF Range, Pairwise

Here(p) == {[at |-> <<>>, from |-> p]}

LEMMA HereType ==
  ASSUME NEW p \in Paths
  PROVE  Here(p) \in SUBSET Places
BY DEF Here, Places, Steps

LEMMA LeafMeans ==
  ASSUME NEW p \in Paths, NEW item \in Items
  PROVE  /\ Leaf(p, item) \in Results
         /\ Leaf(p, item).pruned = FALSE /\ Leaf(p, item).includes = <<>>
         /\ Leaf(p, item).failed <=> item = "unsupported"
         /\ item \in {"unsupported", "empty"} => Leaf(p, item).values = <<>>
         /\ item \notin {"unsupported", "empty"} => Leaf(p, item).values = <<Insertion(p, Here(p))>>
<1>1. CASE item = "unsupported"
  <2>1. Leaf(p, item) = [values |-> <<>>, includes |-> <<>>, pruned |-> FALSE, failed |-> TRUE]
    BY <1>1 DEF Leaf, Nothing
  <2>2. <<>> \in Seq(Entries) /\ <<>> \in Seq(Paths)
    OBVIOUS
  <2>3. Leaf(p, item) \in Results
    BY <2>1, <2>2 DEF Results
  <2> QED
    BY <1>1, <2>1, <2>3
<1>2. CASE item = "empty"
  <2>1. Leaf(p, item) = Nothing
    BY <1>2 DEF Leaf
  <2>2. /\ Leaf(p, item).pruned = FALSE /\ Leaf(p, item).failed = FALSE
        /\ Leaf(p, item).includes = <<>> /\ Leaf(p, item).values = <<>>
    BY <2>1 DEF Nothing
  <2> QED
    BY <1>2, <2>1, <2>2, NothingType
<1>3. CASE item \notin {"unsupported", "empty"}
  <2> DEFINE values == <<Insertion(p, Here(p))>>
  <2>1. Leaf(p, item) = [Nothing EXCEPT !.values = values]
    BY <1>3 DEF Leaf, Here
  <2>2. values \in Seq(Entries)
    <3>1. Insertion(p, Here(p)) \in Entries
      BY HereType, InsertionType
    <3> QED
      BY <3>1, SingleType
  <2> HIDE DEF values
  <2>3. Leaf(p, item) = [values |-> values, includes |-> <<>>, pruned |-> FALSE, failed |-> FALSE]
    BY <2>1 DEF Nothing
  <2>4. <<>> \in Seq(Paths)
    OBVIOUS
  <2> QED
    BY <1>3, <2>2, <2>3, <2>4 DEF Results, values
<1> QED
  BY <1>1, <1>2, <1>3

LEMMA PrunedMeans ==
  LET r == [Nothing EXCEPT !.pruned = TRUE] IN
  /\ r \in Results
  /\ r.pruned = TRUE /\ r.failed = FALSE /\ r.values = <<>> /\ r.includes = <<>>
<1>1. [Nothing EXCEPT !.pruned = TRUE] \in Results
  BY NothingType DEF Results
<1>2. \A r : r = [Nothing EXCEPT !.pruned = TRUE] =>
        r.pruned = TRUE /\ r.failed = FALSE /\ r.values = <<>> /\ r.includes = <<>>
  BY DEF Nothing
<1> QED
  BY <1>1, <1>2

LEMMA IncludedMeans ==
  ASSUME NEW p \in Paths, NEW items
  PROVE  /\ Included(p, items) \in Results
         /\ Included(p, items).pruned = FALSE /\ Included(p, items).failed = FALSE
         /\ Included(p, items).values = <<>>
         /\ Range(Included(p, items).includes) = IF items \cap {"text", "texts"} # {} THEN {p} ELSE {}
<1>1. <<>> \in Seq(Paths) /\ <<>> \in Seq(Entries) /\ Range(<<>>) = {}
  BY DEF Range
<1>2. <<p>> \in Seq(Paths) /\ Range(<<p>>) = {p}
  BY SingleType
<1>3. CASE items \cap {"text", "texts"} # {}
  <2>1. Included(p, items) = [values |-> <<>>, includes |-> <<p>>, pruned |-> FALSE, failed |-> FALSE]
    BY <1>3 DEF Included, Nothing
  <2> QED
    BY <1>1, <1>2, <1>3, <2>1 DEF Results
<1>4. CASE items \cap {"text", "texts"} = {}
  <2>1. Included(p, items) = [values |-> <<>>, includes |-> <<>>, pruned |-> FALSE, failed |-> FALSE]
    BY <1>4 DEF Included, Nothing
  <2> QED
    BY <1>1, <1>4, <2>1 DEF Results
<1> QED
  BY <1>3, <1>4

Within(k, v) == {[at |-> <<Elements[k], v.key>> \o e.at, from |-> e.from] : e \in v.value}

TableValue(p, elements) ==
  Here(p) \cup UNION {UNION {Within(k, v) : v \in Range(IndexMap(elements[k].values))} : k \in DOMAIN elements}

LEMMA WithinType ==
  ASSUME NEW k \in 1..Len(Elements), NEW v \in Entries, NEW e \in v.value
  PROVE  /\ e \in Places
         /\ <<Elements[k], v.key>> \o e.at \in Seq(Steps)
         /\ [at |-> <<Elements[k], v.key>> \o e.at, from |-> e.from] \in Places
<1>1. e \in Places /\ v.key \in Steps /\ Elements[k] \in Steps
  BY ElementsType DEF Entries
<1>2. e.at \in Seq(Steps) /\ e.from \in Paths /\ <<Elements[k], v.key>> \in Seq(Steps)
  BY <1>1 DEF Places
<1>3. <<Elements[k], v.key>> \o e.at \in Seq(Steps)
  BY <1>2, ConcatProperties
<1> QED
  BY <1>1, <1>2, <1>3 DEF Places

LEMMA TablesMeans ==
  ASSUME NEW p \in Paths, NEW elements \in Seq(Results), Len(elements) <= Len(Elements)
  PROVE  /\ Tables(p, elements) \in Results
         /\ Tables(p, elements).pruned <=> All(elements).pruned
         /\ Tables(p, elements).failed <=> All(elements).failed
         /\ Tables(p, elements).includes = All(elements).includes
         /\ Tables(p, elements).values = <<Insertion(p, TableValue(p, elements))>>
         /\ TableValue(p, elements) \in SUBSET Places
<1>1. \A k \in DOMAIN elements : elements[k] \in Results /\ k \in 1..Len(Elements)
  BY ElementsType
<1>2. ASSUME NEW k \in DOMAIN elements, NEW v \in Range(IndexMap(elements[k].values)), NEW x \in Within(k, v)
      PROVE  x \in Places
  <2>1. elements[k].values \in Seq(Entries)
    BY <1>1 DEF Results
  <2>2. v \in Entries
    BY <2>1, IndexMapMeans, RangeOfSeq
  <2>3. PICK e \in v.value : x = [at |-> <<Elements[k], v.key>> \o e.at, from |-> e.from]
    BY <1>2 DEF Within
  <2> QED
    BY <1>1, <2>2, <2>3, WithinType
<1>3. TableValue(p, elements) \in SUBSET Places
  BY <1>2, HereType DEF TableValue
<1>4. Insertion(p, TableValue(p, elements)) \in Entries
  BY <1>3, InsertionType
<1> DEFINE values == <<Insertion(p, TableValue(p, elements))>>
<1>5. values \in Seq(Entries)
  BY <1>4, SingleType
<1>6. Tables(p, elements) = [All(elements) EXCEPT !.values = values]
  BY DEF Tables, TableValue, Within, Here
<1> HIDE DEF values
<1>7. PICK r \in Results : r = All(elements)
  BY AllMeans
<1>8. [r EXCEPT !.values = values] \in Results
  BY <1>5 DEF Results
<1>9. /\ [r EXCEPT !.values = values].values = values
      /\ [r EXCEPT !.values = values].includes = r.includes
  BY DEF Results
<1>10. /\ [r EXCEPT !.values = values].pruned <=> r.pruned
       /\ [r EXCEPT !.values = values].failed <=> r.failed
  BY DEF Results
<1> QED
  BY <1>3, <1>6, <1>7, <1>8, <1>9, <1>10 DEF values

\* The results for the children of a position, from those one level below.
BelowAt(doc, p, visited) ==
  [k \in DOMAIN Children(doc, p) |->
     IF Children(doc, p)[k] = IncludesKey
     THEN Included(Append(p, Children(doc, p)[k]), ItemsAt(doc, Append(p, Children(doc, p)[k])))
     ELSE visited[Append(p, Children(doc, p)[k])]]

ResultAt(doc, p, visited) ==
  IF ItemsAt(doc, p) # {} THEN Leaf(p, CHOOSE i \in ItemsAt(doc, p) : TRUE)
  ELSE IF Children(doc, p) # <<>> /\ IsElement(Children(doc, p)[1]) THEN Tables(p, BelowAt(doc, p, visited))
  ELSE All(BelowAt(doc, p, visited))

LEMMA BelowType ==
  ASSUME NEW doc \in Seq(Leaves), NEW p \in Paths, NEW visited \in [Positions(doc) -> Results]
  PROVE  /\ BelowAt(doc, p, visited) \in Seq(Results)
         /\ Len(BelowAt(doc, p, visited)) = Len(Children(doc, p))
<1>1. PICK c \in Seq(Steps) : c = Children(doc, p)
  BY ChildrenMeans
<1> DEFINE b == BelowAt(doc, p, visited)
<1>2. DOMAIN b = 1..Len(c) /\ Len(c) \in Nat
  BY <1>1 DEF BelowAt
<1>3. ASSUME NEW k \in 1..Len(c)
      PROVE  b[k] \in Results
  <2>1. c[k] \in Steps /\ Append(p, c[k]) \in Positions(doc) /\ Append(p, c[k]) \in Paths
    BY <1>1, ChildPositions
  <2>2. Included(Append(p, c[k]), ItemsAt(doc, Append(p, c[k]))) \in Results
    BY <2>1, IncludedMeans
  <2>3. b[k] = IF c[k] = IncludesKey THEN Included(Append(p, c[k]), ItemsAt(doc, Append(p, c[k])))
               ELSE visited[Append(p, c[k])]
    BY <1>1 DEF BelowAt
  <2> QED
    BY <2>1, <2>2, <2>3
<1>4. b \in [1..Len(c) -> Results]
  <2>1. b = [k \in 1..Len(c) |-> b[k]]
    BY <1>1 DEF BelowAt
  <2> HIDE DEF b
  <2> QED
    BY <1>3, <2>1
<1>5. b \in Seq(Results)
  <2> HIDE DEF b
  <2> QED
    BY <1>2, <1>4, SeqDef
<1>6. Len(b) = Len(c)
  <2> HIDE DEF b
  <2> QED
    BY <1>2, <1>5
<1> QED
  BY <1>1, <1>5, <1>6

LEMMA ResultType ==
  ASSUME NEW doc \in Seq(Leaves), Grammatical(doc), NEW p \in Paths, NEW visited \in [Positions(doc) -> Results]
  PROVE  ResultAt(doc, p, visited) \in Results
<1>1. CASE ItemsAt(doc, p) # {}
  <2>1. \A i \in ItemsAt(doc, p) : i \in Items
    BY LeafAlone DEF ItemsAt
  <2>2. (CHOOSE i \in ItemsAt(doc, p) : TRUE) \in Items
    BY <1>1, <2>1
  <2> QED
    BY <1>1, <2>2, LeafMeans DEF ResultAt
<1>2. CASE ItemsAt(doc, p) = {} /\ Children(doc, p) # <<>> /\ IsElement(Children(doc, p)[1])
  <2>1. Len(Children(doc, p)) <= Len(Elements)
    BY <1>2, ChildrenAreKeysOrTables
  <2>2. Tables(p, BelowAt(doc, p, visited)) \in Results
    BY <2>1, BelowType, TablesMeans
  <2> QED
    BY <1>2, <2>2 DEF ResultAt
<1>3. CASE ItemsAt(doc, p) = {} /\ ~(Children(doc, p) # <<>> /\ IsElement(Children(doc, p)[1]))
  BY <1>3, BelowType, AllMeans DEF ResultAt
<1> QED
  BY <1>1, <1>2, <1>3

LEMMA CollectUnfolds ==
  ASSUME NEW doc \in Seq(Leaves), Grammatical(doc)
  PROVE  \E f \in [0..MaxDepth + 1 -> [Positions(doc) -> Results]] :
           /\ f[0] = [p \in Positions(doc) |-> [Nothing EXCEPT !.pruned = TRUE]]
           /\ \A n \in 1..MaxDepth + 1 : f[n] = [p \in Positions(doc) |-> ResultAt(doc, p, f[n - 1])]
           /\ Collect(doc) = f[MaxDepth + 1][<<>>]
<1> DEFINE m == MaxDepth + 1
           S == [Positions(doc) -> Results]
           Body(v, n) == [p \in Positions(doc) |-> ResultAt(doc, p, v)]
           base == [p \in Positions(doc) |-> [Nothing EXCEPT !.pruned = TRUE]]
           step == [vn \in S \X (1..m) |-> Body(vn[1], vn[2])]
           Solves(g) == g = [n \in 0..m |-> IF n = 0 THEN base ELSE Body(g[n - 1], n)]
           upTo == CHOOSE g : Solves(g)
<1>1. m \in Nat /\ base \in S
  BY PrunedMeans, TomlAssumption
<1>2. ASSUME NEW v \in S, NEW n \in 1..m
      PROVE  Body(v, n) \in S
  <2>1. \A p \in Positions(doc) : ResultAt(doc, p, v) \in Results
    BY PositionsMeans, ResultType
  <2> QED
    BY <2>1
<1>3. step \in [S \X (1..m) -> S] /\ \A v \in S, n \in 1..m : step[<<v, n>>] = Body(v, n)
  BY <1>2
<1>4. Collect(doc) = upTo[m][<<>>]
  BY DEF Collect, ResultAt, BelowAt, ItemsAt
<1> HIDE DEF m, S, Body, base, step
<1>5. PICK f \in [0..m -> S] : Recursion(f, base, step, m)
  <2> HIDE DEF Solves, upTo
  <2> QED
    BY <1>1, <1>3, FiniteRecursion
<1>6. \A n \in 0..m : n = 0 \/ (n \in 1..m /\ n - 1 \in 0..m /\ f[n - 1] \in S)
  BY <1>1
<1>7. \A n \in 0..m : f[n] = IF n = 0 THEN base ELSE Body(f[n - 1], n)
  BY <1>3, <1>5, <1>6 DEF Recursion
<1>8. Solves(f)
  <2>1. f = [n \in 0..m |-> f[n]]
    OBVIOUS
  <2> QED
    BY <1>7, <2>1
<1>9. Solves(upTo)
  <2> HIDE DEF Solves
  <2> QED
    BY <1>8
<1> HIDE DEF upTo
<1>10. upTo[0] = base /\ \A n \in 1..m : upTo[n] = Body(upTo[n - 1], n)
  BY <1>1, <1>9
<1>11. \A n \in 0..m : upTo[n] \in S
  BY <1>1, <1>2, <1>10, RecursionKeeps
<1>12. upTo \in [0..m -> S]
  BY <1>9, <1>11
<1> QED
  BY <1>4, <1>10, <1>12 DEF m, S, Body, base

(***************************************************************************)
(* The flags and the includes of a result: induction over the levels left. *)
(***************************************************************************)

Follows(p, q) == IsPrefix(p, q) /\ \A i \in Len(p) + 1..Len(q) : q[i] # IncludesKey

LEMMA FollowsSelf ==
  ASSUME NEW p \in Paths
  PROVE  Follows(p, p)
<1>1. Len(p) \in Nat /\ IsPrefix(p, p)
  BY PrefixOrder DEF Paths
<1>2. Len(p) + 1..Len(p) = {}
  BY <1>1
<1> QED
  BY <1>1, <1>2 DEF Follows

LEMMA FollowsStep ==
  ASSUME NEW p \in Paths, NEW q \in Paths, NEW step \in Steps, step # IncludesKey
  PROVE  /\ Append(p, step) \in Paths /\ Len(Append(p, step)) = Len(p) + 1 /\ Len(p) \in Nat
         /\ Follows(Append(p, step), q) <=> Follows(p, q) /\ IsStrictPrefix(p, q) /\ q[Len(p) + 1] = step
<1> DEFINE a == Append(p, step)
<1>1. a \in Paths /\ Len(a) = Len(p) + 1 /\ Len(p) \in Nat /\ Len(q) \in Nat
  BY AppendProperties DEF Paths
<1>2. IsPrefix(a, q) <=> IsStrictPrefix(p, q) /\ q[Len(p) + 1] = step
  BY PrefixAppend DEF Paths
<1>3. IsStrictPrefix(p, q) => IsPrefix(p, q)
  BY PrefixOrder DEF Paths
<1> HIDE DEF a
<1>4. ASSUME Follows(a, q)
      PROVE  Follows(p, q) /\ IsStrictPrefix(p, q) /\ q[Len(p) + 1] = step
  <2>1. IsStrictPrefix(p, q) /\ q[Len(p) + 1] = step /\ IsPrefix(p, q)
    BY <1>2, <1>3, <1>4 DEF Follows
  <2>2. \A i \in Len(p) + 1..Len(q) : i = Len(p) + 1 \/ i \in Len(a) + 1..Len(q)
    BY <1>1
  <2> QED
    BY <1>4, <2>1, <2>2 DEF Follows
<1>5. ASSUME Follows(p, q), IsStrictPrefix(p, q), q[Len(p) + 1] = step
      PROVE  Follows(a, q)
  <2>1. \A i \in Len(a) + 1..Len(q) : i \in Len(p) + 1..Len(q)
    BY <1>1
  <2> QED
    BY <1>2, <1>5, <2>1 DEF Follows
<1> QED
  BY <1>1, <1>4, <1>5 DEF a

\* A leaf whose patterns are read below p, with n levels left.
IncludesAt(p, l, n) ==
  /\ l.item \in {"text", "texts"}
  /\ IsStrictPrefix(p, l.path) /\ Len(l.path) <= Len(p) + n
  /\ l.path[Len(l.path)] = IncludesKey
  /\ \A i \in Len(p) + 1..Len(l.path) - 1 : l.path[i] # IncludesKey

LEMMA IncludesStep ==
  ASSUME NEW p \in Paths, NEW l \in Leaves, NEW step \in Steps, NEW n \in Nat
  PROVE  /\ step # IncludesKey =>
              (IncludesAt(Append(p, step), l, n) <=> IncludesAt(p, l, n + 1) /\ l.path[Len(p) + 1] = step)
         /\ step = IncludesKey =>
              (l.item \in {"text", "texts"} /\ l.path = Append(p, step)
                 <=> IncludesAt(p, l, n + 1) /\ l.path[Len(p) + 1] = step)
<1> DEFINE a == Append(p, step)
           q == l.path
<1>1. /\ a \in Paths /\ Len(a) = Len(p) + 1 /\ Len(p) \in Nat /\ a[Len(p) + 1] = step
      /\ q \in Paths /\ Len(q) \in Nat
  BY LeavesType, AppendProperties DEF Paths
<1>2. IsPrefix(a, q) <=> IsStrictPrefix(p, q) /\ q[Len(p) + 1] = step
  BY <1>1, PrefixAppend DEF Paths
<1> HIDE DEF a, q
<1>3. /\ IsPrefix(a, q) => a = q \/ IsStrictPrefix(a, q)
      /\ IsStrictPrefix(a, q) => IsPrefix(a, q) /\ Len(a) < Len(q)
      /\ IsStrictPrefix(p, q) => Len(p) < Len(q)
      /\ IsPrefix(a, a)
  BY <1>1, PrefixOrder, PrefixMeans DEF Paths
<1>4. ASSUME step # IncludesKey, IncludesAt(a, l, n)
      PROVE  IncludesAt(p, l, n + 1) /\ q[Len(p) + 1] = step
  <2>1. \A i \in Len(p) + 1..Len(q) - 1 : i = Len(p) + 1 \/ i \in Len(a) + 1..Len(q) - 1
    BY <1>1
  <2>2. IsStrictPrefix(p, q) /\ q[Len(p) + 1] = step
    BY <1>2, <1>3, <1>4 DEF IncludesAt, q
  <2>3. \A i \in Len(p) + 1..Len(q) - 1 : q[i] # IncludesKey
    BY <1>4, <2>1, <2>2 DEF IncludesAt, q
  <2> QED
    BY <1>1, <1>4, <2>2, <2>3 DEF IncludesAt, q
<1>5. ASSUME step # IncludesKey, IncludesAt(p, l, n + 1), q[Len(p) + 1] = step
      PROVE  IncludesAt(a, l, n)
  <2>1. IsPrefix(a, q) /\ q[Len(q)] = IncludesKey
    BY <1>2, <1>5 DEF IncludesAt, q
  <2>2. a # q
    BY <1>1, <1>5, <2>1
  <2>3. \A i \in Len(a) + 1..Len(q) - 1 : i \in Len(p) + 1..Len(q) - 1
    BY <1>1
  <2>4. \A i \in Len(a) + 1..Len(q) - 1 : q[i] # IncludesKey
    BY <1>5, <2>3 DEF IncludesAt, q
  <2> QED
    BY <1>1, <1>3, <1>5, <2>1, <2>2, <2>4 DEF IncludesAt, q
<1>6. ASSUME step = IncludesKey, l.item \in {"text", "texts"}, q = a
      PROVE  IncludesAt(p, l, n + 1) /\ q[Len(p) + 1] = step
  <2>1. IsStrictPrefix(p, q) /\ q[Len(p) + 1] = step
    BY <1>2, <1>3, <1>6
  <2>2. Len(p) + 1..Len(q) - 1 = {} /\ Len(q) = Len(p) + 1
    BY <1>1, <1>6
  <2> QED
    BY <1>1, <1>6, <2>1, <2>2 DEF IncludesAt, q
<1>7. ASSUME step = IncludesKey, IncludesAt(p, l, n + 1), q[Len(p) + 1] = step
      PROVE  l.item \in {"text", "texts"} /\ q = a
  <2>1. IsPrefix(a, q) /\ ~(Len(p) + 1 \in Len(p) + 1..Len(q) - 1)
    BY <1>2, <1>7 DEF IncludesAt, q
  <2>2. ~IsStrictPrefix(a, q)
    BY <1>1, <1>3, <2>1
  <2> QED
    BY <1>3, <1>7, <2>1, <2>2 DEF IncludesAt
<1> QED
  BY <1>4, <1>5, <1>6, <1>7 DEF a, q

\* What the flags and the includes of a position's result say, with n levels left.
Flags(doc, p, n, r) ==
  /\ r.pruned <=> \E q \in Positions(doc) : Follows(p, q) /\ Len(q) = Len(p) + n
  /\ r.failed <=> \E l \in Range(doc) :
                    Follows(p, l.path) /\ Len(l.path) < Len(p) + n /\ l.item = "unsupported"
  /\ \A x : x \in Range(r.includes) <=> \E l \in Range(doc) : x = l.path /\ IncludesAt(p, l, n)

LEMMA LeafFlags ==
  ASSUME NEW doc \in Seq(Leaves), Grammatical(doc), NEW l \in Range(doc), NEW n \in Nat
  PROVE  Flags(doc, l.path, n + 1, Leaf(l.path, l.item))
<1> DEFINE p == l.path
           r == Leaf(p, l.item)
<1>1. p \in Paths /\ Len(p) \in Nat /\ l.item \in Items
  BY PositionsMeans, LeafAlone DEF Paths
<1>2. \A q \in Positions(doc) : ~IsStrictPrefix(p, q) /\ q \in Paths
  BY PositionsMeans, LeafAlone
<1>3. \A q \in Positions(doc) : Follows(p, q) => q = p
  BY <1>1, <1>2, PrefixOrder DEF Follows, Paths
<1>4. \A h \in Range(doc) : h.path \in Positions(doc)
  BY PositionsMeans
<1>5. \A h \in Range(doc) : h.path = p => h.item = l.item
  <2>1. \A h \in Range(doc) : h.path = p => h.item \in ItemsAt(doc, p)
    BY DEF ItemsAt
  <2> QED
    BY <2>1, LeafAlone
<1>6. /\ r.pruned = FALSE /\ r.includes = <<>>
      /\ r.failed <=> l.item = "unsupported"
  BY <1>1, LeafMeans
<1> HIDE DEF p, r
<1>7. Follows(p, p) /\ Len(p) # Len(p) + (n + 1) /\ Len(p) < Len(p) + (n + 1)
  BY <1>1, FollowsSelf
<1>8. r.pruned <=> \E q \in Positions(doc) : Follows(p, q) /\ Len(q) = Len(p) + (n + 1)
  BY <1>3, <1>6, <1>7
<1>9. r.failed <=> \E h \in Range(doc) :
                     Follows(p, h.path) /\ Len(h.path) < Len(p) + (n + 1) /\ h.item = "unsupported"
  BY <1>3, <1>4, <1>5, <1>6, <1>7 DEF p
<1>10. \A x : x \in Range(r.includes) <=> \E h \in Range(doc) : x = h.path /\ IncludesAt(p, h, n + 1)
  <2>1. Range(r.includes) = {}
    BY <1>6 DEF Range
  <2> QED
    BY <1>2, <1>4, <2>1 DEF IncludesAt
<1> QED
  BY <1>8, <1>9, <1>10 DEF Flags, p, r

LEMMA BelowFlags ==
  ASSUME NEW doc \in Seq(Leaves), Grammatical(doc), NEW p \in Positions(doc), ItemsAt(doc, p) = {},
         NEW n \in Nat, NEW visited \in [Positions(doc) -> Results],
         \A q \in Positions(doc) : Flags(doc, q, n, visited[q])
  PROVE  Flags(doc, p, n + 1, All(BelowAt(doc, p, visited)))
<1>1. PICK c \in Seq(Steps) : c = Children(doc, p)
  BY PositionsMeans, ChildrenMeans
<1>2. PICK b \in Seq(Results) : b = BelowAt(doc, p, visited) /\ Len(b) = Len(c)
  BY <1>1, PositionsMeans, BelowType
<1>3. p \in Paths /\ Len(p) \in Nat /\ DOMAIN c = 1..Len(c)
  BY PositionsMeans DEF Paths
<1>4. \A k \in 1..Len(c) : /\ c[k] \in Steps /\ Append(p, c[k]) \in Positions(doc) /\ Append(p, c[k]) \in Paths
                           /\ Len(Append(p, c[k])) = Len(p) + 1
  BY <1>1, <1>3, ChildPositions, AppendProperties DEF Paths
<1>5. \A q \in Positions(doc) : q \in Paths /\ (IsStrictPrefix(p, q) => \E k \in 1..Len(c) : q[Len(p) + 1] = c[k])
  <2>1. \A q \in Positions(doc) : q \in Paths
    BY PositionsMeans
  <2>2. \A q \in Positions(doc) : IsStrictPrefix(p, q) =>
          \E k \in DOMAIN Children(doc, p) : q[Len(p) + 1] = Children(doc, p)[k]
    BY <1>3, ChildPositions
  <2> QED
    BY <1>1, <1>3, <2>1, <2>2
<1>6. \A l \in Range(doc) : l \in Leaves /\ l.path \in Positions(doc) /\ l.path # p
  BY PositionsMeans DEF ItemsAt
<1>7. \A k \in 1..Len(c) :
        IF c[k] = IncludesKey THEN b[k] = Included(Append(p, c[k]), ItemsAt(doc, Append(p, c[k])))
        ELSE b[k] = visited[Append(p, c[k])]
  BY <1>1, <1>2, <1>3 DEF BelowAt
<1>8. PICK r \in Results : r = All(b)
  BY AllMeans
<1>9. /\ r.pruned <=> \E k \in 1..Len(c) : b[k].pruned
      /\ r.failed <=> \E k \in 1..Len(c) : b[k].failed
      /\ \A x : x \in Range(r.includes) <=> \E k \in 1..Len(c) : x \in Range(b[k].includes)
  <2>1. r.pruned <=> \E k \in 1..Len(b) : b[k].pruned
    BY <1>8, AllMeans
  <2>2. r.failed <=> \E k \in 1..Len(b) : b[k].failed
    BY <1>8, AllMeans
  <2>3. Range(r.includes) = UNION {Range(b[k].includes) : k \in 1..Len(b)}
    BY <1>8, AllMeans
  <2> QED
    BY <1>2, <2>1, <2>2, <2>3
<1>10. ASSUME NEW k \in 1..Len(c)
       PROVE  /\ b[k].pruned <=> \E q \in Positions(doc) :
                   IsStrictPrefix(p, q) /\ q[Len(p) + 1] = c[k] /\ Follows(p, q) /\ Len(q) = Len(p) + (n + 1)
              /\ b[k].failed <=> \E l \in Range(doc) :
                   /\ IsStrictPrefix(p, l.path) /\ l.path[Len(p) + 1] = c[k]
                   /\ Follows(p, l.path) /\ Len(l.path) < Len(p) + (n + 1) /\ l.item = "unsupported"
              /\ \A x : x \in Range(b[k].includes) <=> \E l \in Range(doc) :
                   x = l.path /\ IncludesAt(p, l, n + 1) /\ l.path[Len(p) + 1] = c[k]
  <2>1. CASE c[k] = IncludesKey
    <3> DEFINE a == Append(p, c[k])
    <3>1. /\ b[k].pruned = FALSE /\ b[k].failed = FALSE
          /\ Range(b[k].includes) = IF ItemsAt(doc, a) \cap {"text", "texts"} # {} THEN {a} ELSE {}
      <4>1. a \in Paths /\ b[k] = Included(a, ItemsAt(doc, a))
        BY <1>4, <1>7, <2>1
      <4> DEFINE items == ItemsAt(doc, a)
                 r1 == Included(a, items)
      <4>2. /\ r1.pruned = FALSE /\ r1.failed = FALSE
            /\ Range(r1.includes) = IF items \cap {"text", "texts"} # {} THEN {a} ELSE {}
        <5> HIDE DEF a, items
        <5> QED
          BY <4>1, IncludedMeans
      <4>3. b[k] = r1
        BY <4>1
      <4> HIDE DEF r1, a
      <4> QED
        BY <4>2, <4>3
    <3>2. \A q \in Paths : IsStrictPrefix(p, q) /\ q[Len(p) + 1] = c[k] => ~Follows(p, q)
      BY <2>1, <1>3, NextStep DEF Follows
    <3>3. \A x : x \in Range(b[k].includes) <=>
                   \E l \in Range(doc) : l.item \in {"text", "texts"} /\ l.path = a /\ x = l.path
      BY <3>1 DEF ItemsAt
    <3>4. \A l \in Range(doc) : (l.item \in {"text", "texts"} /\ l.path = a)
                                  <=> IncludesAt(p, l, n + 1) /\ l.path[Len(p) + 1] = c[k]
      BY <1>3, <1>4, <1>6, <2>1, IncludesStep
    <3> HIDE DEF a
    <3>5. \A x : x \in Range(b[k].includes) <=> \E l \in Range(doc) :
                   x = l.path /\ IncludesAt(p, l, n + 1) /\ l.path[Len(p) + 1] = c[k]
      BY <3>3, <3>4
    <3> QED
      BY <1>5, <1>6, <3>1, <3>2, <3>5
  <2>2. CASE c[k] # IncludesKey
    <3> DEFINE a == Append(p, c[k])
    <3>1. Flags(doc, a, n, b[k])
      BY <1>4, <1>7, <2>2
    <3>2. \A q \in Paths : Follows(a, q) <=> Follows(p, q) /\ IsStrictPrefix(p, q) /\ q[Len(p) + 1] = c[k]
      BY <1>3, <1>4, <2>2, FollowsStep
    <3>3. \A l \in Range(doc) : IncludesAt(a, l, n) <=> IncludesAt(p, l, n + 1) /\ l.path[Len(p) + 1] = c[k]
      BY <1>3, <1>4, <1>6, <2>2, IncludesStep
    <3>4. Len(a) + n = Len(p) + (n + 1)
      BY <1>3, <1>4
    <3> HIDE DEF a
    <3>5. b[k].pruned <=> \E q \in Positions(doc) :
            IsStrictPrefix(p, q) /\ q[Len(p) + 1] = c[k] /\ Follows(p, q) /\ Len(q) = Len(p) + (n + 1)
      BY <1>5, <3>1, <3>2, <3>4 DEF Flags
    <3>6. b[k].failed <=> \E l \in Range(doc) :
            /\ IsStrictPrefix(p, l.path) /\ l.path[Len(p) + 1] = c[k]
            /\ Follows(p, l.path) /\ Len(l.path) < Len(p) + (n + 1) /\ l.item = "unsupported"
      BY <1>5, <1>6, <3>1, <3>2, <3>4 DEF Flags
    <3>7. \A x : x \in Range(b[k].includes) <=> \E l \in Range(doc) :
            x = l.path /\ IncludesAt(p, l, n + 1) /\ l.path[Len(p) + 1] = c[k]
      BY <3>1, <3>3 DEF Flags
    <3> QED
      BY <3>5, <3>6, <3>7
  <2> QED
    BY <2>1, <2>2
<1>11. \A q \in Positions(doc) : Follows(p, q) /\ (q # p \/ Len(q) = Len(p) + (n + 1)) => IsStrictPrefix(p, q)
  <2>1. \A q \in Positions(doc) : Follows(p, q) => q = p \/ IsStrictPrefix(p, q)
    BY <1>3, <1>5, PrefixOrder DEF Follows, Paths
  <2>2. Len(p) # Len(p) + (n + 1)
    BY <1>3
  <2> QED
    BY <2>1, <2>2
<1>12. r.pruned <=> \E q \in Positions(doc) : Follows(p, q) /\ Len(q) = Len(p) + (n + 1)
  BY <1>5, <1>9, <1>10, <1>11
<1>13. r.failed <=> \E l \in Range(doc) :
                      Follows(p, l.path) /\ Len(l.path) < Len(p) + (n + 1) /\ l.item = "unsupported"
  BY <1>5, <1>6, <1>9, <1>10, <1>11
<1>14. \A x : x \in Range(r.includes) <=> \E l \in Range(doc) : x = l.path /\ IncludesAt(p, l, n + 1)
  <2>1. \A l \in Range(doc) : IncludesAt(p, l, n + 1) => \E k \in 1..Len(c) : l.path[Len(p) + 1] = c[k]
    BY <1>5, <1>6 DEF IncludesAt
  <2>2. \A k \in 1..Len(c) : \A x : x \in Range(b[k].includes) <=> \E l \in Range(doc) :
          x = l.path /\ IncludesAt(p, l, n + 1) /\ l.path[Len(p) + 1] = c[k]
    BY <1>10
  <2>3. \A x : x \in Range(r.includes) <=> \E k \in 1..Len(c) : x \in Range(b[k].includes)
    BY <1>9
  <2>4. ASSUME NEW x \in Range(r.includes)
        PROVE  \E l \in Range(doc) : x = l.path /\ IncludesAt(p, l, n + 1)
    <3>1. PICK k \in 1..Len(c) : x \in Range(b[k].includes)
      BY <2>3, <2>4
    <3> QED
      BY <2>2, <3>1
  <2>5. ASSUME NEW l \in Range(doc), IncludesAt(p, l, n + 1)
        PROVE  l.path \in Range(r.includes)
    <3>1. PICK k \in 1..Len(c) : l.path[Len(p) + 1] = c[k]
      BY <2>1, <2>5
    <3>2. l.path \in Range(b[k].includes)
      BY <2>2, <2>5, <3>1
    <3> QED
      BY <2>3, <3>2
  <2> QED
    BY <2>4, <2>5
<1> QED
  BY <1>2, <1>8, <1>12, <1>13, <1>14 DEF Flags

LEMMA ResultFlags ==
  ASSUME NEW doc \in Seq(Leaves), Grammatical(doc), NEW p \in Positions(doc),
         NEW n \in Nat, NEW visited \in [Positions(doc) -> Results],
         \A q \in Positions(doc) : Flags(doc, q, n, visited[q])
  PROVE  Flags(doc, p, n + 1, ResultAt(doc, p, visited))
<1>1. CASE ItemsAt(doc, p) # {}
  <2>1. PICK l \in Range(doc) : l.path = p
    BY <1>1 DEF ItemsAt
  <2>2. ItemsAt(doc, p) = {l.item}
    BY <2>1, LeafAlone
  <2>3. ResultAt(doc, p, visited) = Leaf(l.path, l.item)
    BY <2>1, <2>2 DEF ResultAt
  <2> QED
    BY <2>1, <2>3, LeafFlags
<1>2. CASE ItemsAt(doc, p) = {}
  <2> DEFINE b == BelowAt(doc, p, visited)
  <2>1. Flags(doc, p, n + 1, All(b))
    BY <1>2, BelowFlags
  <2>2. CASE Children(doc, p) # <<>> /\ IsElement(Children(doc, p)[1])
    <3>1. p \in Paths /\ Len(Children(doc, p)) <= Len(Elements)
      BY <2>2, PositionsMeans, ChildrenAreKeysOrTables
    <3>2. b \in Seq(Results) /\ Len(b) <= Len(Elements)
      BY <3>1, BelowType
    <3> HIDE DEF b
    <3>3. /\ Tables(p, b).pruned <=> All(b).pruned
          /\ Tables(p, b).failed <=> All(b).failed
          /\ Tables(p, b).includes = All(b).includes
      BY <3>1, <3>2, TablesMeans
    <3>4. Flags(doc, p, n + 1, Tables(p, b))
      BY <2>1, <3>3 DEF Flags
    <3> QED
      BY <1>2, <2>2, <3>4 DEF ResultAt, b
  <2>3. CASE ~(Children(doc, p) # <<>> /\ IsElement(Children(doc, p)[1]))
    BY <1>2, <2>1, <2>3 DEF ResultAt
  <2> QED
    BY <2>2, <2>3
<1> QED
  BY <1>1, <1>2

LEMMA NoLevelsFlags ==
  ASSUME NEW doc \in Seq(Leaves), NEW p \in Positions(doc)
  PROVE  Flags(doc, p, 0, [Nothing EXCEPT !.pruned = TRUE])
<1>1. PICK r : r = [Nothing EXCEPT !.pruned = TRUE] /\ r.pruned = TRUE /\ r.failed = FALSE /\ r.includes = <<>>
  BY PrunedMeans
<1>2. p \in Paths /\ Len(p) \in Nat /\ Follows(p, p)
  BY PositionsMeans, FollowsSelf DEF Paths
<1>3. \E q \in Positions(doc) : Follows(p, q) /\ Len(q) = Len(p) + 0
  BY <1>2
<1>4. \A l \in Range(doc) : l.path \in Paths /\ Len(l.path) \in Nat
  BY PositionsMeans DEF Paths
<1>5. ASSUME NEW l \in Range(doc), Follows(p, l.path)
      PROVE  ~(Len(l.path) < Len(p) + 0)
  <2>1. Len(p) <= Len(l.path)
    BY <1>2, <1>4, <1>5, PrefixMeans DEF Follows, Paths
  <2> QED
    BY <1>2, <1>4, <2>1
<1>6. ASSUME NEW l \in Range(doc), IncludesAt(p, l, 0)
      PROVE  FALSE
  <2>1. Len(p) < Len(l.path) /\ Len(l.path) <= Len(p) + 0
    BY <1>2, <1>4, <1>6, PrefixMeans DEF IncludesAt, Paths
  <2> QED
    BY <1>2, <1>4, <2>1
<1>7. Range(r.includes) = {}
  BY <1>1 DEF Range
<1> QED
  BY <1>1, <1>3, <1>5, <1>6, <1>7 DEF Flags

LEMMA CollectFlags ==
  ASSUME NEW doc \in Seq(Leaves), Grammatical(doc)
  PROVE  Collect(doc) \in Results /\ Flags(doc, <<>>, MaxDepth + 1, Collect(doc))
<1> DEFINE m == MaxDepth + 1
<1>1. PICK f : /\ f \in [0..m -> [Positions(doc) -> Results]]
               /\ f[0] = [p \in Positions(doc) |-> [Nothing EXCEPT !.pruned = TRUE]]
               /\ \A n \in 1..m : f[n] = [p \in Positions(doc) |-> ResultAt(doc, p, f[n - 1])]
               /\ Collect(doc) = f[m][<<>>]
  BY CollectUnfolds
<1>2. m \in Nat /\ <<>> \in Positions(doc)
  BY TomlAssumption DEF Positions
<1> HIDE DEF m
<1> DEFINE Flagged == {n \in Nat : n <= m => \A p \in Positions(doc) : Flags(doc, p, n, f[n][p])}
<1>3. 0 \in Flagged
  BY <1>1, NoLevelsFlags
<1>4. ASSUME NEW n \in Nat, n \in Flagged
      PROVE  n + 1 \in Flagged
  <2> SUFFICES ASSUME n + 1 <= m, NEW p \in Positions(doc)
               PROVE  Flags(doc, p, n + 1, f[n + 1][p])
    OBVIOUS
  <2>1. n + 1 \in 1..m /\ (n + 1) - 1 = n /\ n \in 0..m
    BY <1>2
  <2>2. f[n] \in [Positions(doc) -> Results] /\ \A q \in Positions(doc) : Flags(doc, q, n, f[n][q])
    BY <1>1, <1>4, <2>1
  <2>3. f[n + 1][p] = ResultAt(doc, p, f[n])
    <3>1. f[n + 1] = [q \in Positions(doc) |-> ResultAt(doc, q, f[n])]
      BY <1>1, <2>1
    <3> QED
      BY <3>1
  <2>4. Flags(doc, p, n + 1, ResultAt(doc, p, f[n]))
    BY <2>2, ResultFlags
  <2> QED
    BY <2>3, <2>4
<1>5. Nat \subseteq Flagged
  <2> HIDE DEF Flagged
  <2> QED
    BY <1>3, <1>4, NatSetInduction
<1>6. Flags(doc, <<>>, m, f[m][<<>>])
  BY <1>2, <1>5
<1> QED
  BY <1>1, <1>2, <1>6 DEF m

(***************************************************************************)
(* Where the values of a result are found.                                 *)
(***************************************************************************)

Above(p) == Front(Address(p))

LEMMA FrontAppend ==
  ASSUME NEW X, NEW s \in Seq(X), NEW x \in X
  PROVE  /\ Front(Append(s, x)) = s /\ Last(Append(s, x)) = x
         /\ Append(s, x) = s \o <<x>>
<1> DEFINE a == Append(s, x)
<1>1. /\ a \in Seq(X) /\ Len(a) = Len(s) + 1 /\ Len(s) \in Nat
      /\ a[Len(s) + 1] = x /\ \A i \in 1..Len(s) : a[i] = s[i]
  BY AppendProperties
<1> HIDE DEF a
<1>2. Last(a) = x
  BY <1>1 DEF Last
<1>3. Front(a) = SubSeq(a, 1, Len(s))
  BY <1>1 DEF Front
<1>4. SubSeq(a, 1, Len(s)) \in Seq(X) /\ Len(SubSeq(a, 1, Len(s))) = Len(s)
  BY <1>1, PrefixSubSeq
<1>5. \A i \in 1..Len(s) : SubSeq(a, 1, Len(s))[i] = a[i]
  BY <1>1
<1>6. SubSeq(a, 1, Len(s)) = s
  BY <1>1, <1>4, <1>5, SeqEqual
<1>7. a = s \o <<x>>
  BY AppendIsConcat DEF a
<1> QED
  BY <1>2, <1>3, <1>6, <1>7 DEF a

LEMMA FrontLast ==
  ASSUME NEW X, NEW a \in Seq(X), a # <<>>
  PROVE  Front(a) \in Seq(X) /\ Last(a) \in X /\ a = Append(Front(a), Last(a))
<1>1. PICK s \in Seq(X), x \in X : a = Append(s, x)
  BY SequenceEmptyOrAppend
<1> QED
  BY <1>1, FrontAppend

\* The key under which a position is stored is the last one of its address.
LEMMA KeyOfIsLast ==
  ASSUME NEW p \in Paths
  PROVE  KeyOf(p) = Last(Address(p))
<1> DEFINE ByLast == {q \in Paths : KeyOf(q) = Last(Address(q))}
<1>1. <<>> \in ByLast
  <2>1. <<>> \in Steps /\ <<>> \in Paths
    BY DEF Steps, Paths
  <2>2. KeyOf(<<>>) = <<>> /\ Address(<<>>) = <<<<>>>>
    BY <2>1, KeyOfAppend, AddressAppend
  <2>3. Last(<<<<>>>>) = <<>>
    BY DEF Last
  <2> QED
    BY <2>1, <2>2, <2>3
<1>2. ASSUME NEW q \in Seq(Steps), NEW step \in Steps, q \in ByLast
      PROVE  Append(q, step) \in ByLast
  <2>1. /\ Append(q, step) \in Paths /\ q \in Paths
        /\ KeyOf(q) \in Steps /\ Address(q) \in Seq(Steps) /\ Address(q) # <<>>
        /\ KeyOf(Append(q, step)) = Joined(KeyOf(q), step)
        /\ Address(Append(q, step)) = Extended(Address(q), step)
    BY KeyOfAppend, AddressAppend, AppendProperties DEF Paths, Addresses
  <2>2. CASE IsElement(step)
    <3> DEFINE a == Address(q)
    <3>1. Address(Append(q, step)) = a \o <<step, <<>>>>
      BY <2>1, <2>2 DEF Extended
    <3>2. <<step, <<>>>> \in Seq(Steps) /\ Len(<<step, <<>>>>) = 2 /\ <<step, <<>>>>[2] = <<>>
      BY DEF Steps
    <3> HIDE DEF a
    <3>3. a \in Seq(Steps) /\ Len(a) \in Nat
      BY <2>1 DEF a
    <3> DEFINE e == <<step, <<>>>>
    <3>4. e \in Seq(Steps) /\ Len(e) = 2 /\ e[2] = <<>>
      BY <3>2
    <3> HIDE DEF e
    <3>5. Len(a \o e) = Len(a) + 2 /\ (a \o e)[Len(a) + 2] = e[2]
      <4>1. /\ Len(a \o e) = Len(a) + Len(e)
            /\ \A i \in 1..Len(a) + Len(e) :
                 (a \o e)[i] = IF i <= Len(a) THEN a[i] ELSE e[i - Len(a)]
        BY <3>3, <3>4, ConcatProperties
      <4>2. /\ Len(a) + 2 \in 1..Len(a) + Len(e) /\ ~(Len(a) + 2 <= Len(a))
            /\ (Len(a) + 2) - Len(a) = 2
        BY <3>3, <3>4
      <4> QED
        BY <3>4, <4>1, <4>2
    <3>6. Last(a \o e) = <<>>
      BY <3>4, <3>5 DEF Last
    <3>7. Last(Address(Append(q, step))) = <<>>
      BY <3>1, <3>6 DEF e
    <3> QED
      BY <2>1, <2>2, <3>7 DEF Joined
  <2>3. CASE ~IsElement(step)
    <3>1. Address(Append(q, step)) = Append(Front(Address(q)), Last(Address(q)) \o step)
      BY <2>1, <2>3 DEF Extended
    <3>2. Front(Address(q)) \in Seq(Steps) /\ Last(Address(q)) \in Seq(Parts) /\ step \in Seq(Parts)
      BY <2>1, FrontLast DEF Steps
    <3>3. Last(Address(q)) \o step \in Steps
      BY <3>2, ConcatProperties DEF Steps
    <3>4. Last(Address(Append(q, step))) = Last(Address(q)) \o step
      BY <3>1, <3>2, <3>3, FrontAppend
    <3> QED
      BY <1>2, <2>1, <2>3, <3>4 DEF Joined
  <2> QED
    BY <2>2, <2>3
<1>3. Seq(Steps) \subseteq ByLast
  <2> HIDE DEF ByLast
  <2> QED
    BY <1>1, <1>2, SequenceSetInduction
<1> QED
  BY <1>3 DEF Paths

\* A key keeps what is above a position's key, and a table of an array adds the
\* position and its number.
LEMMA AddressParts ==
  ASSUME NEW p \in Paths, NEW step \in Steps
  PROVE  /\ KeyOf(p) \in Steps /\ Above(p) \in Seq(Steps) /\ Address(p) \in Seq(Steps)
         /\ Address(p) = Above(p) \o <<KeyOf(p)>>
         /\ ~IsElement(step) => Above(Append(p, step)) = Above(p)
         /\ IsElement(step) => Above(Append(p, step)) = Address(p) \o <<step>>
<1>1. KeyOf(p) \in Steps /\ Address(p) \in Seq(Steps) /\ Address(p) # <<>>
  BY KeyOfAppend, AddressAppend DEF Addresses, Paths
<1>2. Above(p) \in Seq(Steps) /\ Address(p) = Append(Above(p), KeyOf(p))
  BY <1>1, FrontLast, KeyOfIsLast DEF Above
<1>3. Address(p) = Above(p) \o <<KeyOf(p)>>
  BY <1>1, <1>2, FrontAppend
<1>4. Address(Append(p, step)) = Extended(Address(p), step)
  BY AddressAppend
<1>5. ASSUME ~IsElement(step)
      PROVE  Above(Append(p, step)) = Above(p)
  <2>1. Address(Append(p, step)) = Append(Above(p), Last(Address(p)) \o step)
    BY <1>4, <1>5 DEF Extended, Above
  <2>2. Last(Address(p)) \in Seq(Parts) /\ step \in Seq(Parts)
    BY <1>1, FrontLast DEF Steps
  <2>3. Last(Address(p)) \o step \in Steps
    BY <2>2, ConcatProperties DEF Steps
  <2> HIDE DEF Above
  <2>4. Front(Append(Above(p), Last(Address(p)) \o step)) = Above(p)
    BY <1>2, <2>3, FrontAppend
  <2> QED
    BY <2>1, <2>4 DEF Above
<1>6. ASSUME IsElement(step)
      PROVE  Above(Append(p, step)) = Address(p) \o <<step>>
  <2> DEFINE a == Address(p)
             none == <<>>
  <2>1. Address(Append(p, step)) = a \o <<step, none>>
    BY <1>4, <1>6 DEF Extended
  <2>2. none \in Steps
    BY DEF Steps
  <2> HIDE DEF a, none
  <2>3. a \in Seq(Steps)
    BY <1>1 DEF a
  <2>4. <<step>> \in Seq(Steps) /\ <<none>> \in Seq(Steps) /\ <<step, none>> = <<step>> \o <<none>>
    BY <2>2
  <2> DEFINE one == <<step>>
             two == <<none>>
  <2>5. a \o <<step, none>> = (a \o one) \o two /\ a \o one \in Seq(Steps)
    <3>1. one \in Seq(Steps) /\ two \in Seq(Steps) /\ <<step, none>> = one \o two
      BY <2>4
    <3> HIDE DEF one, two
    <3>2. a \o (one \o two) = (a \o one) \o two
      BY <2>3, <3>1, ConcatAssociative
    <3>3. a \o one \in Seq(Steps)
      BY <2>3, <3>1, ConcatProperties
    <3> QED
      BY <3>1, <3>2, <3>3
  <2>6. PICK b \in Seq(Steps) : b = a \o one
    BY <2>5
  <2>7. Front(b \o two) = b
    <3>1. Front(Append(b, none)) = b /\ Append(b, none) = b \o <<none>>
      BY <2>2, FrontAppend
    <3> QED
      BY <3>1
  <2> QED
    BY <2>1, <2>5, <2>6, <2>7 DEF Above, a
<1> QED
  BY <1>1, <1>2, <1>3, <1>5, <1>6

(***************************************************************************)
(* The values of a result: induction over the levels left.                 *)
(***************************************************************************)

\* Pairs of entries that share no place of the document.
Disjoint == {vw \in Entries \X Entries : \A d \in vw[1].value : \A e \in vw[2].value : d.from # e.from}

\* An entry among the values of p is what was found at q: its key is q's, and
\* the rest of it is found below q under this key.
Rooted(doc, p, n, v, q) ==
  /\ q \in Positions(doc) /\ IsPrefix(p, q) /\ q # <<>>
  /\ Address(q) = Above(p) \o <<v.key>>
  /\ \E e \in v.value : e.from = q
  /\ \A e \in v.value : /\ e.from \in Positions(doc) /\ IsPrefix(q, e.from) /\ Len(e.from) < Len(p) + n
                        /\ Address(e.from) = (Above(p) \o <<v.key>>) \o e.at

ShadowedIn(doc, path) ==
  \E q \in Positions(doc), n \in 1..Len(path) :
    q # SubSeq(path, 1, n) /\ Address(q) = Address(SubSeq(path, 1, n))

HoldsPath(values, path) == \E v \in Range(values) : \E e \in v.value : e.from = path

Convertible(p, l, n) == Follows(p, l.path) /\ Len(l.path) < Len(p) + n /\ l.item \notin {"empty", "unsupported"}

\* What the values of a position's result say, with n levels left.
Finds(doc, p, n, r) ==
  /\ \A v \in Range(r.values) : \E q : Rooted(doc, p, n, v, q)
  /\ Pairwise(r.values, Disjoint)
  /\ \A l \in Range(doc) : Convertible(p, l, n) => ShadowedIn(doc, l.path) \/ HoldsPath(r.values, l.path)

\* A value that another one of its key replaces is shadowed.
LEMMA ReplacedIsShadowed ==
  ASSUME NEW doc \in Seq(Leaves), NEW p, NEW n, NEW v, NEW w, NEW q, NEW s,
         Rooted(doc, p, n, v, q), Rooted(doc, p, n, w, s), v.key = w.key, <<v, w>> \in Disjoint,
         NEW e \in v.value
  PROVE  ShadowedIn(doc, e.from)
<1>1. /\ q \in Positions(doc) /\ s \in Positions(doc) /\ e.from \in Positions(doc)
      /\ q # <<>> /\ IsPrefix(q, e.from) /\ Address(q) = Address(s)
  BY DEF Rooted
<1>2. q \in Seq(Steps) /\ e.from \in Seq(Steps)
  BY <1>1, PositionsMeans DEF Paths
<1>3. q # s
  BY DEF Rooted, Disjoint
<1>4. Len(q) \in 1..Len(e.from) /\ q = SubSeq(e.from, 1, Len(q))
  <2>1. Len(q) \in 0..Len(e.from) /\ q = SubSeq(e.from, 1, Len(q))
    BY <1>1, <1>2, PrefixSubSeq
  <2>2. Len(q) # 0
    BY <1>1, <1>2, EmptySeq
  <2> QED
    BY <2>1, <2>2
<1> QED
  BY <1>1, <1>3, <1>4 DEF ShadowedIn

LEMMA LeafFinds ==
  ASSUME NEW doc \in Seq(Leaves), Grammatical(doc), NEW l \in Range(doc), NEW n \in Nat
  PROVE  Finds(doc, l.path, n + 1, Leaf(l.path, l.item))
<1> DEFINE p == l.path
           r == Leaf(p, l.item)
<1>1. /\ p \in Paths /\ p \in Positions(doc) /\ p # <<>> /\ Len(p) \in Nat
      /\ l.item \in Items /\ \A q \in Positions(doc) : ~IsStrictPrefix(p, q)
  BY PositionsMeans, LeafAlone DEF Paths
<1>2. \A h \in Range(doc) : Convertible(p, h, n + 1) => h.path = p /\ h.item = l.item
  <2>1. \A h \in Range(doc) : h.path \in Positions(doc) /\ h.path \in Seq(Steps)
    BY PositionsMeans DEF Paths
  <2>2. \A h \in Range(doc) : Follows(p, h.path) => h.path = p
    BY <1>1, <2>1, PrefixOrder DEF Follows, Paths
  <2>3. \A h \in Range(doc) : h.path = p => h.item \in ItemsAt(doc, p)
    BY DEF ItemsAt
  <2> QED
    BY <2>2, <2>3, LeafAlone DEF Convertible
<1>3. /\ l.item \in {"unsupported", "empty"} => r.values = <<>>
      /\ l.item \notin {"unsupported", "empty"} => r.values = <<Insertion(p, Here(p))>>
  BY <1>1, LeafMeans
<1> HIDE DEF p, r
<1>4. CASE l.item \in {"unsupported", "empty"}
  <2>1. r.values = <<>> /\ Range(r.values) = {} /\ Pairwise(r.values, Disjoint)
    BY <1>3, <1>4 DEF Range, Pairwise
  <2>2. \A h \in Range(doc) : ~Convertible(p, h, n + 1)
    BY <1>2, <1>4 DEF Convertible
  <2> QED
    BY <2>1, <2>2 DEF Finds, p, r
<1>5. CASE l.item \notin {"unsupported", "empty"}
  <2>1. PICK v \in Entries : v = Insertion(p, Here(p)) /\ v.key = KeyOf(p) /\ v.value = Here(p)
    <3>1. Here(p) \in SUBSET Places
      BY <1>1, HereType
    <3>2. /\ Insertion(p, Here(p)) \in Entries
          /\ Insertion(p, Here(p)).key = KeyOf(p) /\ Insertion(p, Here(p)).value = Here(p)
      BY <1>1, <3>1, InsertionType
    <3> QED
      BY <3>2
  <2>2. Range(r.values) = {v} /\ Pairwise(r.values, Disjoint)
    <3>1. r.values = <<v>>
      BY <1>3, <1>5, <2>1
    <3>2. Range(<<v>>) = {v} /\ Pairwise(<<v>>, Disjoint)
      BY SingleType
    <3> QED
      BY <3>1, <3>2
  <2>3. PICK here : here = [at |-> <<>>, from |-> p] /\ v.value = {here} /\ here.at = <<>> /\ here.from = p
    <3>1. \A x : x = [at |-> <<>>, from |-> p] => x.at = <<>> /\ x.from = p
      OBVIOUS
    <3>2. v.value = {[at |-> <<>>, from |-> p]}
      BY <2>1 DEF Here
    <3> QED
      BY <3>1, <3>2
  <2>4. Address(p) \in Seq(Steps) /\ Address(p) = Above(p) \o <<v.key>>
    <3>1. <<>> \in Steps
      BY DEF Steps
    <3> QED
      BY <1>1, <2>1, <3>1, AddressParts
  <2>5. Address(p) = (Above(p) \o <<v.key>>) \o <<>>
    BY <2>4, ConcatEmptySeq
  <2>6. Rooted(doc, p, n + 1, v, p)
    <3>1. IsPrefix(p, p) /\ Len(p) < Len(p) + (n + 1)
      BY <1>1, PrefixOrder DEF Paths
    <3> QED
      BY <1>1, <2>3, <2>4, <2>5, <3>1 DEF Rooted
  <2>7. HoldsPath(r.values, p)
    BY <2>2, <2>3 DEF HoldsPath
  <2> QED
    BY <1>2, <2>2, <2>6, <2>7 DEF Finds, p, r
<1> QED
  BY <1>4, <1>5

\* The results for the children, and the leaves that they find.
LEMMA BelowFinds ==
  ASSUME NEW doc \in Seq(Leaves), NEW p \in Positions(doc), ItemsAt(doc, p) = {},
         NEW n \in Nat, NEW visited \in [Positions(doc) -> Results],
         \A q \in Positions(doc) : Finds(doc, q, n, visited[q])
  PROVE  /\ \A k \in 1..Len(Children(doc, p)) :
              \/ /\ Children(doc, p)[k] = IncludesKey
                 /\ BelowAt(doc, p, visited)[k].values = <<>>
              \/ /\ Children(doc, p)[k] # IncludesKey
                 /\ Finds(doc, Append(p, Children(doc, p)[k]), n, BelowAt(doc, p, visited)[k])
         /\ \A l \in Range(doc) : Convertible(p, l, n + 1) =>
              \/ ShadowedIn(doc, l.path)
              \/ \E k \in 1..Len(Children(doc, p)) : HoldsPath(BelowAt(doc, p, visited)[k].values, l.path)
<1>1. PICK c \in Seq(Steps) : c = Children(doc, p)
  BY PositionsMeans, ChildrenMeans
<1>2. PICK b : b = BelowAt(doc, p, visited)
  OBVIOUS
<1>3. p \in Paths /\ Len(p) \in Nat /\ DOMAIN c = 1..Len(c)
  BY PositionsMeans DEF Paths
<1>4. \A k \in 1..Len(c) : c[k] \in Steps /\ Append(p, c[k]) \in Positions(doc) /\ Append(p, c[k]) \in Paths
  BY <1>1, <1>3, ChildPositions
<1>5. ASSUME NEW k \in 1..Len(c)
      PROVE  \/ c[k] = IncludesKey /\ b[k].values = <<>>
             \/ c[k] # IncludesKey /\ Finds(doc, Append(p, c[k]), n, b[k])
  <2>1. CASE c[k] = IncludesKey
    <3> DEFINE a == Append(p, c[k])
               items == ItemsAt(doc, a)
    <3>1. b[k] = Included(a, items)
      BY <1>1, <1>2, <1>3, <2>1 DEF BelowAt
    <3>2. a \in Paths
      BY <1>4
    <3> HIDE DEF a, items
    <3>3. Included(a, items).values = <<>>
      BY <3>2, IncludedMeans
    <3> QED
      BY <2>1, <3>1, <3>3
  <2>2. CASE c[k] # IncludesKey
    <3>1. b[k] = visited[Append(p, c[k])]
      BY <1>1, <1>2, <1>3, <2>2 DEF BelowAt
    <3> QED
      BY <1>4, <2>2, <3>1
  <2> QED
    BY <2>1, <2>2
<1>6. ASSUME NEW l \in Range(doc), Convertible(p, l, n + 1)
      PROVE  ShadowedIn(doc, l.path) \/ \E k \in 1..Len(c) : HoldsPath(b[k].values, l.path)
  <2>1. l.path \in Paths /\ l.path \in Positions(doc) /\ l.path # p
    BY PositionsMeans DEF ItemsAt
  <2>2. IsStrictPrefix(p, l.path) /\ Follows(p, l.path)
    BY <1>3, <1>6, <2>1, PrefixOrder DEF Convertible, Follows, Paths
  <2>3. PICK k \in 1..Len(c) : l.path[Len(p) + 1] = c[k]
    BY <1>1, <1>3, <2>1, <2>2, ChildPositions
  <2>4. c[k] # IncludesKey
    BY <1>3, <2>1, <2>2, <2>3, NextStep DEF Follows
  <2>5. Follows(Append(p, c[k]), l.path) /\ Len(Append(p, c[k])) = Len(p) + 1
    BY <1>3, <1>4, <2>1, <2>2, <2>3, <2>4, FollowsStep
  <2>6. Convertible(Append(p, c[k]), l, n)
    BY <1>3, <1>6, <2>5 DEF Convertible
  <2> QED
    BY <1>5, <2>4, <2>6 DEF Finds
<1> QED
  BY <1>1, <1>2, <1>5, <1>6

LEMMA KeysFind ==
  ASSUME NEW doc \in Seq(Leaves), NEW p \in Positions(doc), ItemsAt(doc, p) = {},
         NEW n \in Nat, NEW visited \in [Positions(doc) -> Results],
         \A q \in Positions(doc) : Finds(doc, q, n, visited[q]),
         \A k \in DOMAIN Children(doc, p) : ~IsElement(Children(doc, p)[k])
  PROVE  Finds(doc, p, n + 1, All(BelowAt(doc, p, visited)))
<1>1. PICK c : c = Children(doc, p) /\ c \in Seq(Steps) /\ Injective(c)
  BY PositionsMeans, ChildrenMeans
<1>2. PICK b \in Seq(Results) : b = BelowAt(doc, p, visited) /\ Len(b) = Len(c)
  BY <1>1, PositionsMeans, BelowType
<1>3. p \in Paths /\ p \in Seq(Steps) /\ Len(p) \in Nat /\ DOMAIN c = 1..Len(c) /\ Len(c) \in Nat
  BY <1>1, PositionsMeans DEF Paths
<1>4. \A k \in 1..Len(c) : /\ c[k] \in Steps /\ ~IsElement(c[k])
                           /\ Append(p, c[k]) \in Paths /\ Len(Append(p, c[k])) = Len(p) + 1
  BY <1>1, <1>3, ChildPositions, AppendProperties
<1>5. /\ \A k \in 1..Len(c) : \/ c[k] = IncludesKey /\ b[k].values = <<>>
                              \/ c[k] # IncludesKey /\ Finds(doc, Append(p, c[k]), n, b[k])
      /\ \A l \in Range(doc) : Convertible(p, l, n + 1) =>
           ShadowedIn(doc, l.path) \/ \E k \in 1..Len(c) : HoldsPath(b[k].values, l.path)
  BY <1>1, <1>2, BelowFinds
<1>6. \A k \in 1..Len(c) : b[k].values \in Seq(Entries)
  <2>1. \A k \in 1..Len(c) : b[k] \in Results
    BY <1>2
  <2> QED
    BY <2>1 DEF Results
<1>7. PICK r \in Results : r = All(b)
  BY AllMeans
<1>8. Range(r.values) = UNION {Range(b[k].values) : k \in 1..Len(c)}
  <2>1. Range(r.values) = UNION {Range(b[k].values) : k \in 1..Len(b)}
    BY <1>7, AllMeans
  <2> QED
    BY <1>2, <2>1
<1>9. ASSUME NEW k \in 1..Len(c), NEW v \in Range(b[k].values)
      PROVE  v \in Entries /\ \E q : Rooted(doc, Append(p, c[k]), n, v, q) /\ Rooted(doc, p, n + 1, v, q)
  <2>1. c[k] # IncludesKey
    <3>1. Range(<<>>) = {}
      BY DEF Range
    <3> QED
      BY <1>5, <1>9, <3>1
  <2> DEFINE a == Append(p, c[k])
  <2>2. PICK q : Rooted(doc, a, n, v, q)
    BY <1>5, <1>9, <2>1 DEF Finds
  <2>3. Above(a) = Above(p) /\ Len(a) + n = Len(p) + (n + 1) /\ a \in Seq(Steps)
    <3>1. a \in Seq(Steps) /\ Len(a) = Len(p) + 1
      BY <1>4 DEF Paths
    <3>2. Above(a) = Above(p)
      BY <1>3, <1>4, AddressParts
    <3> QED
      BY <1>3, <3>1, <3>2
  <2>4. IsPrefix(p, q)
    <3>1. q \in Seq(Steps) /\ IsPrefix(a, q)
      BY <2>2, PositionsMeans DEF Rooted, Paths
    <3>2. IsStrictPrefix(p, q)
      BY <1>3, <1>4, <3>1, PrefixAppend
    <3> QED
      BY <1>3, <3>1, <3>2, PrefixOrder
  <2>5. v \in Entries
    BY <1>6, <1>9, RangeOfSeq
  <2> HIDE DEF a
  <2>6. Rooted(doc, p, n + 1, v, q)
    BY <2>2, <2>3, <2>4 DEF Rooted
  <2> QED
    BY <2>2, <2>5, <2>6 DEF a
<1>10. \A v \in Range(r.values) : \E q : Rooted(doc, p, n + 1, v, q)
  <2> SUFFICES ASSUME NEW v \in Range(r.values)
               PROVE  \E q : Rooted(doc, p, n + 1, v, q)
    OBVIOUS
  <2>1. PICK k \in 1..Len(c) : v \in Range(b[k].values)
    BY <1>8
  <2> QED
    BY <1>9, <2>1
<1>11. ASSUME NEW k \in 1..Len(c), NEW v \in Range(b[k].values), NEW e \in v.value
       PROVE  e.from[Len(p) + 1] = c[k]
  <2>1. PICK q : Rooted(doc, Append(p, c[k]), n, v, q)
    BY <1>9
  <2>2. q \in Seq(Steps) /\ IsPrefix(Append(p, c[k]), q) /\ e.from \in Seq(Steps) /\ IsPrefix(q, e.from)
    BY <2>1, PositionsMeans DEF Rooted, Paths
  <2>3. IsPrefix(Append(p, c[k]), e.from)
    BY <1>4, <2>2, PrefixOrder DEF Paths
  <2> QED
    BY <1>3, <1>4, <2>2, <2>3, PrefixAppend
<1>12. Pairwise(r.values, Disjoint)
  <2>1. \A k \in 1..Len(b) : Pairwise(b[k].values, Disjoint)
    <3>1. Pairwise(<<>>, Disjoint)
      BY DEF Pairwise
    <3> QED
      BY <1>2, <1>5, <3>1 DEF Finds
  <2>2. ASSUME NEW k \in 1..Len(b), NEW h \in 1..Len(b), k < h,
               NEW x \in Range(b[k].values), NEW y \in Range(b[h].values)
        PROVE  <<x, y>> \in Disjoint
    <3>1. x \in Entries /\ y \in Entries
      BY <1>2, <1>9
    <3>2. c[k] # c[h]
      BY <1>1, <1>2, <1>3, <2>2 DEF Injective
    <3>3. \A d \in x.value : \A e \in y.value : d.from # e.from
      BY <1>2, <1>11, <3>2
    <3> QED
      BY <3>1, <3>3 DEF Disjoint
  <2>3. \A R : /\ \A k \in 1..Len(b) : Pairwise(b[k].values, R)
               /\ \A k, h \in 1..Len(b) : k < h =>
                    \A x \in Range(b[k].values), y \in Range(b[h].values) : <<x, y>> \in R
               => Pairwise(All(b).values, R)
    BY AllMeans
  <2> QED
    BY <1>7, <2>1, <2>2, <2>3
<1>13. \A l \in Range(doc) : Convertible(p, l, n + 1) => ShadowedIn(doc, l.path) \/ HoldsPath(r.values, l.path)
  <2>1. \A k \in 1..Len(c) : \A x : HoldsPath(b[k].values, x) => HoldsPath(r.values, x)
    BY <1>8 DEF HoldsPath
  <2> QED
    BY <1>5, <2>1
<1> QED
  BY <1>2, <1>7, <1>10, <1>12, <1>13 DEF Finds

\* What the values of a sequence hold is in the map of them, or shadowed.
LEMMA MapFinds ==
  ASSUME NEW doc \in Seq(Leaves), NEW p, NEW n, NEW values \in Seq(Entries), Pairwise(values, Disjoint),
         \A v \in Range(values) : \E q : Rooted(doc, p, n, v, q),
         NEW path, HoldsPath(values, path)
  PROVE  ShadowedIn(doc, path) \/ HoldsPath(IndexMap(values), path)
<1>1. PICK i \in DOMAIN values : \E e \in values[i].value : e.from = path
  BY DEF HoldsPath, Range
<1>2. PICK e \in values[i].value : e.from = path
  BY <1>1
<1>3. CASE values[i] \in Range(IndexMap(values))
  BY <1>2, <1>3 DEF HoldsPath
<1>4. CASE values[i] \notin Range(IndexMap(values))
  <2>1. PICK j \in DOMAIN values : i < j /\ values[j].key = values[i].key
    BY <1>4, IndexMapMeans
  <2>2. values[i] \in Range(values) /\ values[j] \in Range(values) /\ <<values[i], values[j]>> \in Disjoint
    BY <2>1 DEF Range, Pairwise
  <2>3. PICK q : Rooted(doc, p, n, values[i], q)
    BY <2>2
  <2>4. PICK s : Rooted(doc, p, n, values[j], s)
    BY <2>2
  <2>5. ShadowedIn(doc, e.from)
    BY <2>1, <2>2, <2>3, <2>4, ReplacedIsShadowed
  <2> QED
    BY <1>2, <2>5
<1> QED
  BY <1>3, <1>4

\* No array stands at the root of a document.
LEMMA RootHoldsKeys ==
  ASSUME NEW doc \in Seq(Leaves), NEW p \in Paths, Children(doc, p) # <<>>, IsElement(Children(doc, p)[1])
  PROVE  p # <<>>
<1>1. PICK c : c = Children(doc, p) /\ c \in Seq(Steps)
  BY ChildrenMeans
<1>2. c[1] \in Range(c)
  <2>1. c # <<>> /\ 1 \in DOMAIN c
    BY <1>1, EmptySeq
  <2> QED
    BY <2>1 DEF Range
<1>3. PICK l \in Range(doc) : c[1] = l.path[Len(p) + 1]
  BY <1>1, <1>2, ChildrenMeans
<1>4. l.path[1] \notin Range(Elements)
  BY PositionsMeans, TomlAssumption
<1>5. p = <<>> => Len(p) + 1 = 1
  OBVIOUS
<1> QED
  BY <1>1, <1>3, <1>4, <1>5 DEF IsElement

\* What a table's value holds is found below the array under its key and number.
LEMMA WithinAddress ==
  ASSUME NEW p \in Paths, NEW k \in 1..Len(Elements), NEW v \in Entries, NEW e \in v.value,
         Address(e.from) = (Above(Append(p, Elements[k])) \o <<v.key>>) \o e.at
  PROVE  Address(e.from) = (Above(p) \o <<KeyOf(p)>>) \o (<<Elements[k], v.key>> \o e.at)
<1>1. /\ Elements[k] \in Steps /\ IsElement(Elements[k]) /\ v.key \in Steps /\ e.at \in Seq(Steps)
      /\ Address(p) \in Seq(Steps)
  <2>1. Elements[k] \in Steps /\ IsElement(Elements[k])
    BY ElementsType
  <2>2. e \in Places /\ v.key \in Steps
    BY DEF Entries
  <2> QED
    BY <2>1, <2>2, AddressParts DEF Places
<1>2. PICK a \in Seq(Steps) : a = Address(p) /\ a = Above(p) \o <<KeyOf(p)>>
  BY <1>1, AddressParts
<1>3. Above(Append(p, Elements[k])) = a \o <<Elements[k]>>
  BY <1>1, <1>2, AddressParts
<1>4. PICK t \in Seq(Steps) : t = e.at
  BY <1>1
<1> DEFINE one == <<Elements[k]>>
           two == <<v.key>>
           both == <<Elements[k], v.key>>
<1>5. one \in Seq(Steps) /\ two \in Seq(Steps) /\ both = one \o two
  BY <1>1
<1>6. Address(e.from) = ((a \o one) \o two) \o t
  BY <1>3, <1>4
<1> HIDE DEF one, two, both
<1>7. (a \o one) \o two = a \o both /\ both \in Seq(Steps)
  BY <1>5, ConcatAssociative, ConcatProperties
<1>8. (a \o both) \o t = a \o (both \o t)
  BY <1>7, ConcatAssociative
<1> QED
  BY <1>2, <1>4, <1>6, <1>7, <1>8 DEF both

LEMMA TablesFind ==
  ASSUME NEW doc \in Seq(Leaves), Grammatical(doc), NEW p \in Positions(doc), ItemsAt(doc, p) = {},
         NEW n \in Nat, NEW visited \in [Positions(doc) -> Results],
         \A q \in Positions(doc) : Finds(doc, q, n, visited[q]),
         Children(doc, p) # <<>>, IsElement(Children(doc, p)[1])
  PROVE  Finds(doc, p, n + 1, Tables(p, BelowAt(doc, p, visited)))
<1>1. /\ p \in Paths /\ p \in Seq(Steps) /\ Len(p) \in Nat /\ p # <<>>
  BY PositionsMeans, RootHoldsKeys DEF Paths
<1>2. PICK c : /\ c = Children(doc, p) /\ c \in Seq(Steps) /\ Len(c) <= Len(Elements)
               /\ \A k \in DOMAIN c : c[k] = Elements[k]
  BY <1>1, ChildrenMeans, ChildrenAreKeysOrTables
<1>3. PICK b \in Seq(Results) : b = BelowAt(doc, p, visited) /\ Len(b) = Len(c)
  BY <1>1, <1>2, BelowType
<1>4. ASSUME NEW k \in 1..Len(c)
      PROVE  /\ k \in 1..Len(Elements) /\ c[k] = Elements[k] /\ c[k] # IncludesKey
             /\ Append(p, c[k]) \in Seq(Steps) /\ Len(Append(p, c[k])) = Len(p) + 1
             /\ \A q \in Seq(Steps) : IsPrefix(Append(p, c[k]), q) => IsPrefix(p, q)
             /\ b[k].values \in Seq(Entries)
  <2>1. k \in 1..Len(Elements) /\ c[k] = Elements[k] /\ c[k] \in Steps
    BY <1>2, ElementsType
  <2>2. c[k] # IncludesKey
    BY <2>1, ElementsType, TomlAssumption DEF IsElement
  <2>3. Append(p, c[k]) \in Seq(Steps) /\ Len(Append(p, c[k])) = Len(p) + 1
    BY <1>1, <2>1, AppendProperties
  <2>4. \A q \in Seq(Steps) : IsPrefix(Append(p, c[k]), q) => IsPrefix(p, q)
    BY <1>1, <2>1, PrefixAppend, PrefixOrder
  <2>5. b[k] \in Results
    BY <1>3
  <2>6. b[k].values \in Seq(Entries)
    BY <2>5 DEF Results
  <2> QED
    BY <2>1, <2>2, <2>3, <2>4, <2>6
<1>5. /\ \A k \in 1..Len(c) : Finds(doc, Append(p, c[k]), n, b[k])
      /\ \A l \in Range(doc) : Convertible(p, l, n + 1) =>
           ShadowedIn(doc, l.path) \/ \E k \in 1..Len(c) : HoldsPath(b[k].values, l.path)
  BY <1>2, <1>3, <1>4, BelowFinds
<1>6. /\ Tables(p, b).values = <<Insertion(p, TableValue(p, b))>>
      /\ TableValue(p, b) \in SUBSET Places
  BY <1>1, <1>2, <1>3, TablesMeans
<1>7. PICK r : r = Tables(p, b)
  OBVIOUS
<1>8. PICK v0 \in Entries : v0 = Insertion(p, TableValue(p, b)) /\ v0.key = KeyOf(p) /\ v0.value = TableValue(p, b)
  BY <1>1, <1>6, InsertionType
<1>9. r.values = <<v0>> /\ Range(r.values) = {v0} /\ Pairwise(r.values, Disjoint)
  <2>1. Range(<<v0>>) = {v0} /\ Pairwise(<<v0>>, Disjoint)
    BY SingleType
  <2> QED
    BY <1>6, <1>7, <1>8, <2>1
<1>10. DOMAIN b = 1..Len(c)
  BY <1>3
<1>11. Address(p) \in Seq(Steps) /\ Address(p) = Above(p) \o <<KeyOf(p)>>
  <2>1. <<>> \in Steps
    BY DEF Steps
  <2> QED
    BY <1>1, <2>1, AddressParts
<1>12. PICK here : here = [at |-> <<>>, from |-> p] /\ Here(p) = {here} /\ here.at = <<>> /\ here.from = p
  <2>1. \A x : x = [at |-> <<>>, from |-> p] => x.at = <<>> /\ x.from = p
    OBVIOUS
  <2> QED
    BY <2>1 DEF Here
<1>13. \A x : x \in v0.value <=>
         x = here \/ \E k \in 1..Len(c) : \E v \in Range(IndexMap(b[k].values)) : x \in Within(k, v)
  BY <1>8, <1>10, <1>12 DEF TableValue
<1>14. ASSUME NEW k \in 1..Len(c), NEW v \in Range(IndexMap(b[k].values)), NEW x \in Within(k, v)
       PROVE  /\ x.from \in Positions(doc) /\ IsPrefix(p, x.from) /\ Len(x.from) < Len(p) + (n + 1)
              /\ Address(x.from) = (Above(p) \o <<KeyOf(p)>>) \o x.at
  <2>1. v \in Range(b[k].values) /\ v \in Entries
    BY <1>4, <1>14, IndexMapMeans, RangeOfSeq
  <2> DEFINE a == Append(p, c[k])
  <2>2. PICK q : Rooted(doc, a, n, v, q)
    BY <1>5, <2>1 DEF Finds
  <2>3. PICK e \in v.value : x = [at |-> <<Elements[k], v.key>> \o e.at, from |-> e.from]
    BY <1>14 DEF Within
  <2>4. x.from = e.from /\ x.at = <<Elements[k], v.key>> \o e.at
    BY <2>3
  <2>5. /\ e.from \in Positions(doc) /\ IsPrefix(q, e.from) /\ IsPrefix(a, q) /\ q \in Positions(doc)
        /\ Len(e.from) < Len(a) + n /\ Address(e.from) = (Above(a) \o <<v.key>>) \o e.at
    BY <2>2 DEF Rooted
  <2>6. IsPrefix(p, e.from)
    <3>1. q \in Seq(Steps) /\ e.from \in Seq(Steps)
      BY <2>5, PositionsMeans DEF Paths
    <3>2. IsPrefix(p, q)
      BY <1>4, <2>5, <3>1
    <3> QED
      BY <1>1, <2>5, <3>1, <3>2, PrefixOrder
  <2>7. Len(e.from) < Len(p) + (n + 1)
    <3>1. Len(a) + n = Len(p) + (n + 1)
      BY <1>1, <1>4
    <3> QED
      BY <2>5, <3>1
  <2>8. Address(e.from) = (Above(p) \o <<KeyOf(p)>>) \o (<<Elements[k], v.key>> \o e.at)
    <3>1. Address(e.from) = (Above(Append(p, Elements[k])) \o <<v.key>>) \o e.at
      BY <1>4, <2>5
    <3>2. k \in 1..Len(Elements)
      BY <1>4
    <3> QED
      BY <1>1, <2>1, <3>1, <3>2, WithinAddress
  <2> QED
    BY <2>4, <2>5, <2>6, <2>7, <2>8
<1>15. Rooted(doc, p, n + 1, v0, p)
  <2>1. Address(p) = (Above(p) \o <<v0.key>>) \o <<>>
    BY <1>8, <1>11, ConcatEmptySeq
  <2>2. IsPrefix(p, p) /\ Len(p) < Len(p) + (n + 1)
    BY <1>1, PrefixOrder
  <2>3. here \in v0.value
    BY <1>13
  <2>4. ASSUME NEW x \in v0.value
        PROVE  /\ x.from \in Positions(doc) /\ IsPrefix(p, x.from) /\ Len(x.from) < Len(p) + (n + 1)
               /\ Address(x.from) = (Above(p) \o <<v0.key>>) \o x.at
    <3>1. CASE x = here
      BY <1>12, <2>1, <2>2, <3>1
    <3>2. CASE x # here
      BY <1>8, <1>13, <1>14, <3>2
    <3> QED
      BY <3>1, <3>2
  <2>5. Address(p) = Above(p) \o <<v0.key>>
    BY <1>8, <1>11
  <2> QED
    BY <1>1, <1>12, <2>2, <2>3, <2>4, <2>5 DEF Rooted
<1>16. ASSUME NEW l \in Range(doc), Convertible(p, l, n + 1)
       PROVE  ShadowedIn(doc, l.path) \/ HoldsPath(r.values, l.path)
  <2> SUFFICES ASSUME ~ShadowedIn(doc, l.path)
               PROVE  HoldsPath(r.values, l.path)
    OBVIOUS
  <2>1. PICK k \in 1..Len(c) : HoldsPath(b[k].values, l.path)
    BY <1>5, <1>16
  <2>2. HoldsPath(IndexMap(b[k].values), l.path)
    <3>1. /\ Pairwise(b[k].values, Disjoint)
          /\ \A v \in Range(b[k].values) : \E q : Rooted(doc, Append(p, c[k]), n, v, q)
      BY <1>5 DEF Finds
    <3> QED
      BY <1>4, <2>1, <3>1, MapFinds
  <2>3. PICK v \in Range(IndexMap(b[k].values)) : \E e \in v.value : e.from = l.path
    BY <2>2 DEF HoldsPath
  <2>4. PICK e \in v.value : e.from = l.path
    BY <2>3
  <2>5. PICK x : x = [at |-> <<Elements[k], v.key>> \o e.at, from |-> e.from]
    OBVIOUS
  <2>6. x \in Within(k, v) /\ x.from = l.path
    BY <2>4, <2>5 DEF Within
  <2>7. x \in v0.value
    BY <1>13, <2>6
  <2> QED
    BY <1>9, <2>6, <2>7 DEF HoldsPath
<1>17. Finds(doc, p, n + 1, r)
  BY <1>9, <1>15, <1>16 DEF Finds
<1> QED
  BY <1>3, <1>7, <1>17

LEMMA ResultFinds ==
  ASSUME NEW doc \in Seq(Leaves), Grammatical(doc), NEW p \in Positions(doc),
         NEW n \in Nat, NEW visited \in [Positions(doc) -> Results],
         \A q \in Positions(doc) : Finds(doc, q, n, visited[q])
  PROVE  Finds(doc, p, n + 1, ResultAt(doc, p, visited))
<1>1. CASE ItemsAt(doc, p) # {}
  <2>1. PICK l \in Range(doc) : l.path = p
    BY <1>1 DEF ItemsAt
  <2>2. ItemsAt(doc, p) = {l.item}
    BY <2>1, LeafAlone
  <2>3. ResultAt(doc, p, visited) = Leaf(l.path, l.item)
    BY <2>1, <2>2 DEF ResultAt
  <2> QED
    BY <2>1, <2>3, LeafFinds
<1>2. CASE ItemsAt(doc, p) = {} /\ Children(doc, p) # <<>> /\ IsElement(Children(doc, p)[1])
  <2>1. Finds(doc, p, n + 1, Tables(p, BelowAt(doc, p, visited)))
    BY <1>2, TablesFind
  <2> QED
    BY <1>2, <2>1 DEF ResultAt
<1>3. CASE ItemsAt(doc, p) = {} /\ ~(Children(doc, p) # <<>> /\ IsElement(Children(doc, p)[1]))
  <2>1. p \in Paths
    BY PositionsMeans
  <2>2. \A k \in DOMAIN Children(doc, p) : ~IsElement(Children(doc, p)[k])
    BY <1>3, <2>1, ChildrenAreKeysOrTables
  <2>3. Finds(doc, p, n + 1, All(BelowAt(doc, p, visited)))
    BY <1>3, <2>2, KeysFind
  <2> QED
    BY <1>3, <2>3 DEF ResultAt
<1> QED
  BY <1>1, <1>2, <1>3

LEMMA NoLevelsFind ==
  ASSUME NEW doc \in Seq(Leaves), NEW p \in Positions(doc)
  PROVE  Finds(doc, p, 0, [Nothing EXCEPT !.pruned = TRUE])
<1>1. PICK r : r = [Nothing EXCEPT !.pruned = TRUE] /\ r.values = <<>>
  BY PrunedMeans
<1>2. Range(r.values) = {} /\ Pairwise(r.values, Disjoint)
  BY <1>1 DEF Range, Pairwise
<1>3. p \in Seq(Steps) /\ Len(p) \in Nat /\ \A l \in Range(doc) : l.path \in Seq(Steps) /\ Len(l.path) \in Nat
  BY PositionsMeans DEF Paths
<1>4. ASSUME NEW l \in Range(doc)
      PROVE  ~Convertible(p, l, 0)
  <2>1. IsPrefix(p, l.path) => Len(p) <= Len(l.path)
    BY <1>3, PrefixMeans
  <2> QED
    BY <1>3, <2>1 DEF Convertible, Follows
<1> QED
  BY <1>1, <1>2, <1>4 DEF Finds

LEMMA CollectFinds ==
  ASSUME NEW doc \in Seq(Leaves), Grammatical(doc)
  PROVE  Finds(doc, <<>>, MaxDepth + 1, Collect(doc))
<1> DEFINE m == MaxDepth + 1
<1>1. PICK f : /\ f \in [0..m -> [Positions(doc) -> Results]]
               /\ f[0] = [p \in Positions(doc) |-> [Nothing EXCEPT !.pruned = TRUE]]
               /\ \A n \in 1..m : f[n] = [p \in Positions(doc) |-> ResultAt(doc, p, f[n - 1])]
               /\ Collect(doc) = f[m][<<>>]
  BY CollectUnfolds
<1>2. m \in Nat /\ <<>> \in Positions(doc)
  BY TomlAssumption DEF Positions
<1> HIDE DEF m
<1> DEFINE Found == {n \in Nat : n <= m => \A p \in Positions(doc) : Finds(doc, p, n, f[n][p])}
<1>3. 0 \in Found
  BY <1>1, NoLevelsFind
<1>4. ASSUME NEW n \in Nat, n \in Found
      PROVE  n + 1 \in Found
  <2> SUFFICES ASSUME n + 1 <= m, NEW p \in Positions(doc)
               PROVE  Finds(doc, p, n + 1, f[n + 1][p])
    OBVIOUS
  <2>1. n + 1 \in 1..m /\ (n + 1) - 1 = n /\ n \in 0..m
    BY <1>2
  <2>2. f[n] \in [Positions(doc) -> Results] /\ \A q \in Positions(doc) : Finds(doc, q, n, f[n][q])
    BY <1>1, <1>4, <2>1
  <2>3. f[n + 1][p] = ResultAt(doc, p, f[n])
    <3>1. f[n + 1] = [q \in Positions(doc) |-> ResultAt(doc, q, f[n])]
      BY <1>1, <2>1
    <3> QED
      BY <3>1
  <2>4. Finds(doc, p, n + 1, ResultAt(doc, p, f[n]))
    BY <2>2, ResultFinds
  <2> QED
    BY <2>3, <2>4
<1>5. Nat \subseteq Found
  <2> HIDE DEF Found
  <2> QED
    BY <1>3, <1>4, NatSetInduction
<1>6. Finds(doc, <<>>, m, f[m][<<>>])
  BY <1>2, <1>5
<1> QED
  BY <1>1, <1>2, <1>6 DEF m

(***************************************************************************)
(* The theorems.                                                           *)
(***************************************************************************)

\* A document is written by the grammar, and what was made of it stays so.
DocInv ==
  /\ document \in Seq(Leaves) /\ Grammatical(document)
  /\ stage \in {"writing", "loaded", "extracted"}
  /\ stage # "writing" => data = [Collect(document) EXCEPT !.values = IndexMap(@)]
  /\ stage = "extracted" => table = Subtree(data.values)

LEMMA InitDocInv == DocInit => DocInv
BY NothingWritten DEF DocInit, DocInv

LEMMA NextDocInv == DocInv /\ [DocNext]_docVars => DocInv'
<1> SUFFICES ASSUME DocInv, [DocNext]_docVars
             PROVE  DocInv'
  OBVIOUS
<1>1. CASE Write
  <2>1. stage = "writing" /\ stage' = "writing"
    BY <1>1 DEF Write
  <2>2. PICK leaf \in Leaves : Writable(leaf) /\ document' = Append(document, leaf)
    BY <1>1 DEF Write
  <2>3. Append(document, leaf) \in Seq(Leaves) /\ Grammatical(Append(document, leaf))
    BY <2>2, WriteKeepsGrammar DEF DocInv
  <2>4. document' \in Seq(Leaves) /\ Grammatical(document')
    BY <2>2, <2>3
  <2> QED
    BY <2>1, <2>4 DEF DocInv
<1>2. CASE Load
  BY <1>2 DEF Load, DocInv
<1>3. CASE Extract
  BY <1>3 DEF Extract, DocInv
<1>4. CASE UNCHANGED docVars
  BY <1>4 DEF docVars, DocInv
<1> QED
  BY <1>1, <1>2, <1>3, <1>4 DEF DocNext

\* The invariant that every other theorem about documents follows from.
THEOREM DocInvariance == DocSpec => []DocInv
<1>1. DocInit => DocInv
  BY InitDocInv
<1>2. DocInv /\ [DocNext]_docVars => DocInv'
  BY NextDocInv
<1> QED
  BY <1>1, <1>2, PTL DEF DocSpec

\* What was collected, and what data makes of it.
LEMMA DataMeans ==
  ASSUME DocInv, stage # "writing"
  PROVE  /\ Collect(document) \in Results
         /\ data.pruned <=> Collect(document).pruned
         /\ data.failed <=> Collect(document).failed
         /\ data.includes = Collect(document).includes
         /\ data.values = IndexMap(Collect(document).values)
         /\ data.values \in Seq(Entries)
<1>1. PICK r \in Results : r = Collect(document)
  BY CollectFlags DEF DocInv
<1>2. r.values \in Seq(Entries)
  BY DEF Results
<1>3. PICK values \in Seq(Entries) : values = IndexMap(r.values)
  BY <1>2, IndexMapMeans
<1>4. data = [r EXCEPT !.values = values]
  BY <1>1, <1>3 DEF DocInv
<1>5. /\ [r EXCEPT !.values = values].values = values
      /\ [r EXCEPT !.values = values].includes = r.includes
  BY DEF Results
<1>6. /\ [r EXCEPT !.values = values].pruned <=> r.pruned
      /\ [r EXCEPT !.values = values].failed <=> r.failed
  BY DEF Results
<1> QED
  BY <1>1, <1>3, <1>4, <1>5, <1>6

\* From the root, the traversal follows the paths of values.
LEMMA FollowsFromRoot ==
  ASSUME NEW q \in Paths, q # <<>>
  PROVE  Follows(<<>>, q) <=> IsValue(q)
<1>1. Len(q) \in Nat /\ Len(q) # 0 /\ Len(<<>>) = 0 /\ Last(q) = q[Len(q)]
  BY EmptySeq DEF Paths, Last
<1>2. IsPrefix(<<>>, q)
  BY PrefixOrder DEF Paths
<1>3. \A i \in Nat : i \in 0 + 1..Len(q) <=> i \in 1..Len(q) - 1 \/ i = Len(q)
  BY <1>1
<1>4. \A i : i \in 0 + 1..Len(q) <=> i \in 1..Len(q) - 1 \/ i = Len(q)
  BY <1>1
<1> QED
  BY <1>1, <1>2, <1>4 DEF Follows, IsValue, Followed

LEMMA LossFlagged == DocInv => LossIsFlagged
<1> SUFFICES ASSUME DocInv, stage # "writing"
             PROVE  LossIsFlagged
  BY DEF LossIsFlagged
<1>1. document \in Seq(Leaves) /\ Flags(document, <<>>, MaxDepth + 1, Collect(document))
  BY CollectFlags DEF DocInv
<1>2. MaxDepth \in Nat /\ Len(<<>>) = 0
  BY TomlAssumption
<1>3. \A q \in Positions(document) : q \in Paths /\ Len(q) \in Nat /\ (q = <<>> <=> Len(q) = 0)
  <2>1. \A q \in Positions(document) : q \in Paths
    BY <1>1, PositionsMeans
  <2> QED
    BY <2>1, EmptySeq DEF Paths
<1>4. \A l \in Range(document) : l.path \in Positions(document) /\ l.path # <<>>
  BY <1>1, PositionsMeans
<1>5. \A q \in Positions(document) : q # <<>> => (Follows(<<>>, q) <=> IsValue(q))
  BY <1>3, FollowsFromRoot
<1>6. data.failed <=> \E l \in Range(document) :
        Follows(<<>>, l.path) /\ Len(l.path) < Len(<<>>) + (MaxDepth + 1) /\ l.item = "unsupported"
  BY <1>1, DataMeans DEF Flags
<1>7. data.pruned <=> \E q \in Positions(document) :
        Follows(<<>>, q) /\ Len(q) = Len(<<>>) + (MaxDepth + 1)
  BY <1>1, DataMeans DEF Flags
<1>8. \A q \in Positions(document) :
        /\ Len(q) < Len(<<>>) + (MaxDepth + 1) <=> Len(q) <= MaxDepth
        /\ Len(q) = Len(<<>>) + (MaxDepth + 1) <=> Len(q) = MaxDepth + 1
        /\ Len(q) = MaxDepth + 1 => q # <<>>
  BY <1>2, <1>3
<1>9. data.failed <=> \E l \in Range(document) :
        /\ l.path \in {p \in Positions(document) \ {<<>>} : IsValue(p) /\ Len(p) <= MaxDepth}
        /\ l.item = "unsupported"
  BY <1>4, <1>5, <1>6, <1>8
<1>10. data.pruned <=> \E p \in Positions(document) : Len(p) = MaxDepth + 1 /\ IsValue(p)
  BY <1>5, <1>7, <1>8
<1> QED
  BY <1>9, <1>10 DEF LossIsFlagged

LEMMA SubtreeHeld == DocInv => SubtreeHoldsItsKeys
<1> SUFFICES ASSUME DocInv, stage = "extracted"
             PROVE  SubtreeHoldsItsKeys
  BY DEF SubtreeHoldsItsKeys
<1>1. PICK values \in Seq(Entries) : data.values = values
  BY DataMeans
<1>2. table = Subtree(values)
  BY <1>1 DEF DocInv
<1>3. Holds(table, {Subkey(v.key) : v \in {w \in Range(values) : IsStrictPrefix(Prefix, w.key)}})
  BY <1>2, SubtreeHolds
<1> QED
  BY <1>1, <1>3 DEF SubtreeHoldsItsKeys, Holds

LEMMA EverythingFound == DocInv => EverythingIsFound
<1> SUFFICES ASSUME DocInv, stage # "writing", ~data.failed
             PROVE  EverythingIsFound
  BY DEF EverythingIsFound, Loaded
<1>1. /\ document \in Seq(Leaves)
      /\ Flags(document, <<>>, MaxDepth + 1, Collect(document))
      /\ Finds(document, <<>>, MaxDepth + 1, Collect(document))
  BY CollectFlags, CollectFinds DEF DocInv
<1>2. PICK root : root = <<>> /\ root \in Paths /\ Len(root) = 0
  <2>1. <<>> \in Paths /\ Len(<<>>) = 0
    BY DEF Paths
  <2> QED
    BY <2>1
<1>3. MaxDepth \in Nat
  BY TomlAssumption
<1>4. \A l \in Range(document) : l.path \in Positions(document) /\ l.path # <<>> /\ l.path \in Paths
  BY <1>1, PositionsMeans
<1>5. \A l \in Range(document) : /\ Len(l.path) \in Nat
                                 /\ Len(l.path) < Len(root) + (MaxDepth + 1) <=> Len(l.path) <= MaxDepth
                                 /\ Len(l.path) <= Len(root) + (MaxDepth + 1) <=> Len(l.path) <= MaxDepth + 1
  BY <1>2, <1>3, <1>4 DEF Paths
<1>6. PICK values \in Seq(Entries) : values = Collect(document).values /\ data.values = IndexMap(values)
  BY DataMeans DEF Results
<1>7. /\ \A v \in Range(values) : \E q : Rooted(document, root, MaxDepth + 1, v, q)
      /\ Pairwise(values, Disjoint)
      /\ \A l \in Range(document) : Convertible(root, l, MaxDepth + 1) =>
           ShadowedIn(document, l.path) \/ HoldsPath(values, l.path)
  BY <1>1, <1>2, <1>6 DEF Finds
<1>8. Above(root) = <<>>
  <2>1. <<>> \in Steps
    BY DEF Steps
  <2>2. Address(root) = <<<<>>>>
    BY <1>2, <2>1, AddressAppend
  <2>3. Front(<<<<>>>>) = <<>>
    BY DEF Front
  <2> QED
    BY <2>2, <2>3 DEF Above
<1>9. ASSUME NEW v \in Range(data.values), NEW e \in v.value
      PROVE  /\ e.from \in Positions(document) /\ Len(e.from) <= MaxDepth
             /\ Address(e.from) = <<v.key>> \o e.at
  <2>1. v \in Range(values) /\ v \in Entries
    BY <1>6, <1>9, IndexMapMeans, RangeOfSeq
  <2>2. PICK q : Rooted(document, root, MaxDepth + 1, v, q)
    BY <1>7, <2>1
  <2>3. /\ e.from \in Positions(document) /\ Len(e.from) < Len(root) + (MaxDepth + 1)
        /\ Address(e.from) = (Above(root) \o <<v.key>>) \o e.at
    BY <2>2 DEF Rooted
  <2>4. Len(e.from) <= MaxDepth
    <3>1. Len(e.from) \in Nat
      BY <1>1, <2>3, PositionsMeans DEF Paths
    <3> QED
      BY <1>2, <1>3, <2>3, <3>1
  <2>5. <<>> \o <<v.key>> = <<v.key>>
    BY <2>1, ConcatEmptySeq DEF Entries
  <2> QED
    BY <1>8, <2>3, <2>4, <2>5
<1>10. ASSUME NEW l \in Range(document), IsValue(l.path), l.item # "empty", Len(l.path) <= MaxDepth
       PROVE  [address |-> Address(l.path), from |-> l.path] \in Stored \/ Shadowed(l.path)
  <2>1. Follows(root, l.path)
    BY <1>2, <1>4, <1>10, FollowsFromRoot
  <2>2. l.item # "unsupported"
    <3>1. data.failed <=> \E h \in Range(document) :
            Follows(<<>>, h.path) /\ Len(h.path) < Len(<<>>) + (MaxDepth + 1) /\ h.item = "unsupported"
      BY <1>1, DataMeans DEF Flags
    <3> QED
      BY <1>2, <1>5, <1>10, <2>1, <3>1
  <2>3. Convertible(root, l, MaxDepth + 1)
    BY <1>5, <1>10, <2>1, <2>2 DEF Convertible
  <2>4. ShadowedIn(document, l.path) \/ HoldsPath(data.values, l.path)
    BY <1>1, <1>6, <1>7, <2>3, MapFinds
  <2>5. ShadowedIn(document, l.path) => Shadowed(l.path)
    BY DEF ShadowedIn, Shadowed
  <2>6. ASSUME HoldsPath(data.values, l.path)
        PROVE  [address |-> Address(l.path), from |-> l.path] \in Stored
    <3>1. PICK v \in Range(data.values) : \E e \in v.value : e.from = l.path
      BY <2>6 DEF HoldsPath
    <3>2. PICK e \in v.value : e.from = l.path
      BY <3>1
    <3>3. Address(l.path) = <<v.key>> \o e.at
      BY <1>9, <3>2
    <3>4. [address |-> <<v.key>> \o e.at, from |-> e.from] \in Stored
      <4> DEFINE s == [address |-> <<v.key>> \o e.at, from |-> e.from]
                 of(w) == {[address |-> <<w.key>> \o d.at, from |-> d.from] : d \in w.value}
      <4>1. s \in of(v)
        OBVIOUS
      <4>2. Stored = UNION {of(w) : w \in Range(data.values)}
        BY DEF Stored
      <4> HIDE DEF s, of
      <4>3. s \in Stored
        BY <4>1, <4>2
      <4> QED
        BY <4>3 DEF s
    <3> QED
      BY <3>2, <3>3, <3>4
  <2> QED
    BY <2>4, <2>5, <2>6
<1>11. ASSUME NEW s \in Stored
       PROVE  s.from \in Positions(document) /\ s.address = Address(s.from) /\ Len(s.from) <= MaxDepth
  <2>1. PICK v \in Range(data.values) : \E e \in v.value : s = [address |-> <<v.key>> \o e.at, from |-> e.from]
    BY DEF Stored
  <2>2. PICK e \in v.value : s = [address |-> <<v.key>> \o e.at, from |-> e.from]
    BY <2>1
  <2> QED
    BY <1>9, <2>2
<1>12. Range(data.includes) =
         {l.path : l \in {m \in Range(document) :
                            /\ Followed(m.path) /\ Last(m.path) = IncludesKey
                            /\ m.item \in {"text", "texts"} /\ Len(m.path) <= MaxDepth + 1}}
  <2>1. \A x : x \in Range(data.includes) <=>
                 \E l \in Range(document) : x = l.path /\ IncludesAt(root, l, MaxDepth + 1)
    BY <1>1, <1>2, DataMeans DEF Flags
  <2>2. ASSUME NEW l \in Range(document)
        PROVE  IncludesAt(root, l, MaxDepth + 1) <=>
                 /\ Followed(l.path) /\ Last(l.path) = IncludesKey
                 /\ l.item \in {"text", "texts"} /\ Len(l.path) <= MaxDepth + 1
    <3>1. IsStrictPrefix(root, l.path)
      BY <1>2, <1>4, PrefixOrder DEF Paths, IsStrictPrefix
    <3>2. Len(root) + 1 = 1 /\ Last(l.path) = l.path[Len(l.path)]
      BY <1>2 DEF Last
    <3> QED
      BY <1>5, <3>1, <3>2 DEF IncludesAt, Followed
  <2> QED
    BY <2>1, <2>2
<1> QED
  BY <1>10, <1>11, <1>12 DEF EverythingIsFound

\* Every leaf of a document within the depth is found under its joined key or
\* shadowed by another place of the same key, and nothing else is stored.
THEOREM EveryValueIsFound == DocSpec => []EverythingIsFound
<1>1. DocInv => EverythingIsFound
  BY EverythingFound
<1> QED
  BY <1>1, DocInvariance, PTL

\* A load is marked as pruned exactly when something lies below the depth.
THEOREM PruningIsFlagged == DocSpec => []LossIsFlagged
<1>1. DocInv => LossIsFlagged
  BY LossFlagged
<1> QED
  BY <1>1, DocInvariance, PTL

\* Values under the prefix reach the extracted table unless their keys conflict.
THEOREM SubtreeIsExtracted == DocSpec => []SubtreeHoldsItsKeys
<1>1. DocInv => SubtreeHoldsItsKeys
  BY SubtreeHeld
<1> QED
  BY <1>1, DocInvariance, PTL

--------------------------------------------------------------------------------
(***************************************************************************)
(* The merge of the layers.                                                *)
(***************************************************************************)

\* The entry of a key before the layers up to idx are merged.
Entry(k) ==
  LET entry == preliminary[k] IN
  /\ ~Occupied(entry) => \A n \in idx + 1 .. Len(layers): ~Defines(n, k)
  /\ Occupied(entry) => entry.source \in idx + 1 .. Len(layers) /\ Wins(entry.source, k, idx)

\* A permission is that of a merged layer which used #redef, and the layer
\* merged last has given one if it did and another layer's value stayed.
Permission(k) ==
  LET entry == preliminary[k] IN
  /\ entry.redef_allowed_by # None =>
       /\ entry.redef_allowed_by \in idx + 1 .. Len(layers)
       /\ Sets(entry.redef_allowed_by, k, "redef")
  /\ (/\ Occupied(entry)
      /\ entry.source # idx + 1
      /\ idx < Len(layers)
      /\ Sets(idx + 1, k, "redef")) => entry.redef_allowed_by = idx + 1

\* A merged layer whose key a higher merged layer has fixed is reported.
Reported(k) ==
  \A n \in idx + 1 .. Len(layers): \A m \in idx + 1 .. n - 1:
    Defines(n, k) /\ Fixes(m, k) => \E w \in warnings: Reports(w, n, k)

IInv ==
  /\ TypeOK
  /\ \A k \in Keys: Entry(k) /\ Permission(k) /\ Reported(k)
  /\ EffectiveValue
  /\ LossIsReported

Plain(w) == w \in {<<"plain">>, <<"plain", "redef">>, <<"redef", "plain">>}
Redef(w) == w \in {<<"redef">>, <<"plain", "redef">>, <<"redef", "plain">>}

\* What a writing contains, by cases.
LEMMA WritingCases ==
  ASSUME NEW w \in AllWritings
  PROVE  /\ (\E i \in DOMAIN w: w[i] = "plain") <=> Plain(w)
         /\ (\E i \in DOMAIN w: w[i] = "redef") <=> Redef(w)
<1>1. CASE w = <<>>
  BY <1>1 DEF Plain, Redef
<1>2. CASE w = <<"plain">>
  BY <1>2 DEF Plain, Redef
<1>3. CASE w = <<"redef">>
  BY <1>3 DEF Plain, Redef
<1>4. CASE w = <<"plain", "redef">>
  <2>1. DOMAIN w = 1..2 /\ w[1] = "plain" /\ w[2] = "redef"
    BY <1>4
  <2> QED
    BY <1>4, <2>1 DEF Plain, Redef
<1>5. CASE w = <<"redef", "plain">>
  <2>1. DOMAIN w = 1..2 /\ w[1] = "redef" /\ w[2] = "plain"
    BY <1>5
  <2> QED
    BY <1>5, <2>1 DEF Plain, Redef
<1> QED
  BY <1>1, <1>2, <1>3, <1>4, <1>5 DEF AllWritings

\* What merging a layer does to the entry of a key.
LEMMA MergedIs ==
  ASSUME NEW entry \in Resolved, NEW w \in AllWritings, NEW n \in 1..MaxLayers
  PROVE  /\ Merged(entry, w, n) \in Resolved
         /\ Merged(entry, w, n).source =
              IF Plain(w) \/ (Redef(w) /\ ~Occupied(entry)) THEN n ELSE entry.source
         /\ Merged(entry, w, n).redef_allowed_by =
              IF Redef(w) /\ (Occupied(entry) \/ w = <<"plain", "redef">>)
              THEN n ELSE entry.redef_allowed_by
<1> USE KeysAssumption
<1>0. n \in Numbers /\ n # None
  BY DEF Numbers, None
<1> USE DEF Merged, Set, SetPlain, SetRedef, Occupied, Resolved, Plain, Redef
<1>1. CASE w = <<>>
  BY <1>1
<1>2. CASE w = <<"plain">>
  <2>1. Merged(entry, w, n) = [entry EXCEPT !.source = n]
    BY <1>2
  <2> QED
    BY <1>0, <1>2, <2>1
<1>3. CASE w = <<"redef">>
  <2>1. Merged(entry, w, n) = IF entry.source # None
                              THEN [entry EXCEPT !.redef_allowed_by = n]
                              ELSE [entry EXCEPT !.source = n]
    BY <1>3
  <2> QED
    BY <1>0, <1>3, <2>1
<1>4. CASE w = <<"plain", "redef">>
  <2>1. Merged(entry, w, n) = [entry EXCEPT !.source = n, !.redef_allowed_by = n]
    BY <1>0, <1>4
  <2> QED
    BY <1>0, <1>4, <2>1
<1>5. CASE w = <<"redef", "plain">>
  <2>1. CASE entry.source # None
    <3>1. SetRedef(entry, n) = [entry EXCEPT !.redef_allowed_by = n]
      BY <2>1
    <3>2. Set(entry, "redef", n) = [source |-> entry.source, redef_allowed_by |-> n]
      BY <3>1
    <3>3. Merged(entry, w, n) = Set(Set(entry, "redef", n), "plain", n)
      BY <1>5
    <3>4. Merged(entry, w, n) = [source |-> n, redef_allowed_by |-> n]
      BY <3>2, <3>3
    <3> QED
      BY <1>0, <1>5, <2>1, <3>4
  <2>2. CASE entry.source = None
    <3>1. Merged(entry, w, n) = [source |-> n, redef_allowed_by |-> entry.redef_allowed_by]
      BY <1>0, <1>5, <2>2
    <3> QED
      BY <1>0, <1>5, <2>2, <3>1
  <2> QED
    BY <2>1, <2>2
<1> QED
  BY <1>1, <1>2, <1>3, <1>4, <1>5 DEF AllWritings

LEMMA InitIInv == Init => IInv
<1> SUFFICES ASSUME Init PROVE IInv
  OBVIOUS
<1> USE KeysAssumption DEF Init
<1>1. PICK n \in 1..MaxLayers: layers \in [1..n -> [Keys -> Writings]]
  OBVIOUS
<1>2. Len(layers) = n /\ layers \in Seq([Keys -> Writings])
  BY <1>1
<1>3. TypeOK
  <2>1. preliminary \in [Keys -> Resolved]
    BY DEF Unresolved, Resolved, Numbers, None
  <2> QED
    BY <1>2, <2>1 DEF TypeOK
<1>4. ASSUME NEW k \in Keys PROVE Entry(k) /\ Permission(k) /\ Reported(k)
  BY <1>2, <1>4 DEF Entry, Permission, Reported, Occupied, Unresolved
<1> QED
  BY <1>3, <1>4 DEF IInv, EffectiveValue, LossIsReported

\* A key of the layer about to be merged.
LEMMA MergeLayerEntry ==
  ASSUME IInv, MergeLayer, NEW k \in Keys
  PROVE  (Entry(k) /\ Permission(k))'
<1>a. PICK n: n = idx
  OBVIOUS
<1>b. PICK e: e = preliminary[k]
  OBVIOUS
<1> DEFINE w == layers[n][k]
           m == preliminary'[k]
<1> USE <1>a, <1>b, KeysAssumption
<1>1. /\ n \in 1..Len(layers) /\ Len(layers) \in 1..MaxLayers
      /\ w \in AllWritings /\ e \in Resolved
  BY DEF IInv, TypeOK, MergeLayer
<1>2. m = Merged(e, w, n) /\ idx' = n - 1 /\ layers' = layers
  BY DEF MergeLayer
<1>3. /\ m.source = IF Plain(w) \/ (Redef(w) /\ ~Occupied(e)) THEN n ELSE e.source
      /\ m.redef_allowed_by = IF Redef(w) /\ (Occupied(e) \/ w = <<"plain", "redef">>)
                              THEN n ELSE e.redef_allowed_by
  <2>1. n \in 1..MaxLayers
    BY <1>1
  <2> HIDE DEF w
  <2> QED
    BY <1>1, <1>2, <2>1, MergedIs
<1>4. (Sets(n, k, "plain") <=> Plain(w)) /\ (Sets(n, k, "redef") <=> Redef(w))
  BY <1>1, WritingCases DEF Sets
<1>5. \A j, s: Sets(j, k, s)' <=> Sets(j, k, s)
  BY <1>2 DEF Sets
<1>6. Entry(k) /\ Permission(k)
  BY DEF IInv
<1>7. n # None /\ n - 1 + 1 = n /\ n \in Nat /\ Len(layers) \in Nat
  BY <1>1 DEF None
<1> HIDE DEF w
<1>8. Entry(k)'
  <2>1. CASE Plain(w) \/ (Redef(w) /\ ~Occupied(e))
    <3>1. m.source = n
      BY <1>3, <2>1
    <3>2. Redef(w) /\ ~Plain(w) => \A j \in n + 1 .. Len(layers): ~Defines(j, k)
      BY <1>6, <2>1 DEF Entry
    <3>3. Wins(n, k, n - 1)'
      BY <1>1, <1>2, <1>4, <1>5, <1>7, <2>1, <3>2 DEF Wins, Defines, Fixes
    <3> QED
      BY <1>1, <1>2, <1>7, <3>1, <3>3 DEF Entry, Occupied
  <2>2. CASE ~Plain(w) /\ ~Redef(w)
    <3>1. m.source = e.source /\ ~Defines(n, k)
      BY <1>3, <1>4, <2>2 DEF Defines
    <3>2. \A j \in n .. Len(layers): j = n \/ j \in n + 1 .. Len(layers)
      BY <1>7
    <3>3. ~Occupied(e) => Entry(k)'
      BY <1>2, <1>5, <1>6, <1>7, <3>1, <3>2 DEF Entry, Occupied, Defines
    <3>4. ASSUME Occupied(e) PROVE Entry(k)'
      <4>1. e.source \in n + 1 .. Len(layers) /\ Wins(e.source, k, n)
        BY <1>6, <3>4 DEF Entry
      <4>2. Wins(e.source, k, n - 1)'
        BY <1>2, <1>5, <1>7, <3>1, <4>1 DEF Wins, Defines, Fixes
      <4> QED
        BY <1>2, <1>7, <3>1, <3>4, <4>1, <4>2 DEF Entry, Occupied
    <3> QED
      BY <3>3, <3>4
  <2>3. CASE ~Plain(w) /\ Redef(w) /\ Occupied(e)
    <3>1. m.source = e.source /\ ~Fixes(n, k)
      BY <1>3, <1>4, <2>3 DEF Fixes
    <3>2. e.source \in n + 1 .. Len(layers) /\ Wins(e.source, k, n)
      BY <1>6, <2>3 DEF Entry
    <3>3. Wins(e.source, k, n - 1)'
      BY <1>2, <1>5, <1>7, <3>1, <3>2 DEF Wins, Defines, Fixes
    <3> QED
      BY <1>2, <1>7, <2>3, <3>1, <3>2, <3>3 DEF Entry, Occupied
  <2> QED
    BY <2>1, <2>2, <2>3
<1>9. Permission(k)'
  <2>1. ASSUME m.redef_allowed_by # None
        PROVE  m.redef_allowed_by \in n .. Len(layers) /\ Sets(m.redef_allowed_by, k, "redef")
    <3>1. CASE Redef(w) /\ (Occupied(e) \/ w = <<"plain", "redef">>)
      BY <1>1, <1>3, <1>4, <3>1
    <3>2. CASE ~(Redef(w) /\ (Occupied(e) \/ w = <<"plain", "redef">>))
      BY <1>3, <1>6, <1>7, <2>1, <3>2 DEF Permission
    <3> QED
      BY <3>1, <3>2
  <2>2. ASSUME m.source # None, m.source # n, Sets(n, k, "redef")
        PROVE  m.redef_allowed_by = n
    BY <1>3, <1>4, <2>2 DEF Occupied
  <2> QED
    BY <1>2, <1>5, <1>7, <2>1, <2>2 DEF Permission, Occupied
<1> QED
  BY <1>8, <1>9

\* What is in the table when a layer has set the key: that layer's value, or the
\* one of a higher layer that fixed the key and had the loss reported.
LEMMA TableOrReported ==
  ASSUME IInv, NEW k \in Keys, NEW n \in idx + 1 .. Len(layers), Defines(n, k)
  PROVE  /\ Occupied(preliminary[k])
         /\ Fixes(n, k) /\ preliminary[k].source # n => \E w \in warnings: Reports(w, n, k)
<1> DEFINE s == preliminary[k].source
<1>1. idx \in Nat /\ Len(layers) \in Nat
  BY DEF IInv, TypeOK
<1>2. Occupied(preliminary[k]) /\ s \in idx + 1 .. Len(layers) /\ Wins(s, k, idx)
  BY DEF IInv, Entry
<1>3. ASSUME Fixes(n, k), s # n
      PROVE  s \in idx + 1 .. n - 1 /\ Fixes(s, k)
  <2>1. ~(n \in idx + 1 .. s - 1)
    BY <1>2, <1>3 DEF Wins
  <2>2. s < n
    BY <1>1, <1>2, <1>3, <2>1
  <2>3. n \in s + 1 .. Len(layers)
    BY <1>1, <1>2, <2>2
  <2> QED
    BY <1>1, <1>2, <2>2, <2>3 DEF Wins
<1> QED
  BY <1>2, <1>3 DEF IInv, Reported

\* The layer about to be merged, as one that fixes a key or as one that defines it.
LEMMA MergeLayerReported ==
  ASSUME IInv, MergeLayer, NEW k \in Keys
  PROVE  Reported(k)'
<1> USE KeysAssumption
<1>1. /\ idx \in 1..Len(layers) /\ Len(layers) \in Nat
      /\ idx' = idx - 1 /\ layers' = layers
      /\ warnings \subseteq warnings' /\ Overwrites(idx) \subseteq warnings'
  BY DEF IInv, TypeOK, MergeLayer
<1>2. \A j: (Defines(j, k)' <=> Defines(j, k)) /\ (Fixes(j, k)' <=> Fixes(j, k))
  BY <1>1 DEF Defines, Fixes, Sets
<1>3. SUFFICES ASSUME NEW n \in idx .. Len(layers), NEW m \in idx .. n - 1,
                      Defines(n, k), Fixes(m, k)
               PROVE  \E w \in warnings': Reports(w, n, k)
  BY <1>1, <1>2 DEF Reported, Reports
<1>4. n \in idx + 1 .. Len(layers)
  BY <1>1
<1>5. CASE m # idx
  <2>1. m \in idx + 1 .. n - 1
    BY <1>1, <1>5
  <2>2. \E w \in warnings: Reports(w, n, k)
    BY <1>3, <1>4, <2>1 DEF IInv, Reported
  <2> QED
    BY <1>1, <2>2
<1>6. CASE m = idx
  <2>1. Occupied(preliminary[k])
    BY <1>3, <1>4, TableOrReported
  <2>2. PICK w: w = [key |-> k, source |-> preliminary[k].source]
    OBVIOUS
  <2>3. w \in warnings'
    BY <1>1, <1>3, <1>6, <2>1, <2>2 DEF Overwrites, Fixes
  <2>4. CASE Fixes(n, k) => preliminary[k].source = n
    BY <2>2, <2>3, <2>4 DEF Reports
  <2>5. CASE Fixes(n, k) /\ preliminary[k].source # n
    BY <1>1, <1>3, <1>4, <2>5, TableOrReported
  <2> QED
    BY <2>4, <2>5
<1> QED
  BY <1>5, <1>6

LEMMA MergeLayerIInv == IInv /\ MergeLayer => IInv'
<1> SUFFICES ASSUME IInv, MergeLayer PROVE IInv'
  OBVIOUS
<1> USE KeysAssumption
<1>1. idx \in 1..Len(layers) /\ Len(layers) \in 1..MaxLayers /\ final = <<>>
  BY DEF IInv, TypeOK, MergeLayer
<1>2. preliminary' \in [Keys -> Resolved]
  <2>1. ASSUME NEW k \in Keys
        PROVE  layers[idx][k] \in AllWritings /\ preliminary[k] \in Resolved
    <3>1. layers[idx] \in [Keys -> Writings]
      BY <1>1 DEF IInv, TypeOK
    <3> QED
      BY <2>1, <3>1 DEF IInv, TypeOK
  <2>2. idx \in 1..MaxLayers
    BY <1>1
  <2> QED
    BY <2>1, <2>2, MergedIs DEF MergeLayer
<1>3. warnings' \subseteq [key: Keys, source: Numbers]
  <2>1. \A k \in Keys: preliminary[k].source \in Numbers
    BY DEF IInv, TypeOK, Resolved
  <2>2. idx \in Numbers
    BY <1>1 DEF Numbers
  <2> QED
    BY <2>1, <2>2 DEF IInv, TypeOK, MergeLayer, Overwrites
<1>4. TypeOK'
  BY <1>1, <1>2, <1>3 DEF IInv, TypeOK, MergeLayer
<1>5. EffectiveValue' /\ LossIsReported'
  BY <1>1 DEF MergeLayer, EffectiveValue, LossIsReported
<1> QED
  BY <1>4, <1>5, MergeLayerEntry, MergeLayerReported DEF IInv

\* The value that is laid over the defaults is the one the rules name.
LEMMA OverlaidIsEffective ==
  ASSUME IInv, idx = 0, NEW k \in Keys
  PROVE  Effective(k, Overlaid(k)) /\ Overlaid(k) \in Numbers
<1> DEFINE e == preliminary[k]
<1> USE KeysAssumption
<1>1. Len(layers) \in 1..MaxLayers /\ DOMAIN layers = 1..Len(layers) /\ e \in Resolved
  BY DEF IInv, TypeOK
<1>2. /\ ~Occupied(e) => \A n \in Layers: ~Defines(n, k)
      /\ Occupied(e) => e.source \in Layers /\ Wins(e.source, k, 0)
      /\ Occupied(e) => \E n \in Layers: Defines(n, k)
  BY <1>1 DEF IInv, Entry, Layers, Wins
<1>3. /\ e.redef_allowed_by = Main => Defines(Main, k)
      /\ Occupied(e) /\ e.source # Main /\ Sets(Main, k, "redef") => e.redef_allowed_by = Main
  BY <1>1 DEF IInv, Permission, Main, None, Defines
<1>4. Main \in Layers /\ Main # None /\ Numbers = 0..MaxLayers + 1 /\ Default \in Numbers /\ None \in Numbers
  BY <1>1 DEF Layers, Main, None, Numbers, Default
<1>5. e.source \in Numbers
  BY <1>1 DEF Resolved
\* Whatever wins from below arcella.toml, arcella.toml has left it open.
<1>6. Occupied(e) => (MayReplace(e) <=> Defines(Main, k))
  <2>1. Occupied(e) /\ e.source # Main => e.source > Main
    BY <1>1, <1>2 DEF Layers, Main
  <2>2. Occupied(e) /\ e.source # Main => ~Fixes(Main, k)
    BY <1>1, <1>2, <2>1 DEF Wins, Main, Layers
  <2>3. Occupied(e) /\ e.source = Main => Defines(Main, k)
    BY <1>2 DEF Wins
  <2> QED
    BY <1>3, <2>2, <2>3 DEF MayReplace, Defines, Fixes
<1>7. CASE k \in DefaultKeys
  BY <1>2, <1>4, <1>5, <1>6, <1>7 DEF Effective, Overlaid, Accepted
<1>8. CASE k \notin DefaultKeys
  BY <1>2, <1>4, <1>5, <1>8 DEF Effective, Overlaid, Accepted
<1> QED
  BY <1>7, <1>8

\* A value that is not taken over has just been reported, or was when a layer
\* that fixes its key was merged.
LEMMA FinishReports ==
  ASSUME IInv, Finish
  PROVE  LossIsReported'
<1> USE KeysAssumption
<1>1. /\ idx = 0 /\ final' = [k \in Keys |-> Overlaid(k)] /\ layers' = layers
      /\ warnings \subseteq warnings' /\ DOMAIN layers = 1..Len(layers) /\ Len(layers) \in Nat
  BY DEF IInv, TypeOK, Finish
<1>2. SUFFICES ASSUME NEW k \in Keys, NEW n \in 1..Len(layers), Defines(n, k),
                      \/ Overlaid(k) \notin Layers
                      \/ \E m \in 1 .. n - 1: Fixes(m, k)
               PROVE  \E w \in warnings': Reports(w, n, k)
  BY <1>1 DEF LossIsReported, Reports, Layers, Defines, Fixes, Sets
<1>3. CASE \E m \in 1 .. n - 1: Fixes(m, k)
  BY <1>1, <1>2, <1>3 DEF IInv, Reported
<1>4. CASE Overlaid(k) \notin Layers
  <2>1. Occupied(preliminary[k]) /\ preliminary[k].source \in Layers
    BY <1>1, <1>2 DEF IInv, Entry, Layers
  <2>2. ~Accepted(k)
    BY <1>4, <2>1 DEF Overlaid
  <2>3. PICK w: w = [key |-> k, source |-> preliminary[k].source]
    OBVIOUS
  <2>4. w \in warnings'
    BY <2>1, <2>2, <2>3 DEF Finish
  <2>5. CASE Fixes(n, k) => preliminary[k].source = n
    BY <2>3, <2>4, <2>5 DEF Reports
  <2>6. CASE Fixes(n, k) /\ preliminary[k].source # n
    <3>1. n \in idx + 1 .. Len(layers)
      BY <1>1
    <3> QED
      BY <1>1, <1>2, <2>6, <3>1, TableOrReported
  <2> QED
    BY <2>5, <2>6
<1> QED
  BY <1>2, <1>3, <1>4

LEMMA FinishIInv == IInv /\ Finish => IInv'
<1> SUFFICES ASSUME IInv, Finish PROVE IInv'
  OBVIOUS
<1> USE KeysAssumption
<1>1. /\ idx = 0 /\ final' = [k \in Keys |-> Overlaid(k)]
      /\ layers' = layers /\ idx' = idx /\ preliminary' = preliminary
  BY DEF Finish
<1>2. \A k \in Keys: Effective(k, Overlaid(k)) /\ Overlaid(k) \in Numbers
  BY <1>1, OverlaidIsEffective
<1>3. TypeOK'
  <2>1. warnings' \subseteq [key: Keys, source: Numbers]
    BY DEF IInv, TypeOK, Finish, Resolved
  <2> QED
    BY <1>1, <1>2, <2>1 DEF IInv, TypeOK
<1>4. \A k \in Keys: (Entry(k) /\ Permission(k) /\ Reported(k))'
  <2>1. warnings \subseteq warnings'
    BY DEF Finish
  <2> QED
    BY <1>1, <2>1 DEF IInv, Entry, Permission, Reported, Reports, Wins, Fixes, Defines, Sets
<1>5. EffectiveValue'
  <2>1. \A k \in Keys: \A v: Effective(k, v)' <=> Effective(k, v)
    BY <1>1 DEF Effective, Layers, Wins, Fixes, Defines, Sets
  <2> QED
    BY <1>1, <1>2, <2>1 DEF EffectiveValue
<1> QED
  BY <1>3, <1>4, <1>5, FinishReports DEF IInv

LEMMA StutterIInv == IInv /\ UNCHANGED vars => IInv'
<1> SUFFICES ASSUME IInv, UNCHANGED vars PROVE IInv'
  OBVIOUS
<1>1. /\ layers' = layers /\ idx' = idx /\ preliminary' = preliminary
      /\ final' = final /\ warnings' = warnings
  BY DEF vars
<1>2. TypeOK'
  BY <1>1 DEF IInv, TypeOK
<1>3. \A k \in Keys: (Entry(k) /\ Permission(k) /\ Reported(k))'
  BY <1>1 DEF IInv, Entry, Permission, Reported, Reports, Wins, Fixes, Defines, Sets
<1>4. EffectiveValue' /\ LossIsReported'
  BY <1>1 DEF IInv, EffectiveValue, LossIsReported, Reports, Effective, Layers, Wins, Fixes, Defines, Sets
<1> QED
  BY <1>2, <1>3, <1>4 DEF IInv

THEOREM MergeInvariance == Spec => []IInv
<1>1. IInv /\ [Next]_vars => IInv'
  BY MergeLayerIInv, FinishIInv, StutterIInv DEF Next
<1> QED
  BY <1>1, InitIInv, PTL DEF Spec

\* The result of the merge: every key has the value that the rules of
\* CONFIGURATION.md name, however many layers and keys there are.
THEOREM MergedValuesFollowTheRules == Spec => []EffectiveValue
BY MergeInvariance, PTL DEF IInv

\* No key is lost without a trace: one that a layer sets in vain, because a
\* higher layer fixes it or because it may not be set there, is in the warnings,
\* and with the file of that layer unless the layer sets it with #redef only.
THEOREM DroppedValuesAreReported == Spec => []LossIsReported
BY MergeInvariance, PTL DEF IInv

\* The entries, the result and the warnings name layers, files and keys that
\* there are.
THEOREM MergeIsTyped == Spec => []TypeOK
BY MergeInvariance, PTL DEF IInv

================================================================================
