---------------------------- MODULE AlmeServerProofs ----------------------------
(***************************************************************************)
(* Proofs about AlmeServer: for any number of connections and any lines,   *)
(* responses come in order, commands run once, a client is not cut off,    *)
(* and the socket file follows the server.                                 *)
(***************************************************************************)

EXTENDS AlmeServer, Induction

(***************************************************************************)
(* OfKinds.                                                                *)
(***************************************************************************)

Selection(f, lines, kinds) ==
  /\ f[0] = <<>>
  /\ \A n \in 1..Len(lines) :
       f[n] = IF Kind[lines[n]] \in kinds THEN Append(f[n - 1], lines[n]) ELSE f[n - 1]
  /\ OfKinds(lines, kinds) = f[Len(lines)]

\* The recursion of OfKinds has a solution, and OfKinds is its last value.
LEMMA OfKindsUnfolds ==
  ASSUME NEW lines \in Seq(Lines), NEW kinds
  PROVE  \E f \in [0..Len(lines) -> Seq(Lines)] : Selection(f, lines, kinds)
<1> DEFINE m == Len(lines)
           S == Seq(Lines)
           Body(v, n) == IF Kind[lines[n]] \in kinds THEN Append(v, lines[n]) ELSE v
           base == <<>>
           step == [vn \in S \X (1..m) |-> Body(vn[1], vn[2])]
           Solves(g) == g = [n \in 0..m |-> IF n = 0 THEN <<>> ELSE Body(g[n - 1], n)]
           upTo == CHOOSE g : Solves(g)
<1>1. m \in Nat /\ base \in S
  OBVIOUS
<1>2. step \in [S \X (1..m) -> S]
  OBVIOUS
<1>3. \A v \in S, n \in 1..m : step[<<v, n>>] = Body(v, n)
  OBVIOUS
<1> HIDE DEF m, S, Body, base, step
<1>4. \E f \in [0..m -> S] : Recursion(f, base, step, m)
  BY <1>1, <1>2, FiniteRecursion
<1>5. PICK f \in [0..m -> S] : /\ f[0] = base
                               /\ \A n \in 1..m : f[n] = step[<<f[n - 1], n>>]
  BY <1>4 DEF Recursion
<1>6. \A n \in 1..m : n - 1 \in 0..m /\ f[n - 1] \in S
  BY <1>1
<1>7. \A n \in 1..m : f[n] = Body(f[n - 1], n)
  BY <1>3, <1>5, <1>6
<1>8. Solves(f)
  <2>1. \A n \in 0..m : f[n] = IF n = 0 THEN <<>> ELSE Body(f[n - 1], n)
    BY <1>1, <1>5, <1>7 DEF base
  <2> QED
    BY <2>1
<1>9. Solves(upTo)
  <2> HIDE DEF Solves
  <2> QED
    BY <1>8
<1>10. OfKinds(lines, kinds) = upTo[m]
  BY DEF OfKinds, m, Body
<1> HIDE DEF upTo
<1>11. upTo[0] = <<>> /\ \A n \in 1..m : upTo[n] = Body(upTo[n - 1], n)
  BY <1>1, <1>9
<1>12. \A n \in 0..m : upTo[n] = f[n]
  <2> DEFINE Equal == {n \in Nat : n <= m => upTo[n] = f[n]}
  <2>1. 0 \in Equal
    BY <1>5, <1>11 DEF base
  <2>2. ASSUME NEW n \in Nat, n \in Equal
        PROVE  n + 1 \in Equal
    <3> SUFFICES ASSUME n + 1 <= m
                 PROVE  upTo[n + 1] = f[n + 1]
      OBVIOUS
    <3>1. n + 1 \in 1..m /\ (n + 1) - 1 = n /\ upTo[n] = f[n]
      BY <1>1, <2>2
    <3> QED
      BY <1>7, <1>11, <3>1
  <2>3. Nat \subseteq Equal
    <3> HIDE DEF Equal
    <3> QED
      BY <2>1, <2>2, NatSetInduction
  <2> QED
    BY <1>1, <2>3
<1>13. OfKinds(lines, kinds) = f[m]
  BY <1>1, <1>10, <1>12
<1> QED
  BY <1>5, <1>7, <1>13 DEF m, S, Body, base, Selection

LEMMA OfKindsNone ==
  ASSUME NEW kinds
  PROVE  OfKinds(<<>>, kinds) = <<>>
<1>1. <<>> \in Seq(Lines) /\ Len(<<>>) = 0
  OBVIOUS
<1>2. PICK f \in [0..Len(<<>>) -> Seq(Lines)] : Selection(f, <<>>, kinds)
  BY <1>1, OfKindsUnfolds
<1> QED
  BY <1>1, <1>2 DEF Selection

LEMMA OfKindsType ==
  ASSUME NEW lines \in Seq(Lines), NEW kinds
  PROVE  OfKinds(lines, kinds) \in Seq(Lines)
<1>1. Len(lines) \in 0..Len(lines)
  BY LenProperties
<1>2. PICK f \in [0..Len(lines) -> Seq(Lines)] : Selection(f, lines, kinds)
  BY OfKindsUnfolds
<1> QED
  BY <1>1, <1>2 DEF Selection

LEMMA OfKindsAppend ==
  ASSUME NEW lines \in Seq(Lines), NEW l \in Lines, NEW kinds
  PROVE  OfKinds(Append(lines, l), kinds) =
           IF Kind[l] \in kinds THEN Append(OfKinds(lines, kinds), l) ELSE OfKinds(lines, kinds)
<1> DEFINE m == Len(lines)
           more == Append(lines, l)
<1>1. /\ m \in Nat /\ more \in Seq(Lines) /\ Len(more) = m + 1
      /\ more[m + 1] = l /\ \A n \in 1..m : more[n] = lines[n]
  BY AppendProperties, LenProperties
<1> HIDE DEF more
<1>2. PICK f \in [0..Len(lines) -> Seq(Lines)] : Selection(f, lines, kinds)
  BY OfKindsUnfolds
<1>3. PICK g \in [0..Len(more) -> Seq(Lines)] : Selection(g, more, kinds)
  BY <1>1, OfKindsUnfolds
<1> USE DEF Selection
<1>4. /\ f[0] = <<>>
      /\ \A n \in 1..m :
           f[n] = IF Kind[lines[n]] \in kinds THEN Append(f[n - 1], lines[n]) ELSE f[n - 1]
      /\ OfKinds(lines, kinds) = f[m]
  BY <1>2
<1>5. /\ g[0] = <<>>
      /\ \A n \in 1..m + 1 :
           g[n] = IF Kind[more[n]] \in kinds THEN Append(g[n - 1], more[n]) ELSE g[n - 1]
      /\ OfKinds(more, kinds) = g[m + 1]
  BY <1>1, <1>3
<1> HIDE DEF m, Selection
<1>6. g[m] = f[m]
  <2> DEFINE Equal == {n \in Nat : n <= m => g[n] = f[n]}
  <2>1. 0 \in Equal
    BY <1>4, <1>5
  <2>2. ASSUME NEW n \in Nat, n \in Equal
        PROVE  n + 1 \in Equal
    <3> SUFFICES ASSUME n + 1 <= m
                 PROVE  g[n + 1] = f[n + 1]
      OBVIOUS
    <3>1. n + 1 \in 1..m /\ n + 1 \in 1..m + 1 /\ (n + 1) - 1 = n
      BY <1>1
    <3>2. g[n] = f[n]
      BY <1>1, <2>2
    <3> QED
      BY <1>1, <1>4, <1>5, <3>1, <3>2
  <2>3. Nat \subseteq Equal
    <3> HIDE DEF Equal
    <3> QED
      BY <2>1, <2>2, NatSetInduction
  <2>4. m \in Equal
    <3> HIDE DEF Equal
    <3> QED
      BY <1>1, <2>3
  <2> QED
    BY <2>4
<1>7. m + 1 \in 1..m + 1 /\ (m + 1) - 1 = m
  BY <1>1
<1> QED
  BY <1>1, <1>4, <1>5, <1>6, <1>7 DEF more

LEMMA ConcatAppend ==
  ASSUME NEW X, NEW s \in Seq(X), NEW t \in Seq(X), NEW e \in X
  PROVE  s \o Append(t, e) = Append(s \o t, e)
OBVIOUS

\* OfKinds takes lines one by one: it distributes over concatenation.
LEMMA OfKindsConcat ==
  ASSUME NEW s \in Seq(Lines), NEW t \in Seq(Lines), NEW kinds
  PROVE  OfKinds(s \o t, kinds) = OfKinds(s, kinds) \o OfKinds(t, kinds)
<1> DEFINE Holds == {r \in Seq(Lines) : OfKinds(s \o r, kinds) = OfKinds(s, kinds) \o OfKinds(r, kinds)}
<1>1. <<>> \in Holds
  BY OfKindsNone, OfKindsType, ConcatEmptySeq
<1>2. ASSUME NEW r \in Seq(Lines), NEW l \in Lines, r \in Holds
      PROVE  Append(r, l) \in Holds
  <2> DEFINE S == OfKinds(s, kinds)
             R == OfKinds(r, kinds)
  <2>1. s \o r \in Seq(Lines) /\ s \o Append(r, l) = Append(s \o r, l)
    OBVIOUS
  <2>2. OfKinds(s \o r, kinds) = S \o R
    BY <1>2
  <2>3. OfKinds(Append(s \o r, l), kinds) = IF Kind[l] \in kinds THEN Append(S \o R, l) ELSE S \o R
    BY <2>1, <2>2, OfKindsAppend
  <2>4. OfKinds(Append(r, l), kinds) = IF Kind[l] \in kinds THEN Append(R, l) ELSE R
    BY OfKindsAppend
  <2>5. S \in Seq(Lines) /\ R \in Seq(Lines)
    BY OfKindsType
  <2> HIDE DEF S, R
  <2>6. S \o Append(R, l) = Append(S \o R, l)
    BY <2>5, ConcatAppend
  <2>7. OfKinds(s \o Append(r, l), kinds) = S \o OfKinds(Append(r, l), kinds)
    BY <2>1, <2>3, <2>4, <2>6
  <2> QED
    BY <2>7 DEF S
<1> HIDE DEF Holds
<1>3. Seq(Lines) \subseteq Holds
  BY <1>1, <1>2, SequenceSetInduction
<1> QED
  BY <1>3 DEF Holds

\* Of the lines of some kinds, those of fewer kinds.
LEMMA OfKindsTwice ==
  ASSUME NEW s \in Seq(Lines), NEW kinds, NEW fewer \in SUBSET kinds
  PROVE  OfKinds(OfKinds(s, kinds), fewer) = OfKinds(s, fewer)
<1> DEFINE Holds == {r \in Seq(Lines) : OfKinds(OfKinds(r, kinds), fewer) = OfKinds(r, fewer)}
<1>1. <<>> \in Holds
  BY OfKindsNone
<1>2. ASSUME NEW r \in Seq(Lines), NEW l \in Lines, r \in Holds
      PROVE  Append(r, l) \in Holds
  <2> DEFINE R == OfKinds(r, kinds)
  <2>1. R \in Seq(Lines) /\ OfKinds(R, fewer) = OfKinds(r, fewer)
    BY <1>2, OfKindsType
  <2>2. OfKinds(Append(r, l), kinds) = IF Kind[l] \in kinds THEN Append(R, l) ELSE R
    BY OfKindsAppend
  <2>3. OfKinds(Append(r, l), fewer) = IF Kind[l] \in fewer THEN Append(OfKinds(r, fewer), l)
                                       ELSE OfKinds(r, fewer)
    BY OfKindsAppend
  <2> HIDE DEF R
  <2>4. OfKinds(Append(R, l), fewer) = IF Kind[l] \in fewer THEN Append(OfKinds(R, fewer), l)
                                       ELSE OfKinds(R, fewer)
    BY <2>1, OfKindsAppend
  <2>5. Append(r, l) \in Seq(Lines)
    BY AppendProperties
  <2>6. OfKinds(OfKinds(Append(r, l), kinds), fewer) = OfKinds(Append(r, l), fewer)
    BY <2>1, <2>2, <2>3, <2>4
  <2> QED
    BY <2>5, <2>6
<1> HIDE DEF Holds
<1>3. Seq(Lines) \subseteq Holds
  BY <1>1, <1>2, SequenceSetInduction
<1> QED
  BY <1>3 DEF Holds

(***************************************************************************)
(* Prefixes.                                                               *)
(***************************************************************************)

LEMMA PrefixIsConcat ==
  ASSUME NEW X, NEW s \in Seq(X), NEW t \in Seq(X)
  PROVE  IsPrefix(s, t) <=> \E r \in Seq(X) : t = s \o r
<1>1. ASSUME NEW r \in Seq(X), t = s \o r
      PROVE  IsPrefix(s, t)
  <2>1. Len(t) = Len(s) + Len(r) /\ \A i \in 1..Len(s) : t[i] = s[i]
    BY <1>1, ConcatProperties, LenProperties
  <2>2. SubSeq(s, 1, Len(s)) = SubSeq(t, 1, Len(s))
    BY <2>1, LenProperties
  <2> QED
    BY <2>1, <2>2, LenProperties DEF IsPrefix
<1>2. ASSUME IsPrefix(s, t)
      PROVE  \E r \in Seq(X) : t = s \o r
  <2> DEFINE r == SubSeq(t, Len(s) + 1, Len(t))
  <2>1. Len(s) \in Nat /\ Len(t) \in Nat /\ Len(s) <= Len(t) /\ s = SubSeq(t, 1, Len(s))
    BY <1>2, SubSeqFull, LenProperties DEF IsPrefix
  <2>2. r \in Seq(X) /\ Len(r) = Len(t) - Len(s)
    BY <2>1
  <2>3. \A i \in 1..Len(s) : t[i] = s[i]
    BY <2>1
  <2>4. \A i \in 1..Len(r) : r[i] = t[i + Len(s)]
    BY <2>1
  <2> HIDE DEF r
  <2>5. s \o r \in Seq(X) /\ Len(s \o r) = Len(t)
    BY <2>1, <2>2, ConcatProperties
  <2>6. ASSUME NEW i \in 1..Len(t)
        PROVE  t[i] = (s \o r)[i]
    <3>1. CASE i <= Len(s)
      BY <2>1, <2>2, <2>3, <3>1
    <3>2. CASE i > Len(s)
      <4>1. i - Len(s) \in 1..Len(r)
        BY <2>1, <2>2, <3>2
      <4> QED
        BY <2>1, <2>2, <2>4, <3>2, <4>1
    <3>3. i <= Len(s) \/ i > Len(s)
      BY <2>1
    <3> QED
      BY <3>1, <3>2, <3>3
  <2>7. t = s \o r
    BY <2>5, <2>6, SeqEqual
  <2> QED
    BY <2>2, <2>7
<1> QED
  BY <1>1, <1>2

LEMMA PrefixExtends ==
  ASSUME NEW X, NEW s \in Seq(X), NEW t \in Seq(X), NEW r \in Seq(X), IsPrefix(s, t)
  PROVE  IsPrefix(s, t \o r)
<1>1. PICK q \in Seq(X) : t = s \o q
  BY PrefixIsConcat
<1>2. t \o r = s \o (q \o r) /\ q \o r \in Seq(X) /\ t \o r \in Seq(X)
  BY <1>1, ConcatAssociative, ConcatProperties
<1> QED
  BY <1>2, PrefixIsConcat

LEMMA PrefixReflexive ==
  ASSUME NEW X, NEW s \in Seq(X)
  PROVE  IsPrefix(s, s)
<1>1. s = s \o <<>> /\ <<>> \in Seq(X)
  BY ConcatEmptySeq
<1> QED
  BY <1>1, PrefixIsConcat

\* What holds of a beginning of the lines holds of the lines selected in it.
LEMMA OfKindsOfPrefix ==
  ASSUME NEW s \in Seq(Lines), NEW t \in Seq(Lines), IsPrefix(s, t), NEW kinds
  PROVE  IsPrefix(OfKinds(s, kinds), OfKinds(t, kinds))
<1>1. PICK r \in Seq(Lines) : t = s \o r
  BY PrefixIsConcat
<1>2. OfKinds(t, kinds) = OfKinds(s, kinds) \o OfKinds(r, kinds)
  BY <1>1, OfKindsConcat
<1>3. OfKinds(r, kinds) \in Seq(Lines) /\ OfKinds(s, kinds) \in Seq(Lines) /\ OfKinds(t, kinds) \in Seq(Lines)
  BY OfKindsType
<1> QED
  BY <1>2, <1>3, PrefixIsConcat

(***************************************************************************)
(* The inductive invariant.                                                *)
(***************************************************************************)

\* The line a handler has read and not yet answered.
Held(c) == IF line[c] = NoLine THEN <<>> ELSE <<line[c]>>

\* What a client has sent is what has been served, the line in hand and what
\* is still unread; and responses and commands are those of the lines served.
Served(c, served) ==
  /\ sent[c] = served \o Held(c) \o unread[c]
  /\ executed[c] = CommandsOf(IF conn[c] = "reply" THEN served \o Held(c) ELSE served)
  /\ IsPrefix(replies[c], AskedIn(served))
  /\ client[c] # "gone" => replies[c] = AskedIn(served)

ClosedIsEmpty(c) ==
  conn[c] = "closed" =>
    /\ client[c] = "gone" /\ line[c] = NoLine
    /\ sent[c] = <<>> /\ unread[c] = <<>> /\ executed[c] = <<>> /\ replies[c] = <<>>

LineMatchesStep(c) ==
  /\ conn[c] \in {"backlog", "reading"} => line[c] = NoLine
  /\ conn[c] = "dispatch" => line[c] \in Lines /\ Kind[line[c]] = "command"
  /\ conn[c] = "reply" => line[c] \in Lines /\ Kind[line[c]] \in {"command", "rejected"}

ConnInv(c) ==
  /\ ClosedIsEmpty(c)
  /\ LineMatchesStep(c)
  /\ \E served \in Seq(Lines) : Served(c, served)

ServerInv ==
  /\ main \in {"down", "exited"} => loop = "none"
  /\ loop = "accepting" => file
  /\ loop = "ended" => ~file
  /\ signal # {} => main = "stopping"

IInv == TypeOK /\ ServerInv /\ \A c \in Conns : ConnInv(c)

ConnVars(c) ==
  <<conn[c], line[c], client[c], unread[c], sent[c], executed[c], replies[c]>>

LEMMA SameConn ==
  ASSUME NEW c \in Conns, ConnInv(c), UNCHANGED ConnVars(c)
  PROVE  ConnInv(c)'
BY DEF ConnInv, ClosedIsEmpty, LineMatchesStep, Served, Held, ConnVars

\* Nothing has been asked by a connection that has sent nothing.
LEMMA NothingServed ==
  /\ <<>> \in Seq(Lines) /\ <<>> \o <<>> \o <<>> = <<>>
  /\ AskedIn(<<>>) = <<>> /\ CommandsOf(<<>>) = <<>>
  /\ IsPrefix(<<>>, <<>>)
<1>1. <<>> \in Seq(Lines) /\ <<>> \o <<>> \o <<>> = <<>>
  OBVIOUS
<1>2. IsPrefix(<<>>, <<>>)
  BY <1>1, PrefixReflexive
<1> QED
  BY <1>1, <1>2, OfKindsNone DEF AskedIn, CommandsOf

LEMMA InitIInv == Init => IInv
<1> SUFFICES ASSUME Init
             PROVE  IInv
  OBVIOUS
<1>1. TypeOK
  <2>1. Empty \in [Conns -> Seq(Lines)]
    BY DEF Empty
  <2> QED
    BY <2>1 DEF Init, TypeOK
<1>2. ServerInv
  BY DEF Init, ServerInv
<1>3. ASSUME NEW c \in Conns
      PROVE  ConnInv(c)
  <2>1. /\ conn[c] = "closed" /\ client[c] = "gone" /\ line[c] = NoLine
        /\ sent[c] = <<>> /\ unread[c] = <<>> /\ executed[c] = <<>> /\ replies[c] = <<>>
    BY DEF Init, Empty
  <2>2. ClosedIsEmpty(c) /\ LineMatchesStep(c) /\ Held(c) = <<>>
    BY <2>1 DEF ClosedIsEmpty, LineMatchesStep, Held
  <2>3. Served(c, <<>>)
    BY <2>1, <2>2, NothingServed DEF Served
  <2> QED
    BY <2>2, <2>3, NothingServed DEF ConnInv
<1> QED
  BY <1>1, <1>2, <1>3 DEF IInv

LEMMA CloseKeepsConns ==
  ASSUME NEW who \in SUBSET Conns, Close(who), NEW c \in Conns, ConnInv(c)
  PROVE  ConnInv(c)'
<1>1. CASE c \notin who
  <2>1. UNCHANGED ConnVars(c)
    BY <1>1 DEF Close, ConnVars
  <2> QED
    BY <2>1, SameConn
<1>2. CASE c \in who
  <2>1. /\ conn'[c] = "closed" /\ client'[c] = "gone" /\ line'[c] = NoLine
        /\ sent'[c] = <<>> /\ unread'[c] = <<>> /\ executed'[c] = <<>> /\ replies'[c] = <<>>
    BY <1>2 DEF Close
  <2>2. ClosedIsEmpty(c)' /\ LineMatchesStep(c)'
    BY <2>1 DEF ClosedIsEmpty, LineMatchesStep
  <2>3. Held(c)' = <<>>
    BY <2>1 DEF Held
  <2>4. Served(c, <<>>)'
    BY <2>1, <2>3, NothingServed DEF Served
  <2> QED
    BY <2>2, <2>4, NothingServed DEF ConnInv
<1> QED
  BY <1>1, <1>2

LEMMA CloseKeepsTypes ==
  ASSUME TypeOK, NEW who \in SUBSET Conns, Close(who)
  PROVE  /\ conn' \in [Conns -> {"closed", "backlog"} \cup Handling]
         /\ signal' \in SUBSET Conns
         /\ line' \in [Conns -> Lines \cup {NoLine}]
         /\ client' \in [Conns -> {"open", "stalled", "gone"}]
         /\ \A h \in {unread, sent, executed, replies}' : h \in [Conns -> Seq(Lines)]
BY DEF TypeOK, Close

(***************************************************************************)
(* Steps of one connection.                                                *)
(***************************************************************************)

\* A step that touches no other connection, whatever it does to c, keeps ConnInv
\* if it keeps that of c.
LEMMA OneConn ==
  ASSUME NEW c \in Conns, \A d \in Conns : ConnInv(d),
         \A d \in Conns \ {c} : UNCHANGED ConnVars(d), ConnInv(c)'
  PROVE  \A d \in Conns : ConnInv(d)'
BY SameConn

LEMMA ConnectInv ==
  ASSUME IInv, NEW c \in Conns, Connect(c)
  PROVE  ConnInv(c)'
<1> USE DEF IInv, TypeOK
<1>1. /\ conn'[c] = "backlog" /\ client'[c] = "open" /\ line'[c] = NoLine
      /\ sent'[c] = <<>> /\ unread'[c] = <<>> /\ executed'[c] = <<>> /\ replies'[c] = <<>>
  BY DEF Connect, GoTo, historyVars, ConnInv, ClosedIsEmpty
<1>2. ClosedIsEmpty(c)' /\ LineMatchesStep(c)' /\ Held(c)' = <<>>
  BY <1>1 DEF ClosedIsEmpty, LineMatchesStep, Held
<1>3. Served(c, <<>>)'
  BY <1>1, <1>2, NothingServed DEF Served
<1> QED
  BY <1>2, <1>3, NothingServed DEF ConnInv

LEMMA SendInv ==
  ASSUME IInv, NEW c \in Conns, Send(c)
  PROVE  ConnInv(c)'
<1>1. PICK l \in Lines : /\ unread' = [unread EXCEPT ![c] = Append(@, l)]
                         /\ sent' = [sent EXCEPT ![c] = Append(@, l)]
  BY DEF Send
<1>2. /\ unread'[c] = Append(unread[c], l) /\ sent'[c] = Append(sent[c], l)
      /\ unread[c] \in Seq(Lines) /\ sent[c] \in Seq(Lines)
  BY <1>1 DEF IInv, TypeOK
<1>3. /\ conn'[c] = conn[c] /\ line'[c] = line[c] /\ client'[c] = client[c]
      /\ executed'[c] = executed[c] /\ replies'[c] = replies[c]
      /\ conn[c] # "closed"
  BY DEF Send
<1>4. ClosedIsEmpty(c)' /\ LineMatchesStep(c)' /\ Held(c)' = Held(c)
  BY <1>3 DEF IInv, ConnInv, ClosedIsEmpty, LineMatchesStep, Held
<1>5. PICK served \in Seq(Lines) : Served(c, served)
  BY DEF IInv, ConnInv
<1>6. Held(c) \in Seq(Lines)
  BY DEF Held, IInv, TypeOK
<1>7. sent'[c] = served \o Held(c) \o unread'[c]
  <2> DEFINE read == served \o Held(c)
  <2>1. sent[c] = read \o unread[c] /\ read \in Seq(Lines)
    BY <1>5, <1>6, ConcatProperties DEF Served
  <2> HIDE DEF read
  <2>2. read \o Append(unread[c], l) = Append(read \o unread[c], l)
    BY <1>2, <2>1, ConcatAppend
  <2>3. sent'[c] = read \o unread'[c]
    BY <1>2, <2>1, <2>2
  <2> QED
    BY <2>3 DEF read
<1>8. Served(c, served)'
  BY <1>3, <1>4, <1>5, <1>7 DEF Served
<1> QED
  BY <1>4, <1>8 DEF ConnInv

\* The client's end: no less is answered to a client that stalls, and nothing
\* more to one that is gone.
LEMMA ClientEndInv ==
  ASSUME IInv, NEW c \in Conns, Stall(c) \/ HangUp(c)
  PROVE  ConnInv(c)'
<1>1. /\ conn'[c] = conn[c] /\ line'[c] = line[c] /\ unread'[c] = unread[c] /\ sent'[c] = sent[c]
      /\ executed'[c] = executed[c] /\ replies'[c] = replies[c]
      /\ conn[c] # "closed" /\ client[c] # "gone"
  BY DEF Stall, HangUp, historyVars
<1>2. ClosedIsEmpty(c)' /\ LineMatchesStep(c)' /\ Held(c)' = Held(c)
  BY <1>1 DEF IInv, ConnInv, ClosedIsEmpty, LineMatchesStep, Held
<1>3. PICK served \in Seq(Lines) : Served(c, served)
  BY DEF IInv, ConnInv
<1>4. Served(c, served)'
  BY <1>1, <1>2, <1>3 DEF Served
<1> QED
  BY <1>2, <1>4 DEF ConnInv

LEMMA AcceptInv ==
  ASSUME IInv, NEW c \in Conns, Accept(c)
  PROVE  ConnInv(c)'
<1>1. /\ line'[c] = line[c] /\ unread'[c] = unread[c] /\ sent'[c] = sent[c] /\ client'[c] = client[c]
      /\ executed'[c] = executed[c] /\ replies'[c] = replies[c]
      /\ conn[c] = "backlog" /\ conn'[c] = "reading"
  BY DEF Accept, GoTo, historyVars, IInv, TypeOK
<1>2. ClosedIsEmpty(c)' /\ LineMatchesStep(c)' /\ Held(c)' = Held(c)
  BY <1>1 DEF IInv, ConnInv, ClosedIsEmpty, LineMatchesStep, Held
<1>3. PICK served \in Seq(Lines) : Served(c, served)
  BY DEF IInv, ConnInv
<1>4. Served(c, served)'
  BY <1>1, <1>2, <1>3 DEF Served
<1> QED
  BY <1>2, <1>4 DEF ConnInv

LEMMA ServeOne ==
  ASSUME NEW served \in Seq(Lines), NEW l \in Lines
  PROVE  /\ served \o <<l>> \in Seq(Lines)
         /\ AskedIn(served) \in Seq(Lines) /\ CommandsOf(served) \in Seq(Lines)
         /\ AskedIn(served \o <<l>>) =
              IF Kind[l] \in {"command", "rejected"} THEN Append(AskedIn(served), l) ELSE AskedIn(served)
         /\ CommandsOf(served \o <<l>>) =
              IF Kind[l] = "command" THEN Append(CommandsOf(served), l) ELSE CommandsOf(served)
<1>1. served \o <<l>> = Append(served, l) /\ Append(served, l) \in Seq(Lines)
  BY AppendIsConcat, AppendProperties
<1>2. AskedIn(served) \in Seq(Lines) /\ CommandsOf(served) \in Seq(Lines)
  BY OfKindsType DEF AskedIn, CommandsOf
<1>3. AskedIn(Append(served, l)) =
        IF Kind[l] \in {"command", "rejected"} THEN Append(AskedIn(served), l) ELSE AskedIn(served)
  BY OfKindsAppend DEF AskedIn
<1>4. CommandsOf(Append(served, l)) =
        IF Kind[l] \in {"command"} THEN Append(CommandsOf(served), l) ELSE CommandsOf(served)
  BY OfKindsAppend DEF CommandsOf
<1> QED
  BY <1>1, <1>2, <1>3, <1>4

\* A request is held for dispatch, a line that is rejected for its response, and a
\* blank line has been served when it has been read.
LEMMA ReadInv ==
  ASSUME IInv, NEW c \in Conns, Read(c), conn'[c] # "closed"
  PROVE  ConnInv(c)'
<1>1. /\ conn[c] = "reading" /\ unread[c] # <<>> /\ unread[c] \in Seq(Lines) /\ line[c] = NoLine
  BY DEF Read, IInv, TypeOK, ConnInv, LineMatchesStep
<1>2. PICK l \in Lines, rest \in Seq(Lines) :
        l = Head(unread[c]) /\ rest = Tail(unread[c]) /\ unread[c] = <<l>> \o rest
  <2>1. /\ Head(unread[c]) \in Lines /\ Tail(unread[c]) \in Seq(Lines)
        /\ unread[c] = <<Head(unread[c])>> \o Tail(unread[c])
    BY <1>1
  <2> QED
    BY <2>1
<1>3. After[Kind[l]] # "closed"
  <2> SUFFICES ASSUME After[Kind[l]] = "closed"
               PROVE  FALSE
    OBVIOUS
  <2>1. Close({c})
    BY <1>2 DEF Read
  <2> QED
    BY <2>1 DEF Close
<1>4. /\ conn'[c] = After[Kind[l]]
      /\ line'[c] = IF After[Kind[l]] = "reading" THEN NoLine ELSE l
      /\ unread'[c] = rest
      /\ client'[c] = client[c] /\ sent'[c] = sent[c]
      /\ executed'[c] = executed[c] /\ replies'[c] = replies[c]
  BY <1>2, <1>3 DEF Read, GoTo, historyVars, IInv, TypeOK
<1>5. \/ Kind[l] = "command" /\ conn'[c] = "dispatch"
      \/ Kind[l] = "rejected" /\ conn'[c] = "reply"
      \/ Kind[l] = "blank" /\ conn'[c] = "reading"
  BY <1>2, <1>3, <1>4, LinesAssumption DEF After, Kinds
<1>6. PICK served \in Seq(Lines) : Served(c, served)
  BY DEF IInv, ConnInv
<1>7. sent[c] = served \o <<l>> \o rest /\ executed[c] = CommandsOf(served)
  <2>1. Held(c) = <<>>
    BY <1>1 DEF Held
  <2>2. served \o <<>> = served
    BY ConcatEmptySeq
  <2>3. <<l>> \in Seq(Lines)
    OBVIOUS
  <2>4. served \o (<<l>> \o rest) = served \o <<l>> \o rest
    BY <2>3, ConcatAssociative
  <2> QED
    BY <1>1, <1>2, <1>6, <2>1, <2>2, <2>4 DEF Served
<1>8. ClosedIsEmpty(c)' /\ LineMatchesStep(c)'
  BY <1>2, <1>4, <1>5 DEF ClosedIsEmpty, LineMatchesStep, After
<1>9. CASE Kind[l] = "blank"
  <2>1. Held(c)' = <<>> /\ conn'[c] = "reading"
    BY <1>4, <1>5, <1>9 DEF Held, After
  <2>2. served \o <<l>> \o <<>> = served \o <<l>>
    BY <1>2
  <2>3. AskedIn(served \o <<l>>) = AskedIn(served) /\ CommandsOf(served \o <<l>>) = CommandsOf(served)
    BY <1>2, <1>9, ServeOne
  <2>4. PICK now \in Seq(Lines) : now = served \o <<l>>
    BY ServeOne
  <2>5. Served(c, now)'
    BY <1>4, <1>6, <1>7, <2>1, <2>2, <2>3, <2>4 DEF Served
  <2> QED
    BY <1>8, <2>5 DEF ConnInv
<1>10. CASE Kind[l] \in {"command", "rejected"}
  <2>1. Held(c)' = <<l>>
    BY <1>2, <1>4, <1>5, <1>10, LinesAssumption DEF Held, After
  <2>2. CommandsOf(served) = CommandsOf(IF conn'[c] = "reply" THEN served \o <<l>> ELSE served)
    BY <1>2, <1>5, <1>10, ServeOne
  <2>3. Served(c, served)'
    BY <1>4, <1>6, <1>7, <2>1, <2>2 DEF Served
  <2> QED
    BY <1>8, <2>3 DEF ConnInv
<1> QED
  BY <1>5, <1>9, <1>10

LEMMA DispatchInv ==
  ASSUME IInv, NEW c \in Conns, Dispatch(c)
  PROVE  ConnInv(c)'
<1>1. /\ conn[c] = "dispatch" /\ conn'[c] = "reply"
      /\ executed'[c] = Append(executed[c], line[c])
      /\ line'[c] = line[c] /\ unread'[c] = unread[c] /\ sent'[c] = sent[c]
      /\ client'[c] = client[c] /\ replies'[c] = replies[c]
  BY DEF Dispatch, GoTo, IInv, TypeOK
<1>2. line[c] \in Lines /\ Kind[line[c]] = "command" /\ Held(c) = <<line[c]>>
  BY <1>1, LinesAssumption DEF IInv, ConnInv, LineMatchesStep, Held
<1>3. ClosedIsEmpty(c)' /\ LineMatchesStep(c)' /\ Held(c)' = Held(c)
  BY <1>1, <1>2 DEF ClosedIsEmpty, LineMatchesStep, Held
<1>4. PICK served \in Seq(Lines) : Served(c, served)
  BY DEF IInv, ConnInv
<1>5. executed'[c] = CommandsOf(served \o Held(c))
  BY <1>1, <1>2, <1>4, ServeOne DEF Served
<1>6. Served(c, served)'
  BY <1>1, <1>3, <1>4, <1>5 DEF Served
<1> QED
  BY <1>3, <1>6 DEF ConnInv

LEMMA ReplyInv ==
  ASSUME IInv, NEW c \in Conns, Reply(c)
  PROVE  ConnInv(c)'
<1>1. /\ conn[c] = "reply" /\ conn'[c] = "reading" /\ line'[c] = NoLine
      /\ replies'[c] = IF client[c] = "gone" THEN replies[c] ELSE Append(replies[c], line[c])
      /\ executed'[c] = executed[c] /\ unread'[c] = unread[c] /\ sent'[c] = sent[c]
      /\ client'[c] = client[c]
  BY DEF Reply, GoTo, IInv, TypeOK
<1>2. PICK l \in Lines : l = line[c] /\ Kind[l] \in {"command", "rejected"} /\ Held(c) = <<l>>
  BY <1>1, LinesAssumption DEF IInv, ConnInv, LineMatchesStep, Held
<1>3. ClosedIsEmpty(c)' /\ LineMatchesStep(c)' /\ Held(c)' = <<>>
  BY <1>1 DEF ClosedIsEmpty, LineMatchesStep, Held
<1>4. PICK served \in Seq(Lines) : Served(c, served)
  BY DEF IInv, ConnInv
<1>5. PICK now \in Seq(Lines) :
        /\ now = served \o <<l>>
        /\ AskedIn(now) = Append(AskedIn(served), l)
  BY <1>2, ServeOne
<1>6. AskedIn(now) \in Seq(Lines) /\ AskedIn(served) \in Seq(Lines)
  BY OfKindsType DEF AskedIn
<1>7. sent[c] = now \o unread[c] /\ executed[c] = CommandsOf(now)
  BY <1>1, <1>2, <1>4, <1>5 DEF Served
<1>8. unread[c] \in Seq(Lines) /\ replies[c] \in Seq(Lines)
  BY DEF IInv, TypeOK
<1>9. IsPrefix(replies'[c], AskedIn(now)) /\ (client[c] # "gone" => replies'[c] = AskedIn(now))
  <2>1. CASE client[c] = "gone"
    <3>1. AskedIn(now) = AskedIn(served) \o <<l>> /\ <<l>> \in Seq(Lines)
      <4>1. PICK a \in Seq(Lines) : a = AskedIn(served)
        BY <1>6
      <4>2. Append(a, l) = a \o <<l>>
        BY AppendIsConcat
      <4> QED
        BY <1>5, <4>1, <4>2
    <3>2. replies'[c] = replies[c] /\ IsPrefix(replies[c], AskedIn(served))
      BY <1>1, <1>4, <2>1 DEF Served
    <3> QED
      BY <1>8, <1>6, <2>1, <3>1, <3>2, PrefixExtends
  <2>2. CASE client[c] # "gone"
    <3>1. replies'[c] = AskedIn(now)
      BY <1>1, <1>2, <1>4, <1>5, <2>2 DEF Served
    <3> QED
      BY <1>6, <3>1, PrefixReflexive
  <2> QED
    BY <2>1, <2>2
<1>10. Served(c, now)'
  <2>1. now \o <<>> = now
    BY <1>5
  <2> QED
    BY <1>1, <1>3, <1>7, <1>9, <2>1 DEF Served
<1> QED
  BY <1>3, <1>5, <1>10 DEF ConnInv

(***************************************************************************)
(* Every step.                                                             *)
(***************************************************************************)

LEMMA StepTypes ==
  ASSUME IInv, Next
  PROVE  TypeOK'
<1>0. TypeOK /\ \A c \in Conns : LineMatchesStep(c)
  BY DEF IInv, ConnInv
<1> USE <1>0
<1> USE DEF TypeOK, serverVars, historyVars, GoTo
<1>1. ASSUME NEW c \in Conns, ClientStep(c)
      PROVE  TypeOK'
  <2>1. CASE Connect(c)
    BY <2>1 DEF Connect
  <2>2. CASE Send(c)
    BY <2>2 DEF Send
  <2>3. CASE Stall(c)
    BY <2>3 DEF Stall
  <2>4. CASE HangUp(c)
    BY <2>4 DEF HangUp
  <2> QED
    BY <1>1, <2>1, <2>2, <2>3, <2>4 DEF ClientStep
<1>2. ASSUME NEW c \in Conns, Accept(c)
      PROVE  TypeOK'
  BY <1>2 DEF Accept, Handling
<1>3. ASSUME NEW c \in Conns, Close({c}), UNCHANGED serverVars
      PROVE  TypeOK'
  BY <1>3, CloseKeepsTypes
<1>4. ASSUME NEW c \in Conns, Handler(c)
      PROVE  TypeOK'
  <2>1. CASE Read(c)
    <3>1. PICK l \in Lines, rest \in Seq(Lines) : l = Head(unread[c]) /\ rest = Tail(unread[c])
      <4>1. unread[c] \in Seq(Lines) /\ unread[c] # <<>>
        BY <2>1 DEF Read
      <4>2. Head(unread[c]) \in Lines /\ Tail(unread[c]) \in Seq(Lines)
        BY <4>1, HeadTailProperties
      <4> QED
        BY <4>2
    <3>2. CASE After[Kind[l]] = "closed"
      BY <1>3, <2>1, <3>1, <3>2 DEF Read
    <3>3. CASE After[Kind[l]] # "closed"
      <4>1. After[Kind[l]] \in Handling
        BY <3>3, LinesAssumption DEF After, Kinds, Handling
      <4>2. /\ conn' = [conn EXCEPT ![c] = After[Kind[l]]]
            /\ line' = [line EXCEPT ![c] = IF After[Kind[l]] = "reading" THEN NoLine ELSE l]
            /\ unread' = [unread EXCEPT ![c] = rest]
            /\ UNCHANGED <<serverVars, signal, client, historyVars>>
        BY <2>1, <3>1, <3>3 DEF Read
      <4> QED
        BY <4>1, <4>2
    <3> QED
      BY <3>2, <3>3
  <2>2. CASE Eof(c) \/ Timeout(c) \/ Terminate(c)
    BY <1>3, <2>2 DEF Eof, Timeout, Terminate
  <2>3. CASE Dispatch(c)
    <3>1. line[c] \in Lines
      BY <2>3 DEF Dispatch, LineMatchesStep
    <3> QED
      BY <2>3, <3>1 DEF Dispatch, Handling
  <2>4. CASE Reply(c)
    <3>1. line[c] \in Lines
      BY <2>4 DEF Reply, LineMatchesStep
    <3> QED
      BY <2>4, <3>1 DEF Reply, Handling
  <2> QED
    BY <1>4, <2>1, <2>2, <2>3, <2>4 DEF Handler
<1>5. ASSUME ServerStep
      PROVE  TypeOK'
  <2>1. CASE LoopEnds
    <3>1. {c \in Conns : conn[c] = "backlog"} \in SUBSET Conns
      OBVIOUS
    <3> QED
      BY <2>1, <3>1, CloseKeepsTypes DEF LoopEnds
  <2>2. CASE Unlink
    BY <2>2 DEF Unlink
  <2>3. CASE Start
    BY <2>3 DEF Start
  <2>4. CASE Stop
    BY <2>4 DEF Stop
  <2>5. CASE Exit \/ Crash
    BY <2>5, CloseKeepsTypes DEF Exit, Crash, Gone
  <2> QED
    BY <1>5, <2>1, <2>2, <2>3, <2>4, <2>5 DEF ServerStep
<1> QED
  BY <1>1, <1>2, <1>4, <1>5 DEF Next

LEMMA StepServer ==
  ASSUME IInv, Next
  PROVE  ServerInv'
<1>0. TypeOK /\ ServerInv
  BY DEF IInv
<1> USE <1>0 DEF ServerInv
<1>1. ASSUME NEW c \in Conns, ClientStep(c) \/ Accept(c)
      PROVE  ServerInv'
  BY <1>1 DEF ClientStep, Connect, Send, Stall, HangUp, Accept, serverVars
<1>2. ASSUME NEW c \in Conns, Handler(c)
      PROVE  ServerInv'
  <2>1. UNCHANGED serverVars /\ signal' \subseteq signal
    BY <1>2 DEF Handler, Read, Eof, Timeout, Terminate, Dispatch, Reply, Close
  <2> QED
    BY <2>1 DEF serverVars
<1>3. ASSUME ServerStep
      PROVE  ServerInv'
  <2>1. CASE LoopEnds
    BY <2>1 DEF LoopEnds, Close
  <2>2. CASE Unlink
    BY <2>2 DEF Unlink
  <2>3. CASE Start
    BY <2>3 DEF Start
  <2>4. CASE Stop
    BY <2>4 DEF Stop
  <2>5. CASE Exit \/ Crash
    <3>1. signal' = {} /\ loop' = "none"
      BY <2>5, <1>0 DEF Exit, Crash, Gone, Close, TypeOK
    <3> QED
      BY <3>1
  <2> QED
    BY <1>3, <2>1, <2>2, <2>3, <2>4, <2>5 DEF ServerStep
<1> QED
  BY <1>1, <1>2, <1>3 DEF Next

LEMMA StepConns ==
  ASSUME IInv, Next
  PROVE  \A d \in Conns : ConnInv(d)'
<1>0. TypeOK /\ \A d \in Conns : ConnInv(d)
  BY DEF IInv
<1>1. ASSUME NEW who \in SUBSET Conns, Close(who)
      PROVE  \A d \in Conns : ConnInv(d)'
  BY <1>0, <1>1, CloseKeepsConns
<1>2. ASSUME NEW c \in Conns, ClientStep(c)
      PROVE  \A d \in Conns : ConnInv(d)'
  <2>1. \A d \in Conns \ {c} : UNCHANGED ConnVars(d)
    BY <1>0, <1>2 DEF ClientStep, Connect, Send, Stall, HangUp, GoTo, historyVars, ConnVars, TypeOK
  <2>2. ConnInv(c)'
    BY <1>2, ConnectInv, SendInv, ClientEndInv DEF ClientStep
  <2> QED
    BY <1>0, <2>1, <2>2, OneConn
<1>3. ASSUME NEW c \in Conns, Accept(c)
      PROVE  \A d \in Conns : ConnInv(d)'
  <2>1. \A d \in Conns \ {c} : UNCHANGED ConnVars(d)
    BY <1>0, <1>3 DEF Accept, GoTo, historyVars, ConnVars, TypeOK
  <2> QED
    BY <1>0, <1>3, <2>1, AcceptInv, OneConn
<1>4. ASSUME NEW c \in Conns, Handler(c)
      PROVE  \A d \in Conns : ConnInv(d)'
  <2>1. CASE Close({c})
    BY <1>1, <2>1
  <2>2. CASE Read(c) /\ ~Close({c})
    <3>1. conn'[c] # "closed"
      BY <1>0, <2>2, LinesAssumption DEF Read, GoTo, TypeOK
    <3>2. \A d \in Conns \ {c} : UNCHANGED ConnVars(d)
      BY <1>0, <2>2 DEF Read, GoTo, historyVars, ConnVars, TypeOK
    <3> QED
      BY <1>0, <2>2, <3>1, <3>2, ReadInv, OneConn
  <2>3. CASE Dispatch(c)
    <3>1. \A d \in Conns \ {c} : UNCHANGED ConnVars(d)
      BY <1>0, <2>3 DEF Dispatch, GoTo, ConnVars, TypeOK
    <3> QED
      BY <1>0, <2>3, <3>1, DispatchInv, OneConn
  <2>4. CASE Reply(c)
    <3>1. \A d \in Conns \ {c} : UNCHANGED ConnVars(d)
      BY <1>0, <2>4 DEF Reply, GoTo, ConnVars, TypeOK
    <3> QED
      BY <1>0, <2>4, <3>1, ReplyInv, OneConn
  <2> QED
    BY <1>4, <2>1, <2>2, <2>3, <2>4 DEF Handler, Eof, Timeout, Terminate
<1>5. ASSUME ServerStep
      PROVE  \A d \in Conns : ConnInv(d)'
  <2>1. CASE LoopEnds
    <3>1. {c \in Conns : conn[c] = "backlog"} \in SUBSET Conns
      OBVIOUS
    <3> QED
      BY <1>1, <2>1, <3>1 DEF LoopEnds
  <2>2. CASE Exit \/ Crash
    BY <1>1, <2>2 DEF Exit, Crash, Gone
  <2>3. CASE Unlink \/ Start \/ Stop
    <3>1. \A d \in Conns : UNCHANGED ConnVars(d)
      BY <2>3 DEF Unlink, Start, Stop, historyVars, ConnVars
    <3> QED
      BY <1>0, <3>1, SameConn
  <2> QED
    BY <1>5, <2>1, <2>2, <2>3 DEF ServerStep
<1> QED
  BY <1>2, <1>3, <1>4, <1>5 DEF Next

LEMMA NextIInv == IInv /\ [Next]_vars => IInv'
<1>1. ASSUME IInv, Next
      PROVE  IInv'
  BY <1>1, StepTypes, StepServer, StepConns DEF IInv
<1>2. ASSUME IInv, UNCHANGED vars
      PROVE  IInv'
  <2>1. TypeOK' /\ ServerInv'
    BY <1>2 DEF IInv, vars, serverVars, historyVars, TypeOK, ServerInv
  <2>2. \A d \in Conns : UNCHANGED ConnVars(d)
    BY <1>2 DEF vars, serverVars, historyVars, ConnVars
  <2> QED
    BY <1>2, <2>1, <2>2, SameConn DEF IInv
<1> QED
  BY <1>1, <1>2

LEMMA Invariance == Spec => []IInv
BY InitIInv, NextIInv, PTL DEF Spec

(***************************************************************************)
(* The properties.                                                         *)
(***************************************************************************)

\* The variables have the values their declarations say.
THEOREM ServerIsTyped == Spec => []TypeOK
BY Invariance, PTL DEF IInv

\* What has been asked, or is a command, in a beginning of what was sent.
LEMMA ServedIsPrefix ==
  ASSUME IInv, NEW c \in Conns
  PROVE  \E served \in Seq(Lines), now \in Seq(Lines) :
           /\ Served(c, served)
           /\ now = (IF conn[c] = "reply" THEN served \o Held(c) ELSE served)
           /\ IsPrefix(served, now)
           /\ IsPrefix(served, sent[c]) /\ IsPrefix(now, sent[c])
<1>1. PICK served \in Seq(Lines) : Served(c, served)
  BY DEF IInv, ConnInv
<1>2. PICK held \in Seq(Lines), rest \in Seq(Lines) : held = Held(c) /\ rest = unread[c]
  <2>1. unread[c] \in Seq(Lines) /\ line[c] \in Lines \cup {NoLine}
    BY DEF IInv, TypeOK
  <2>2. Held(c) \in Seq(Lines)
    BY <2>1 DEF Held
  <2> QED
    BY <2>1, <2>2
<1>3. PICK read \in Seq(Lines) : read = served \o held
  BY ConcatProperties
<1>4. sent[c] = read \o rest /\ sent[c] \in Seq(Lines)
  BY <1>1, <1>2, <1>3 DEF Served, IInv, TypeOK
<1>5. IsPrefix(served, read) /\ IsPrefix(served, served)
  BY <1>3, PrefixIsConcat, PrefixReflexive
<1>6. IsPrefix(read, sent[c])
  BY <1>4, PrefixIsConcat
<1>7. IsPrefix(served, sent[c])
  BY <1>4, <1>5, PrefixExtends
<1> QED
  BY <1>1, <1>2, <1>3, <1>5, <1>6, <1>7

\* Responses come in the order of the lines they answer, whatever the clients and
\* the daemon do (handle_connection handles one line after the other).
THEOREM ResponsesComeInOrder == Spec => []RepliesInOrder
<1>1. ASSUME IInv, NEW c \in Conns
      PROVE  IsPrefix(replies[c], Asked(c))
  <2>1. PICK served \in Seq(Lines) : Served(c, served) /\ IsPrefix(served, sent[c])
    BY <1>1, ServedIsPrefix
  <2>2. replies[c] \in Seq(Lines) /\ sent[c] \in Seq(Lines)
    BY <1>1 DEF IInv, TypeOK
  <2>3. PICK more \in Seq(Lines) : sent[c] = served \o more
    BY <2>1, <2>2, PrefixIsConcat
  <2>4. Asked(c) = AskedIn(served) \o AskedIn(more)
    BY <2>3, OfKindsConcat DEF Asked, AskedIn
  <2>5. AskedIn(served) \in Seq(Lines) /\ AskedIn(more) \in Seq(Lines)
    BY OfKindsType DEF AskedIn
  <2> QED
    BY <2>1, <2>2, <2>4, <2>5, PrefixExtends DEF Served
<1>2. IInv => RepliesInOrder
  BY <1>1 DEF RepliesInOrder
<1> QED
  BY <1>2, Invariance, PTL

\* The commands of a connection run in order, each at most once, and before their
\* responses: no retry, shutdown or reset makes the runtime see one twice.
THEOREM CommandsRunOnce == Spec => []CommandsOnce
<1>1. ASSUME IInv, NEW c \in Conns
      PROVE  IsPrefix(executed[c], CommandsOf(sent[c])) /\ IsPrefix(CommandsOf(replies[c]), executed[c])
  <2>1. PICK served \in Seq(Lines), now \in Seq(Lines) :
          /\ Served(c, served)
          /\ now = (IF conn[c] = "reply" THEN served \o Held(c) ELSE served)
          /\ IsPrefix(served, now) /\ IsPrefix(now, sent[c])
    BY <1>1, ServedIsPrefix
  <2>2. executed[c] = CommandsOf(now)
    BY <2>1 DEF Served
  <2>3. replies[c] \in Seq(Lines) /\ sent[c] \in Seq(Lines)
    BY <1>1 DEF IInv, TypeOK
  <2>4. IsPrefix(CommandsOf(now), CommandsOf(sent[c]))
    BY <2>1, <2>3, OfKindsOfPrefix DEF CommandsOf
  <2>5. IsPrefix(CommandsOf(replies[c]), CommandsOf(AskedIn(served)))
    <3>1. AskedIn(served) \in Seq(Lines) /\ IsPrefix(replies[c], AskedIn(served))
      BY <2>1, OfKindsType DEF AskedIn, Served
    <3> QED
      BY <2>3, <3>1, OfKindsOfPrefix DEF CommandsOf
  <2>6. CommandsOf(AskedIn(served)) = CommandsOf(served)
    BY OfKindsTwice DEF CommandsOf, AskedIn
  <2>7. PICK more \in Seq(Lines) : now = served \o more
    BY <2>1, PrefixIsConcat
  <2>8. CommandsOf(now) = CommandsOf(served) \o CommandsOf(more)
    BY <2>7, OfKindsConcat DEF CommandsOf
  <2>9. /\ CommandsOf(replies[c]) \in Seq(Lines) /\ CommandsOf(served) \in Seq(Lines)
        /\ CommandsOf(more) \in Seq(Lines)
    BY <2>3, OfKindsType DEF CommandsOf
  <2>10. IsPrefix(CommandsOf(replies[c]), CommandsOf(now))
    BY <2>5, <2>6, <2>8, <2>9, PrefixExtends
  <2> QED
    BY <2>2, <2>4, <2>10
<1>2. IInv => CommandsOnce
  BY <1>1 DEF CommandsOnce
<1> QED
  BY <1>2, Invariance, PTL

\* A client that is still there loses its connection only to a shutdown, to a crash,
\* to what it sent that is not text, or when all it asked has been answered.
THEOREM ClientsAreNotCutOff == Spec => NeverCutOff
<1> DEFINE Cut(c) == conn[c] \in Handling /\ conn'[c] = "closed" /\ client[c] = "open"
           Excused(c) == \/ main = "stopping" \/ main' = "down"
                         \/ replies[c] = Asked(c)
                         \/ unread[c] # <<>> /\ Kind[Head(unread[c])] = "garbled"
<1>1. ASSUME IInv, Next, NEW c \in Conns, Cut(c)
      PROVE  Excused(c)
  <2>1. ASSUME NEW d \in Conns, ClientStep(d) \/ Accept(d)
        PROVE  Excused(c)
    BY <1>1, <2>1 DEF ClientStep, Connect, Send, Stall, HangUp, Accept, GoTo, Handling, IInv, TypeOK
  <2>2. ASSUME NEW d \in Conns, Handler(d)
        PROVE  Excused(c)
    <3>1. d = c
      BY <1>1, <2>2 DEF Handler, Read, Eof, Timeout, Terminate, Dispatch, Reply, Close, GoTo,
                        Handling, IInv, TypeOK
    <3>2. CASE Read(c)
      <4>1. unread[c] # <<>> /\ Head(unread[c]) \in Lines
        <5>1. unread[c] # <<>> /\ unread[c] \in Seq(Lines)
          BY <1>1, <3>2 DEF Read, IInv, TypeOK
        <5> QED
          BY <5>1, HeadTailProperties
      <4>2. After[Kind[Head(unread[c])]] = "closed"
        BY <1>1, <3>2 DEF Read, GoTo, IInv, TypeOK
      <4>3. Kind[Head(unread[c])] = "garbled"
        BY <4>1, <4>2, LinesAssumption DEF After, Kinds
      <4> QED
        BY <4>1, <4>3
    <3>3. CASE Timeout(c)
      <4>1. conn[c] = "reading" /\ unread[c] = <<>> /\ line[c] = NoLine
        BY <1>1, <3>3 DEF Timeout, IInv, ConnInv, LineMatchesStep
      <4>2. PICK served \in Seq(Lines) : Served(c, served)
        BY <1>1 DEF IInv, ConnInv
      <4>3. sent[c] = served
        BY <4>1, <4>2 DEF Served, Held
      <4> QED
        BY <1>1, <4>2, <4>3 DEF Served, Asked
    <3>4. CASE Terminate(c)
      BY <1>1, <3>4 DEF Terminate, ShutdownSeen, IInv, ServerInv
    <3>5. CASE Eof(c) \/ Dispatch(c) \/ Reply(c)
      BY <1>1, <3>5 DEF Eof, Dispatch, Reply, GoTo, Handling, IInv, TypeOK
    <3> QED
      BY <2>2, <3>1, <3>2, <3>3, <3>4, <3>5 DEF Handler
  <2>3. ASSUME ServerStep
        PROVE  Excused(c)
    BY <1>1, <2>3 DEF ServerStep, LoopEnds, Unlink, Start, Stop, Exit, Crash, Close, Handling
  <2> QED
    BY <1>1, <2>1, <2>2, <2>3 DEF Next
<1>2. IInv /\ [Next]_vars => [\A c \in Conns : Cut(c) => Excused(c)]_vars
  BY <1>1
<1>3. Spec => [][\A c \in Conns : Cut(c) => Excused(c)]_vars
  BY <1>2, Invariance, PTL DEF Spec
<1> QED
  BY <1>3 DEF NeverCutOff

\* While connections are accepted there is a socket file, whatever earlier runs of
\* the daemon left; and after an orderly exit there is none, unless removing it failed.
THEOREM SocketIsThereExactlyWhenServed == Spec => SocketFollowsServer
<1>1. IInv => (loop = "accepting" => file)
  BY DEF IInv, ServerInv
<1>2. ASSUME IInv, Next, main' = "exited", main # "exited", file'
      PROVE  loop = "leftover"
  <2>1. Exit
    BY <1>2 DEF Next, ClientStep, Connect, Send, Stall, HangUp, Accept, Handler, Read, Eof, Timeout,
                Terminate, Dispatch, Reply, ServerStep, LoopEnds, Unlink, Start, Stop, Crash, serverVars
  <2>2. loop \in {"ended", "leftover"} /\ file
    BY <1>2, <2>1 DEF Exit, Gone
  <2> QED
    BY <1>2, <2>2 DEF IInv, ServerInv
<1>3. IInv /\ [Next]_vars => [main' = "exited" /\ main # "exited" => (file' => loop = "leftover")]_vars
  BY <1>2
<1> QED
  BY <1>1, <1>3, Invariance, PTL DEF Spec, SocketFollowsServer

================================================================================
