----------------------------- MODULE LogBufferProofs -----------------------------
(***************************************************************************)
(* The ring buffer holds the last lines pushed, and log:tail returns the   *)
(* last of them, for any number of threads and any size of the buffer: a   *)
(* client of log:tail never misses a line that is newer than one it gets.  *)
(* The filter follows the settings, for any names and levels.              *)
(***************************************************************************)

EXTENDS LogBuffer, SequenceTheorems, FiniteSetTheorems, TLAPS

Events == Seq(Nat)

\* Nothing is stamped where there is no buffer to push it to.
IInv ==
  /\ config = None \/ config \in Configs
  /\ clock \in Nat
  /\ stamped \in [Threads -> Nat \cup {None}]
  /\ history \in Events
  /\ answer.after \in Events /\ answer.n \in Nat
  /\ Size = 0 => history = <<>> /\ \A t \in Threads : stamped[t] = None
  /\ config = None => answer.after = <<>>
  /\ BufferKeepsRecent
  /\ TailIsRecent

\* The filter holds the directives of the settings, listed in some order.
FilterInv ==
  config # None =>
    /\ config \in Configs
    /\ \E order \in SetToSeqs(DOMAIN config.internal) : directives = Directives(config, order)

\* How many events are kept of those pushed, and which.
Kept(events, n) == IF Len(events) > n THEN n ELSE Len(events)

End(events, k) == [i \in 1..k |-> events[Len(events) - k + i]]

LEMMA LastOfIsEnd ==
  ASSUME NEW events \in Events, NEW n \in Nat
  PROVE  Kept(events, n) \in 0..Len(events) /\ LastOf(events, n) = End(events, Kept(events, n))
<1> DEFINE k == Kept(events, n)
<1>1. Len(events) \in Nat /\ k \in 0..Len(events)
  BY DEF Events, Kept
<1>2. (IF Len(events) > n THEN Len(events) - n + 1 ELSE 1) = Len(events) - k + 1
  BY <1>1 DEF Kept
<1>3. LastOf(events, n) = SubSeq(events, Len(events) - k + 1, Len(events))
  BY <1>2 DEF LastOf
<1> HIDE DEF k
<1>4. SubSeq(events, Len(events) - k + 1, Len(events)) = End(events, k)
  BY <1>1 DEF End, Events
<1> QED
  BY <1>1, <1>3, <1>4 DEF k

LEMMA EndType ==
  ASSUME NEW events \in Events, NEW k \in 0..Len(events)
  PROVE  End(events, k) \in Events /\ Len(End(events, k)) = k
<1>1. Len(events) \in Nat /\ \A i \in 1..k : Len(events) - k + i \in 1..Len(events)
  BY DEF Events
<1>2. \A i \in 1..k : events[Len(events) - k + i] \in Nat
  BY <1>1 DEF Events
<1> QED
  BY <1>1, <1>2 DEF End, Events

\* A line pushed to the last k, with the oldest taken away or not.
LEMMA EndAppended ==
  ASSUME NEW events \in Events, NEW e \in Nat, NEW k \in 0..Len(events)
  PROVE  /\ Append(End(events, k), e) = End(Append(events, e), k + 1)
         /\ k > 0 => Append(Tail(End(events, k)), e) = End(Append(events, e), k)
<1>1. /\ Len(events) \in Nat /\ Append(events, e) \in Events
      /\ Len(Append(events, e)) = Len(events) + 1
      /\ \A i \in 1..Len(events) : Append(events, e)[i] = events[i]
      /\ Append(events, e)[Len(events) + 1] = e
  BY AppendProperties DEF Events
<1>2. End(events, k) \in Seq(Nat) /\ Len(End(events, k)) = k
  BY EndType DEF Events
<1> DEFINE longer == Append(events, e)
<1>l. \A j \in 0..Len(events) + 1 : End(longer, j) \in Seq(Nat) /\ Len(End(longer, j)) = j
  <2>1. longer \in Events /\ Len(longer) = Len(events) + 1
    BY <1>1
  <2> HIDE DEF longer
  <2> QED
    BY <2>1, EndType DEF Events
<1>3. End(Append(events, e), k + 1) \in Seq(Nat) /\ Len(End(Append(events, e), k + 1)) = k + 1
  BY <1>1, <1>l
<1>4. Append(End(events, k), e) = End(Append(events, e), k + 1)
  <2>1. ASSUME NEW i \in 1..k
        PROVE  Append(End(events, k), e)[i] = End(Append(events, e), k + 1)[i]
    <3>1. Append(End(events, k), e)[i] = End(events, k)[i]
      BY <1>2, AppendProperties
    <3>2. Len(events) - k + i \in 1..Len(events)
      BY <1>1
    <3> QED
      BY <1>1, <3>1, <3>2 DEF End
  <2>2. Append(End(events, k), e)[k + 1] = End(Append(events, e), k + 1)[k + 1]
    <3>1. Append(End(events, k), e)[k + 1] = e
      BY <1>2, AppendProperties
    <3> QED
      BY <1>1, <3>1 DEF End
  <2>3. Append(End(events, k), e) \in Seq(Nat) /\ Len(Append(End(events, k), e)) = k + 1
    BY <1>2, AppendProperties
  <2>4. \A i \in 1..k + 1 : i \in 1..k \/ i = k + 1
    OBVIOUS
  <2> QED
    BY <1>3, <2>1, <2>2, <2>3, <2>4, SeqEqual
<1>5. ASSUME k > 0
      PROVE  Append(Tail(End(events, k)), e) = End(Append(events, e), k)
  <2>1. /\ Tail(End(events, k)) \in Seq(Nat) /\ Len(Tail(End(events, k))) = k - 1
        /\ \A i \in 1..k - 1 : Tail(End(events, k))[i] = End(events, k)[i + 1]
    <3>1. End(events, k) # <<>>
      BY <1>2, <1>5
    <3> QED
      BY <1>2, <3>1, HeadTailProperties
  <2>2. /\ Append(Tail(End(events, k)), e) \in Seq(Nat)
        /\ Len(Append(Tail(End(events, k)), e)) = k
        /\ \A i \in 1..k - 1 : Append(Tail(End(events, k)), e)[i] = Tail(End(events, k))[i]
        /\ Append(Tail(End(events, k)), e)[k] = e
    BY <1>5, <2>1, AppendProperties
  <2>3. End(Append(events, e), k) \in Seq(Nat) /\ Len(End(Append(events, e), k)) = k
    BY <1>1, <1>l
  <2>4. ASSUME NEW i \in 1..k - 1
        PROVE  Append(Tail(End(events, k)), e)[i] = End(Append(events, e), k)[i]
    <3>1. Append(Tail(End(events, k)), e)[i] = End(events, k)[i + 1]
      BY <2>1, <2>2
    <3>2. Len(events) - k + (i + 1) \in 1..Len(events) /\ i + 1 \in 1..k /\ i \in 1..k
      BY <1>1
    <3>3. End(events, k)[i + 1] = events[Len(events) - k + (i + 1)]
      BY <3>2 DEF End
    <3>4. End(Append(events, e), k)[i] = Append(events, e)[Len(events) - k + (i + 1)]
      BY <1>1, <3>2 DEF End
    <3> QED
      BY <1>1, <3>1, <3>2, <3>3, <3>4
  <2>5. End(Append(events, e), k)[k] = e
    BY <1>1, <1>5 DEF End
  <2>6. \A i \in 1..k : i \in 1..k - 1 \/ i = k
    OBVIOUS
  <2> QED
    BY <2>2, <2>3, <2>4, <2>5, <2>6, SeqEqual
<1> QED
  BY <1>4, <1>5

\* Pushing a line to the last lines gives the last lines.
LEMMA PushedIsLast ==
  ASSUME NEW events \in Events, NEW e \in Nat, Size \in Nat, Size # 0
  PROVE  Pushed(LastOf(events, Size), e) = LastOf(Append(events, e), Size)
<1>1. Append(events, e) \in Events /\ Len(Append(events, e)) = Len(events) + 1 /\ Len(events) \in Nat
  BY AppendProperties DEF Events
<1>2. /\ LastOf(events, Size) = End(events, Kept(events, Size))
      /\ Kept(events, Size) \in 0..Len(events)
      /\ Len(End(events, Kept(events, Size))) = Kept(events, Size)
  BY LastOfIsEnd, EndType
<1>3. LastOf(Append(events, e), Size) = End(Append(events, e), Kept(Append(events, e), Size))
  BY <1>1, LastOfIsEnd
<1>4. CASE Len(events) >= Size
  <2>1. Kept(events, Size) = Size /\ Kept(Append(events, e), Size) = Size
    BY <1>1, <1>4 DEF Kept
  <2>2. Append(Tail(End(events, Size)), e) = End(Append(events, e), Size)
    BY <1>1, <1>4, EndAppended
  <2> QED
    BY <1>2, <1>3, <2>1, <2>2 DEF Pushed
<1>5. CASE Len(events) < Size
  <2>1. Kept(events, Size) = Len(events) /\ Kept(Append(events, e), Size) = Len(events) + 1
    BY <1>1, <1>5 DEF Kept
  <2>2. Append(End(events, Len(events)), e) = End(Append(events, e), Len(events) + 1)
    BY <1>1, EndAppended
  <2> QED
    BY <1>1, <1>2, <1>3, <1>5, <2>1, <2>2 DEF Pushed
<1> QED
  BY <1>1, <1>4, <1>5

\* The first lines of the reversed buffer are its last lines, reversed.
LEMMA RecentIsLast ==
  ASSUME NEW events \in Events, NEW n \in Nat, Size \in Nat
  PROVE  Recent(LastOf(events, Size), n)
           = Reverse(LastOf(events, IF n < Size THEN n ELSE Size))
<1> DEFINE least == IF n < Size THEN n ELSE Size
           k == Kept(events, Size)
           j == Kept(events, least)
<1>1. Len(events) \in Nat /\ least \in Nat
  BY DEF Events
<1>2. /\ k \in 0..Len(events) /\ LastOf(events, Size) = End(events, k)
      /\ j \in 0..Len(events) /\ LastOf(events, least) = End(events, j)
  BY <1>1, LastOfIsEnd
<1>3. j <= k /\ j = (IF n < k THEN n ELSE k)
  BY <1>1, <1>2 DEF Kept
<1> HIDE DEF least, k, j
<1>4. Len(End(events, k)) = k /\ Len(End(events, j)) = j
  BY <1>2, EndType
<1>5. Reverse(End(events, k)) = [i \in 1..k |-> events[Len(events) - i + 1]]
  <2>1. Reverse(End(events, k)) = [i \in 1..k |-> End(events, k)[k - i + 1]]
    BY <1>4 DEF Reverse
  <2>2. \A i \in 1..k : k - i + 1 \in 1..k /\ Len(events) - k + (k - i + 1) = Len(events) - i + 1
    BY <1>1, <1>2
  <2> QED
    BY <2>1, <2>2 DEF End
<1>6. Reverse(End(events, j)) = [i \in 1..j |-> events[Len(events) - i + 1]]
  <2>1. Reverse(End(events, j)) = [i \in 1..j |-> End(events, j)[j - i + 1]]
    BY <1>4 DEF Reverse
  <2>2. \A i \in 1..j : j - i + 1 \in 1..j /\ Len(events) - j + (j - i + 1) = Len(events) - i + 1
    BY <1>1, <1>2
  <2> QED
    BY <2>1, <2>2 DEF End
<1>7. SubSeq([i \in 1..k |-> events[Len(events) - i + 1]], 1, j)
        = [i \in 1..j |-> events[Len(events) - i + 1]]
  BY <1>1, <1>2, <1>3
<1>8. Recent(LastOf(events, Size), n) = SubSeq(Reverse(End(events, k)), 1, j)
  BY <1>2, <1>3, <1>4 DEF Recent
<1> QED
  BY <1>2, <1>5, <1>6, <1>7, <1>8 DEF least

\* The size of the buffer is a number, zero before init.
LEMMA SizeType ==
  ASSUME config = None \/ config \in Configs
  PROVE  Size \in Nat
BY SizeAssumption DEF Size, Configs

LEMMA NothingYet == LastOf(<<>>, 0) = <<>> /\ Reverse(<<>>) = <<>>
BY DEF LastOf, Reverse

LEMMA InitIInv == Init => IInv
<1> SUFFICES ASSUME Init PROVE IInv
  OBVIOUS
<1> USE SizeAssumption DEF Init
<1>1. Size = 0 /\ <<>> \in Events
  BY DEF Size, Events
<1>2. BufferKeepsRecent
  BY <1>1, NothingYet DEF BufferKeepsRecent
<1>3. TailIsRecent
  BY <1>1, NothingYet DEF TailIsRecent
<1> QED
  BY <1>1, <1>2, <1>3 DEF IInv

LEMMA StepIInv == IInv /\ [Next]_vars => IInv'
<1> SUFFICES ASSUME IInv, [Next]_vars PROVE IInv'
  OBVIOUS
<1> USE SizeAssumption
<1>0. Size \in Nat
  BY SizeType DEF IInv
<1>1. ASSUME NEW settings \in Configs, Setup(settings)
      PROVE  IInv'
  <2>1. /\ history = <<>> /\ answer.after = <<>> /\ buffer = <<>> /\ answer.lines = <<>>
        /\ \A t \in Threads : stamped[t] = None
    <3>1. config = None /\ Size = 0
      BY <1>1 DEF Setup, Size
    <3>2. history = <<>> /\ answer.after = <<>> /\ \A t \in Threads : stamped[t] = None
      BY <3>1 DEF IInv
    <3>3. LastOf(<<>>, IF answer.n < Size THEN answer.n ELSE Size) = <<>>
      BY <1>0 DEF LastOf, IInv
    <3> QED
      BY <3>1, <3>2, <3>3, NothingYet DEF IInv, BufferKeepsRecent, TailIsRecent
  <2>2. \A n \in Nat : LastOf(<<>>, n) = <<>>
    BY DEF LastOf
  <2>3. config' \in Configs
    BY <1>1 DEF Setup
  <2>4. Size' \in Nat
    BY <2>3 DEF Size, Configs
  <2>5. UNCHANGED <<clock, stamped, buffer, history, answer>>
    BY <1>1 DEF Setup
  <2>6. (IF answer.n < Size' THEN answer.n ELSE Size') \in Nat
    BY <2>4 DEF IInv
  <2>7. BufferKeepsRecent' /\ TailIsRecent'
    BY <2>1, <2>2, <2>4, <2>5, <2>6, NothingYet DEF BufferKeepsRecent, TailIsRecent
  <2> QED
    BY <2>1, <2>3, <2>5, <2>7 DEF IInv
<1>2. ASSUME NEW t \in Threads, Stamp(t)
      PROVE  IInv'
  <2>1. Size' = Size /\ Size # 0 /\ config' = config /\ UNCHANGED <<buffer, history, answer>>
    BY <1>0, <1>2 DEF Stamp, setup, Size
  <2>2. clock' \in Nat /\ stamped' \in [Threads -> Nat \cup {None}]
    BY <1>2 DEF Stamp, IInv
  <2> QED
    BY <2>1, <2>2 DEF IInv, BufferKeepsRecent, TailIsRecent
<1>3. ASSUME NEW t \in Threads, Push(t)
      PROVE  IInv'
  <2>1. Size' = Size /\ config' = config /\ UNCHANGED <<clock, answer>>
    BY <1>3 DEF Push, setup, Size
  <2>2. Size \in Nat /\ Size # 0 /\ stamped[t] \in Nat
    BY <1>0, <1>3 DEF Push, IInv
  <2>3. history' = Append(history, stamped[t]) /\ history' \in Events
    BY <1>3, <2>2 DEF Push, IInv, Events
  <2>4. stamped' \in [Threads -> Nat \cup {None}]
    BY <1>3 DEF Push, IInv
  <2>5. buffer' = LastOf(history', Size)
    BY <1>3, <2>2, <2>3, PushedIsLast DEF Push, IInv, BufferKeepsRecent
  <2> QED
    BY <2>1, <2>2, <2>3, <2>4, <2>5 DEF IInv, BufferKeepsRecent, TailIsRecent
<1>4. ASSUME NEW n \in 0 .. MaxSize + 1, LogTail(n)
      PROVE  IInv'
  <2>1. Size' = Size /\ config' = config /\ UNCHANGED <<clock, stamped, buffer, history>>
    BY <1>4 DEF LogTail, setup, Size
  <2>2. answer' = [n |-> n, lines |-> Recent(buffer, n), after |-> history] /\ n \in Nat
    BY <1>4 DEF LogTail
  <2>3. Recent(buffer, n) = Reverse(LastOf(history, IF n < Size THEN n ELSE Size))
    BY <1>0, <2>2, RecentIsLast DEF IInv, BufferKeepsRecent
  <2>4. TailIsRecent' /\ BufferKeepsRecent'
    BY <2>1, <2>2, <2>3 DEF TailIsRecent, BufferKeepsRecent, IInv
  <2>5. config = None => history = <<>>
    BY DEF IInv, Size
  <2> QED
    BY <2>1, <2>2, <2>4, <2>5 DEF IInv
<1>5. CASE UNCHANGED vars
  <2>1. Size' = Size /\ config' = config /\ UNCHANGED <<clock, stamped, buffer, history, answer>>
    BY <1>5 DEF vars, setup, Size
  <2> QED
    BY <2>1 DEF IInv, BufferKeepsRecent, TailIsRecent
<1> QED
  BY <1>1, <1>2, <1>3, <1>4, <1>5 DEF Next

LEMMA Invariance == Spec => []IInv
BY InitIInv, StepIInv, PTL DEF Spec

\* A list without duplicates of all the names of a map.
LEMMA OrderListsAll ==
  ASSUME NEW S \in SUBSET Targets, NEW order \in SetToSeqs(S)
  PROVE  /\ order \in Seq(S)
         /\ \A name \in S : \E i \in DOMAIN order : order[i] = name
         /\ \A i, j \in DOMAIN order : order[i] = order[j] => i = j
<1>1. IsFiniteSet(S) /\ Cardinality(S) \in Nat
  BY TargetsAssumption, FS_Subset, FS_CardinalityType
<1> DEFINE n == Cardinality(S)
<1>2. order \in [1..n -> S] /\ \A i, j \in 1..n : i # j => order[i] # order[j]
  BY DEF SetToSeqs
<1>3. order \in Injection(1..n, S)
  BY <1>2 DEF Injection, IsInjective
<1>4. Cardinality(1..n) = Cardinality(S)
  BY <1>1, FS_Interval
<1>5. order \in Surjection(1..n, S)
  <2> HIDE DEF n
  <2> QED
    BY <1>1, <1>3, <1>4, FS_Injection
<1> QED
  BY <1>1, <1>2, <1>5 DEF Surjection

\* Every name has a directive, and the last one for it sets its level.
LEMMA LastDirectiveCounts ==
  ASSUME FilterInv, config # None
  PROVE  /\ \A i \in DOMAIN directives : directives[i][1] \in DOMAIN config.internal \cup {Arcella}
         /\ DOMAIN directives \subseteq Nat
         /\ \A name \in DOMAIN config.internal \cup {Arcella} :
              \E i \in DOMAIN directives :
                /\ directives[i] = <<name, LevelOf(name)>>
                /\ \A j \in DOMAIN directives : directives[j][1] = name => j <= i
<1> DEFINE names == DOMAIN config.internal
<1>1. names \in SUBSET Targets
  BY DEF FilterInv, Configs
<1>2. PICK order \in SetToSeqs(names) : directives = Directives(config, order)
  BY DEF FilterInv
<1>3. /\ order \in Seq(names) /\ DOMAIN order = 1..Len(order) /\ Len(order) \in Nat
      /\ \A name \in names : \E i \in DOMAIN order : order[i] = name
      /\ \A i, j \in DOMAIN order : order[i] = order[j] => i = j
  BY <1>1, <1>2, OrderListsAll
<1> DEFINE listed == [i \in DOMAIN order |-> <<order[i], config.internal[order[i]]>>]
<1> DEFINE default == <<Arcella, config.default_level>>
           Entries == {default} \cup {<<name, config.internal[name]>> : name \in names}
<1>4. /\ listed \in Seq(Entries) /\ Len(listed) = Len(order)
      /\ \A i \in 1..Len(order) : listed[i] = <<order[i], config.internal[order[i]]>>
  BY <1>3
<1>5. directives = <<default>> \o listed
  BY <1>2 DEF Directives
<1> HIDE DEF listed
<1>6. /\ DOMAIN directives = 1..Len(order) + 1
      /\ directives[1] = <<Arcella, config.default_level>>
      /\ \A i \in 1..Len(order) : directives[i + 1] = <<order[i], config.internal[order[i]]>>
  <2> HIDE DEF Entries, default
  <2>1. <<default>> \in Seq(Entries) /\ Len(<<default>>) = 1 /\ <<default>>[1] = default
    BY DEF Entries
  <2>2. /\ directives \in Seq(Entries) /\ Len(directives) = 1 + Len(order)
        /\ \A i \in 1..1 + Len(order) :
             directives[i] = IF i <= 1 THEN <<default>>[i] ELSE listed[i - 1]
    BY <1>4, <1>5, <2>1, ConcatProperties
  <2>3. directives[1] = default
    BY <1>3, <2>1, <2>2
  <2>4. ASSUME NEW i \in 1..Len(order)
        PROVE  directives[i + 1] = <<order[i], config.internal[order[i]]>>
    <3>1. i + 1 \in 1..1 + Len(order) /\ ~(i + 1 <= 1) /\ (i + 1) - 1 = i
      BY <1>3
    <3>2. directives[i + 1] = listed[i]
      BY <2>2, <3>1
    <3> QED
      BY <1>4, <3>2
  <2>5. DOMAIN directives = 1..Len(order) + 1
    BY <1>3, <2>2
  <2> QED
    BY <2>3, <2>4, <2>5 DEF default
<1>7. \A j \in DOMAIN directives : j = 1 \/ (j - 1 \in 1..Len(order) /\ j = (j - 1) + 1)
  BY <1>3, <1>6
<1>8. \A i \in DOMAIN directives : directives[i][1] \in names \cup {Arcella}
  BY <1>3, <1>6, <1>7
<1>9. ASSUME NEW name \in names
      PROVE  \E i \in DOMAIN directives :
               /\ directives[i] = <<name, LevelOf(name)>>
               /\ \A j \in DOMAIN directives : directives[j][1] = name => j <= i
  <2>1. PICK k \in 1..Len(order) : order[k] = name
    BY <1>3
  <2>2. k + 1 \in DOMAIN directives /\ directives[k + 1] = <<name, LevelOf(name)>>
    BY <1>3, <1>6, <2>1 DEF LevelOf
  <2>3. ASSUME NEW j \in DOMAIN directives, directives[j][1] = name
        PROVE  j <= k + 1
    <3>1. CASE j = 1
      BY <3>1
    <3>2. CASE j - 1 \in 1..Len(order) /\ j = (j - 1) + 1
      <4>1. order[j - 1] = name
        BY <1>6, <2>3, <3>2
      <4>2. j - 1 = k
        BY <1>3, <2>1, <3>2, <4>1
      <4> QED
        BY <3>2, <4>2
    <3> QED
      BY <1>7, <3>1, <3>2
  <2> QED
    BY <2>2, <2>3
<1>10. ASSUME Arcella \notin names
       PROVE  /\ 1 \in DOMAIN directives /\ directives[1] = <<Arcella, LevelOf(Arcella)>>
              /\ \A j \in DOMAIN directives : directives[j][1] = Arcella => j <= 1
  <2>1. 1 \in DOMAIN directives /\ directives[1] = <<Arcella, LevelOf(Arcella)>>
    BY <1>3, <1>6, <1>10 DEF LevelOf
  <2>2. ASSUME NEW j \in DOMAIN directives, directives[j][1] = Arcella
        PROVE  j <= 1
    <3>1. \A i \in 1..Len(order) : directives[i + 1][1] \in names
      BY <1>3, <1>6
    <3> QED
      BY <1>7, <1>10, <2>2, <3>1
  <2> QED
    BY <2>1, <2>2
<1>11. DOMAIN directives \subseteq Nat
  BY <1>3, <1>6
<1>12. ASSUME NEW name \in names \cup {Arcella}
       PROVE  \E i \in DOMAIN directives :
                /\ directives[i] = <<name, LevelOf(name)>>
                /\ \A j \in DOMAIN directives : directives[j][1] = name => j <= i
  <2>1. CASE name \in names
    BY <1>9, <2>1
  <2>2. CASE name \notin names
    <3>1. name = Arcella
      BY <2>2
    <3> QED
      BY <1>10, <2>2, <3>1
  <2> QED
    BY <2>1, <2>2
<1> QED
  BY <1>8, <1>11, <1>12

\* Of one length, a target has one prefix.
LEMMA PrefixesDiffer ==
  ASSUME NEW a \in Targets \cup {Arcella}, NEW b \in Targets \cup {Arcella}, NEW target,
         IsPrefix(a, target), IsPrefix(b, target), Len(a) = Len(b)
  PROVE  a = b
<1>1. ASSUME NEW name \in Targets \cup {Arcella}
      PROVE  SubSeq(name, 1, Len(name)) = name
  <2>1. name \in Seq(Range(name))
    BY TargetsAssumption
  <2> QED
    BY <2>1
<1>2. SubSeq(a, 1, Len(a)) = SubSeq(b, 1, Len(b))
  BY DEF IsPrefix
<1> QED
  BY <1>1, <1>2

LEMMA FilterFollows == FilterInv => LevelsFollowSettings
<1> SUFFICES ASSUME FilterInv, config # None, NEW target \in Targets, NEW level \in Levels
             PROVE  LET named == {name \in DOMAIN config.internal \cup {Arcella} : IsPrefix(name, target)}
                    IN  Enabled(target, level) <=>
                          \E name \in named :
                            /\ level <= LevelOf(name)
                            /\ \A other \in named : Len(other) <= Len(name)
  BY DEF LevelsFollowSettings
<1> DEFINE names == DOMAIN config.internal \cup {Arcella}
           named == {name \in names : IsPrefix(name, target)}
           matching == {i \in DOMAIN directives : IsPrefix(directives[i][1], target)}
<1>1. names \subseteq Targets \cup {Arcella}
  BY DEF FilterInv, Configs
<1>2. \A name \in names : Len(name) \in Nat
  <2> SUFFICES ASSUME NEW name \in names PROVE Len(name) \in Nat
    OBVIOUS
  <2>1. name \in Seq(Range(name))
    BY <1>1, TargetsAssumption
  <2> QED
    BY <2>1
<1>3. /\ \A i \in DOMAIN directives : directives[i][1] \in names
      /\ DOMAIN directives \subseteq Nat
      /\ \A name \in names : \E i \in DOMAIN directives :
           /\ directives[i] = <<name, LevelOf(name)>>
           /\ \A j \in DOMAIN directives : directives[j][1] = name => j <= i
  BY LastDirectiveCounts
<1>4. ASSUME Enabled(target, level)
      PROVE  \E name \in named :
               level <= LevelOf(name) /\ \A other \in named : Len(other) <= Len(name)
  <2>1. PICK i \in matching :
          /\ level <= directives[i][2]
          /\ \A j \in matching \ {i} :
               \/ Len(directives[j][1]) < Len(directives[i][1])
               \/ Len(directives[j][1]) = Len(directives[i][1]) /\ j < i
    BY <1>4 DEF Enabled
  <2>2. PICK name \in named : name = directives[i][1]
    BY <1>3
  <2>3. PICK k \in DOMAIN directives :
          /\ directives[k] = <<name, LevelOf(name)>>
          /\ \A j \in DOMAIN directives : directives[j][1] = name => j <= k
    BY <1>3
  <2>4. k \in matching /\ directives[k][1] = name /\ i <= k
    BY <2>2, <2>3
  <2>5. k = i
    BY <1>2, <1>3, <2>1, <2>2, <2>4
  <2>6. level <= LevelOf(name)
    BY <2>1, <2>3, <2>5
  <2>7. ASSUME NEW other \in named
        PROVE  Len(other) <= Len(name)
    <3>1. PICK j \in matching : directives[j][1] = other
      BY <1>3
    <3> QED
      BY <1>2, <2>1, <2>2, <3>1
  <2> QED
    BY <2>6, <2>7
<1>5. ASSUME NEW name \in named, level <= LevelOf(name),
             \A other \in named : Len(other) <= Len(name)
      PROVE  Enabled(target, level)
  <2>1. PICK i \in DOMAIN directives :
          /\ directives[i] = <<name, LevelOf(name)>>
          /\ \A j \in DOMAIN directives : directives[j][1] = name => j <= i
    BY <1>3
  <2>2. i \in matching /\ directives[i][1] = name /\ level <= directives[i][2]
    BY <1>5, <2>1
  <2>3. ASSUME NEW j \in matching \ {i}
        PROVE  \/ Len(directives[j][1]) < Len(directives[i][1])
               \/ Len(directives[j][1]) = Len(directives[i][1]) /\ j < i
    <3>1. directives[j][1] \in named /\ j \in Nat /\ i \in Nat /\ j # i
      BY <1>3
    <3>2. Len(directives[j][1]) <= Len(name) /\ Len(directives[j][1]) \in Nat /\ Len(name) \in Nat
      BY <1>2, <1>5, <3>1
    <3>3. ASSUME Len(directives[j][1]) = Len(name)
          PROVE  j < i
      <4>1. directives[j][1] = name
        BY <1>1, <3>1, <3>3, PrefixesDiffer
      <4> QED
        BY <2>1, <3>1, <4>1
    <3> QED
      BY <2>2, <3>2, <3>3
  <2> QED
    BY <2>2, <2>3 DEF Enabled
<1> QED
  BY <1>4, <1>5

LEMMA FilterInvariance == Spec => []FilterInv
<1>1. Init => FilterInv
  BY DEF Init, FilterInv
<1>2. FilterInv /\ [Next]_vars => FilterInv'
  <2> SUFFICES ASSUME FilterInv, [Next]_vars PROVE FilterInv'
    OBVIOUS
  <2>1. ASSUME NEW settings \in Configs, Setup(settings)
        PROVE  FilterInv'
    <3>1. /\ config' = settings
          /\ \E order \in SetToSeqs(DOMAIN settings.internal) : directives' = Directives(settings, order)
      BY <2>1 DEF Setup
    <3> QED
      BY <3>1 DEF FilterInv
  <2>2. CASE UNCHANGED setup
    BY <2>2 DEF FilterInv, setup
  <2>3. CASE \E t \in Threads : Stamp(t) \/ Push(t)
    BY <2>2, <2>3 DEF Stamp, Push
  <2>4. CASE \E n \in 0 .. MaxSize + 1 : LogTail(n)
    BY <2>2, <2>4 DEF LogTail
  <2> QED
    BY <2>1, <2>2, <2>3, <2>4 DEF Next, vars
<1> QED
  BY <1>1, <1>2, PTL DEF Spec

\* Whatever levels arcella.log sets for whatever names, and in whatever order
\* the map yields them, an event is let through exactly when the longest name
\* that matches its target says so.
THEOREM FilterFollowsSettings == Spec => []LevelsFollowSettings
BY FilterInvariance, FilterFollows, PTL

\* The buffer is the last alme_buffer_size lines that any thread pushed: on_event
\* evicts one line, the oldest, and only when it must.
THEOREM BufferIsTheLastLines == Spec => []BufferKeepsRecent
BY Invariance, PTL DEF IInv

\* What log:tail returned are the last lines logged when it was asked, however
\* many it asks for and however small the buffer is.
THEOREM TailIsTheLastLines == Spec => []TailIsRecent
BY Invariance, PTL DEF IInv

================================================================================
