-------------------------------- MODULE LogBuffer --------------------------------
(***************************************************************************)
(* Logging (arcella/src/log/mod.rs).  init turns the settings under        *)
(* arcella.log into a filter and a set of layers.  Every thread that logs  *)
(* an event the filter lets through stamps it with the time and then,      *)
(* under the mutex, pushes it to the ring buffer behind log:tail; a client *)
(* reads the last lines, newest first.  An event is represented by its     *)
(* time stamp, its text by nothing.                                        *)
(***************************************************************************)

EXTENDS Naturals, SequencesExt

CONSTANTS
  Threads,    \* threads that log
  Targets,    \* where events come from: sequences, whose prefixes are those of the names
  Arcella,    \* the target of the daemon itself, a prefix of those of its modules
  Levels,     \* 1 for errors, higher numbers for more detail
  MaxSize,    \* bound on alme_buffer_size
  MaxEvents,  \* bound on the events logged
  None

ASSUME SizeAssumption ==
  /\ MaxSize \in Nat \ {0}
  /\ MaxEvents \in Nat
  /\ Levels \subseteq Nat
  /\ None \notin Nat

ASSUME TargetsAssumption ==
  /\ IsFiniteSet(Targets)
  /\ \A name \in Targets \cup {Arcella} : name \in Seq(Range(name))

\* TracingConfig.  The file and stderr, if they are on, take the same events as
\* the buffer and are not read by the program.
Configs ==
  [default_level : Levels, internal : UNION {[names -> Levels] : names \in SUBSET Targets},
   alme_buffer_size : 0..MaxSize]

VARIABLES
  config,      \* the settings, or None before init, or if it fails
  directives,  \* the filter, in the order in which init lists its directives
  clock,       \* OffsetDateTime::now_utc, taken to be strictly increasing
  stamped,     \* the event each thread has stamped and not yet pushed, or None
  buffer,      \* LOG_BUFFER
  history,     \* every event pushed so far, in the order of the pushes
  answer       \* the lines the last log:tail returned, and how many it asked for

setup == <<config, directives>>
vars == <<setup, clock, stamped, buffer, history, answer>>

Init ==
  /\ config = None
  /\ directives = <<>>
  /\ clock = 0
  /\ stamped = [t \in Threads |-> None]
  /\ buffer = <<>>
  /\ history = <<>>
  /\ answer = [n |-> 0, lines |-> <<>>, after |-> <<>>]

DirectivesDefaultLast(settings, order) ==
  [i \in DOMAIN order |-> <<order[i], settings.internal[order[i]]>>]
    \o <<<<Arcella, settings.default_level>>>>

\* The default first; then the map of the modules, in the order of its iterator.
Directives(settings, order) ==
  <<<<Arcella, settings.default_level>>>>
    \o [i \in DOMAIN order |-> <<order[i], settings.internal[order[i]]>>]

\* init, unless it fails, and main with it: the settings are not valid or the
\* directory of the log cannot be created.
Setup(settings) ==
  /\ config = None
  /\ config' = settings
  /\ \E order \in SetToSeqs(DOMAIN settings.internal) : directives' = Directives(settings, order)
  /\ UNCHANGED <<clock, stamped, buffer, history, answer>>

\* EnvFilter: a directive replaces an earlier one for the same target, the
\* longest prefix of the event's target decides, and without one the event is
\* dropped.
Enabled(target, level) ==
  LET matching == {i \in DOMAIN directives : IsPrefix(directives[i][1], target)}
  IN  \E i \in matching :
        /\ level <= directives[i][2]
        /\ \A j \in matching \ {i} :
             \/ Len(directives[j][1]) < Len(directives[i][1])
             \/ Len(directives[j][1]) = Len(directives[i][1]) /\ j < i

Size == IF config = None THEN 0 ELSE config.alme_buffer_size

\* on_event reads the clock and formats the line: no lock is held.  Without a
\* buffer the layer is not there.
Stamp(t) ==
  /\ Size > 0
  /\ \E target \in Targets, level \in Levels : Enabled(target, level)
  /\ stamped[t] = None
  /\ clock < MaxEvents
  /\ clock' = clock + 1
  /\ stamped' = [stamped EXCEPT ![t] = clock]
  /\ UNCHANGED <<setup, buffer, history, answer>>

PushedEvictingLate(buf, event) ==
  Append(IF Len(buf) > Size THEN Tail(buf) ELSE buf, event)

PushedDroppingNew(buf, event) ==
  IF Len(buf) >= Size THEN Append(Tail(buf), Head(buf)) ELSE Append(buf, event)

\* The oldest line makes room for the new one.
Pushed(buf, event) ==
  Append(IF Len(buf) >= Size THEN Tail(buf) ELSE buf, event)

Push(t) ==
  /\ stamped[t] # None
  /\ buffer' = Pushed(buffer, stamped[t])
  /\ history' = Append(history, stamped[t])
  /\ stamped' = [stamped EXCEPT ![t] = None]
  /\ UNCHANGED <<setup, clock, answer>>

RecentOldest(buf, n) == Reverse(SubSeq(buf, 1, IF n < Len(buf) THEN n ELSE Len(buf)))

\* get_recent_logs: buf.iter().rev().take(n), or nothing if there is no buffer.
Recent(buf, n) == SubSeq(Reverse(buf), 1, IF n < Len(buf) THEN n ELSE Len(buf))

LogTail(n) ==
  /\ answer' = [n |-> n, lines |-> Recent(buffer, n), after |-> history]
  /\ UNCHANGED <<setup, clock, stamped, buffer, history>>

Next ==
  \/ \E settings \in Configs : Setup(settings)
  \/ \E t \in Threads : Stamp(t) \/ Push(t)
  \/ \E n \in 0 .. MaxSize + 1 : LogTail(n)

Spec == Init /\ [][Next]_vars

--------------------------------------------------------------------------------
(* Properties.                                                             *)

LastOf(events, n) == SubSeq(events, IF Len(events) > n THEN Len(events) - n + 1 ELSE 1, Len(events))

\* What the settings say of a name: a level of its own overrides the default.
LevelOf(name) ==
  IF name \in DOMAIN config.internal THEN config.internal[name] ELSE config.default_level

\* The level that counts for an event is the one of the longest name that is a
\* prefix of its target, among the daemon's own and those the settings list, in
\* whatever order the map lists them ("These override `default_level` for the
\* specified targets", log/mod.rs:122).
LevelsFollowSettings ==
  config # None =>
    \A target \in Targets, level \in Levels :
      LET named == {name \in DOMAIN config.internal \cup {Arcella} : IsPrefix(name, target)}
      IN  Enabled(target, level) <=>
            \E name \in named :
              /\ level <= LevelOf(name)
              /\ \A other \in named : Len(other) <= Len(name)

\* The buffer never holds more than alme_buffer_size lines, and never loses one
\* of the most recent (TracingConfig::alme_buffer_size).
BufferKeepsRecent == buffer = LastOf(history, Size)

\* log:tail returns exactly as many of the lines logged so far as were asked
\* for and are kept, the last pushed first (log/mod.rs:234-243).
TailIsRecent ==
  answer.lines = Reverse(LastOf(answer.after, IF answer.n < Size THEN answer.n ELSE Size))

================================================================================
