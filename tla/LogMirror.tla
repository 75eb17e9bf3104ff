-------------------------------- MODULE LogMirror ------------------------------
(* Mirroring the engine's log: log_write_detour of src/src/hades1/log_write.cpp,*)
(* called on any of the engine's threads.                                       *)
EXTENDS Naturals, FiniteSets, SequencesExt

CONSTANTS
  Threads,   \* the threads that log
  Messages,  \* level, place and text: what makes a line
  Kind,      \* how the detour sorts a message:
             \*   "flush", "optional", "script" or "plain"
  NoMessage,
  MaxLines   \* bound on the messages mirrored, and on the lines

ASSUME KindAssumption ==
  /\ Kind \in [Messages -> {"flush", "optional", "script", "plain"}]
  /\ NoMessage \notin Messages
ASSUME ThreadsAssumption == IsFiniteSet(Threads)

VARIABLES
  echo,      \* "Output Vanilla Game Log"
  pc,        \* per thread: "idle", "sort", "report", "collapse"
  msg,       \* per thread, its message
  reported,  \* the two static flags: has that kind been reported?
  last,      \* the last line mirrored
  repeats,   \* how often it came again
  log,       \* what the loader has logged
  sent,      \* history: the messages in the order they came to be mirrored
  errors     \* history: the script errors logged by the engine

thread == <<pc, msg>>
run == <<last, repeats>>
vars == <<echo, thread, reported, run, log, sent, errors>>

\* The lines of the log.
Line(m)   == <<"line", m>>
Again(n)  == <<"previous message repeated", n>>
Once(k)   == <<"reported once", k>>
Debug(m)  == <<"debug", m>>

Init ==
  /\ echo = TRUE
  /\ pc = [t \in Threads |-> "idle"] /\ msg = [t \in Threads |-> NoMessage]
  /\ reported = [k \in {"flush", "optional"} |-> FALSE]
  /\ last = NoMessage /\ repeats = 0
  /\ log = <<>> /\ sent = <<>> /\ errors = 0

Busy == {t \in Threads : pc[t] # "idle"}

Goto(t, where) == pc' = [pc EXCEPT ![t] = where] /\ UNCHANGED msg
Return(t) ==
  /\ pc' = [pc EXCEPT ![t] = "idle"]
  /\ msg' = [msg EXCEPT ![t] = NoMessage]

--------------------------------------------------------------------------------

\* The engine logs; its own Log::Write has had the message.
Write(t, m) ==
  /\ pc[t] = "idle"
  /\ Len(sent) + Cardinality(Busy) < MaxLines /\ Len(log) < 2 * MaxLines
  /\ pc' = [pc EXCEPT ![t] = "sort"]
  /\ msg' = [msg EXCEPT ![t] = m]
  /\ errors' = IF Kind[m] = "script" THEN errors + 1 ELSE errors
  /\ UNCHANGED <<echo, reported, run, log, sent>>

\* A failed flush, or a miss of an optional file: if (!reported) ...
Demote(t) ==
  /\ pc[t] = "sort" /\ Kind[msg[t]] \in {"flush", "optional"}
  /\ IF ~reported[Kind[msg[t]]]
     THEN Goto(t, "report") /\ UNCHANGED log
     ELSE /\ Return(t)
          /\ log' = IF Kind[msg[t]] = "optional" THEN Append(log, Debug(msg[t])) ELSE log
  /\ UNCHANGED <<echo, reported, run, sent, errors>>

\* ... reported = true, and the one report; a miss goes to the file as well.
Report(t) ==
  /\ pc[t] = "report"
  /\ reported' = [reported EXCEPT ![Kind[msg[t]]] = TRUE]
  /\ log' = Append(log, Once(Kind[msg[t]]))
              \o IF Kind[msg[t]] = "optional" THEN <<Debug(msg[t])>> ELSE <<>>
  /\ Return(t)
  /\ UNCHANGED <<echo, run, sent, errors>>

\* Variant: the switch silences script errors too.
FilterAll(t) ==
  /\ pc[t] = "sort" /\ Kind[msg[t]] \in {"script", "plain"}
  /\ IF ~echo THEN Return(t) ELSE Goto(t, "collapse")
  /\ UNCHANGED <<echo, reported, run, log, sent, errors>>
\* Script errors are always mirrored, everything else if the switch is on.
Filter(t) ==
  /\ pc[t] = "sort" /\ Kind[msg[t]] \in {"script", "plain"}
  /\ IF Kind[msg[t]] = "plain" /\ ~echo THEN Return(t) ELSE Goto(t, "collapse")
  /\ UNCHANGED <<echo, reported, run, log, sent, errors>>

\* Variant: repeats is not cleared when it is reported.
CollapseKeepsCount(t) ==
  /\ pc[t] = "collapse"
  /\ sent' = Append(sent, msg[t])
  /\ IF msg[t] = last
     THEN repeats' = repeats + 1 /\ UNCHANGED <<last, log>>
     ELSE /\ log' = log \o (IF repeats > 0 THEN <<Again(repeats)>> ELSE <<>>)
                        \o <<Line(msg[t])>>
          /\ last' = msg[t] /\ UNCHANGED repeats
  /\ Return(t)
  /\ UNCHANGED <<echo, reported, errors>>
\* Runs of the same line are collapsed, under the mutex.
Collapse(t) ==
  /\ pc[t] = "collapse"
  /\ sent' = Append(sent, msg[t])
  /\ IF msg[t] = last
     THEN repeats' = repeats + 1 /\ UNCHANGED <<last, log>>
     ELSE /\ log' = log \o (IF repeats > 0 THEN <<Again(repeats)>> ELSE <<>>)
                        \o <<Line(msg[t])>>
          /\ last' = msg[t] /\ repeats' = 0
  /\ Return(t)
  /\ UNCHANGED <<echo, reported, errors>>

\* The switch is a checkbox of the overlay.
FlipEcho ==
  /\ echo' = ~echo
  /\ UNCHANGED <<thread, reported, run, log, sent, errors>>

Next ==
  \/ FlipEcho
  \/ \E t \in Threads :
       \/ \E m \in Messages : Write(t, m)
       \/ Demote(t) \/ Report(t) \/ Filter(t) \/ Collapse(t)

Spec == Init /\ [][Next]_vars

--------------------------------------------------------------------------------
(* Properties.                                                                  *)

Copies(m, n) == [i \in 1..n |-> m]

\* The log read back: every line, repeated as often as the line after it says.
ReadLine(read, l) ==
  CASE l[1] = "line" -> Append(read, l[2])
    [] l[1] = "previous message repeated" -> read \o Copies(Last(read), l[2])
    [] OTHER -> read

ReadBack[n \in 0..Len(log)] ==
  IF n = 0 THEN <<>> ELSE ReadLine(ReadBack[n - 1], log[n])

Expanded == ReadBack[Len(log)]

\* "Nothing is hidden": read back, the log and the count still open are exactly
\* the messages mirrored, in their order, whatever other threads log between.
NothingHidden == Expanded \o Copies(last, repeats) = sent

IsScriptError(m) == Kind[m] = "script"

\* "Script errors are always surfaced": none is filtered, however the switch is
\* flipped while it is on its way.
ScriptErrorsSurface ==
  errors = Cardinality({i \in DOMAIN sent : IsScriptError(sent[i])})
             + Cardinality({t \in Busy : IsScriptError(msg[t])})
================================================================================
