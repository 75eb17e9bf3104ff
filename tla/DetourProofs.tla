------------------------------ MODULE DetourProofs -----------------------------
(* Proofs about the detours that keep to themselves, which share no variable:   *)
(* the log mirror (LogMirror), for any threads, messages and length of the log; *)
(* the plugins' files (ContentFiles), for any mods and files; and the files     *)
(* opened in place of the game's (FileRedirect), for any mods and threads.      *)
EXTENDS LogMirror, MCContentFiles, MCFileRedirect, SequenceTheorems, FiniteSetTheorems, TLAPS

--------------------------------------------------------------------------------
(* Reading a log back.                                                          *)

\* g unfolds l: what is read of its first n lines is g[n].
Unfolds(g, l) ==
  g = [n \in 0..Len(l) |-> IF n = 0 THEN <<>> ELSE ReadLine(g[n - 1], l[n])]

\* The log l reads back as v. There is no induction over l: a log is built by
\* appending, and each step below carries this one line further.
ReadsAs(l, v) ==
  /\ \E g : Unfolds(g, l)
  /\ \A g : Unfolds(g, l) => g[Len(l)] = v

LEMMA ReadsEmpty == ReadsAs(<<>>, <<>>)
<1>1. Unfolds([n \in 0..0 |-> <<>>], <<>>)
  BY DEF Unfolds
<1>2. ASSUME NEW g, Unfolds(g, <<>>) PROVE g[Len(<<>>)] = <<>>
  BY <1>2 DEF Unfolds
<1>3. QED
  BY <1>1, <1>2 DEF ReadsAs

LEMMA ReadsAppend ==
  ASSUME NEW S, NEW l \in Seq(S), NEW x \in S, NEW v, ReadsAs(l, v)
  PROVE  ReadsAs(Append(l, x), ReadLine(v, x))
<1>. DEFINE k == Append(l, x)
            N == Len(l)
<1>1. N \in Nat /\ Len(k) = N + 1 /\ k[N + 1] = x
      /\ \A n \in 1..N : k[n] = l[n]
  BY AppendProperties, LenProperties
<1>. HIDE DEF k
<1>2. \E g : Unfolds(g, k)
  <2>1. PICK g : Unfolds(g, l)
    BY DEF ReadsAs
  <2>. DEFINE h == [n \in 0..N + 1 |-> IF n = N + 1 THEN ReadLine(g[N], x) ELSE g[n]]
  <2>2. \A n \in 0..N : g[n] = IF n = 0 THEN <<>> ELSE ReadLine(g[n - 1], l[n])
    BY <2>1 DEF Unfolds
  <2>3. ASSUME NEW n \in 0..N + 1
        PROVE  h[n] = IF n = 0 THEN <<>> ELSE ReadLine(h[n - 1], k[n])
    <3>1. CASE n = 0
      BY <3>1, <2>2, <1>1
    <3>2. CASE n \in 1..N
      <4>1. h[n] = g[n] /\ h[n - 1] = g[n - 1] /\ k[n] = l[n]
        BY <3>2, <1>1
      <4>2. QED
        BY <3>2, <4>1, <2>2, <1>1
    <3>3. CASE n = N + 1
      <4>1. h[n] = ReadLine(g[N], x) /\ h[n - 1] = g[N] /\ k[n] = x
        BY <3>3, <1>1
      <4>2. QED
        BY <3>3, <4>1, <1>1
    <3>4. QED
      BY <3>1, <3>2, <3>3, <1>1
  <2>4. h = [n \in 0..Len(k) |-> IF n = 0 THEN <<>> ELSE ReadLine(h[n - 1], k[n])]
    BY <2>3, <1>1
  <2>5. QED
    BY <2>4 DEF Unfolds
<1>3. ASSUME NEW h, Unfolds(h, k) PROVE h[Len(k)] = ReadLine(v, x)
  <2>. DEFINE g == [n \in 0..N |-> h[n]]
  <2>1. \A n \in 0..N + 1 : h[n] = IF n = 0 THEN <<>> ELSE ReadLine(h[n - 1], k[n])
    BY <1>1, <1>3 DEF Unfolds
  <2>2. ASSUME NEW n \in 0..N
        PROVE  g[n] = IF n = 0 THEN <<>> ELSE ReadLine(g[n - 1], l[n])
    <3>1. CASE n = 0
      BY <3>1, <2>1, <1>1
    <3>2. CASE n # 0
      <4>1. n \in 1..N /\ n - 1 \in 0..N /\ k[n] = l[n]
        BY <3>2, <1>1
      <4>2. h[n] = ReadLine(h[n - 1], k[n])
        BY <4>1, <2>1, <1>1
      <4>3. QED
        BY <4>1, <4>2, <3>2
    <3>3. QED
      BY <3>1, <3>2
  <2>3. Unfolds(g, l)
    BY <2>2 DEF Unfolds
  <2>4. g[N] = v /\ g[N] = h[N]
    BY <2>3, <1>1 DEF ReadsAs
  <2>5. h[N + 1] = ReadLine(h[N], k[N + 1])
    BY <2>1, <1>1
  <2>6. QED
    BY <2>4, <2>5, <1>1
<1>4. QED
  BY <1>2, <1>3 DEF ReadsAs, k

\* ReadBack is what unfolds the log.
LEMMA ReadsExpanded ==
  ASSUME NEW v, ReadsAs(log, v)
  PROVE  Expanded = v
<1>1. PICK g : Unfolds(g, log)
  BY DEF ReadsAs
<1>2. Unfolds(ReadBack, log)
  BY <1>1 DEF ReadBack, Unfolds
<1>3. QED
  BY <1>2 DEF ReadsAs, Expanded

--------------------------------------------------------------------------------
(* The log mirror.                                                              *)

Lines == {Line(m) : m \in Messages} \cup {Again(n) : n \in Nat}
         \cup {Once(k) : k \in {"flush", "optional"}} \cup {Debug(m) : m \in Messages}

LogTypeOK ==
  /\ pc \in [Threads -> {"idle", "sort", "report", "collapse"}]
  /\ msg \in [Threads -> Messages \cup {NoMessage}]
  /\ \A t \in Threads :
       /\ pc[t] # "idle" => msg[t] \in Messages
       /\ pc[t] = "report" => Kind[msg[t]] \in {"flush", "optional"}
       /\ pc[t] = "collapse" => Kind[msg[t]] \in {"script", "plain"}
  /\ reported \in [{"flush", "optional"} -> BOOLEAN]
  /\ last \in Messages \cup {NoMessage} /\ repeats \in Nat
  /\ log \in Seq(Lines) /\ sent \in Seq(Messages) /\ errors \in Nat

\* The log reads back as some v, which ends in the line that is being counted.
Reads ==
  \E v \in Seq(Messages) :
    /\ ReadsAs(log, v)
    /\ v \o Copies(last, repeats) = sent
    /\ IF last = NoMessage THEN v = <<>> /\ repeats = 0
                           ELSE v # <<>> /\ Last(v) = last

LEMMA LineKinds ==
  /\ \A m \in Messages : Line(m) \in Lines /\ Debug(m) \in Lines
  /\ \A n \in Nat : Again(n) \in Lines
  /\ \A k \in {"flush", "optional"} : Once(k) \in Lines
BY DEF Lines

\* What each kind of line adds to what was read before it.
LEMMA ReadKinds ==
  ASSUME NEW v
  PROVE  /\ \A m : ReadLine(v, Line(m)) = Append(v, m)
         /\ \A n : ReadLine(v, Again(n)) = v \o Copies(Last(v), n)
         /\ \A k : ReadLine(v, Once(k)) = v
         /\ \A m : ReadLine(v, Debug(m)) = v
BY DEF ReadLine, Line, Again, Once, Debug

LEMMA CopiesType == \A m \in Messages, n \in Nat :
  Copies(m, n) \in Seq(Messages) /\ Len(Copies(m, n)) = n
BY IsASeq DEF Copies

LEMMA CopiesOfNone == \A m : Copies(m, 0) = <<>>
BY DEF Copies

LEMMA CopiesNext ==
  ASSUME NEW m \in Messages, NEW n \in Nat
  PROVE  Copies(m, n + 1) = Append(Copies(m, n), m)
<1>1. /\ Copies(m, n) \in Seq(Messages) /\ Copies(m, n + 1) \in Seq(Messages)
      /\ Len(Copies(m, n)) = n /\ Len(Copies(m, n + 1)) = n + 1
  BY CopiesType
<1>2. /\ Append(Copies(m, n), m) \in Seq(Messages)
      /\ Len(Append(Copies(m, n), m)) = n + 1
      /\ \A i \in 1..n : Append(Copies(m, n), m)[i] = Copies(m, n)[i]
      /\ Append(Copies(m, n), m)[n + 1] = m
  BY <1>1, AppendProperties
<1>3. \A i \in 1..n + 1 : Copies(m, n + 1)[i] = m
  BY DEF Copies
<1>4. \A i \in 1..n : Copies(m, n)[i] = m
  BY DEF Copies
<1>5. \A i \in 1..n + 1 : Append(Copies(m, n), m)[i] = Copies(m, n + 1)[i]
  BY <1>2, <1>3, <1>4
<1>6. QED
  BY <1>1, <1>2, <1>5, SeqEqual

LEMMA AppendToConcat ==
  ASSUME NEW S, NEW v \in Seq(S), NEW w \in Seq(S), NEW m \in S
  PROVE  v \o Append(w, m) = Append(v \o w, m)
<1>1. Append(w, m) = w \o <<m>> /\ <<m>> \in Seq(S)
  BY AppendIsConcat
<1>2. v \o w \in Seq(S)
  BY ConcatProperties
<1>3. Append(v \o w, m) = (v \o w) \o <<m>>
  BY <1>2, AppendIsConcat
<1>4. QED
  BY <1>1, <1>3, ConcatAssociative

LEMMA LastAppended ==
  ASSUME NEW S, NEW v \in Seq(S), NEW m \in S
  PROVE  Append(v, m) # <<>> /\ Last(Append(v, m)) = m
BY AppendProperties DEF Last

--------------------------------------------------------------------------------

LEMMA LogInit == Init => LogTypeOK /\ Reads
<1>. SUFFICES ASSUME Init PROVE LogTypeOK /\ Reads
  OBVIOUS
<1>1. LogTypeOK
  BY DEF Init, LogTypeOK
<1>2. Reads
  <2>1. ReadsAs(log, <<>>) /\ <<>> \in Seq(Messages)
    BY ReadsEmpty DEF Init
  <2>2. <<>> \o Copies(last, repeats) = sent
    BY CopiesOfNone, <2>1, ConcatEmptySeq DEF Init
  <2>3. last = NoMessage /\ repeats = 0
    BY DEF Init
  <2>4. QED
    BY <2>1, <2>2, <2>3 DEF Reads
<1>3. QED
  BY <1>1, <1>2

\* Collapse logs the count, if there is one, and the line.
LEMMA CollapsedLog ==
  ASSUME LogTypeOK, NEW m \in Messages
  PROVE  LET counted == IF repeats > 0 THEN Append(log, Again(repeats)) ELSE log
         IN  /\ counted \in Seq(Lines)
             /\ log \o (IF repeats > 0 THEN <<Again(repeats)>> ELSE <<>>) \o <<Line(m)>>
                  = Append(counted, Line(m))
<1>1. Line(m) \in Lines /\ Again(repeats) \in Lines /\ log \in Seq(Lines)
  BY LineKinds DEF LogTypeOK
<1>2. Append(log, Again(repeats)) = log \o <<Again(repeats)>>
      /\ Append(log, Again(repeats)) \in Seq(Lines)
  BY <1>1, AppendIsConcat, AppendProperties
<1>3. log \o <<>> = log
  BY <1>1, ConcatEmptySeq
<1>4. CASE repeats > 0
  BY <1>1, <1>2, <1>4, AppendIsConcat
<1>5. CASE ~(repeats > 0)
  BY <1>1, <1>3, <1>5, AppendIsConcat
<1>6. QED
  BY <1>4, <1>5

LEMMA LogTypeStep == LogTypeOK /\ [Next]_vars => LogTypeOK'
<1>. SUFFICES ASSUME LogTypeOK, [Next]_vars PROVE LogTypeOK'
  OBVIOUS
<1>. USE DEF LogTypeOK, Goto, Return, run, thread
<1>1. CASE FlipEcho \/ UNCHANGED vars
  BY <1>1 DEF FlipEcho, vars
<1>2. ASSUME NEW t \in Threads, NEW m \in Messages, Write(t, m) PROVE LogTypeOK'
  BY <1>2 DEF Write
<1>3. ASSUME NEW t \in Threads, Demote(t) PROVE LogTypeOK'
  <2>1. /\ msg[t] \in Messages /\ Kind[msg[t]] \in {"flush", "optional"}
        /\ UNCHANGED <<reported, last, repeats, sent, errors>>
        /\ \/ pc' = [pc EXCEPT ![t] = "report"] /\ msg' = msg
           \/ pc' = [pc EXCEPT ![t] = "idle"] /\ msg' = [msg EXCEPT ![t] = NoMessage]
        /\ log' \in {log, Append(log, Debug(msg[t]))}
    BY <1>3 DEF Demote
  <2>2. log' \in Seq(Lines)
    BY <2>1, LineKinds, AppendProperties
  <2>3. QED
    BY <2>1, <2>2
<1>4. ASSUME NEW t \in Threads, Report(t) PROVE LogTypeOK'
  <2>1. /\ msg[t] \in Messages /\ Kind[msg[t]] \in {"flush", "optional"}
        /\ reported' = [reported EXCEPT ![Kind[msg[t]]] = TRUE]
        /\ UNCHANGED <<last, repeats, sent, errors>>
        /\ pc' = [pc EXCEPT ![t] = "idle"] /\ msg' = [msg EXCEPT ![t] = NoMessage]
    BY <1>4 DEF Report
  <2>2. /\ Append(log, Once(Kind[msg[t]])) \in Seq(Lines)
        /\ <<Debug(msg[t])>> \in Seq(Lines) /\ <<>> \in Seq(Lines)
    BY <2>1, LineKinds, AppendProperties
  <2>3. log' \in Seq(Lines)
    BY <1>4, <2>2, ConcatProperties DEF Report
  <2>4. QED
    BY <2>1, <2>3
<1>5. ASSUME NEW t \in Threads, Filter(t) PROVE LogTypeOK'
  <2>1. /\ Kind[msg[t]] \in {"script", "plain"}
        /\ UNCHANGED <<reported, last, repeats, log, sent, errors>>
        /\ \/ pc' = [pc EXCEPT ![t] = "collapse"] /\ msg' = msg
           \/ pc' = [pc EXCEPT ![t] = "idle"] /\ msg' = [msg EXCEPT ![t] = NoMessage]
    BY <1>5 DEF Filter
  <2>2. pc[t] = "sort"
    BY <1>5 DEF Filter
  <2>3. QED
    BY <2>1, <2>2
<1>6. ASSUME NEW t \in Threads, Collapse(t) PROVE LogTypeOK'
  <2>1. /\ msg[t] \in Messages
        /\ sent' = Append(sent, msg[t]) /\ UNCHANGED <<reported, errors>>
        /\ pc' = [pc EXCEPT ![t] = "idle"] /\ msg' = [msg EXCEPT ![t] = NoMessage]
    BY <1>6 DEF Collapse
  <2>2. log' \in Seq(Lines) /\ last' \in Messages \cup {NoMessage} /\ repeats' \in Nat
    <3>1. CASE msg[t] = last
      BY <1>6, <3>1 DEF Collapse
    <3>2. CASE msg[t] # last
      <4>1. last' = msg[t] /\ repeats' = 0
            /\ log' = log \o (IF repeats > 0 THEN <<Again(repeats)>> ELSE <<>>) \o <<Line(msg[t])>>
        BY <1>6, <3>2 DEF Collapse
      <4>2. PICK l \in Seq(Lines) : log' = Append(l, Line(msg[t]))
        BY <2>1, <4>1, CollapsedLog
      <4>3. log' \in Seq(Lines)
        BY <2>1, <4>2, LineKinds, AppendProperties
      <4>4. QED
        BY <2>1, <4>1, <4>3
    <3>3. QED
      BY <3>1, <3>2
  <2>3. sent' \in Seq(Messages)
    BY <2>1, AppendProperties
  <2>4. QED
    BY <2>1, <2>2, <2>3
<1>. QED
  BY <1>1, <1>2, <1>3, <1>4, <1>5, <1>6 DEF Next

\* Lines that are no message, or no count, are read over.
LEMMA ReadsOver ==
  ASSUME Reads, log \in Seq(Lines), UNCHANGED <<last, repeats, sent>>,
         NEW x \in Lines, \A v : ReadLine(v, x) = v, log' = Append(log, x)
  PROVE  Reads'
<1>1. PICK v \in Seq(Messages) :
        /\ ReadsAs(log, v)
        /\ v \o Copies(last, repeats) = sent
        /\ IF last = NoMessage THEN v = <<>> /\ repeats = 0
                               ELSE v # <<>> /\ Last(v) = last
  BY DEF Reads
<1>2. ReadsAs(log', v)
  BY <1>1, ReadsAppend
<1>3. QED
  BY <1>1, <1>2 DEF Reads

LEMMA CollapseReads ==
  ASSUME LogTypeOK, Reads, NEW t \in Threads, Collapse(t)
  PROVE  Reads'
<1>. DEFINE m == msg[t]
<1>1. /\ m \in Messages /\ m # NoMessage /\ sent' = Append(sent, m)
      /\ log \in Seq(Lines) /\ sent \in Seq(Messages) /\ repeats \in Nat
  BY KindAssumption DEF LogTypeOK, Collapse
<1>2. PICK v \in Seq(Messages) :
        /\ ReadsAs(log, v)
        /\ v \o Copies(last, repeats) = sent
        /\ IF last = NoMessage THEN v = <<>> /\ repeats = 0
                               ELSE v # <<>> /\ Last(v) = last
  BY DEF Reads
<1>3. CASE m = last
  <2>1. last' = last /\ log' = log /\ repeats' = repeats + 1
    BY <1>3 DEF Collapse
  <2>2. v \o Copies(m, repeats + 1) = Append(v \o Copies(m, repeats), m)
    <3>1. Copies(m, repeats + 1) = Append(Copies(m, repeats), m)
          /\ Copies(m, repeats) \in Seq(Messages)
      BY <1>1, CopiesNext, CopiesType
    <3>2. v \o Append(Copies(m, repeats), m) = Append(v \o Copies(m, repeats), m)
      BY <1>1, <3>1, AppendToConcat
    <3>3. QED
      BY <3>1, <3>2
  <2>3. v \o Copies(last', repeats') = sent'
    BY <1>1, <1>2, <1>3, <2>1, <2>2
  <2>4. QED
    BY <1>1, <1>2, <1>3, <2>1, <2>3 DEF Reads
<1>4. CASE m # last
  <2>1. /\ last' = m /\ repeats' = 0
        /\ log' = log \o (IF repeats > 0 THEN <<Again(repeats)>> ELSE <<>>) \o <<Line(m)>>
    BY <1>4 DEF Collapse
  <2>. DEFINE counted == IF repeats > 0 THEN Append(log, Again(repeats)) ELSE log
  <2>2. counted \in Seq(Lines) /\ log' = Append(counted, Line(m))
    BY <1>1, <2>1, CollapsedLog
  <2>3. ReadsAs(counted, sent)
    <3>1. CASE repeats > 0
      <4>1. last # NoMessage /\ Last(v) = last
        BY <1>2, <3>1
      <4>2. Again(repeats) \in Lines /\ ReadLine(v, Again(repeats)) = sent
        BY <1>1, <1>2, <4>1, LineKinds, ReadKinds
      <4>3. QED
        BY <1>1, <1>2, <3>1, <4>2, ReadsAppend
    <3>2. CASE ~(repeats > 0)
      <4>1. repeats = 0
        BY <1>1, <3>2
      <4>2. v = sent
        BY <1>2, <4>1, CopiesOfNone, ConcatEmptySeq
      <4>3. QED
        BY <1>2, <3>2, <4>2
    <3>3. QED
      BY <3>1, <3>2
  <2>. HIDE DEF counted
  <2>4. ReadsAs(log', sent')
    <3>1. ReadsAs(log', ReadLine(sent, Line(m)))
      BY <1>1, <2>2, <2>3, LineKinds, ReadsAppend
    <3>2. ReadLine(sent, Line(m)) = sent'
      BY <1>1, ReadKinds
    <3>3. QED
      BY <3>1, <3>2
  <2>5. sent' \in Seq(Messages) /\ sent' # <<>> /\ Last(sent') = m
    BY <1>1, AppendProperties, LastAppended
  <2>6. sent' \o Copies(last', repeats') = sent'
    BY <2>1, <2>5, CopiesOfNone, ConcatEmptySeq
  <2>7. QED
    BY <1>1, <2>1, <2>4, <2>5, <2>6 DEF Reads
<1>5. QED
  BY <1>3, <1>4

LEMMA ReportReads ==
  ASSUME LogTypeOK, Reads, NEW t \in Threads, Report(t)
  PROVE  Reads'
<1>. DEFINE m == msg[t]
            once == Append(log, Once(Kind[m]))
<1>1. /\ m \in Messages /\ Kind[m] \in {"flush", "optional"} /\ log \in Seq(Lines)
      /\ UNCHANGED <<last, repeats, sent>>
      /\ log' = once \o (IF Kind[m] = "optional" THEN <<Debug(m)>> ELSE <<>>)
  BY DEF Report, LogTypeOK, run
<1>2. /\ Once(Kind[m]) \in Lines /\ Debug(m) \in Lines /\ once \in Seq(Lines)
      /\ \A v : ReadLine(v, Once(Kind[m])) = v /\ ReadLine(v, Debug(m)) = v
  BY <1>1, LineKinds, ReadKinds, AppendProperties
<1>3. CASE Kind[m] # "optional"
  <2>1. log' = once
    BY <1>1, <1>2, <1>3, ConcatEmptySeq
  <2>2. QED
    BY <1>1, <1>2, <2>1, ReadsOver
<1>4. CASE Kind[m] = "optional"
  <2>1. log' = Append(once, Debug(m))
    BY <1>1, <1>2, <1>4, AppendIsConcat
  <2>2. PICK v \in Seq(Messages) :
          /\ ReadsAs(log, v)
          /\ v \o Copies(last, repeats) = sent
          /\ IF last = NoMessage THEN v = <<>> /\ repeats = 0
                                 ELSE v # <<>> /\ Last(v) = last
    BY DEF Reads
  <2>3. ReadsAs(once, v)
    BY <1>1, <1>2, <2>2, ReadsAppend
  <2>4. ReadsAs(log', v)
    BY <1>2, <2>1, <2>3, ReadsAppend
  <2>5. QED
    BY <1>1, <2>2, <2>4 DEF Reads
<1>5. QED
  BY <1>3, <1>4

LEMMA ReadsStep == LogTypeOK /\ Reads /\ [Next]_vars => Reads'
<1>. SUFFICES ASSUME LogTypeOK, Reads, [Next]_vars PROVE Reads'
  OBVIOUS
<1>1. ASSUME UNCHANGED <<last, repeats, log, sent>> PROVE Reads'
  BY <1>1 DEF Reads
<1>2. ASSUME NEW t \in Threads, Demote(t) PROVE Reads'
  <2>1. /\ msg[t] \in Messages /\ UNCHANGED <<last, repeats, sent>>
        /\ log' = log \/ log' = Append(log, Debug(msg[t]))
    BY <1>2 DEF Demote, LogTypeOK, run
  <2>2. CASE log' = log
    BY <1>1, <2>1, <2>2
  <2>3. CASE log' = Append(log, Debug(msg[t]))
    BY <2>1, <2>3, LineKinds, ReadKinds, ReadsOver DEF LogTypeOK
  <2>4. QED
    BY <2>1, <2>2, <2>3
<1>3. ASSUME NEW t \in Threads, Report(t) \/ Collapse(t) PROVE Reads'
  BY <1>3, ReportReads, CollapseReads
<1>4. CASE FlipEcho \/ UNCHANGED vars
  BY <1>1, <1>4 DEF FlipEcho, vars, run
<1>5. ASSUME NEW t \in Threads, Filter(t) \/ \E m \in Messages : Write(t, m) PROVE Reads'
  BY <1>1, <1>5 DEF Filter, Write, run
<1>6. QED
  BY <1>2, <1>3, <1>4, <1>5 DEF Next

\* "Nothing is hidden", for any threads and messages and a log of any length: read
\* back, the log and the count still open are the messages mirrored, in order.
THEOREM NothingIsHidden == Spec => []NothingHidden
<1>1. Reads => NothingHidden
  BY ReadsExpanded DEF Reads, NothingHidden
<1>2. LogTypeOK /\ Reads /\ [Next]_vars => (LogTypeOK /\ Reads)'
  BY LogTypeStep, ReadsStep
<1>3. QED
  BY LogInit, <1>2, <1>1, PTL DEF Spec

--------------------------------------------------------------------------------
(* Script errors.                                                               *)

ErrorsIn(s) == {i \in DOMAIN s : IsScriptError(s[i])}
ErrorsBusy == {t \in Busy : IsScriptError(msg[t])}

LEMMA ErrorsFinite ==
  /\ IsFiniteSet(ErrorsBusy) /\ Cardinality(ErrorsBusy) \in Nat
  /\ \A s \in Seq(Messages) : IsFiniteSet(ErrorsIn(s)) /\ Cardinality(ErrorsIn(s)) \in Nat
<1>1. IsFiniteSet(ErrorsBusy)
  BY ThreadsAssumption, FS_Subset DEF ErrorsBusy, Busy
<1>2. ASSUME NEW s \in Seq(Messages) PROVE IsFiniteSet(ErrorsIn(s))
  <2>1. DOMAIN s = 1..Len(s) /\ Len(s) \in Nat
    BY LenProperties
  <2>2. IsFiniteSet(1..Len(s))
    BY <2>1, FS_Interval
  <2>3. ErrorsIn(s) \subseteq 1..Len(s)
    BY <2>1 DEF ErrorsIn
  <2>4. QED
    BY <2>2, <2>3, FS_Subset
<1>3. QED
  BY <1>1, <1>2, FS_CardinalityType

LEMMA ErrorsAppend ==
  ASSUME NEW s \in Seq(Messages), NEW m \in Messages
  PROVE  Cardinality(ErrorsIn(Append(s, m)))
           = Cardinality(ErrorsIn(s)) + IF IsScriptError(m) THEN 1 ELSE 0
<1>. DEFINE k == Append(s, m)
<1>1. /\ Len(s) \in Nat /\ DOMAIN s = 1..Len(s)
      /\ DOMAIN k = 1..Len(s) + 1 /\ k[Len(s) + 1] = m
      /\ \A i \in 1..Len(s) : k[i] = s[i]
  <2>1. k \in Seq(Messages) /\ Len(k) = Len(s) + 1
    BY AppendProperties
  <2>2. QED
    BY <2>1, AppendProperties, LenProperties
<1>. HIDE DEF k
<1>2. IsFiniteSet(ErrorsIn(s)) /\ Cardinality(ErrorsIn(s)) \in Nat
      /\ Len(s) + 1 \notin ErrorsIn(s)
  <2>1. IsFiniteSet(ErrorsIn(s)) /\ Cardinality(ErrorsIn(s)) \in Nat
    BY ErrorsFinite
  <2>2. Len(s) + 1 \notin ErrorsIn(s)
    BY <1>1 DEF ErrorsIn
  <2>3. QED
    BY <2>1, <2>2
<1>3. CASE IsScriptError(m)
  <2>1. ErrorsIn(k) = ErrorsIn(s) \cup {Len(s) + 1}
    BY <1>1, <1>3 DEF ErrorsIn
  <2>2. QED
    BY <1>2, <1>3, <2>1, FS_AddElement DEF k
<1>4. CASE ~IsScriptError(m)
  <2>1. ErrorsIn(k) = ErrorsIn(s)
    BY <1>1, <1>4 DEF ErrorsIn
  <2>2. QED
    BY <1>2, <1>4, <2>1 DEF k
<1>5. QED
  BY <1>3, <1>4

LEMMA ErrorsStep == LogTypeOK /\ ScriptErrorsSurface /\ [Next]_vars => ScriptErrorsSurface'
<1>. SUFFICES ASSUME LogTypeOK, ScriptErrorsSurface, [Next]_vars
              PROVE  errors' = Cardinality(ErrorsIn(sent')) + Cardinality(ErrorsBusy')
  BY DEF ScriptErrorsSurface, ErrorsIn, ErrorsBusy
<1>0. /\ errors = Cardinality(ErrorsIn(sent)) + Cardinality(ErrorsBusy)
      /\ sent \in Seq(Messages) /\ IsFiniteSet(ErrorsBusy)
      /\ Cardinality(ErrorsBusy) \in Nat /\ Cardinality(ErrorsIn(sent)) \in Nat
  BY ErrorsFinite DEF ScriptErrorsSurface, ErrorsIn, ErrorsBusy, LogTypeOK
<1>1. ASSUME UNCHANGED <<sent, errors>>, ErrorsBusy' = ErrorsBusy
      PROVE  errors' = Cardinality(ErrorsIn(sent')) + Cardinality(ErrorsBusy')
  BY <1>0, <1>1
<1>2. ASSUME NEW t \in Threads, NEW m \in Messages, Write(t, m)
      PROVE  errors' = Cardinality(ErrorsIn(sent')) + Cardinality(ErrorsBusy')
  <2>1. /\ sent' = sent /\ t \notin ErrorsBusy
        /\ errors' = IF IsScriptError(m) THEN errors + 1 ELSE errors
        /\ ErrorsBusy' = IF IsScriptError(m) THEN ErrorsBusy \cup {t} ELSE ErrorsBusy
    BY <1>2 DEF Write, ErrorsBusy, Busy, IsScriptError, LogTypeOK
  <2>2. CASE IsScriptError(m)
    <3>1. Cardinality(ErrorsBusy \cup {t}) = Cardinality(ErrorsBusy) + 1
      BY <1>0, <2>1, FS_AddElement
    <3>2. QED
      BY <1>0, <2>1, <2>2, <3>1
  <2>3. CASE ~IsScriptError(m)
    BY <1>0, <2>1, <2>3
  <2>4. QED
    BY <2>2, <2>3
<1>3. ASSUME NEW t \in Threads, Demote(t) \/ Report(t) \/ Filter(t)
      PROVE  UNCHANGED <<sent, errors>> /\ ErrorsBusy' = ErrorsBusy
  <2>1. /\ UNCHANGED <<sent, errors>> /\ pc[t] # "idle"
        /\ \/ pc' = [pc EXCEPT ![t] = "report"] /\ msg' = msg
           \/ pc' = [pc EXCEPT ![t] = "collapse"] /\ msg' = msg
           \/ Return(t) /\ ~IsScriptError(msg[t])
    BY <1>3 DEF Demote, Report, Filter, Goto, IsScriptError, LogTypeOK
  <2>2. CASE pc' \in {[pc EXCEPT ![t] = "report"], [pc EXCEPT ![t] = "collapse"]} /\ msg' = msg
    BY <2>1, <2>2 DEF ErrorsBusy, Busy, LogTypeOK
  <2>3. CASE Return(t) /\ ~IsScriptError(msg[t])
    BY <2>1, <2>3 DEF Return, ErrorsBusy, Busy, LogTypeOK
  <2>. QED
    BY <2>1, <2>2, <2>3
<1>4. ASSUME NEW t \in Threads, Collapse(t)
      PROVE  errors' = Cardinality(ErrorsIn(sent')) + Cardinality(ErrorsBusy')
  <2>1. /\ sent' = Append(sent, msg[t]) /\ errors' = errors /\ msg[t] \in Messages
        /\ pc[t] # "idle" /\ Return(t)
    BY <1>4 DEF Collapse, LogTypeOK
  <2>2. ErrorsBusy' = ErrorsBusy \ {t} /\ (t \in ErrorsBusy <=> IsScriptError(msg[t]))
    BY <2>1 DEF Return, ErrorsBusy, Busy, LogTypeOK
  <2>3. Cardinality(ErrorsIn(sent')) = Cardinality(ErrorsIn(sent))
          + IF IsScriptError(msg[t]) THEN 1 ELSE 0
    BY <1>0, <2>1, ErrorsAppend
  <2>4. Cardinality(ErrorsBusy') = Cardinality(ErrorsBusy)
          - IF IsScriptError(msg[t]) THEN 1 ELSE 0
    <3>1. Cardinality(ErrorsBusy \ {t})
            = IF t \in ErrorsBusy THEN Cardinality(ErrorsBusy) - 1 ELSE Cardinality(ErrorsBusy)
      BY <1>0, FS_RemoveElement
    <3>2. QED
      BY <1>0, <2>2, <3>1
  <2>5. QED
    BY <1>0, <2>1, <2>3, <2>4
<1>5. CASE FlipEcho \/ UNCHANGED vars
  BY <1>1, <1>5 DEF FlipEcho, vars, thread, ErrorsBusy, Busy
<1>6. QED
  BY <1>1, <1>2, <1>3, <1>4, <1>5 DEF Next

\* "Script errors are always surfaced": each one the engine has logged is mirrored
\* or on its way, however many threads log and however the switch is flipped.
THEOREM ErrorsSurface == Spec => []ScriptErrorsSurface
<1>1. Init => ScriptErrorsSurface
  <2>. SUFFICES ASSUME Init PROVE ScriptErrorsSurface
    OBVIOUS
  <2>1. ErrorsIn(sent) = {} /\ ErrorsBusy = {} /\ errors = 0
    BY DEF Init, ErrorsIn, ErrorsBusy, Busy
  <2>2. QED
    BY <2>1, FS_EmptySet DEF ScriptErrorsSurface, ErrorsIn, ErrorsBusy
<1>2. LogTypeOK /\ ScriptErrorsSurface /\ [Next]_vars => (LogTypeOK /\ ScriptErrorsSurface)'
  BY LogTypeStep, ErrorsStep
<1>3. QED
  BY LogInit, <1>2, <1>1, PTL DEF Spec

--------------------------------------------------------------------------------
(* The plugins' files.                                                          *)

HasAsset(m, l) == \E f \in seen : IsAsset(f) /\ f.mod = m /\ f.leaf = l
\* The mods seen to replace l are those seen to replace k.
Together(l, k) == \A f \in seen : HasAsset(f.mod, l) <=> HasAsset(f.mod, k)
SameOwner(l, k) ==
  /\ l \in DOMAIN assets <=> k \in DOMAIN assets
  /\ l \in DOMAIN assets => assets[l].mod = assets[k].mod

\* The walk is in the folder of mod: it has seen nothing of those it has yet to
\* enter.
WholeFolders == \A f \in seen, g \in walk : f.mod = g.mod => f.mod = mod
\* The mod the walk is in has all the names it was seen to replace.
MineSoFar ==
  \A f \in seen : IsAsset(f) /\ f.mod = mod =>
    f.leaf \in DOMAIN assets /\ assets[f.leaf].mod = mod
\* At every point of the walk, two names that go together have one owner.
Paired == \A l, k : Together(l, k) => SameOwner(l, k)

WalkInv ==
  /\ scanPc = "start" => DOMAIN assets = {} /\ seen = {}
  /\ scanPc = "assets" => WholeFolders /\ MineSoFar
  /\ Paired

LEMMA WalkInit == FilesInit => WalkInv
<1>. SUFFICES ASSUME FilesInit PROVE WalkInv
  OBVIOUS
<1>1. scanPc = "start" /\ seen = {} /\ assets = <<>>
  BY DEF FilesInit
<1>2. DOMAIN assets = {}
  BY <1>1
<1>3. QED
  BY <1>1, <1>2 DEF WalkInv, Paired, SameOwner

LEMMA AssetStep ==
  ASSUME WalkInv, NEW f \in walk, ScanAsset(f)
  PROVE  WalkInv'
<1>1. /\ scanPc = "assets" /\ scanPc' = "assets" /\ Enter(f)
      /\ walk' = walk \ {f} /\ mod' = f.mod
      /\ WholeFolders /\ MineSoFar /\ Paired
  BY DEF ScanAsset, WalkInv
<1>2. /\ seen \subseteq seen' /\ seen' \subseteq seen \cup {f}
      /\ IsAsset(f) => f \in seen'
      /\ \A g : IsAsset(g)' <=> IsAsset(g)
  BY DEF ScanAsset, IsAsset
<1>3. IF IsAsset(f)
      THEN /\ DOMAIN assets' = DOMAIN assets \cup {f.leaf} /\ assets'[f.leaf] = f
           /\ \A l \in DOMAIN assets \ {f.leaf} : assets'[l] = assets[l]
      ELSE assets' = assets
  BY DEF ScanAsset, Put
<1>4. WholeFolders'
  <2>1. ASSUME NEW s \in seen', NEW g \in walk', s.mod = g.mod PROVE s.mod = f.mod
    BY <1>1, <1>2, <2>1 DEF WholeFolders, Enter
  <2>2. QED
    BY <1>1, <2>1 DEF WholeFolders
<1>5. MineSoFar'
  <2>1. ASSUME NEW g \in seen', IsAsset(g), g.mod = f.mod
        PROVE  g.leaf \in DOMAIN assets' /\ assets'[g.leaf].mod = f.mod
    <3>1. CASE g = f
      BY <1>3, <2>1, <3>1
    <3>2. CASE g # f
      <4>1. g \in seen /\ g.mod = mod
        BY <1>1, <1>2, <2>1, <3>2 DEF WholeFolders
      <4>2. g.leaf \in DOMAIN assets /\ assets[g.leaf].mod = mod
        BY <1>1, <2>1, <4>1 DEF MineSoFar
      <4>3. QED
        BY <1>3, <2>1, <4>1, <4>2
    <3>3. QED
      BY <3>1, <3>2
  <2>2. QED
    BY <1>1, <1>2, <2>1 DEF MineSoFar
<1>6. Paired'
  <2>1. ASSUME NEW l, NEW k, Together(l, k)', IsAsset(f), f.leaf = l
        PROVE  SameOwner(l, k)' /\ SameOwner(k, l)'
    <3>1. f \in seen' /\ HasAsset(f.mod, l)'
      BY <1>2, <2>1 DEF HasAsset
    <3>2. PICK g \in seen' : IsAsset(g) /\ g.mod = f.mod /\ g.leaf = k
      BY <1>2, <2>1, <3>1 DEF Together, HasAsset
    <3>3. /\ l \in DOMAIN assets' /\ assets'[l].mod = f.mod
          /\ k \in DOMAIN assets' /\ assets'[k].mod = f.mod
      BY <1>1, <1>2, <1>5, <2>1, <3>1, <3>2 DEF MineSoFar
    <3>4. QED
      BY <3>3 DEF SameOwner
  <2>2. ASSUME NEW l, NEW k, Together(l, k)', IsAsset(f) => f.leaf \notin {l, k}
        PROVE  SameOwner(l, k)'
    <3>1. \A m : (HasAsset(m, l)' <=> HasAsset(m, l)) /\ (HasAsset(m, k)' <=> HasAsset(m, k))
      BY <1>2, <2>2 DEF HasAsset
    <3>2. Together(l, k)
      BY <1>2, <2>2, <3>1 DEF Together
    <3>3. SameOwner(l, k)
      BY <1>1, <3>2 DEF Paired
    <3>4. QED
      BY <1>3, <2>2, <3>3 DEF SameOwner
  <2>3. ASSUME NEW l, NEW k, Together(l, k)' PROVE Together(k, l)'
    BY <2>3 DEF Together
  <2>4. QED
    BY <2>1, <2>2, <2>3 DEF Paired
<1>7. QED
  BY <1>1, <1>4, <1>5, <1>6 DEF WalkInv

LEMMA WalkStep == WalkInv /\ [FilesNext]_fileVars => WalkInv'
<1>. SUFFICES ASSUME WalkInv, [FilesNext]_fileVars PROVE WalkInv'
  OBVIOUS
<1>1. ASSUME UNCHANGED <<assets, seen>> PROVE Paired'
  <2>1. \A m, l : HasAsset(m, l)' <=> HasAsset(m, l)
    BY <1>1 DEF HasAsset, IsAsset
  <2>2. \A l, k : Together(l, k)' => Together(l, k)
    BY <1>1, <2>1 DEF Together
  <2>3. QED
    BY <1>1, <2>2 DEF WalkInv, Paired, SameOwner
<1>2. CASE Start
  <2>1. UNCHANGED <<assets, seen>> /\ seen = {} /\ scanPc' # "start"
    BY <1>2 DEF Start, WalkInv
  <2>2. QED
    BY <1>1, <2>1 DEF WalkInv, WholeFolders, MineSoFar
<1>3. CASE BreakAssets
  <2>1. UNCHANGED <<assets, seen, mod>> /\ walk' = {} /\ scanPc = "assets" /\ scanPc' = "assets"
    BY <1>3 DEF BreakAssets
  <2>2. QED
    BY <1>1, <2>1 DEF WalkInv, WholeFolders, MineSoFar, IsAsset
<1>4. CASE EndAssets \/ BreakOverlays \/ EndOverlays \/ InstallHook
  <2>1. UNCHANGED <<assets, seen>> /\ scanPc' \notin {"start", "assets"}
    BY <1>4 DEF EndAssets, BreakOverlays, EndOverlays, InstallHook
  <2>2. QED
    BY <1>1, <2>1 DEF WalkInv
<1>5. ASSUME NEW f \in walk, ScanAsset(f) PROVE WalkInv'
  BY <1>5, AssetStep
<1>6. ASSUME NEW f \in walk, ScanOverlay(f) PROVE WalkInv'
  <2>1. /\ UNCHANGED assets /\ scanPc' = "overlays"
        /\ seen \subseteq seen' /\ \A g \in seen' \ seen : ~IsAsset(g)
    BY <1>6 DEF ScanOverlay, IsAsset
  <2>2. \A m, l : HasAsset(m, l)' <=> HasAsset(m, l)
    BY <2>1 DEF HasAsset, IsAsset
  <2>3. \A l, k : Together(l, k)' => Together(l, k)
    BY <2>1, <2>2 DEF Together
  <2>4. Paired'
    BY <2>1, <2>3 DEF WalkInv, Paired, SameOwner
  <2>5. QED
    BY <2>1, <2>4 DEF WalkInv
<1>7. CASE UNCHANGED fileVars \/ \E r \in Requests : AppendPath(r)
  <2>1. UNCHANGED scan
    BY <1>7 DEF AppendPath, fileVars
  <2>2. QED
    BY <1>1, <2>1 DEF WalkInv, WholeFolders, MineSoFar, IsAsset, scan
<1>8. QED
  BY <1>2, <1>3, <1>4, <1>5, <1>6, <1>7 DEF FilesNext

\* For any mods and files, walked in any order and up to any error: two names that
\* the same mods were seen to replace are served from one of them, because the walk
\* finishes a mod's folder before it enters the next; unless the path that wins one
\* of them is too long, when that one is the game's own.
THEOREM PairsStayTogether == FilesSpec => []PairsFromOneMod
<1>1. FilesSpec => []WalkInv
  BY WalkInit, WalkStep, PTL DEF FilesSpec
<1>2. WalkInv => PairsFromOneMod
  <2>. DEFINE Gets(l) == Substitute([leaf |-> l, path |-> ""])
  <2>. SUFFICES ASSUME WalkInv, hooked, NEW l \in DOMAIN assets, NEW k \in DOMAIN assets,
                       Together(l, k)
                PROVE  Gets(l).mod = Gets(k).mod \/ \E n \in {l, k} : assets[n].long /\ Gets(n) = Own
    BY Zenon DEF PairsFromOneMod, Together, HasAsset
  <2>1. Gets(l) = Fits(assets[l]) /\ Gets(k) = Fits(assets[k])
    BY DEF Substitute
  <2>2. assets[l].mod = assets[k].mod
    BY DEF WalkInv, Paired, SameOwner
  <2>. HIDE DEF Gets
  <2>3. CASE assets[l].long \/ assets[k].long
    BY <2>1, <2>3 DEF Fits
  <2>4. CASE ~assets[l].long /\ ~assets[k].long
    BY <2>1, <2>2, <2>4 DEF Fits
  <2>5. QED
    BY <2>3, <2>4
<1>3. QED
  BY <1>1, <1>2, PTL

\* What the two indexes hold was seen, is of their kind and bears its name; and they
\* have a name for everything of their kind that was seen.
HoldsAssets ==
  \A l \in DOMAIN assets : assets[l] \in seen /\ IsAsset(assets[l]) /\ assets[l].leaf = l
HoldsOverlays ==
  \A p \in DOMAIN index : index[p] \in seen /\ IsOverlay(index[p]) /\ Lower[index[p].path] = p
NamesAssets   == \A f \in seen : IsAsset(f) => f.leaf \in DOMAIN assets
NamesOverlays == \A f \in seen : IsOverlay(f) => Lower[f.path] \in DOMAIN index

IndexInv == HoldsAssets /\ HoldsOverlays /\ NamesAssets /\ NamesOverlays

LEMMA IndexInit == FilesInit => IndexInv
<1>. SUFFICES ASSUME FilesInit PROVE IndexInv
  OBVIOUS
<1>1. seen = {} /\ assets = <<>> /\ index = <<>>
  BY DEF FilesInit
<1>2. DOMAIN assets = {} /\ DOMAIN index = {}
  BY <1>1
<1>3. QED
  BY <1>1, <1>2 DEF IndexInv, HoldsAssets, HoldsOverlays, NamesAssets, NamesOverlays

LEMMA IndexStep == IndexInv /\ [FilesNext]_fileVars => IndexInv'
<1>. SUFFICES ASSUME IndexInv, [FilesNext]_fileVars PROVE IndexInv'
  OBVIOUS
<1>. USE DEF IndexInv, HoldsAssets, HoldsOverlays, NamesAssets, NamesOverlays, IsAsset, IsOverlay
<1>1. CASE UNCHANGED <<assets, index, seen>>
  BY <1>1
<1>2. ASSUME NEW f \in walk, ScanAsset(f) PROVE IndexInv'
  <2>1. index' = index /\ seen' = IF f.overlay THEN seen ELSE seen \cup {f}
    BY <1>2 DEF ScanAsset
  <2>2. CASE IsAsset(f)
    <3>1. /\ DOMAIN assets' = DOMAIN assets \cup {f.leaf} /\ assets'[f.leaf] = f
          /\ \A l \in DOMAIN assets \ {f.leaf} : assets'[l] = assets[l]
      BY <1>2, <2>2 DEF ScanAsset, Put
    <3>2. QED
      BY <2>1, <2>2, <3>1
  <2>3. CASE ~IsAsset(f)
    <3>1. assets' = assets
      BY <1>2, <2>3 DEF ScanAsset
    <3>2. QED
      BY <2>1, <2>3, <3>1
  <2>4. QED
    BY <2>2, <2>3
<1>3. ASSUME NEW f \in walk, ScanOverlay(f) PROVE IndexInv'
  <2>1. assets' = assets /\ seen' = IF f.overlay THEN seen \cup {f} ELSE seen
    BY <1>3 DEF ScanOverlay
  <2>2. CASE IsOverlay(f) /\ Lower[f.path] \notin DOMAIN index
    <3>1. /\ DOMAIN index' = DOMAIN index \cup {Lower[f.path]} /\ index'[Lower[f.path]] = f
          /\ \A p \in DOMAIN index : index'[p] = index[p]
      BY <1>3, <2>2 DEF ScanOverlay, Registered, Put
    <3>2. QED
      BY <2>1, <2>2, <3>1
  <2>3. CASE ~IsOverlay(f) \/ Lower[f.path] \in DOMAIN index
    <3>1. index' = index
      BY <1>3, <2>3 DEF ScanOverlay, Registered
    <3>2. QED
      BY <2>1, <2>3, <3>1
  <2>4. QED
    BY <2>2, <2>3
<1>4. QED
  BY <1>1, <1>2, <1>3
  DEF FilesNext, Start, BreakAssets, EndAssets, BreakOverlays, EndOverlays, InstallHook,
      AppendPath, fileVars, scan

\* For any mods and files and wherever an error ends a walk: once the hook is in,
\* what the engine opens is one a mod offers for what it asked, of those the walks
\* came to; its own only if none does, or one cannot be named.
THEOREM ServedFromOffers == FilesSpec => ServesWhatModsOffer
<1>1. ASSUME IndexInv, NEW r \in Requests, hooked, AppendPath(r)
      PROVE \/ served' \in {f \in Offers(r) : ~f.long}
            \/ served' = Own /\ (Offers(r) = {} \/ \E f \in Offers(r) : f.long)
  <2>1. HoldsAssets /\ HoldsOverlays /\ NamesAssets /\ NamesOverlays
    BY <1>1 DEF IndexInv
  <2>2. served' = Substitute(r)
    BY <1>1 DEF AppendPath
  <2>3. CASE r.leaf \in DOMAIN assets
    <3>1. assets[r.leaf] \in Offers(r)
      BY <2>1, <2>3 DEF Offers, HoldsAssets, IsAsset
    <3>2. served' = Fits(assets[r.leaf])
      BY <1>1, <2>2, <2>3 DEF Substitute
    <3>3. QED
      BY <3>1, <3>2 DEF Fits
  <2>4. CASE r.leaf \notin DOMAIN assets
    <3>1. Offers(r) = {f \in seen : f.overlay /\ f.ext = "sjson" /\ r.path # ""
                                       /\ Lower[f.path] = Lower[r.path]}
      BY <2>1, <2>4 DEF Offers, NamesAssets, IsAsset
    <3>2. served' = SubstituteOverlay(r)
      BY <1>1, <2>2, <2>4 DEF Substitute
    <3>3. CASE r.path = ""
      BY <3>1, <3>2, <3>3 DEF SubstituteOverlay
    <3>4. CASE r.path # "" /\ Lower[r.path] \in DOMAIN index
      <4>1. index[Lower[r.path]] \in Offers(r)
        BY <2>1, <3>1, <3>4 DEF HoldsOverlays, IsOverlay
      <4>2. QED
        BY <3>2, <3>4, <4>1 DEF SubstituteOverlay, Lookup, Fits
    <3>5. CASE r.path # "" /\ Lower[r.path] \notin DOMAIN index
      <4>1. Offers(r) = {}
        BY <2>1, <3>1, <3>5 DEF NamesOverlays, IsOverlay
      <4>2. QED
        BY <3>2, <3>5, <4>1 DEF SubstituteOverlay, Lookup
    <3>6. QED
      BY <3>3, <3>4, <3>5
  <2>5. QED
    BY <2>3, <2>4
<1>2. IndexInv => \A r \in Requests : hooked /\ AppendPath(r) =>
        \/ served' \in {f \in Offers(r) : ~f.long}
        \/ served' = Own /\ (Offers(r) = {} \/ \E f \in Offers(r) : f.long)
  BY <1>1
<1>3. QED
  BY <1>2, IndexInit, IndexStep, PTL DEF FilesSpec, ServesWhatModsOffer

--------------------------------------------------------------------------------
(* Files opened in place of the game's (FileRedirect): the entry that wins is    *)
(* the first of the longest.                                                    *)

\* A set of numbers that is not empty has a least one: of the intervals that end
\* at one of them, one contains no other.
LEMMA LeastOne ==
  ASSUME NEW T \in SUBSET Nat, T # {}
  PROVE  \E n \in T : \A m \in T : n <= m
<1>. DEFINE Below == {0..n : n \in T}
<1>1. Below \subseteq FiniteSubsetsOf(Nat) /\ Below # {}
  <2>1. \A n \in T : IsFiniteSet(0..n) /\ 0..n \subseteq Nat
    BY FS_Interval
  <2>2. QED
    BY <2>1 DEF FiniteSubsetsOf
<1>2. PICK X \in Below : \A Y \in Below : <<Y, X>> \notin StrictSubsetOrdering(Nat)
  <2>. HIDE DEF Below
  <2>1. QED
    BY <1>1, FS_StrictSubsetOrderingWellFounded, WFMin
<1>3. PICK n \in T : X = 0..n
  BY <1>2
<1>4. ASSUME NEW m \in T, m < n PROVE FALSE
  <2>1. 0..m \subseteq 0..n /\ n \in 0..n /\ n \notin 0..m /\ 0..n \subseteq Nat
    BY <1>4
  <2>2. 0..m \in Below /\ <<0..m, X>> \in StrictSubsetOrdering(Nat)
    BY <1>3, <2>1 DEF StrictSubsetOrdering
  <2>3. QED
    BY <1>2, <2>2
<1>5. QED
  BY <1>4

LEMMA GreatestOne ==
  ASSUME NEW b \in Nat, NEW T \in SUBSET (0..b), T # {}
  PROVE  \E n \in T : \A m \in T : m <= n
<1>. DEFINE Left == {b - n : n \in T}
<1>1. Left \in SUBSET Nat /\ Left # {}
  <2>1. \A n \in T : n \in 0..b /\ b - n \in Nat
    OBVIOUS
  <2>2. QED
    BY <2>1
<1>2. PICK k \in Left : \A m \in Left : k <= m
  <2>. HIDE DEF Left
  <2>1. QED
    BY <1>1, LeastOne
<1>3. PICK n \in T : k = b - n
  BY <1>2
<1>4. ASSUME NEW m \in T PROVE m <= n
  <2>1. b - n <= b - m
    BY <1>2, <1>3
  <2>2. QED
    BY <2>1
<1>5. QED
  BY <1>4

LEMMA FirstOfTheBest ==
  ASSUME NEW N \in Nat, NEW M \in SUBSET (1..N), M # {},
         NEW b \in Nat, NEW h, \A i \in M : h[i] \in 0..b
  PROVE  \E i \in M : \A j \in M : h[j] <= h[i] /\ (h[j] = h[i] => i <= j)
<1>1. PICK v \in {h[i] : i \in M} : \A w \in {h[i] : i \in M} : w <= v
  <2>1. {h[i] : i \in M} \in SUBSET (0..b) /\ {h[i] : i \in M} # {}
    OBVIOUS
  <2>2. QED
    BY <2>1, GreatestOne
<1>2. PICK i \in {j \in M : h[j] = v} : \A j \in {k \in M : h[k] = v} : i <= j
  <2>1. \E j \in M : h[j] = v
    BY <1>1
  <2>2. M \subseteq 1..N /\ \A j \in 1..N : j \in Nat
    OBVIOUS
  <2>3. {j \in M : h[j] = v} \in SUBSET Nat /\ {j \in M : h[j] = v} # {}
    BY <2>1, <2>2
  <2>4. QED
    BY <2>3, LeastOne
<1>3. QED
  BY <1>1, <1>2

--------------------------------------------------------------------------------
(* The redirection table.                                                       *)

LEMMA SuffixIs ==
  ASSUME NEW S, NEW s \in Seq(S), NEW t \in Seq(S)
  PROVE  IsSuffix(s, t) <=>
           Len(s) <= Len(t) /\ \A i \in 1..Len(s) : s[i] = t[Len(t) - Len(s) + i]
<1>. DEFINE rs == Reverse(s)
            rt == Reverse(t)
<1>1. /\ rs \in Seq(S) /\ Len(rs) = Len(s) /\ \A i \in 1..Len(s) : rs[i] = s[Len(s) - i + 1]
      /\ rt \in Seq(S) /\ Len(rt) = Len(t) /\ \A i \in 1..Len(t) : rt[i] = t[Len(t) - i + 1]
  BY DEF Reverse
<1>2. IsSuffix(s, t) <=>
        Len(s) <= Len(t) /\ SubSeq(rs, 1, Len(s)) = SubSeq(rt, 1, Len(s))
  BY <1>1 DEF IsSuffix, IsPrefix
<1>. HIDE DEF rs, rt
<1>3. ASSUME Len(s) <= Len(t)
      PROVE SubSeq(rs, 1, Len(s)) = SubSeq(rt, 1, Len(s))
            <=> \A i \in 1..Len(s) : rs[i] = rt[i]
  <2>1. SubSeq(rs, 1, Len(s)) = [i \in 1..Len(s) |-> rs[i]]
    BY <1>1, <1>3
  <2>2. SubSeq(rt, 1, Len(s)) = [i \in 1..Len(s) |-> rt[i]]
    BY <1>1, <1>3
  <2>3. QED
    BY <2>1, <2>2
<1>4. ASSUME Len(s) <= Len(t)
      PROVE (\A i \in 1..Len(s) : rs[i] = rt[i])
            <=> \A i \in 1..Len(s) : s[i] = t[Len(t) - Len(s) + i]
  <2>1. ASSUME \A i \in 1..Len(s) : rs[i] = rt[i], NEW i \in 1..Len(s)
        PROVE  s[i] = t[Len(t) - Len(s) + i]
    <3>1. Len(s) - i + 1 \in 1..Len(s) /\ Len(s) - (Len(s) - i + 1) + 1 = i
          /\ Len(t) - (Len(s) - i + 1) + 1 = Len(t) - Len(s) + i
          /\ Len(s) - i + 1 \in 1..Len(t)
      BY <1>4
    <3>2. QED
      BY <1>1, <2>1, <3>1
  <2>2. ASSUME \A i \in 1..Len(s) : s[i] = t[Len(t) - Len(s) + i], NEW i \in 1..Len(s)
        PROVE  rs[i] = rt[i]
    <3>1. Len(s) - i + 1 \in 1..Len(s) /\ i \in 1..Len(t)
          /\ Len(t) - Len(s) + (Len(s) - i + 1) = Len(t) - i + 1
      BY <1>4
    <3>2. QED
      BY <1>1, <2>2, <3>1
  <2>3. QED
    BY <2>1, <2>2
<1>5. QED
  BY <1>2, <1>3, <1>4

Path     == Seq(Names)

LEMMA SameTail ==
  ASSUME NEW t \in Path, NEW v \in Path, Len(v) <= Len(t), IsSuffix(t, v)
  PROVE  IsSuffix(v, t)
<1>1. t \in Seq(Names) /\ v \in Seq(Names) /\ Len(t) \in Nat /\ Len(v) \in Nat
  BY DEF Path
<1>2. Len(t) <= Len(v) /\ \A i \in 1..Len(t) : t[i] = v[Len(v) - Len(t) + i]
  BY <1>1, SuffixIs
<1>3. Len(t) = Len(v) /\ \A i \in 1..Len(v) : v[i] = t[Len(t) - Len(v) + i]
  BY <1>1, <1>2
<1>4. QED
  BY <1>1, <1>3, SuffixIs

Entries  == [target : Path, source : STRING]
Asked(r) == r.file \in Path /\ r.depth \in -1..(Len(r.file) - 1) /\ r.write \in BOOLEAN

\* What is asked for, from a directory in Content, is the tail of the file.
LEMMA WantedIs ==
  ASSUME NEW r, Asked(r), r.depth >= 0
  PROVE  /\ Wanted(r) \in Path /\ Len(Wanted(r)) = Len(r.file) - r.depth
         /\ Len(Wanted(r)) > 0 /\ IsSuffix(Wanted(r), r.file)
<1>. DEFINE f == r.file
            d == r.depth
            w == SubSeq(f, d + 1, Len(f))
<1>1. /\ f \in Seq(Names) /\ d \in Nat /\ d < Len(f) /\ Len(f) \in Nat
  BY DEF Asked, Path
<1>0. Wanted(r) = w
  <2>1. ~(r.depth < 0)
    BY <1>1
  <2>2. QED
    BY <2>1, Zenon DEF Wanted
<1>. HIDE DEF f, d
<1>2. w \in Seq(Names) /\ Len(w) = Len(f) - d /\ \A i \in 1..Len(f) - d : w[i] = f[d + i]
  BY <1>1, SubSeqProperties
<1>3. IsSuffix(w, f)
  <2>. HIDE DEF w
  <2>1. Len(w) <= Len(f) /\ Len(f) - Len(w) = d
    BY <1>1, <1>2
  <2>2. \A i \in 1..Len(w) : w[i] = f[Len(f) - Len(w) + i]
    BY <1>1, <1>2, <2>1
  <2>3. QED
    BY <1>1, <1>2, <2>1, <2>2, SuffixIs
<1>. HIDE DEF w
<1>4. Len(w) > 0
  BY <1>1, <1>2
<1>5. QED
  BY <1>0, <1>2, <1>3, <1>4 DEF f, d, Path

LEMMA WantedType ==
  ASSUME NEW r, Asked(r)
  PROVE  Wanted(r) \in Path
<1>1. CASE r.depth < 0
  <2>. DEFINE above == "Content"
  <2>0. above \in Names
    BY NamesAssumption
  <2>. HIDE DEF above
  <2>1. <<above>> \in Seq(Names) /\ r.file \in Seq(Names)
    BY <2>0 DEF Asked, Path
  <2>2. <<above>> \o r.file \in Seq(Names)
    BY <2>1, ConcatProperties
  <2>3. Wanted(r) = <<above>> \o r.file
    BY <1>1, Zenon DEF Wanted, above
  <2>4. QED
    BY <2>2, <2>3 DEF Path
<1>2. CASE r.depth >= 0
  BY <1>2, WantedIs
<1>3. QED
  BY <1>1, <1>2 DEF Asked

Matches(w) == {i \in 1..Len(redirects) : Match(redirects[i].target, w)}
Overlap(w, i) == Shorter(w, redirects[i].target)

\* What find_redirect finds: nothing, or a longest match.
LEMMA FindIs ==
  ASSUME redirects \in Seq(Entries), NEW w \in Path
  PROVE  \/ Matches(w) = {} /\ FindRedirect(w) = 0
         \/ /\ FindRedirect(w) \in Matches(w)
            /\ \A j \in Matches(w) : Overlap(w, j) <= Overlap(w, FindRedirect(w))
<1>. DEFINE h == [i \in 1..Len(redirects) |-> Overlap(w, i)]
            Best(i) == \A j \in Matches(w) : h[j] <= h[i] /\ (h[j] = h[i] => i <= j)
<1>1. /\ Len(redirects) \in Nat /\ Len(w) \in Nat /\ Matches(w) \in SUBSET (1..Len(redirects))
      /\ \A i \in 1..Len(redirects) : h[i] = Overlap(w, i) /\ h[i] \in 0..Len(w)
  BY DEF Shorter, Path, Entries, Overlap, Matches
<1>2. CASE Matches(w) = {}
  BY <1>2 DEF FindRedirect, Matches
<1>3. CASE Matches(w) # {}
  <2>1. FindRedirect(w) = CHOOSE i \in Matches(w) : Best(i)
    BY <1>1, <1>3 DEF FindRedirect, Matches, Overlap
  <2>2. \E i \in Matches(w) : Best(i)
    <3>. HIDE DEF h
    <3>1. PICK N, b, M, g : N = Len(redirects) /\ b = Len(w) /\ M = Matches(w) /\ g = h
      OBVIOUS
    <3>2. /\ N \in Nat /\ b \in Nat /\ M \in SUBSET (1..N) /\ M # {}
          /\ \A i \in M : g[i] \in 0..b
      BY <1>1, <1>3, <3>1
    <3>3. \E i \in M : \A j \in M : g[j] <= g[i] /\ (g[j] = g[i] => i <= j)
      BY <3>2, FirstOfTheBest
    <3>4. QED
      BY <3>1, <3>3
  <2>. HIDE DEF h
  <2>3. FindRedirect(w) \in Matches(w) /\ Best(FindRedirect(w))
    BY <2>1, <2>2
  <2>4. QED
    BY <1>1, <2>3
<1>4. QED
  BY <1>2, <1>3

\* What a list of replacements answers: the source of the last claim.
LEMMA AnswerIs ==
  ASSUME NEW l \in Seq(Entries), NEW r,
         NEW C, C = {i \in 1..Len(l) : l[i].target = r.file}
  PROVE  /\ C = {} \/ r.write => Answer(l, r) = GameFile
         /\ C # {} => \E i \in C : /\ \A j \in C : j <= i
                                   /\ ~r.write => Answer(l, r) = l[i].source
<1>1. ASSUME C = {} \/ r.write PROVE Answer(l, r) = GameFile
  BY <1>1 DEF Answer
<1>2. ASSUME C # {} PROVE \E i \in C : \A j \in C : j <= i
  <2>1. C \in SUBSET (0..Len(l)) /\ Len(l) \in Nat
    OBVIOUS
  <2>2. QED
    BY <1>2, <2>1, GreatestOne
<1>3. ASSUME C # {}, ~r.write
      PROVE Answer(l, r) = l[CHOOSE i \in C : \A j \in C : j <= i].source
  BY <1>3 DEF Answer
<1>4. QED
  BY <1>1, <1>2, <1>3

\* The table says of every target of the first n claims what the last of them says.
HoldsLast(n) ==
  /\ redirects \in Seq(Entries) /\ list \in Seq(Entries) /\ n \in 0..Len(list)
  /\ Len(redirects) <= n
  /\ \A i, j \in 1..Len(redirects) : redirects[i].target = redirects[j].target => i = j
  /\ \A j \in 1..Len(redirects) : \E i \in 1..n :
       redirects[j] = list[i] /\ \A k \in (i + 1)..n : list[k].target # list[i].target
  /\ \A i \in 1..n : \E j \in 1..Len(redirects) : redirects[j].target = list[i].target

\* What open_file_detour does with what find_redirect found.
Outcome(r, i) ==
  IF i = 0 \/ r.write THEN GameFile
  ELSE IF Reached(redirects[i], r) THEN redirects[i].source ELSE GameFile

\* A file that is replaced, and is asked for by more than another's tail, is found.
LEMMA FindReplaced ==
  ASSUME HoldsLast(Len(list)), NEW r, Asked(r), r.depth >= 0, ~r.write,
         NEW c \in 1..Len(list), list[c].target = r.file,
         \A k \in 1..Len(list) : list[k].target # r.file
            => ~IsSuffix(Wanted(r), list[k].target)
  PROVE  Outcome(r, FindRedirect(Wanted(r))) = Answer(list, r)
<1>. DEFINE w == Wanted(r)
            f == FindRedirect(w)
<1>1. /\ w \in Path /\ Len(w) = Len(r.file) - r.depth /\ Len(w) > 0 /\ IsSuffix(w, r.file)
      /\ r.file \in Path /\ r.depth \in Nat
  BY WantedIs DEF Asked
<1>. HIDE DEF w
<1>2. PICK own \in 1..Len(redirects) : redirects[own].target = r.file
  BY DEF HoldsLast
<1>3. /\ redirects \in Seq(Entries)
      /\ \A j \in 1..Len(redirects) : redirects[j] \in Entries /\ redirects[j].target \in Path
  <2>1. redirects \in Seq(Entries)
    BY DEF HoldsLast
  <2>2. \A j \in 1..Len(redirects) : redirects[j] \in Entries
    BY <2>1
  <2>3. \A e \in Entries : e.target \in Path
    BY DEF Entries
  <2>4. QED
    BY <2>1, <2>2, <2>3
<1>4. Shorter(w, r.file) = Len(w)
  BY <1>1 DEF Shorter, Path
<1>5. own \in Matches(w) /\ Overlap(w, own) = Len(w)
  BY <1>1, <1>2, <1>4 DEF Matches, Overlap, Match
<1>6. f \in Matches(w) /\ Len(w) <= Overlap(w, f)
  BY <1>1, <1>3, <1>5, FindIs
<1>. HIDE DEF f
<1>7. f \in 1..Len(redirects) /\ redirects[f].target \in Path
      /\ (IsSuffix(redirects[f].target, w) \/ IsSuffix(w, redirects[f].target))
  BY <1>3, <1>6 DEF Matches, Match
<1>8. Len(w) <= Len(redirects[f].target)
  BY <1>1, <1>6, <1>7 DEF Overlap, Shorter, Path
<1>9. IsSuffix(w, redirects[f].target)
  <2>1. CASE IsSuffix(redirects[f].target, w)
    BY <1>1, <1>7, <1>8, <2>1, SameTail
  <2>2. QED
    BY <1>7, <2>1
<1>10. redirects[f].target = r.file /\ f = own
  <2>1. PICK k \in 1..Len(list) : redirects[f] = list[k]
    BY <1>7 DEF HoldsLast
  <2>2. redirects[f].target = r.file
    BY <1>9, <2>1 DEF w
  <2>3. QED
    BY <1>2, <1>7, <2>2 DEF HoldsLast
<1>11. PICK i \in 1..Len(list) :
         redirects[f] = list[i] /\ \A k \in (i + 1)..Len(list) : list[k].target # list[i].target
  BY <1>7 DEF HoldsLast
<1>12. Reached(redirects[f], r)
  <2>1. Reached(redirects[f], r) <=>
          (IF Len(w) >= Len(r.file) THEN 0 ELSE Len(r.file) - Len(w)) = r.depth
    BY <1>10 DEF Reached, w
  <2>2. QED
    BY <1>1, <2>1 DEF Path
<1>13. Answer(list, r) = list[i].source
  <2>. DEFINE C == {k \in 1..Len(list) : list[k].target = r.file}
  <2>0. list \in Seq(Entries) /\ c \in C /\ C # {}
    BY DEF HoldsLast
  <2>1. PICK m \in C : (\A k \in C : k <= m) /\ Answer(list, r) = list[m].source
    BY <2>0, AnswerIs
  <2>2. i \in C /\ i <= m /\ m \in 1..Len(list) /\ list[m].target = list[i].target
    BY <1>10, <1>11, <2>1
  <2>3. m \notin (i + 1)..Len(list)
    BY <1>11, <2>2
  <2>4. QED
    BY <2>1, <2>2, <2>3
<1>14. QED
  BY <1>7, <1>11, <1>12, <1>13 DEF Outcome, f, w

\* A file that is not replaced is the game's own, if nothing that matches it can be
\* reached from the directory it is asked for in.
LEMMA FindOther ==
  ASSUME HoldsLast(Len(list)), NEW r, Asked(r), r.depth >= 0,
         \A k \in 1..Len(list) : list[k].target # r.file
           /\ ~(Match(list[k].target, Wanted(r)) /\ Reached(list[k], r))
  PROVE  Outcome(r, FindRedirect(Wanted(r))) = Answer(list, r)
<1>. DEFINE w == Wanted(r)
            f == FindRedirect(w)
<1>1. w \in Path /\ redirects \in Seq(Entries)
  BY WantedIs DEF HoldsLast
<1>2. Answer(list, r) = GameFile
  <2>1. {k \in 1..Len(list) : list[k].target = r.file} = {}
    OBVIOUS
  <2>2. QED
    BY <2>1, AnswerIs DEF HoldsLast
<1>3. f = 0 \/ (f \in 1..Len(redirects) /\ Match(redirects[f].target, w))
  <2>1. f = 0 \/ f \in Matches(w)
    BY <1>1, FindIs
  <2>. HIDE DEF f, w
  <2>2. QED
    BY <2>1 DEF Matches, Match
<1>4. CASE f # 0
  <2>. HIDE DEF f
  <2>1. PICK i \in 1..Len(list) : redirects[f] = list[i]
    BY <1>3, <1>4 DEF HoldsLast
  <2>2. ~Reached(redirects[f], r)
    BY <1>3, <1>4, <2>1
  <2>3. QED
    BY <1>2, <2>2 DEF Outcome, f
<1>5. QED
  BY <1>2, <1>4 DEF Outcome

\* Whatever is found for a request from above Content, it is not reached.
LEMMA FindFromAbove ==
  ASSUME NEW n, HoldsLast(n), NEW r, Asked(r), r.depth < 0
  PROVE  Outcome(r, FindRedirect(Wanted(r))) = GameFile
<1>. DEFINE f == FindRedirect(Wanted(r))
<1>1. Wanted(r) \in Path /\ redirects \in Seq(Entries)
  BY WantedType DEF HoldsLast
<1>2. f = 0 \/ f \in 1..Len(redirects)
  <2>1. f = 0 \/ f \in Matches(Wanted(r))
    BY <1>1, FindIs
  <2>. HIDE DEF f
  <2>2. QED
    BY <2>1 DEF Matches
<1>. HIDE DEF f
<1>3. ASSUME f # 0 PROVE ~Reached(redirects[f], r)
  <2>1. redirects[f] \in Entries
    BY <1>1, <1>2, <1>3
  <2>2. Len(redirects[f].target) \in Nat /\ Len(Wanted(r)) \in Nat
    BY <1>1, <2>1 DEF Entries, Path
  <2>3. QED
    BY <2>2 DEF Reached
<1>4. QED
  BY <1>3 DEF Outcome, f

\* A file that is unmistakable gets, of a table that holds the last claim for every
\* target, what the list says.
LEMMA FindIsRight ==
  ASSUME HoldsLast(Len(list)), NEW r, Asked(r), r.depth >= 0, Unmistakable(r)
  PROVE  Outcome(r, FindRedirect(Wanted(r))) = Answer(list, r)
<1>1. list \in Seq(Entries) /\ \A e : e \in ToSet(list) <=> \E k \in 1..Len(list) : e = list[k]
  BY DEF HoldsLast, ToSet
<1>2. CASE r.write
  <2>1. Answer(list, r) = GameFile
    BY <1>1, <1>2, AnswerIs
  <2>2. QED
    BY <1>2, <2>1 DEF Outcome
<1>3. CASE ~r.write /\ \E c \in 1..Len(list) : list[c].target = r.file
  <2>1. PICK c \in 1..Len(list) : list[c].target = r.file
    BY <1>3
  <2>2. {e \in ToSet(list) : e.target # r.file} # ToSet(list)
    BY <1>1, <2>1
  <2>3. \A k \in 1..Len(list) : list[k].target # r.file
          => ~IsSuffix(Wanted(r), list[k].target)
    BY <1>1, <2>2 DEF Unmistakable
  <2>4. QED
    BY <1>3, <2>1, <2>3, FindReplaced
<1>4. CASE \A c \in 1..Len(list) : list[c].target # r.file
  <2>1. {e \in ToSet(list) : e.target # r.file} = ToSet(list)
    BY <1>1, <1>4
  <2>2. \A k \in 1..Len(list) :
          ~(Match(list[k].target, Wanted(r)) /\ Reached(list[k], r))
    BY <1>1, <1>4, <2>1 DEF Unmistakable
  <2>3. QED
    BY <1>4, <2>2, FindOther
<1>5. QED
  BY <1>2, <1>3, <1>4

--------------------------------------------------------------------------------
(* The table while scans come and go.                                           *)

TableInv == list \in Lists \cup {<<>>} /\ HoldsLast(added)

LEMMA ListIs ==
  ASSUME ListsAssumption, NEW l \in Lists \cup {<<>>}
  PROVE  l \in Seq(Entries)
<1>1. <<>> \in Seq(Entries)
  OBVIOUS
<1>2. QED
  BY <1>1 DEF ListsAssumption, Entries, Path

LEMMA AddStep ==
  ASSUME TableInv, Add
  PROVE  TableInv'
<1>. DEFINE n   == added + 1
            new == list[n]
<1>1. /\ list' = list /\ added' = n /\ added \in 0..Len(list) /\ n \in 1..Len(list)
      /\ list \in Seq(Entries) /\ new \in Entries /\ redirects \in Seq(Entries)
      /\ Len(redirects) \in Nat /\ Len(redirects) <= added
  BY DEF TableInv, HoldsLast, Add
<1>2. \A i, j \in 1..Len(redirects) : redirects[i].target = redirects[j].target => i = j
  BY DEF TableInv, HoldsLast
<1>3. \A j \in 1..Len(redirects) : \E i \in 1..added :
        redirects[j] = list[i] /\ \A k \in (i + 1)..added : list[k].target # list[i].target
  BY DEF TableInv, HoldsLast
<1>4. \A i \in 1..added : \E j \in 1..Len(redirects) : redirects[j].target = list[i].target
  BY DEF TableInv, HoldsLast
<1>5. /\ Claimed(new.target) = {j \in 1..Len(redirects) : redirects[j].target = new.target}
      /\ redirects' = IF Claimed(new.target) # {}
                      THEN [i \in 1..Len(redirects) |->
                              IF i \in Claimed(new.target) THEN new ELSE redirects[i]]
                      ELSE Append(redirects, new)
  BY DEF Add, Claimed
<1>6. ASSUME NEW j \in 1..Len(redirects), redirects[j].target # new.target
      PROVE  \E i \in 1..n :
               redirects[j] = list[i] /\ \A k \in (i + 1)..n : list[k].target # list[i].target
  <2>1. PICK i \in 1..added :
          redirects[j] = list[i] /\ \A k \in (i + 1)..added : list[k].target # list[i].target
    BY <1>3
  <2>2. \A k \in (i + 1)..n : k \in (i + 1)..added \/ k = n
    BY <1>1
  <2>3. i \in 1..n
    BY <1>1
  <2>4. QED
    BY <1>6, <2>1, <2>2, <2>3
<1>7. new = list[n] /\ \A k \in (n + 1)..n : list[k].target # list[n].target
  BY <1>1
<1>8. \A i \in 1..n : i \in 1..added \/ i = n
  BY <1>1
<1>. HIDE DEF n, new
<1>9. CASE Claimed(new.target) # {}
  <2>1. PICK own \in 1..Len(redirects) : redirects[own].target = new.target
    BY <1>5, <1>9
  <2>2. /\ redirects' \in Seq(Entries) /\ Len(redirects') = Len(redirects)
        /\ redirects'[own] = new
        /\ \A j \in 1..Len(redirects) \ {own} :
             redirects'[j] = redirects[j] /\ redirects[j].target # new.target
    <3>1. Claimed(new.target) = {own}
      BY <1>2, <1>5, <2>1
    <3>2. redirects' = [i \in 1..Len(redirects) |-> IF i = own THEN new ELSE redirects[i]]
      BY <1>5, <3>1
    <3>3. \A i \in 1..Len(redirects) : redirects[i] \in Entries
      BY <1>1
    <3>4. redirects' \in [1..Len(redirects) -> Entries]
      BY <1>1, <3>2, <3>3
    <3>5. redirects' \in Seq(Entries) /\ Len(redirects') = Len(redirects)
      BY <1>1, <3>4, LenProperties
    <3>6. QED
      BY <1>5, <2>1, <3>1, <3>2, <3>5
  <2>3. \A j \in 1..Len(redirects') : redirects'[j].target = redirects[j].target
    BY <2>1, <2>2
  <2>4. \A i, j \in 1..Len(redirects') : redirects'[i].target = redirects'[j].target => i = j
    BY <1>2, <2>2, <2>3
  <2>5. \A j \in 1..Len(redirects') : \E i \in 1..n :
          redirects'[j] = list[i] /\ \A k \in (i + 1)..n : list[k].target # list[i].target
    BY <1>1, <1>6, <1>7, <2>2
  <2>6. \A i \in 1..n : \E j \in 1..Len(redirects') : redirects'[j].target = list[i].target
    BY <1>4, <1>7, <1>8, <2>1, <2>2, <2>3
  <2>7. n \in 0..Len(list) /\ Len(redirects') <= n
    BY <1>1, <2>2 DEF n
  <2>8. QED
    BY <1>1, <2>2, <2>4, <2>5, <2>6, <2>7 DEF TableInv, HoldsLast
<1>10. CASE Claimed(new.target) = {}
  <2>1. \A j \in 1..Len(redirects) : redirects[j].target # new.target
    BY <1>5, <1>10
  <2>2. /\ redirects' \in Seq(Entries) /\ Len(redirects') = Len(redirects) + 1
        /\ redirects'[Len(redirects) + 1] = new
        /\ \A j \in 1..Len(redirects) : redirects'[j] = redirects[j]
    <3>1. redirects' = Append(redirects, new)
      BY <1>5, <1>10
    <3>2. QED
      BY <1>1, <3>1, AppendProperties
  <2>3. \A j \in 1..Len(redirects') : j \in 1..Len(redirects) \/ j = Len(redirects) + 1
    BY <1>1, <2>2
  <2>4. \A i, j \in 1..Len(redirects') : redirects'[i].target = redirects'[j].target => i = j
    BY <1>2, <2>1, <2>2, <2>3
  <2>5. \A j \in 1..Len(redirects') : \E i \in 1..n :
          redirects'[j] = list[i] /\ \A k \in (i + 1)..n : list[k].target # list[i].target
    BY <1>1, <1>6, <1>7, <2>1, <2>2, <2>3
  <2>6. \A i \in 1..n : \E j \in 1..Len(redirects') : redirects'[j].target = list[i].target
    <3>1. ASSUME NEW i \in 1..added
          PROVE  \E j \in 1..Len(redirects') : redirects'[j].target = list[i].target
      <4>1. PICK j \in 1..Len(redirects) : redirects[j].target = list[i].target
        BY <1>4
      <4>2. j \in 1..Len(redirects') /\ redirects'[j] = redirects[j]
        BY <1>1, <2>2
      <4>3. QED
        BY <4>1, <4>2
    <3>2. Len(redirects) + 1 \in 1..Len(redirects')
      BY <1>1, <2>2
    <3>3. QED
      BY <1>7, <1>8, <2>2, <3>1, <3>2
  <2>7. n \in 0..Len(list) /\ Len(redirects') <= n
    BY <1>1, <2>2 DEF n
  <2>8. QED
    BY <1>1, <2>2, <2>4, <2>5, <2>6, <2>7 DEF TableInv, HoldsLast
<1>11. QED
  BY <1>9, <1>10

LEMMA TableInit == RedirectInit => TableInv
<1> SUFFICES ASSUME RedirectInit PROVE TableInv
  OBVIOUS
<1>1. redirects = <<>> /\ list = <<>> /\ added = 0
  BY DEF RedirectInit
<1>2. <<>> \in Seq(Entries) /\ Len(<<>>) = 0
  OBVIOUS
<1>3. QED
  BY <1>1, <1>2 DEF TableInv, HoldsLast

LEMMA TableStep == ListsAssumption /\ TableInv /\ [RedirectNext]_redirectVars => TableInv'
<1> SUFFICES ASSUME ListsAssumption, TableInv, [RedirectNext]_redirectVars PROVE TableInv'
  OBVIOUS
<1>1. CASE Clear
  <2>1. list' \in Lists /\ redirects' = <<>> /\ added' = 0
    BY <1>1 DEF Clear
  <2>2. list' \in Seq(Entries)
    BY <2>1, ListIs
  <2>3. <<>> \in Seq(Entries) /\ Len(<<>>) = 0
    OBVIOUS
  <2>4. Len(list') \in Nat
    BY <2>2
  <2>5. QED
    BY <2>1, <2>2, <2>3, <2>4 DEF TableInv, HoldsLast
<1>2. CASE Add
  BY <1>2, AddStep
<1>3. CASE UNCHANGED table
  BY <1>3 DEF TableInv, HoldsLast, table
<1>4. ASSUME NEW o \in Openers,
             \/ Read(o) \/ \E r \in Opens : Find(o, r)
             \/ PassThrough(o) \/ Close(o)
      PROVE  UNCHANGED table
  BY <1>4 DEF Find, PassThrough, Read, Close
<1>5. QED
  BY <1>1, <1>2, <1>3, <1>4 DEF RedirectNext, redirectVars

OpenTypes ==
  /\ step \in [Openers -> {"idle", "found", "done"}]
  /\ request \in [Openers -> Opens \cup {NoOpen}]
  /\ entry \in [Openers -> Nat] /\ {stale, refused} \subseteq [Openers -> BOOLEAN]
  /\ {got, due} \subseteq [Openers -> Sources \cup {GameFile}]

LEMMA SourceIs ==
  ASSUME TableInv
  PROVE  /\ \A i \in 1..Len(list) : list[i].source \in Sources
         /\ \A e \in ToSet(redirects) : e \in UNION {ToSet(l) : l \in Lists}
                                           /\ e.source \in Sources
<1>1. \A i \in 1..Len(list) : list[i] \in UNION {ToSet(l) : l \in Lists}
  <2>1. CASE list = <<>>
    BY <2>1
  <2>2. CASE list \in Lists
    <3>1. \A i \in 1..Len(list) : list[i] \in ToSet(list)
      BY DEF ToSet
    <3>2. QED
      BY <2>2, <3>1
  <2>3. QED
    BY <2>1, <2>2 DEF TableInv
<1>2. \A e \in ToSet(redirects) : \E i \in 1..Len(list) : e = list[i]
  <2>1. ASSUME NEW e \in ToSet(redirects) PROVE \E i \in 1..Len(list) : e = list[i]
    <3>1. PICK j \in 1..Len(redirects) : e = redirects[j]
      BY DEF ToSet
    <3>2. PICK i \in 1..added : redirects[j] = list[i]
      BY DEF TableInv, HoldsLast
    <3>3. i \in 1..Len(list)
      BY DEF TableInv, HoldsLast
    <3>4. QED
      BY <3>1, <3>2, <3>3
  <2>2. QED
    BY <2>1
<1>3. QED
  BY <1>1, <1>2 DEF Sources

LEMMA AnswerType ==
  ASSUME TableInv, NEW r
  PROVE  Answer(list, r) \in Sources \cup {GameFile}
<1>. DEFINE C == {i \in 1..Len(list) : list[i].target = r.file}
<1>1. list \in Seq(Entries) /\ \A i \in C : list[i].source \in Sources
  BY SourceIs DEF TableInv, HoldsLast
<1>2. CASE C = {} \/ r.write
  <2>1. Answer(list, r) = GameFile
    BY <1>1, <1>2, AnswerIs
  <2>2. QED
    BY <2>1
<1>3. CASE C # {} /\ ~r.write
  <2>1. \E i \in C : Answer(list, r) = list[i].source
    BY <1>1, <1>3, AnswerIs
  <2>2. QED
    BY <1>1, <2>1
<1>4. QED
  BY <1>2, <1>3

LEMMA AskedIs ==
  ASSUME PathsAssumption, NEW r \in Opens, r.depth \in Depths[r.file]
  PROVE  Asked(r)
BY DEF PathsAssumption, Opens, Asked, Path

LEMMA OpenInit == RedirectInit => OpenTypes
BY DEF RedirectInit, OpenTypes

LEMMA OpenStep ==
  PathsAssumption /\ TableInv /\ OpenTypes /\ [RedirectNext]_redirectVars => OpenTypes'
<1> SUFFICES ASSUME PathsAssumption, TableInv, OpenTypes, [RedirectNext]_redirectVars
             PROVE  OpenTypes'
  OBVIOUS
<1> USE DEF OpenTypes
<1>1. CASE Clear
  BY <1>1 DEF Clear, Dangle
<1>2. CASE Add
  BY <1>2 DEF Add, Dangle
<1>3. ASSUME NEW o \in Openers, NEW r \in Opens, r.depth \in Depths[r.file], Find(o, r)
      PROVE  OpenTypes'
  <2>1. Answer(list, r) \in Sources \cup {GameFile}
    BY AnswerType
  <2>2. FindRedirect(Wanted(r)) \in Nat
    <3>1. Wanted(r) \in Path /\ redirects \in Seq(Entries)
      BY <1>3, AskedIs, WantedType DEF TableInv, HoldsLast
    <3>2. QED
      BY <3>1, FindIs DEF Matches
  <2>3. QED
    BY <1>3, <2>1, <2>2 DEF Find
<1>4. ASSUME NEW o \in Openers, PassThrough(o) \/ Close(o)
      PROVE  OpenTypes'
  <2>1. CASE PassThrough(o)
    BY <2>1 DEF PassThrough
  <2>2. CASE Close(o)
    BY <2>2 DEF Close
  <2>. QED
    BY <1>4, <2>1, <2>2
<1>5. ASSUME NEW o \in Openers, Read(o)
      PROVE  OpenTypes'
  <2>1. PICK e \in ToSet(redirects) \cup {[target |-> <<>>, source |-> GameFile]},
             opens \in BOOLEAN :
          /\ got' = [got EXCEPT ![o] = IF Reached(e, request[o]) /\ opens
                                       THEN e.source ELSE GameFile]
          /\ refused' = [refused EXCEPT ![o] = Reached(e, request[o]) /\ ~opens]
    BY <1>5 DEF Read
  <2>2. e.source \in Sources \cup {GameFile}
    BY <2>1, SourceIs
  <2>3. (Reached(e, request[o]) /\ ~opens) \in BOOLEAN
    OBVIOUS
  <2>4. QED
    BY <1>5, <2>1, <2>2, <2>3 DEF Read
<1>6. CASE UNCHANGED redirectVars
  BY <1>6 DEF redirectVars, opening
<1>. QED
  BY <1>1, <1>2, <1>3, <1>4, <1>5, <1>6 DEF RedirectNext

LEMMA TypesFollow == TableInv /\ OpenTypes => TypeOK
<1> SUFFICES ASSUME TableInv, OpenTypes PROVE TypeOK
  OBVIOUS
<1>1. redirects \in Seq(UNION {ToSet(l) : l \in Lists})
  <2>1. redirects \in Seq(Entries)
    BY DEF TableInv, HoldsLast
  <2>2. \A i \in 1..Len(redirects) : redirects[i] \in UNION {ToSet(l) : l \in Lists}
    BY SourceIs DEF ToSet
  <2>3. QED
    BY <2>1, <2>2, SeqDef
<1>2. /\ list \in Lists \cup {<<>>} /\ added \in 0..Len(list) /\ Len(redirects) <= added
      /\ \A i, j \in 1..Len(redirects) : redirects[i].target = redirects[j].target => i = j
  BY DEF TableInv, HoldsLast
<1>3. QED
  BY <1>1, <1>2 DEF OpenTypes, TypeOK

\* For any files, mods and threads: the table has one entry for a target, and
\* every open ends with the game's own file or one that a mod put in its place.
THEOREM RedirectTypes == RedirectSpec => []TypeOK
<1>1. RedirectInit => TableInv /\ OpenTypes
  BY TableInit, OpenInit
<1>2. TableInv /\ OpenTypes /\ [RedirectNext]_redirectVars => TableInv' /\ OpenTypes'
  BY PathsAssumption, ListsAssumption, TableStep, OpenStep
<1>3. QED
  BY TypesFollow, <1>1, <1>2, PTL DEF RedirectSpec

\* What a thread can get: nothing but the game's own file from above Content.
Owed(o) == IF request[o].depth < 0 THEN GameFile ELSE due[o]

\* What a thread has found, and got, of a file it could not mistake outside a scan
\* that no scan has followed since.
Settled ==
  /\ clear \in [Openers -> BOOLEAN]
  /\ \A o \in Openers : clear[o] /\ ~stale[o] =>
       /\ step[o] = "found" => Owed(o) = Outcome(request[o], entry[o])
       /\ step[o] = "done"  => got[o] = IF refused[o] THEN GameFile ELSE Owed(o)

LEMMA SettledStep ==
  ASSUME PathsAssumption, TableInv, OpenTypes, Settled, [ClearNext]_<<redirectVars, clear>>
  PROVE  Settled'
<1>1. CASE UNCHANGED <<redirectVars, clear>>
  BY <1>1 DEF Settled, Owed, Outcome, redirectVars, table, opening
<1>2. CASE ClearNext
  <2>1. /\ clear' \in [Openers -> BOOLEAN]
        /\ \A o \in Openers : clear'[o] =>
             \/ step[o] = "idle" /\ step'[o] = "found"
                /\ added = Len(list) /\ Unmistakable(request'[o])
             \/ clear[o] /\ step'[o] # "idle"
    BY <1>2 DEF Settled, ClearNext
  <2>2. CASE Clear \/ Add
    <3>1. /\ step' = step /\ UNCHANGED <<request, entry, got, refused, due>>
          /\ stale' = [o \in Openers |-> stale[o] \/ step[o] = "found"]
      BY <2>2 DEF Clear, Add, Dangle
    <3>2. \A o \in Openers : clear'[o] /\ ~stale'[o] => clear[o] /\ ~stale[o] /\ step[o] # "found"
      BY <2>1, <3>1 DEF OpenTypes
    <3>3. QED
      BY <2>1, <3>1, <3>2 DEF Settled, Owed
  <2>3. ASSUME NEW o \in Openers, NEW r \in Opens, r.depth \in Depths[r.file], Find(o, r)
        PROVE  Settled'
    <3>1. UNCHANGED redirects /\ step[o] = "idle" /\ Asked(r)
      BY <2>3, AskedIs DEF Find, table
    <3>2. ASSUME NEW p \in Openers \ {o}, clear'[p], ~stale'[p]
          PROVE  /\ step'[p] = "found" => Owed(p)' = Outcome(request[p], entry[p])'
                 /\ step'[p] = "done" => got'[p] = IF refused'[p] THEN GameFile ELSE Owed(p)'
      <4>1. /\ step'[p] = step[p] /\ request'[p] = request[p] /\ entry'[p] = entry[p]
            /\ stale'[p] = stale[p] /\ got'[p] = got[p] /\ due'[p] = due[p]
            /\ refused'[p] = refused[p]
        BY <2>3 DEF Find, OpenTypes
      <4>2. clear[p]
        BY <2>1, <3>2, <4>1
      <4>3. QED
        BY <3>1, <3>2, <4>1, <4>2 DEF Settled, Owed, Outcome
    <3>3. ASSUME clear'[o], ~stale'[o]
          PROVE  Owed(o)' = Outcome(request[o], entry[o])' /\ step'[o] = "found"
      <4>1. /\ step'[o] = "found" /\ request'[o] = r /\ due'[o] = Answer(list, r)
            /\ entry'[o] = FindRedirect(Wanted(r))
        BY <2>3 DEF Find, OpenTypes
      <4>2. added = Len(list) /\ Unmistakable(r)
        BY <1>2, <3>1, <3>3, <4>1 DEF ClearNext
      <4>3. CASE r.depth < 0
        <5>1. Outcome(r, FindRedirect(Wanted(r))) = GameFile
          BY <3>1, <4>3, FindFromAbove DEF TableInv
        <5>2. QED
          BY <3>1, <4>1, <4>3, <5>1 DEF Outcome, Owed
      <4>4. CASE r.depth >= 0
        <5>1. Answer(list, r) = Outcome(r, FindRedirect(Wanted(r))) /\ ~(r.depth < 0)
          BY <3>1, <4>2, <4>4, FindIsRight DEF TableInv, Asked
        <5>2. QED
          BY <3>1, <4>1, <5>1 DEF Outcome, Owed
      <4>5. QED
        BY <3>1, <4>3, <4>4 DEF Asked
    <3>4. QED
      BY <2>1, <3>2, <3>3 DEF Settled
  <2>4. ASSUME NEW o \in Openers, PassThrough(o) \/ Read(o) \/ Close(o)
        PROVE  Settled'
    <3>1. /\ UNCHANGED redirects /\ step[o] # "idle" /\ step'[o] # "found"
          /\ \A p \in Openers \ {o} :
               /\ step'[p] = step[p] /\ request'[p] = request[p] /\ entry'[p] = entry[p]
               /\ stale'[p] = stale[p] /\ got'[p] = got[p] /\ due'[p] = due[p]
               /\ refused'[p] = refused[p]
      BY <2>4 DEF PassThrough, Read, Close, table, OpenTypes
    <3>2. ASSUME NEW p \in Openers \ {o}, clear'[p], ~stale'[p]
          PROVE  /\ step'[p] = "found" => Owed(p)' = Outcome(request[p], entry[p])'
                 /\ step'[p] = "done" => got'[p] = IF refused'[p] THEN GameFile ELSE Owed(p)'
      <4>1. clear[p]
        BY <2>1, <3>1, <3>2
      <4>2. QED
        BY <3>1, <3>2, <4>1 DEF Settled, Owed, Outcome
    <3>3. ASSUME clear'[o], ~stale'[o]
          PROVE  step'[o] = "done" => got'[o] = IF refused'[o] THEN GameFile ELSE Owed(o)'
      <4>1. clear[o] /\ step'[o] # "idle"
        BY <2>1, <3>1, <3>3
      <4>2. CASE PassThrough(o)
        <5>1. /\ step[o] = "found" /\ ~stale[o] /\ got'[o] = GameFile
              /\ due'[o] = due[o] /\ request'[o] = request[o]
              /\ entry[o] = 0 \/ request[o].write
          BY <3>3, <4>2 DEF PassThrough, OpenTypes
        <5>2. QED
          BY <4>1, <5>1 DEF Settled, Owed, Outcome
      <4>3. CASE Read(o)
        <5>1. /\ step[o] = "found" /\ ~stale[o]
              /\ due'[o] = due[o] /\ request'[o] = request[o]
              /\ entry[o] # 0 /\ ~request[o].write
          BY <3>3, <4>3 DEF Read, OpenTypes
        <5>2. \/ got'[o] = IF Reached(redirects[entry[o]], request[o])
                           THEN redirects[entry[o]].source ELSE GameFile
              \/ refused'[o] /\ got'[o] = GameFile
          BY <4>3, <5>1 DEF Read, OpenTypes
        <5>3. refused'[o] => got'[o] = GameFile
          BY <4>3, <5>1 DEF Read, OpenTypes
        <5>4. QED
          BY <4>1, <5>1, <5>2, <5>3 DEF Settled, Owed, Outcome
      <4>4. CASE Close(o)
        BY <4>1, <4>4 DEF Close, OpenTypes
      <4>5. QED
        BY <2>4, <4>2, <4>3, <4>4
    <3>4. QED
      BY <2>1, <3>1, <3>2, <3>3 DEF Settled
  <2>5. QED
    BY <1>2, <2>2, <2>3, <2>4 DEF ClearNext, RedirectNext
<1>3. QED
  BY <1>1, <1>2

\* For any files, mods and threads: an open of an unmistakable file from a directory
\* in Content, that no scan overlaps, gets the file of the last mod to claim it if
\* the engine can open that, and the game's own otherwise; an open from above
\* Content gets the game's own.
THEOREM ServedAsClaimed == ClearSpec => []ServesUnlessScanned
<1>1. ClearInit => TableInv /\ OpenTypes /\ Settled
  BY TableInit, OpenInit DEF ClearInit, Settled
<1>2. TableInv /\ OpenTypes /\ Settled /\ [ClearNext]_<<redirectVars, clear>>
      => TableInv' /\ OpenTypes' /\ Settled'
  <2>1. [ClearNext]_<<redirectVars, clear>> => [RedirectNext]_redirectVars
    BY DEF ClearNext
  <2>2. QED
    BY <2>1, PathsAssumption, ListsAssumption, TableStep, OpenStep, SettledStep
<1>3. Settled => ServesUnlessScanned
  BY DEF Settled, Owed, ServesUnlessScanned
<1>4. QED
  BY <1>1, <1>2, <1>3, PTL DEF ClearSpec
================================================================================
