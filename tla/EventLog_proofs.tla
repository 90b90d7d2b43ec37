--------------------------- MODULE EventLog_proofs ---------------------------
(***************************************************************************)
(* events.jsonl stays in order, for any number of threads and of events,    *)
(* whichever writes fail and whenever the process is killed; and a follower *)
(* prints every event that is a line of its own once, whatever the limit and *)
(* whenever it asks.                                                        *)
(***************************************************************************)
EXTENDS EventLog, TLAPS, FiniteSetTheorems, SequenceTheorems

Positive == Nat \ {0}

\* Whoever writes an event holds the lock, and the event has the last number.
OneWriter ==
  /\ value \in Nat
  /\ lock \in Threads \cup {Free}
  /\ emits \in [Threads -> Nat]
  /\ \A t \in Threads : emits[t] = IF lock = t THEN value ELSE 0
  /\ lock # Free => value > 0

\* The events that failed have been given their numbers, and are not written any more.
FailedBefore ==
  /\ failed \subseteq Positive
  /\ \A x \in failed : x <= value /\ (lock # Free => x < value)

\* The last line holds events that failed and, at its end, the one that is written.
TailIsMine ==
  /\ tail \in Seq(Positive)
  /\ \A n \in DOMAIN tail :
       tail[n] \in failed \/ (lock # Free /\ n = Len(tail) /\ tail[n] = value)

\* All but the last event of a line failed, and had lower numbers.
Line(l) ==
  /\ l \in Seq(Positive) /\ Len(l) > 0
  /\ \A n \in DOMAIN l : n < Len(l) => l[n] \in failed /\ l[n] < Last(l)

\* The lines are in order, the last of them at most the number given last, and less
\* if that one is still being written.
Ordered ==
  /\ log \in Seq(Seq(Positive))
  /\ \A i \in DOMAIN log : Line(log[i])
  /\ \A i, k \in DOMAIN log : i < k => Last(log[i]) < Last(log[k])
  /\ \A i \in DOMAIN log : Last(log[i]) <= value /\ (lock # Free => Last(log[i]) < value)

IInv == OneWriter /\ FailedBefore /\ TailIsMine /\ Ordered

LEMMA LastIsNumber ==
  ASSUME NEW l, Line(l)
  PROVE  Last(l) = l[Len(l)] /\ Last(l) \in Positive /\ Last(l) \in Nat
  BY DEF Line, Last, Positive

LEMMA InitIInv == Init => IInv
<1> SUFFICES ASSUME Init PROVE IInv
  OBVIOUS
<1>1. OneWriter /\ FailedBefore
  BY EventLogAssumption DEF Init, OneWriter, FailedBefore
<1>2. /\ <<>> \in Seq(Positive) /\ <<>> \in Seq(Seq(Positive)) /\ DOMAIN <<>> = {}
  OBVIOUS
<1>3. TailIsMine /\ Ordered
  BY <1>2 DEF Init, TailIsMine, Ordered
<1> QED
  BY <1>1, <1>3 DEF IInv

-----------------------------------------------------------------------------
(* What each step of a thread does to the invariant.                        *)

LEMMA EmitKeeps ==
  ASSUME IInv, NEW t \in Threads, Emit(t)
  PROVE  IInv'
<1>0. /\ value \in Nat /\ value' = value + 1 /\ lock = Free /\ lock' = t
      /\ UNCHANGED <<log, tail, failed>>
  BY DEF IInv, OneWriter, Emit
<1>1. OneWriter'
  BY EventLogAssumption DEF IInv, OneWriter, Emit, MayEmit
<1>2. FailedBefore'
  BY <1>0 DEF IInv, FailedBefore, Positive
<1>3. TailIsMine'
  BY <1>0 DEF IInv, TailIsMine
<1>4. Ordered'
  <2>1. \A i \in DOMAIN log : Line(log[i]) /\ Last(log[i]) \in Nat /\ Last(log[i]) <= value
    BY LastIsNumber DEF IInv, Ordered
  <2>2. \A i \in DOMAIN log : Line(log[i])'
    BY <1>0, <2>1 DEF Line
  <2> QED
    BY <1>0, <2>1, <2>2 DEF IInv, Ordered
<1> QED
  BY <1>1, <1>2, <1>3, <1>4 DEF IInv

\* The thread that writes holds the lock, and what it writes has not failed.
LEMMA Writer ==
  ASSUME IInv, NEW t \in Threads, emits[t] # 0
  PROVE  /\ lock = t /\ emits[t] = value /\ value \in Positive /\ value \in Nat /\ lock # Free
         /\ value \notin failed
         /\ Contains(tail, value) => Len(tail) > 0 /\ tail[Len(tail)] = value
         /\ \A n \in DOMAIN tail : tail[n] \in failed \/ (n = Len(tail) /\ tail[n] = value)
<1>1. lock = t /\ emits[t] = value /\ value \in Positive /\ value \in Nat /\ lock # Free
  BY EventLogAssumption DEF IInv, OneWriter, Positive
<1>2. value \notin failed
  BY <1>1 DEF IInv, FailedBefore
<1>3. \A n \in DOMAIN tail : tail[n] \in failed \/ (n = Len(tail) /\ tail[n] = value)
  BY <1>1 DEF IInv, TailIsMine
<1>4. ASSUME Contains(tail, value) PROVE Len(tail) > 0 /\ tail[Len(tail)] = value
  <2>1. PICK n \in 1..Len(tail) : tail[n] = value
    BY <1>4 DEF Contains
  <2>2. Len(tail) \in Nat /\ n \in DOMAIN tail
    BY DEF IInv, TailIsMine
  <2> QED
    BY <1>2, <1>3, <2>1, <2>2
<1> QED
  BY <1>1, <1>2, <1>3, <1>4

LEMMA WriteHalfKeeps ==
  ASSUME IInv, NEW t \in Threads, WriteHalf(t)
  PROVE  IInv'
<1>1. /\ emits[t] # 0 /\ tail' = Append(tail, value) /\ ~Contains(tail, value)
      /\ UNCHANGED <<value, lock, emits, log, failed>>
  BY Writer DEF WriteHalf
<1>2. value \in Positive /\ lock # Free /\ tail \in Seq(Positive)
  BY <1>1, Writer DEF IInv, TailIsMine
<1>3. \A n \in DOMAIN tail : tail[n] \in failed
  <2>1. \A n \in DOMAIN tail : n \in 1..Len(tail)
    BY <1>2
  <2> QED
    BY <1>1, <2>1, Writer DEF Contains
<1>4. /\ tail' \in Seq(Positive) /\ Len(tail') = Len(tail) + 1 /\ tail'[Len(tail')] = value
      /\ \A n \in DOMAIN tail' : n # Len(tail') => n \in DOMAIN tail /\ tail'[n] = tail[n]
  BY <1>1, <1>2
<1>5. TailIsMine'
  BY <1>1, <1>2, <1>3, <1>4 DEF TailIsMine
<1>6. OneWriter' /\ FailedBefore' /\ Ordered'
  BY <1>1 DEF IInv, OneWriter, FailedBefore, Ordered, Line
<1> QED
  BY <1>5, <1>6 DEF IInv

LEMMA LeaveKeeps ==
  ASSUME IInv, NEW t \in Threads, emits[t] # 0, Leave(t), value' = value
  PROVE  OneWriter' /\ lock' = Free
  BY EventLogAssumption DEF IInv, OneWriter, Leave

LEMMA WriteRestKeeps ==
  ASSUME IInv, NEW t \in Threads, WriteRest(t)
  PROVE  IInv'
<1>1. /\ emits[t] # 0 /\ log' = Append(log, tail) /\ tail' = <<>> /\ value' = value
      /\ failed' = failed /\ Contains(tail, value)
  BY Writer DEF WriteRest
<1>2. /\ lock # Free /\ value \in Positive /\ value \in Nat
      /\ Len(tail) > 0 /\ tail[Len(tail)] = value
  BY <1>1, Writer
<1>3. OneWriter' /\ lock' = Free
  BY <1>1, LeaveKeeps DEF WriteRest
<1>4. /\ tail \in Seq(Positive) /\ log \in Seq(Seq(Positive))
      /\ \A i \in DOMAIN log : Line(log[i]) /\ Last(log[i]) \in Nat /\ Last(log[i]) < value
      /\ \A i, k \in DOMAIN log : i < k => Last(log[i]) < Last(log[k])
  BY <1>2, LastIsNumber DEF IInv, TailIsMine, Ordered
<1>5. Line(tail) /\ Last(tail) = value
  <2>1. \A n \in DOMAIN tail : n < Len(tail) => tail[n] \in failed
    BY <1>1, <1>4, Writer
  <2>2. \A x \in failed : x < value
    BY <1>2 DEF IInv, FailedBefore
  <2>3. Last(tail) = value
    BY <1>2 DEF Last
  <2> QED
    BY <1>2, <1>4, <2>1, <2>2, <2>3 DEF Line
<1>6. /\ log' \in Seq(Seq(Positive)) /\ Len(log') = Len(log) + 1 /\ Len(log) \in Nat
      /\ DOMAIN log' = 1 .. Len(log) + 1 /\ DOMAIN log = 1 .. Len(log)
      /\ log'[Len(log')] = tail /\ \A i \in DOMAIN log : log'[i] = log[i]
  BY <1>1, <1>4
<1>7. \A i \in DOMAIN log' : i \in DOMAIN log \/ i = Len(log')
  BY <1>6
<1>8. \A i \in DOMAIN log' : Line(log'[i])
  BY <1>4, <1>5, <1>6, <1>7
<1>9. \A i \in DOMAIN log' : Last(log'[i]) <= value
  BY <1>2, <1>4, <1>5, <1>6, <1>7
<1>10. \A i, k \in DOMAIN log' : i < k => Last(log'[i]) < Last(log'[k])
  <2> SUFFICES ASSUME NEW i \in DOMAIN log', NEW k \in DOMAIN log', i < k
               PROVE  Last(log'[i]) < Last(log'[k])
    OBVIOUS
  <2>1. i \in DOMAIN log
    BY <1>6
  <2>2. CASE k \in DOMAIN log
    BY <1>4, <1>6, <2>1, <2>2
  <2>3. CASE k = Len(log')
    BY <1>4, <1>5, <1>6, <2>1, <2>3
  <2> QED
    BY <1>7, <2>2, <2>3
<1>11. Ordered'
  <2>1. \A i \in DOMAIN log' : Line(log[i])'
    BY <1>1, <1>8 DEF Line
  <2> QED
    BY <1>1, <1>3, <1>6, <1>9, <1>10, <2>1 DEF Ordered
<1>12. TailIsMine'
  BY <1>1 DEF TailIsMine
<1>13. FailedBefore'
  BY <1>1, <1>3 DEF IInv, FailedBefore
<1> QED
  BY <1>3, <1>11, <1>12, <1>13 DEF IInv

LEMMA EmitFailsKeeps ==
  ASSUME IInv, NEW t \in Threads, EmitFails(t)
  PROVE  IInv'
<1>1. /\ emits[t] # 0 /\ failed' = failed \cup {value} /\ UNCHANGED <<value, log, tail>>
      /\ value \in Positive /\ value \in Nat /\ lock # Free
  BY Writer DEF EmitFails
<1>2. OneWriter' /\ lock' = Free
  BY <1>1, LeaveKeeps DEF EmitFails
<1>3. FailedBefore'
  BY <1>1, <1>2 DEF IInv, FailedBefore
<1>4. TailIsMine'
  BY <1>1, <1>2 DEF IInv, TailIsMine
<1>5. Ordered'
  <2>1. \A i \in DOMAIN log : Line(log[i])'
    BY <1>1 DEF IInv, Ordered, Line
  <2> QED
    BY <1>1, <1>2, <2>1 DEF IInv, Ordered
<1> QED
  BY <1>2, <1>3, <1>4, <1>5 DEF IInv

LEMMA OthersKeep ==
  ASSUME IInv, UNCHANGED <<value, lock, emits, log, tail, failed>>
  PROVE  IInv'
  BY DEF IInv, OneWriter, FailedBefore, TailIsMine, Ordered, Line

LEMMA NextIInv == IInv /\ [Next]_vars => IInv'
<1> SUFFICES ASSUME IInv, [Next]_vars PROVE IInv'
  OBVIOUS
<1>1. ASSUME NEW t \in Threads, Emit(t) PROVE IInv'
  BY <1>1, EmitKeeps
<1>2. ASSUME NEW t \in Threads, Writes(t) PROVE IInv'
  BY <1>2, WriteHalfKeeps, WriteRestKeeps, EmitFailsKeeps DEF Writes
<1>3. CASE StartRun \/ Finish \/ Cancel \/ Killed
  BY <1>3, OthersKeep DEF StartRun, Finish, Cancel, Killed
<1>4. CASE Answer \/ Tick \/ Client
  BY <1>4, OthersKeep DEF Answer, Accept, ReadFile, Reply, Tick, Client, Receive,
     PollAgain, TimesOut, RequestFails, GiveUp, writer
<1>5. CASE UNCHANGED vars
  BY <1>5, OthersKeep DEF vars
<1> QED
  BY <1>1, <1>2, <1>3, <1>4, <1>5 DEF Next

\* LiveLogger.event: the lines of events.jsonl are in the order of the sequence
\* numbers, however many threads emit at once and wherever their writes fail, and a
\* line is one event unless those before its last failed half written.
THEOREM LogIsOrderedHolds == Spec => []LogIsOrdered
<1>1. IInv => LogIsOrdered
  BY DEF IInv, Ordered, Line, LogIsOrdered
<1> QED
  BY <1>1, InitIInv, NextIInv, PTL DEF Spec

-----------------------------------------------------------------------------
(* What a follower has printed.                                             *)

Below == {p \in Nat \X Nat : p[1] < p[2]}

\* Among numbers there is a least one.
LEMMA Least ==
  ASSUME NEW T \in SUBSET Nat, T # {}
  PROVE  \E n \in T : \A m \in T : ~(m < n)
<1>1. OpToRel(<, Nat) = Below
  BY DEF OpToRel, Below
<1>2. IsWellFoundedOn(Below, Nat)
  BY <1>1, NatLessThanWellFounded
<1>3. \E n \in T : \A m \in T : ~(<<m, n>> \in Below)
  BY <1>2, WFMin
<1> QED
  BY <1>3 DEF Below

\* What holds of zero and goes on to the next number holds of every number.
LEMMA Induct ==
  ASSUME NEW P \in SUBSET Nat, 0 \in P, \A n \in P : n + 1 \in P
  PROVE  P = Nat
<1>1. SUFFICES ASSUME Nat \ P # {} PROVE FALSE
  OBVIOUS
<1>2. PICK n \in Nat \ P : \A m \in Nat \ P : ~(m < n)
  BY <1>1, Least
<1>3. n # 0
  BY <1>2
<1>4. n - 1 \in Nat \ P
  BY <1>2, <1>3
<1> QED
  BY <1>2, <1>3, <1>4

\* What the recursive function of FlattenSeq says of the first n of its sequences.
Flattens(s, n, f) == f = [k \in 1..n |-> IF k = 1 THEN s[k] ELSE f[k - 1] \o s[k]]

LEMMA FlattensExists ==
  ASSUME NEW S, NEW s \in Seq(Seq(S)), NEW n \in 1..Len(s)
  PROVE  \E f : Flattens(s, n, f)
<1> DEFINE P == {m \in Nat : m <= Len(s) => \E f \in [1..m -> Seq(S)] : Flattens(s, m, f)}
<1>1. 0 \in P
  <2> DEFINE f == [k \in 1..0 |-> <<>>]
  <2>1. f \in [1..0 -> Seq(S)] /\ Flattens(s, 0, f)
    BY DEF Flattens
  <2> QED
    BY <2>1
<1>2. ASSUME NEW m \in P PROVE m + 1 \in P
  <2>1. SUFFICES ASSUME m + 1 <= Len(s)
                 PROVE  \E f \in [1..(m + 1) -> Seq(S)] : Flattens(s, m + 1, f)
    OBVIOUS
  <2>2. m \in Nat /\ Len(s) \in Nat
    OBVIOUS
  <2>3. PICK f \in [1..m -> Seq(S)] : Flattens(s, m, f)
    BY <2>1, <2>2
  <2> DEFINE g == [k \in 1..(m + 1) |-> IF k = 1 THEN s[k] ELSE f[k - 1] \o s[k]]
  <2>4. \A k \in 1..(m + 1) : k # 1 => k - 1 \in 1..m
    BY <2>2
  <2>5. \A k \in 1..(m + 1) : s[k] \in Seq(S)
    BY <2>1, <2>2
  <2>6. g \in [1..(m + 1) -> Seq(S)]
    BY <2>4, <2>5
  <2>7. \A k \in 1..m : g[k] = f[k]
    <3>1. \A k \in 1..m : f[k] = IF k = 1 THEN s[k] ELSE f[k - 1] \o s[k]
      BY <2>3 DEF Flattens
    <3>2. \A k \in 1..m : k \in 1..(m + 1)
      BY <2>2
    <3> QED
      BY <3>1, <3>2
  <2>8. \A k \in 1..(m + 1) : g[k] = IF k = 1 THEN s[k] ELSE g[k - 1] \o s[k]
    BY <2>4, <2>7
  <2>9. Flattens(s, m + 1, g)
    BY <2>8 DEF Flattens
  <2> QED
    BY <2>6, <2>9
<1> HIDE DEF P
<1>3. P = Nat
  <2>1. P \in SUBSET Nat
    BY DEF P
  <2> QED
    BY <1>1, <1>2, <2>1, Induct
<1>4. n \in P /\ n <= Len(s)
  BY <1>3
<1> QED
  BY <1>4 DEF P

\* The flattened list grows by one sequence after the other.
LEMMA FlattenSteps ==
  ASSUME NEW S, NEW s \in Seq(Seq(S))
  PROVE  \E f : /\ f[0] = <<>> /\ FlattenSeq(s) = f[Len(s)]
                /\ \A k \in 1..Len(s) : f[k] = f[k - 1] \o s[k]
                /\ \A k \in 0..Len(s) : f[k] \in Seq(S)
<1> DEFINE n == Len(s)
<1>0. n \in Nat /\ (\A k \in 1..n : s[k] \in Seq(S))
  OBVIOUS
<1>1. CASE n = 0
  <2>1. s = <<>> /\ FlattenSeq(s) = s
    BY <1>1 DEF FlattenSeq
  <2> DEFINE f == [k \in 0..0 |-> <<>>]
  <2>2. f[0] = <<>> /\ FlattenSeq(s) = f[n]
    BY <1>1, <2>1
  <2>3. (\A k \in 1..n : FALSE) /\ (\A k \in 0..n : k = 0) /\ <<>> \in Seq(S)
    BY <1>1
  <2> HIDE DEF f
  <2> QED
    BY <2>2, <2>3
<1>2. CASE n # 0
  <2> DEFINE h == CHOOSE f : Flattens(s, n, f)
  <2>1. FlattenSeq(s) = h[n]
    BY <1>2 DEF FlattenSeq, Flattens
  <2>2. Flattens(s, n, h)
    BY <1>0, <1>2, FlattensExists
  <2> HIDE DEF h
  <2> DEFINE f == [k \in 0..n |-> IF k = 0 THEN <<>> ELSE h[k]]
             P == {k \in Nat : k <= n => f[k] \in Seq(S)}
  <2>3. f[0] = <<>> /\ f[n] = h[n]
    BY <1>0, <1>2
  <2>4. \A k \in 1..n : f[k] = IF k = 1 THEN s[k] ELSE f[k - 1] \o s[k]
    <3>1. \A k \in 1..n : h[k] = IF k = 1 THEN s[k] ELSE h[k - 1] \o s[k]
      BY <2>2 DEF Flattens
    <3>2. \A k \in 1..n : f[k] = h[k] /\ (k # 1 => f[k - 1] = h[k - 1])
      BY <1>0
    <3> HIDE DEF f
    <3> QED
      BY <3>1, <3>2
  <2>5. \A k \in 1..n : f[k] = f[k - 1] \o s[k]
    <3> SUFFICES ASSUME NEW k \in 1..n PROVE f[k] = f[k - 1] \o s[k]
      OBVIOUS
    <3>1. <<>> \o s[k] = s[k]
      BY <1>0
    <3>2. f[k] = IF k = 1 THEN s[k] ELSE f[k - 1] \o s[k]
      BY <2>4
    <3> HIDE DEF f
    <3>3. CASE k = 1
      <4>1. f[k - 1] = <<>>
        BY <2>3, <3>3
      <4> QED
        BY <3>1, <3>2, <3>3, <4>1
    <3> QED
      BY <3>2, <3>3
  <2> HIDE DEF f
  <2>6. 0 \in P
    <3>1. <<>> \in Seq(S)
      OBVIOUS
    <3> QED
      BY <2>3, <3>1
  <2>7. ASSUME NEW k \in P PROVE k + 1 \in P
    <3>1. SUFFICES ASSUME k + 1 <= n PROVE f[k + 1] \in Seq(S)
      OBVIOUS
    <3>2. k \in Nat /\ k <= n /\ k + 1 \in 1..n /\ (k + 1) - 1 = k
      BY <1>0, <3>1
    <3>3. f[k] \in Seq(S) /\ s[k + 1] \in Seq(S)
      BY <1>0, <3>2
    <3>4. f[k + 1] = f[k] \o s[k + 1]
      BY <2>5, <3>2
    <3> QED
      BY <3>3, <3>4
  <2> HIDE DEF P
  <2>8. P = Nat
    <3>1. P \in SUBSET Nat
      BY DEF P
    <3> QED
      BY <2>6, <2>7, <3>1, Induct
  <2>9. \A k \in 0..n : f[k] \in Seq(S)
    BY <1>0, <2>8 DEF P
  <2> QED
    BY <2>1, <2>3, <2>5, <2>9
<1> QED
  BY <1>1, <1>2

\* One sequence more is added at the end.
LEMMA FlattenAppend ==
  ASSUME NEW S, NEW s \in Seq(Seq(S)), NEW y \in Seq(S)
  PROVE  /\ FlattenSeq(s) \in Seq(S)
         /\ FlattenSeq(Append(s, y)) = FlattenSeq(s) \o y
<1> DEFINE n == Len(s)
           a == Append(s, y)
<1>1. /\ n \in Nat /\ a \in Seq(Seq(S)) /\ Len(a) = n + 1 /\ a[n + 1] = y
      /\ \A k \in 1..n : a[k] = s[k]
  OBVIOUS
<1>2. PICK f : /\ f[0] = <<>> /\ FlattenSeq(s) = f[n]
               /\ \A k \in 1..n : f[k] = f[k - 1] \o s[k]
               /\ \A k \in 0..n : f[k] \in Seq(S)
  BY FlattenSteps
<1>3. PICK g : /\ g[0] = <<>> /\ FlattenSeq(a) = g[n + 1]
               /\ \A k \in 1..(n + 1) : g[k] = g[k - 1] \o a[k]
  <2>1. a \in Seq(Seq(S))
    BY <1>1
  <2> HIDE DEF a, n
  <2>2. PICK g : /\ g[0] = <<>> /\ FlattenSeq(a) = g[Len(a)]
                 /\ \A k \in 1..Len(a) : g[k] = g[k - 1] \o a[k]
                 /\ \A k \in 0..Len(a) : g[k] \in Seq(S)
    BY <2>1, FlattenSteps
  <2> QED
    BY <1>1, <2>2
<1> DEFINE Q == {k \in Nat : k <= n => g[k] = f[k]}
<1>4. 0 \in Q
  BY <1>2, <1>3
<1>5. ASSUME NEW k \in Q PROVE k + 1 \in Q
  <2> SUFFICES ASSUME k + 1 <= n PROVE g[k + 1] = f[k + 1]
    OBVIOUS
  <2>1. k \in Nat /\ k <= n /\ k + 1 \in 1..n /\ k + 1 \in 1..(n + 1) /\ (k + 1) - 1 = k
    BY <1>1
  <2>2. g[k + 1] = g[k] \o a[k + 1] /\ f[k + 1] = f[k] \o s[k + 1]
    BY <1>2, <1>3, <2>1
  <2> QED
    BY <1>1, <2>1, <2>2
<1> HIDE DEF Q
<1>6. Q = Nat
  <2>1. Q \in SUBSET Nat
    BY DEF Q
  <2> QED
    BY <1>4, <1>5, <2>1, Induct
<1>7. g[n] = f[n]
  BY <1>1, <1>6 DEF Q
<1>8. g[n + 1] = g[n] \o y
  <2>1. n + 1 \in 1..(n + 1) /\ (n + 1) - 1 = n
    BY <1>1
  <2> QED
    BY <1>1, <1>3, <2>1
<1>9. f[n] \in Seq(S)
  BY <1>1, <1>2
<1> QED
  BY <1>2, <1>3, <1>7, <1>8, <1>9

LEMMA MakesSeq ==
  ASSUME NEW T, NEW m \in Nat, NEW t, t = [k \in 1..m |-> t[k]], \A k \in 1..m : t[k] \in T
  PROVE  t \in Seq(T) /\ Len(t) = m
<1>1. t \in [1..m -> T]
  OBVIOUS
<1> QED
  BY <1>1

\* A line more is at most an event more.
LEMMA ItemsAppend ==
  ASSUME NEW lines \in Seq(Seq(Positive)), NEW x \in Seq(Positive)
  PROVE  /\ Items(lines) \in Seq(Positive)
         /\ \E y \in Seq(Positive) : Items(Append(lines, x)) = Items(lines) \o y
<1> DEFINE E(l) == IF Len(l) = 1 THEN l ELSE <<>>
           s == [k \in DOMAIN lines |-> E(lines[k])]
           a == Append(lines, x)
           t == [k \in DOMAIN a |-> E(a[k])]
           n == Len(lines)
<1>1. n \in Nat /\ DOMAIN lines = 1..n /\ \A k \in 1..n : lines[k] \in Seq(Positive)
  OBVIOUS
<1>2. \A l \in Seq(Positive) : E(l) \in Seq(Positive)
  OBVIOUS
<1>3. s \in Seq(Seq(Positive)) /\ Len(s) = n
  <2>1. s = [k \in 1..n |-> s[k]] /\ \A k \in 1..n : s[k] \in Seq(Positive)
    BY <1>1, <1>2
  <2> HIDE DEF s
  <2> QED
    BY <1>1, <2>1
<1>4. DOMAIN a = 1..(n + 1) /\ a[n + 1] = x /\ \A k \in 1..n : a[k] = lines[k]
  BY <1>1
<1>5. t = Append(s, E(x))
  <2> DEFINE y == E(x)
  <2>1. y \in Seq(Positive)
    BY <1>2
  <2>2. /\ t = [k \in 1..(n + 1) |-> t[k]]
        /\ \A k \in 1..(n + 1) : t[k] = E(a[k])
        /\ \A k \in 1..n : s[k] = E(lines[k])
    BY <1>1, <1>4
  <2> HIDE DEF a, t, s, y, n
  <2>3. \A k \in 1..(n + 1) : k \in 1..n \/ k = n + 1
    BY <1>1
  <2>4. \A k \in 1..(n + 1) : t[k] = IF k = n + 1 THEN y ELSE s[k]
    <3> SUFFICES ASSUME NEW k \in 1..(n + 1)
                 PROVE  t[k] = IF k = n + 1 THEN y ELSE s[k]
      OBVIOUS
    <3>1. CASE k = n + 1
      BY <1>4, <2>2, <3>1 DEF y
    <3>2. CASE k # n + 1
      <4>1. k \in 1..n
        BY <2>3, <3>2
      <4>2. t[k] = E(a[k]) /\ a[k] = lines[k] /\ s[k] = E(lines[k])
        BY <1>4, <2>2, <4>1
      <4> QED
        BY <3>2, <4>2
    <3> QED
      BY <3>1, <3>2
  <2> HIDE DEF E
  <2>5. \A k \in 1..(n + 1) : t[k] \in Seq(Positive)
    <3>1. \A k \in 1..n : s[k] \in Seq(Positive)
      BY <1>3
    <3> QED
      BY <2>1, <2>3, <2>4, <3>1
  <2>6. t \in Seq(Seq(Positive)) /\ Len(t) = n + 1
    <3>1. t = [k \in 1..(n + 1) |-> t[k]]
      BY <2>2
    <3>2. n + 1 \in Nat
      BY <1>1
    <3> QED
      BY <2>5, <3>1, <3>2, MakesSeq
  <2>7. /\ Append(s, y) \in Seq(Seq(Positive)) /\ Len(Append(s, y)) = n + 1
        /\ \A k \in 1..(n + 1) : Append(s, y)[k] = IF k = n + 1 THEN y ELSE s[k]
    BY <1>1, <1>3, <2>1
  <2>8. t = Append(s, y)
    BY <2>4, <2>6, <2>7, SeqEqual
  <2> QED
    BY <2>8 DEF y
<1>6. Items(lines) = FlattenSeq(s) /\ Items(a) = FlattenSeq(t)
  BY DEF Items
<1>7. E(x) \in Seq(Positive)
  BY <1>2
<1> HIDE DEF s, t, E
<1> QED
  BY <1>3, <1>5, <1>6, <1>7, FlattenAppend

LEMMA ItemsAreNumbers ==
  ASSUME NEW lines \in Seq(Seq(Positive))
  PROVE  Items(lines) \in Seq(Positive)
<1>1. <<>> \in Seq(Positive)
  OBVIOUS
<1> QED
  BY <1>1, ItemsAppend

LEMMA ItemsOfLog == ASSUME IInv PROVE Items(log) \in Seq(Positive)
  BY ItemsAreNumbers DEF IInv, Ordered

\* p is what follows the first k elements of s.
Shown(p, s, k) == \A n \in DOMAIN p : k + n <= Len(s) /\ p[n] = s[k + n]

Begins(p, s) == Shown(p, s, 0)

States == {"queued", "running"} \cup Final

ReaderTypes ==
  /\ state \in States /\ follow \in BOOLEAN /\ {from, offset, waited} \subseteq Nat
  /\ cli \in {"polls", "drains", "pauses", "stopped", "failed"}
  /\ printed \in Seq(Positive)
  /\ req \in [at : {"none", "sent", "file", "state", "sleeps", "answered"}, held : Nat,
              all : Seq(Positive), items : Seq(Positive), next : Nat, state : States]

\* What is printed is from the file, and so is what the API has read of it.
FromFile ==
  /\ offset = from + Len(printed)
  /\ Shown(printed, Items(log), from)
  /\ Begins(req.all, Items(log))
  /\ req.at \in {"state", "sleeps", "answered"} => printed = <<>> \/ offset <= Len(req.all)

\* An answer goes on where the last one ended, and is empty only if there is no more.
Answers ==
  req.at = "answered" /\ Waiting =>
    /\ Shown(req.items, req.all, offset)
    /\ req.items # <<>> => req.next = offset + Len(req.items)
    /\ req.items = <<>> => Len(req.all) <= offset

Stopped ==
  cli = "stopped" => req.at = "answered" /\ (follow => Len(req.all) <= offset)

RInv == ReaderTypes /\ FromFile /\ Answers /\ Stopped

LEMMA SliceShows ==
  ASSUME NEW s \in Seq(Positive), offset \in Nat
  PROVE  /\ Slice(s) \in Seq(Positive) /\ Shown(Slice(s), s, offset)
         /\ Slice(s) = <<>> => Len(s) <= offset
<1> DEFINE last == IF Limit = 0 THEN Len(s) ELSE offset + Limit
           upto == IF last < Len(s) THEN last ELSE Len(s)
<1>1. upto \in Nat /\ upto <= Len(s) /\ (upto < Len(s) => upto > offset) /\ offset + 1 \in Nat
  BY EventLogAssumption
<1>2. Slice(s) = SubSeq(s, offset + 1, upto)
  BY DEF Slice
<1> HIDE DEF last, upto
<1>3. /\ SubSeq(s, offset + 1, upto) \in Seq(Positive)
      /\ Len(SubSeq(s, offset + 1, upto)) = IF offset + 1 <= upto THEN upto - offset ELSE 0
      /\ \A n \in 1..(upto - offset) : SubSeq(s, offset + 1, upto)[n] = s[offset + n]
  BY <1>1
<1>4. Slice(s) \in Seq(Positive)
  BY <1>2, <1>3
<1>5. Len(Slice(s)) = IF offset + 1 <= upto THEN upto - offset ELSE 0
  BY <1>2, <1>3
<1>6. ASSUME NEW n \in DOMAIN Slice(s) PROVE offset + n <= Len(s) /\ Slice(s)[n] = s[offset + n]
  <2>1. n \in Nat /\ 1 <= n /\ n <= Len(Slice(s))
    BY <1>4
  <2>2. n \in 1..(upto - offset)
    BY <2>1, <1>1, <1>5
  <2> QED
    BY <2>2, <1>1, <1>2, <1>3
<1>7. ASSUME Slice(s) = <<>> PROVE Len(s) <= offset
  <2>1. upto <= offset
    BY <1>1, <1>5, <1>7
  <2> QED
    BY <2>1, <1>1
<1> QED
  BY <1>4, <1>6, <1>7 DEF Shown

LEMMA MoreShown ==
  ASSUME NEW s \in Seq(Positive), NEW k \in Nat, NEW p \in Seq(Positive), NEW q \in Seq(Positive),
         Shown(p, s, k), Shown(q, s, k + Len(p))
  PROVE  p \o q \in Seq(Positive) /\ Shown(p \o q, s, k)
<1>1. /\ p \o q \in Seq(Positive) /\ Len(p \o q) = Len(p) + Len(q)
      /\ \A n \in 1..Len(p) : (p \o q)[n] = p[n]
      /\ \A n \in (Len(p) + 1)..(Len(p) + Len(q)) : (p \o q)[n] = q[n - Len(p)]
  OBVIOUS
<1>2. ASSUME NEW n \in 1..(Len(p) + Len(q))
      PROVE  k + n <= Len(s) /\ (p \o q)[n] = s[k + n]
  <2>1. CASE n <= Len(p)
    BY <1>1, <2>1 DEF Shown
  <2>2. CASE n > Len(p)
    <3>1. n - Len(p) \in 1..Len(q) /\ (k + Len(p)) + (n - Len(p)) = k + n
      BY <2>2
    <3> QED
      BY <1>1, <2>2, <3>1 DEF Shown
  <2> QED
    BY <2>1, <2>2
<1> QED
  BY <1>1, <1>2 DEF Shown

LEMMA ShownOfPrefix ==
  ASSUME NEW s \in Seq(Positive), NEW t \in Seq(Positive), NEW p \in Seq(Positive), NEW k \in Nat,
         Begins(s, t), Shown(p, s, k)
  PROVE  Shown(p, t, k)
<1> SUFFICES ASSUME NEW n \in DOMAIN p PROVE k + n <= Len(t) /\ p[n] = t[k + n]
  BY DEF Shown
<1>1. k + n <= Len(s) /\ p[n] = s[k + n] /\ n \in Nat /\ n > 0
  BY DEF Shown
<1>2. k + n \in DOMAIN s /\ 0 + (k + n) = k + n
  BY <1>1
<1>3. s[k + n] = t[k + n] /\ k + n <= Len(t)
  BY <1>2 DEF Begins, Shown
<1> QED
  BY <1>1, <1>3

LEMMA Readers ==
  ASSUME RInv
  PROVE  /\ printed \in Seq(Positive) /\ req.all \in Seq(Positive) /\ req.items \in Seq(Positive)
         /\ from \in Nat /\ offset \in Nat /\ waited \in Nat
         /\ req.held \in Nat /\ req.next \in Nat /\ req.state \in States /\ state \in States
         /\ req.at \in {"none", "sent", "file", "state", "sleeps", "answered"}
         /\ req = [at |-> req.at, held |-> req.held, all |-> req.all, items |-> req.items,
                   next |-> req.next, state |-> req.state]
  BY DEF RInv, ReaderTypes

LEMMA NoRequests ==
  /\ NoRequest = [at |-> "none", held |-> 0, all |-> <<>>, items |-> <<>>, next |-> 0,
                  state |-> "queued"]
  /\ Request = [at |-> "sent", held |-> 0, all |-> <<>>, items |-> <<>>, next |-> 0,
                state |-> "queued"]
  /\ \A r \in {Request, NoRequest} :
       /\ r \in [at : {"none", "sent", "file", "state", "sleeps", "answered"}, held : Nat,
                 all : Seq(Positive), items : Seq(Positive), next : Nat, state : States]
       /\ r.at \in {"none", "sent"} /\ r.all = <<>>
<1>1. <<>> \in Seq(Positive) /\ "queued" \in States
  BY DEF States
<1>2. NoRequest = [at |-> "none", held |-> 0, all |-> <<>>, items |-> <<>>, next |-> 0,
                   state |-> "queued"]
  BY DEF NoRequest
<1>3. Request = [at |-> "sent", held |-> 0, all |-> <<>>, items |-> <<>>, next |-> 0,
                 state |-> "queued"]
  BY <1>2 DEF Request
<1> QED
  BY <1>1, <1>2, <1>3

LEMMA EmptyShown == \A s, k : Shown(<<>>, s, k)
  BY DEF Shown

LEMMA InitRInv == ASSUME Init PROVE RInv
<1>1. <<>> \in Seq(Positive) /\ Len(<<>>) = 0
  OBVIOUS
<1>2. ReaderTypes
  BY <1>1, NoRequests DEF Init, ReaderTypes, States
<1>3. req.at = "sent" /\ req.all = <<>> /\ cli = "polls"
  BY NoRequests DEF Init
<1>4. FromFile /\ Answers /\ Stopped
  BY <1>1, <1>2, <1>3, EmptyShown DEF Init, ReaderTypes, FromFile, Answers, Stopped, Begins
<1> QED
  BY <1>2, <1>4 DEF RInv

LEMMA LogGrows ==
  ASSUME RInv, Items(log) \in Seq(Positive), Items(log') \in Seq(Positive),
         Begins(Items(log), Items(log')), state' \in States, UNCHANGED <<reader, follow, from>>
  PROVE  RInv'
<1>1. ReaderTypes' /\ Answers' /\ Stopped'
  BY DEF RInv, ReaderTypes, Answers, Stopped, reader, Waiting
<1>2. Shown(printed, Items(log'), from) /\ Begins(req.all, Items(log'))
  BY ShownOfPrefix DEF RInv, ReaderTypes, FromFile, Begins
<1>3. FromFile'
  BY <1>2 DEF RInv, FromFile, reader
<1> QED
  BY <1>1, <1>3 DEF RInv

LEMMA WritersKeep ==
  ASSUME IInv, RInv, IInv',
         \/ StartRun \/ Finish \/ Cancel \/ Killed
         \/ \E t \in Threads : Emit(t) \/ Writes(t)
  PROVE  RInv'
<1>1. Items(log) \in Seq(Positive) /\ Items(log') \in Seq(Positive)
  BY ItemsAreNumbers DEF IInv, Ordered
<1>2. state' \in States /\ UNCHANGED <<reader, follow, from>>
  BY DEF RInv, ReaderTypes, States, StartRun, Finish, Cancel, Killed, Emit, Writes, WriteHalf,
     WriteRest, EmitFails, Final
<1>3. log' = log \/ log' = Append(log, tail)
  BY DEF StartRun, Finish, Cancel, Killed, Emit, Writes, WriteHalf, WriteRest, EmitFails
<1>4. Begins(Items(log), Items(log'))
  <2>1. CASE log' = log
    BY <1>1, <2>1 DEF Begins, Shown
  <2>2. CASE log' = Append(log, tail)
    <3>1. PICK y \in Seq(Positive) : Items(log') = Items(log) \o y
      BY <2>2, ItemsAppend DEF IInv, Ordered, TailIsMine
    <3>2. /\ Len(Items(log) \o y) = Len(Items(log)) + Len(y)
          /\ \A n \in 1..Len(Items(log)) : (Items(log) \o y)[n] = Items(log)[n]
          /\ DOMAIN Items(log) = 1..Len(Items(log)) /\ Len(y) \in Nat /\ Len(Items(log)) \in Nat
      BY <1>1
    <3> QED
      BY <3>1, <3>2 DEF Begins, Shown
  <2> QED
    BY <1>3, <2>1, <2>2
<1> QED
  BY <1>1, <1>2, <1>4, LogGrows

LEMMA ReadFileKeeps ==
  ASSUME IInv, RInv, ReadFile
  PROVE  RInv'
<1>1. /\ req' = [req EXCEPT !.at = "state", !.all = Items(log)] /\ Items(log) \in Seq(Positive)
      /\ UNCHANGED <<state, log, waited, cli, follow, from, offset, printed>>
  BY ItemsOfLog DEF ReadFile, writer
<1>2. ReaderTypes'
  BY <1>1 DEF RInv, ReaderTypes
<1>3. printed = <<>> \/ offset <= Len(Items(log))
  <2> SUFFICES ASSUME printed # <<>> PROVE offset <= Len(Items(log))
    OBVIOUS
  <2>1. Len(printed) \in DOMAIN printed
    BY DEF RInv, ReaderTypes
  <2> QED
    BY <2>1 DEF RInv, FromFile, Shown
<1>4. req'.all = Items(log) /\ req'.at = "state" /\ req.at = "file"
  BY <1>1, Readers DEF ReadFile
<1>5. Begins(Items(log), Items(log))
  BY <1>1 DEF Begins, Shown
<1>6. FromFile' /\ Answers' /\ Stopped'
  BY <1>1, <1>3, <1>4, <1>5 DEF RInv, FromFile, Answers, Stopped
<1> QED
  BY <1>2, <1>6 DEF RInv

LEMMA ReplyKeeps ==
  ASSUME RInv, Reply
  PROVE  RInv'
<1> DEFINE slice == Slice(req.all)
<1>1. /\ slice \in Seq(Positive) /\ Shown(slice, req.all, offset)
      /\ slice = <<>> => Len(req.all) <= offset
  BY SliceShows DEF RInv, ReaderTypes
<1>2. PICK there \in {"answered", "sleeps"} :
        req' = [req EXCEPT !.at = there, !.items = slice, !.next = offset + Len(slice),
                           !.state = state]
  BY DEF Reply, NextOffset
<1>3. UNCHANGED <<state, log, waited, cli, follow, from, offset, printed>> /\ req.at = "state"
  BY DEF Reply, writer
<1> HIDE DEF slice
<1>4. ReaderTypes'
  <2>1. offset + Len(slice) \in Nat /\ state \in States
    BY <1>1, Readers
  <2> QED
    BY <1>1, <1>2, <1>3, <2>1 DEF RInv, ReaderTypes
<1>5. /\ req'.all = req.all /\ req'.items = slice /\ req'.next = offset + Len(slice)
      /\ req'.at = there
  BY <1>2 DEF RInv, ReaderTypes
<1>6. FromFile' /\ Answers' /\ Stopped'
  BY <1>1, <1>3, <1>5 DEF RInv, FromFile, Answers, Stopped
<1> QED
  BY <1>4, <1>6 DEF RInv

LEMMA NextIsBehind ==
  ASSUME NEW p \in Seq(Positive), NEW q \in Seq(Positive), NEW k \in Nat
  PROVE  k + Len(p \o q) = k + Len(p) + Len(q) /\ k + Len(p) + Len(q) \in Nat
<1>1. Len(p) \in Nat /\ Len(q) \in Nat /\ Len(p \o q) = Len(p) + Len(q)
  OBVIOUS
<1> QED
  BY <1>1

LEMMA ReceiveKeeps ==
  ASSUME IInv, RInv, Receive
  PROVE  RInv'
<1>1. /\ req.at = "answered" /\ Waiting /\ printed' = printed \o req.items
      /\ UNCHANGED <<state, log, follow, from>>
  BY DEF Receive, writer
<1>2. /\ printed \in Seq(Positive) /\ req.items \in Seq(Positive) /\ req.all \in Seq(Positive)
      /\ Items(log) \in Seq(Positive) /\ from \in Nat /\ offset \in Nat
  BY Readers, ItemsOfLog
<1>3. /\ Shown(req.items, req.all, offset) /\ Begins(req.all, Items(log))
      /\ offset = from + Len(printed) /\ Shown(printed, Items(log), from)
  BY <1>1 DEF RInv, FromFile, Answers
<1>4. Shown(req.items, Items(log), offset)
  BY <1>2, <1>3, ShownOfPrefix
<1>5. printed' \in Seq(Positive) /\ Shown(printed', Items(log), from)
  BY <1>1, <1>2, <1>3, <1>4, MoreShown
<1>6. offset' = offset + Len(req.items) /\ offset' = from + Len(printed') /\ offset' \in Nat
  <2>1. offset' = IF req.items = <<>> THEN offset ELSE req.next
    BY DEF Receive
  <2>2. req.items # <<>> => req.next = offset + Len(req.items)
    BY <1>1 DEF RInv, Answers
  <2>3. offset' = offset + Len(req.items)
    <3>1. CASE req.items = <<>>
      BY <1>2, <2>1, <3>1
    <3>2. CASE req.items # <<>>
      BY <2>1, <2>2, <3>2
    <3> QED
      BY <3>1, <3>2
  <2> QED
    BY <1>1, <1>2, <1>3, <2>3, NextIsBehind
<1>7. printed' = <<>> \/ offset' <= Len(req.all)
  <2>1. CASE req.items = <<>>
    <3>1. printed' = printed /\ offset' = offset
      BY <1>1, <1>2, <1>6, <2>1
    <3> QED
      BY <1>1, <3>1 DEF RInv, FromFile
  <2>2. CASE req.items # <<>>
    <3>1. Len(req.items) \in DOMAIN req.items
      BY <1>2, <2>2
    <3> QED
      BY <1>3, <1>6, <3>1 DEF Shown
  <2> QED
    BY <2>1, <2>2
<1>8. /\ cli' \in {"stopped", "drains", "pauses"}
      /\ waited' = 0
      /\ IF cli' = "stopped" THEN req' = req ELSE req' \in {Request, NoRequest}
      /\ cli' = "stopped" => ~follow \/ req.items = <<>>
  BY DEF Receive, Stops
<1>9. ReaderTypes'
  BY <1>1, <1>5, <1>6, <1>8, NoRequests DEF RInv, ReaderTypes
<1>10. FromFile'
  <2>1. Begins(req'.all, Items(log))
    BY <1>3, <1>8 DEF Begins, Shown, Request, NoRequest
  <2>2. req'.at \in {"state", "sleeps", "answered"} => req' = req
    BY <1>8 DEF Request, NoRequest
  <2> QED
    BY <1>1, <1>5, <1>6, <1>7, <2>1, <2>2 DEF FromFile
<1>11. Answers'
  BY <1>8 DEF Answers, Waiting, Request, NoRequest
<1>12. Stopped'
  <2> SUFFICES ASSUME cli' = "stopped" PROVE req.at = "answered" /\ (follow => Len(req.all) <= offset')
    BY <1>1, <1>8 DEF Stopped
  <2>1. req.items = <<>> => Len(req.all) <= offset /\ offset' = offset
    BY <1>1, <1>2, <1>6 DEF RInv, Answers
  <2> QED
    BY <1>1, <1>8, <2>1
<1> QED
  BY <1>9, <1>10, <1>11, <1>12 DEF RInv

LEMMA OtherReadersKeep ==
  ASSUME RInv, Accept \/ Tick \/ PollAgain \/ TimesOut \/ RequestFails
  PROVE  RInv'
<1>1. UNCHANGED <<state, log, follow, from, offset, printed>>
  BY DEF Accept, Tick, PollAgain, TimesOut, RequestFails, GiveUp, writer
<1>2. CASE PollAgain \/ GiveUp
  <2>1. /\ req' \in {Request, NoRequest} /\ cli' \in {"polls", "failed"} /\ waited' \in Nat
    BY <1>2 DEF PollAgain, GiveUp, RInv, ReaderTypes
  <2> QED
    <3>1. ReaderTypes'
      BY <1>1, <2>1, NoRequests DEF RInv, ReaderTypes
    <3>2. FromFile' /\ Answers' /\ Stopped'
      BY <1>1, <2>1, NoRequests, EmptyShown DEF RInv, FromFile, Answers, Stopped, Begins
    <3> QED
      BY <3>1, <3>2 DEF RInv
<1>3. CASE Accept
  BY <1>1, <1>3 DEF Accept, RInv, ReaderTypes, FromFile, Answers, Stopped
<1>4. CASE Tick
  <2>1. PICK there \in {req.at, "file"}, held \in Nat :
          /\ req' = [req EXCEPT !.at = there, !.held = held]
          /\ req.at = "sleeps" => there = "file"
    <3>1. (IF req.at = "sent" THEN 0 ELSE req.held + 1) \in Nat
      BY Readers
    <3> QED
      BY <1>4, <3>1 DEF Tick
  <2>2. waited' \in Nat /\ cli' = cli /\ Waiting
    BY <1>4 DEF Tick, RInv, ReaderTypes
  <2>3. /\ req'.all = req.all /\ req'.items = req.items /\ req'.next = req.next
        /\ req'.at = there
    BY <2>1 DEF RInv, ReaderTypes
  <2>4. ReaderTypes'
    BY <1>1, <2>1, <2>2 DEF RInv, ReaderTypes
  <2>5. FromFile' /\ Answers' /\ Stopped'
    BY <1>1, <2>1, <2>2, <2>3 DEF RInv, FromFile, Answers, Stopped, Waiting
  <2> QED
    BY <2>4, <2>5 DEF RInv
<1> QED
  BY <1>2, <1>3, <1>4 DEF TimesOut, RequestFails

LEMMA NextRInv ==
  ASSUME IInv, RInv, IInv', [Next]_vars
  PROVE  RInv'
<1>1. CASE UNCHANGED vars
  BY <1>1 DEF vars, RInv, ReaderTypes, FromFile, Answers, Stopped, Waiting
<1>2. CASE Answer
  BY <1>2, OtherReadersKeep, ReadFileKeeps, ReplyKeeps DEF Answer
<1>3. CASE Client
  BY <1>3, OtherReadersKeep, ReceiveKeeps DEF Client
<1> QED
  BY <1>1, <1>2, <1>3, WritersKeep, OtherReadersKeep DEF Next

LEMMA ShownIsSubSeq ==
  ASSUME NEW s \in Seq(Positive), NEW k \in Nat, NEW p \in Seq(Positive), Shown(p, s, k)
  PROVE  p = SubSeq(s, k + 1, k + Len(p))
<1>1. p = <<>> \/ k + Len(p) <= Len(s)
  <2> SUFFICES ASSUME p # <<>> PROVE k + Len(p) <= Len(s)
    OBVIOUS
  <2>1. Len(p) \in DOMAIN p
    OBVIOUS
  <2> QED
    BY <2>1 DEF Shown
<1>2. CASE p = <<>>
  BY <1>2
<1>3. CASE k + Len(p) <= Len(s)
  <2>1. /\ SubSeq(s, k + 1, k + Len(p)) \in Seq(Positive)
        /\ Len(SubSeq(s, k + 1, k + Len(p))) = Len(p)
        /\ \A n \in 1..Len(p) : SubSeq(s, k + 1, k + Len(p))[n] = s[k + n]
    BY <1>3
  <2> QED
    BY <2>1 DEF Shown
<1> QED
  BY <1>1, <1>2, <1>3

\* get_run_events and events_cmd: no event is printed twice and none is skipped, and
\* a follower that stops has printed all that there was when the file was last read.
THEOREM NoneMissedHolds == Spec => []NoneMissed
<1>1. IInv /\ RInv => NoneMissed
  <2> SUFFICES ASSUME IInv, RInv PROVE NoneMissed
    OBVIOUS
  <2>1. /\ Items(log) \in Seq(Positive) /\ printed \in Seq(Positive)
        /\ req.all \in Seq(Positive) /\ from \in Nat
    BY ItemsOfLog, Readers
  <2>2. printed = SubSeq(Items(log), from + 1, from + Len(printed))
    BY <2>1, ShownIsSubSeq DEF RInv, FromFile
  <2>3. ASSUME cli = "stopped", follow PROVE printed = SubSeq(req.all, from + 1, Len(req.all))
    <3>1. Len(req.all) <= from + Len(printed)
      BY <2>3 DEF RInv, Stopped, FromFile
    <3>2. printed = <<>> \/ from + Len(printed) <= Len(req.all)
      BY <2>3 DEF RInv, Stopped, FromFile
    <3>3. CASE printed = <<>>
      BY <2>1, <3>1, <3>3
    <3>4. CASE from + Len(printed) <= Len(req.all)
      <4>1. Shown(printed, req.all, from)
        <5>1. Shown(printed, Items(log), from) /\ Shown(req.all, Items(log), 0)
          BY DEF RInv, FromFile, Begins
        <5>2. ASSUME NEW n \in DOMAIN printed
              PROVE  from + n <= Len(req.all) /\ printed[n] = req.all[from + n]
          <6>1. n \in Nat /\ 1 <= n /\ n <= Len(printed)
            BY <2>1
          <6>2. from + n \in DOMAIN req.all
            BY <6>1, <2>1, <3>4
          <6>3. printed[n] = Items(log)[from + n] /\ req.all[from + n] = Items(log)[0 + (from + n)]
            BY <5>1, <6>2 DEF Shown
          <6> QED
            BY <6>1, <6>2, <6>3, <2>1
        <5> QED
          BY <5>2 DEF Shown
      <4>2. Len(req.all) = from + Len(printed)
        BY <2>1, <3>1, <3>4
      <4> QED
        BY <2>1, <4>1, <4>2, ShownIsSubSeq
    <3> QED
      BY <3>2, <3>3, <3>4
  <2> QED
    BY <2>2, <2>3 DEF NoneMissed
<1>2. Init => IInv /\ RInv
  BY InitIInv, InitRInv
<1>3. IInv /\ RInv /\ [Next]_vars => (IInv /\ RInv)'
  BY NextIInv, NextRInv
<1> QED
  BY <1>1, <1>2, <1>3, PTL DEF Spec
=============================================================================
