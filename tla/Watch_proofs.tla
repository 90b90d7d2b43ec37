---------------------------- MODULE Watch_proofs ----------------------------
(***************************************************************************)
(* What watchers find and what the end of a stage says of them, for any     *)
(* number of threads, watchers and texts.                                   *)
(***************************************************************************)
EXTENDS Watch, TLAPS, FiniteSetTheorems

-----------------------------------------------------------------------------
(* Least elements.                                                          *)

Below == {p \in Nat \X Nat : p[1] < p[2]}

\* A set of numbers that is not empty has a least one.
LEMMA Least ==
  ASSUME NEW T \in SUBSET Nat, T # {}
  PROVE  Min(T) \in T /\ \A n \in T : Min(T) <= n
<1>1. OpToRel(<, Nat) = Below
  BY DEF OpToRel, Below
<1>2. IsWellFoundedOn(Below, Nat)
  BY <1>1, NatLessThanWellFounded
<1>3. PICK m \in T : \A n \in T : ~(<<n, m>> \in Below)
  BY <1>2, WFMin
<1>4. ASSUME NEW n \in T PROVE m <= n
  <2>1. ~(<<n, m>> \in Below) /\ <<n, m>> \in Nat \X Nat /\ n \in Nat /\ m \in Nat
    BY <1>3
  <2>2. ~(n < m)
    BY <2>1 DEF Below
  <2> QED BY <2>1, <2>2
<1> QED BY <1>4 DEF Min

\* Watchers are numbered from 1.
LEMMA WatcherIs == Watcher = 1 .. Len(Watchers) /\ Len(Watchers) \in Nat
  BY WatchAssumption DEF Watcher

LEMMA LeastWatcher ==
  ASSUME NEW T \in SUBSET Watcher, T # {}
  PROVE  Min(T) \in T /\ Min(T) \in Watcher /\ Min(T) # None /\ \A n \in T : Min(T) <= n
<1>1. T \in SUBSET Nat
  BY WatcherIs
<1>2. Min(T) \in T /\ \A n \in T : Min(T) <= n
  BY <1>1, Least
<1>3. Min(T) \in 1 .. Len(Watchers)
  BY <1>2, WatcherIs
<1> QED BY <1>2, <1>3, WatcherIs DEF None

-----------------------------------------------------------------------------
(* Types, and where a thread is.                                            *)

Letters == UNION {Range(text) : text \in Texts \cup Contents}
Tokens == Nat \cup UNION {Range(Watchers[w].patterns) : w \in Watcher}

Busy == InSequence \cup {"match", "check", "add", "emit", "act", "blame"}
Places == Busy \cup {"idle", "read", "dead"}

Thread == [at : Places, text : Seq(Letters), todo : SUBSET Watcher, token : Tokens,
           maker : Feeders \cup {None}, size : Nat, start : Nat]
Memo == [buffer : Seq(Letters), cursor : Nat, index : Nat]

Threads == feeder \in [Feeders -> Thread]

Tales ==
  /\ file \in Seq(Letters) /\ offset \in Nat /\ fed \in [Watcher -> Seq(Letters)]
  /\ current \in [Watcher -> Feeders \cup {None}]
  /\ state \in [Watcher -> [Feeders -> Memo]]

\* What a thread is at belongs to a watcher of its source.
Fits(f, r) ==
  /\ r.todo \subseteq Work(f)
  /\ r.at \in Busy => r.todo # {}
  /\ r.at \in InSequence => IsSequence(Min(r.todo))
  /\ r.at \in {"append", "search", "advance"} => r.maker # None
  /\ r.at = "advance" => r.token \in Nat \ {0}
  /\ r.at = "read" => f \in Readers
  /\ r.at = "dead" => f \notin Pollers

InTurn == \A f \in Feeders : Fits(f, feeder[f])

LEMMA TextsAreLetters == Texts \cup Contents \subseteq Seq(Letters)
<1> SUFFICES ASSUME NEW text \in Texts \cup Contents PROVE text \in Seq(Letters)
  OBVIOUS
<1>1. text \in Seq(Range(text))
  BY WatchAssumption
<1>2. Range(text) \subseteq Letters
  BY DEF Letters
<1> QED BY <1>1, <1>2

LEMMA WorkIsWatchers == \A f : Work(f) \subseteq Watcher
  BY DEF Work

\* Whose turn it is.
LEMMA ThisIs ==
  ASSUME Threads, InTurn, NEW f \in Feeders, feeder[f].todo # {}
  PROVE  This(f) \in feeder[f].todo /\ This(f) \in Watcher /\ This(f) \in Work(f)
<1>1. feeder[f].todo \in SUBSET Watcher
  BY DEF Threads, Thread
<1>2. Min(feeder[f].todo) \in feeder[f].todo
  BY <1>1, LeastWatcher
<1> QED BY <1>1, <1>2 DEF This, InTurn, Fits

LEMMA BusyIs ==
  ASSUME Threads, InTurn, NEW f \in Feeders, feeder[f].at \in Busy
  PROVE  /\ feeder[f].todo # {} /\ This(f) \in feeder[f].todo
         /\ This(f) \in Watcher /\ This(f) \in Work(f)
<1>1. feeder[f].todo # {}
  BY DEF InTurn, Fits
<1> QED BY <1>1, ThisIs

LEMMA IdleIsThread == Idle \in Thread /\ Idle.todo = {} /\ Idle.at = "idle"
<1>1. <<>> \in Seq(Letters)
  OBVIOUS
<1> QED BY <1>1 DEF Idle, Thread, Places, Tokens, None

\* The pattern that a match found first.
LEMMA HitIsToken ==
  ASSUME NEW w \in Watcher, NEW text, Hits(w, text) # {}
  PROVE  Watchers[w].patterns[Min(Hits(w, text))] \in Tokens
<1>1. Watchers[w].patterns \in Seq(Range(Watchers[w].patterns))
  BY WatchAssumption DEF Watcher
<1>2. Hits(w, text) \in SUBSET Nat
  BY <1>1 DEF Hits
<1>3. Min(Hits(w, text)) \in DOMAIN Watchers[w].patterns
  BY <1>2, Least DEF Hits
<1> QED BY <1>3 DEF Tokens, Range

Becomes(f, r) == r \in Thread /\ Fits(f, r) /\ feeder' = [feeder EXCEPT ![f] = r]

\* It is enough to look at the thread that moves.
LEMMA ThreadsStay ==
  ASSUME Threads, InTurn, NEW f \in Feeders, NEW r, Becomes(f, r)
  PROVE  Threads' /\ InTurn'
<1>1. Threads'
  BY DEF Threads, Becomes
<1>2. \A g \in Feeders : Fits(g, feeder'[g])
  BY DEF Threads, Becomes, InTurn
<1> QED BY <1>1, <1>2 DEF InTurn, Fits

LEMMA GoesBecomes ==
  ASSUME Threads, InTurn, NEW f \in Feeders, NEW there \in Places, Goes(f, there),
         there \in Busy => feeder[f].todo # {},
         there \in InSequence => IsSequence(This(f)),
         there \in {"append", "search", "advance"} => feeder[f].maker # None,
         there \notin {"advance", "read", "dead"}
  PROVE  Becomes(f, [feeder[f] EXCEPT !.at = there])
<1> DEFINE r == [feeder[f] EXCEPT !.at = there]
<1>1. feeder[f] \in Thread
  BY DEF Threads
<1>2. r \in Thread
  BY <1>1 DEF Thread
<1>3. feeder' = [feeder EXCEPT ![f] = r]
  BY <1>1 DEF Goes, Threads, Thread
<1>4. r.at = there /\ r.todo = feeder[f].todo /\ r.maker = feeder[f].maker
  BY <1>1 DEF Thread
<1>5. Fits(f, r)
  BY <1>4 DEF Fits, InTurn, This
<1> QED BY <1>2, <1>3, <1>5 DEF Becomes

\* What the thread holds, and where the next pattern is found in it.
LEMMA HeldIs ==
  ASSUME Threads, Tales, InTurn, NEW f \in Feeders,
         feeder[f].at \in {"append", "search", "advance"}
  PROVE  /\ Held(f) \in Memo /\ feeder[f].maker \in Feeders /\ This(f) \in Watcher
         /\ IsSequence(This(f))
<1>1. /\ feeder[f] \in Thread /\ feeder[f].todo # {} /\ feeder[f].maker # None
      /\ IsSequence(This(f))
  BY DEF Threads, InTurn, Fits, Busy, InSequence, This
<1>2. This(f) \in Watcher
  BY <1>1, ThisIs
<1>3. feeder[f].maker \in Feeders
  BY <1>1 DEF Thread
<1> QED BY <1>1, <1>2, <1>3 DEF Held, Tales

LEMMA FoundIs ==
  ASSUME Threads, Tales, InTurn, NEW f \in Feeders, feeder[f].at = "search",
         Found(f) # 0
  PROVE  /\ Found(f) \in Held(f).cursor + 1 .. Len(Held(f).buffer)
         /\ Held(f).buffer[Found(f)] = Watchers[This(f)].order[Held(f).index + 1]
         /\ \A j \in Held(f).cursor + 1 .. Found(f) - 1 :
              Held(f).buffer[j] # Watchers[This(f)].order[Held(f).index + 1]
         /\ Found(f) - Held(f).cursor \in Nat \ {0}
<1> DEFINE cursor == Held(f).cursor
           buffer == Held(f).buffer
           next == Watchers[This(f)].order[Held(f).index + 1]
           found == Found(f)
           at == {i \in cursor + 1 .. Len(buffer) : buffer[i] = next}
<1>1. Held(f) \in Memo
  BY HeldIs
<1>2. cursor \in Nat /\ Len(buffer) \in Nat
  BY <1>1 DEF Memo
<1>3. at \in SUBSET Nat
  BY <1>2
<1>4. at # {} /\ found = Min(at)
  BY DEF Found
<1>5. found \in at /\ \A n \in at : found <= n
  BY <1>3, <1>4, Least
<1> HIDE DEF cursor, buffer, next, found
<1>6. found \in cursor + 1 .. Len(buffer) /\ buffer[found] = next
  BY <1>5
<1>7. \A j \in cursor + 1 .. found - 1 : buffer[j] # next
  BY <1>2, <1>5, <1>6
<1>8. found - cursor \in Nat \ {0}
  BY <1>2, <1>6
<1> QED BY <1>6, <1>7, <1>8 DEF cursor, buffer, next, found

\* A thread that is free, or has watchers left.
LEMMA TurnsIs ==
  ASSUME NEW f \in Feeders, NEW text \in Seq(Letters), NEW todo \in SUBSET Work(f)
  PROVE  /\ Turns(text, todo) \in Thread /\ Fits(f, Turns(text, todo))
         /\ Turns(text, todo).at \in {"idle", "match"}
         /\ Turns(text, todo).at = "match" => Turns(text, todo).todo = todo /\ todo # {}
<1> DEFINE r == [Idle EXCEPT !.at = "match", !.text = text, !.todo = todo]
<1>1. todo \in SUBSET Watcher
  BY WorkIsWatchers
<1>2. r \in Thread /\ r.at = "match" /\ r.todo = todo
  BY <1>1, IdleIsThread DEF Thread, Places, Busy
<1>3. CASE todo = {}
  BY <1>3, IdleIsThread DEF Turns, Fits, Busy, InSequence
<1>4. CASE todo # {}
  <2>1. Turns(text, todo) = r
    BY <1>4 DEF Turns
  <2> QED BY <1>2, <1>4, <2>1 DEF Fits, InSequence
<1> QED BY <1>3, <1>4

\* Every action of a thread leaves it in its turn.
LEMMA TakesBecomes ==
  ASSUME Threads, InTurn, NEW f \in Feeders, NEW text \in Seq(Letters), Takes(f, text)
  PROVE  \E r : Becomes(f, r)
<1>1. Work(f) \in SUBSET Work(f)
  OBVIOUS
<1> QED BY <1>1, TurnsIs DEF Becomes, Takes

LEMMA NextBecomes ==
  ASSUME Threads, InTurn, NEW f \in Feeders, NextWatcher(f)
  PROVE  \E r : Becomes(f, r)
<1>1. feeder[f].text \in Seq(Letters) /\ feeder[f].todo \ {This(f)} \in SUBSET Work(f)
  BY DEF Threads, Thread, InTurn, Fits
<1> QED BY <1>1, TurnsIs DEF Becomes, NextWatcher

LEMMA IdleBecomes ==
  ASSUME Threads, InTurn, NEW f \in Feeders, feeder' = [feeder EXCEPT ![f] = Idle]
  PROVE  Becomes(f, Idle)
  BY IdleIsThread DEF Becomes, Fits, Busy, InSequence

LEMMA RaisesBecomes ==
  ASSUME Threads, InTurn, NEW f \in Feeders, Raises(f)
  PROVE  \E r : Becomes(f, r)
<1>1. CASE f \in Pollers
  BY <1>1, IdleBecomes DEF Raises
<1>2. CASE f \notin Pollers
  <2> DEFINE r == [Idle EXCEPT !.at = "dead"]
  <2>1. r \in Thread /\ r.at = "dead" /\ r.todo = {}
    BY IdleIsThread DEF Thread, Places
  <2>2. Fits(f, r)
    BY <1>2, <2>1 DEF Fits, Busy, InSequence
  <2> QED BY <1>2, <2>1, <2>2 DEF Becomes, Raises
<1> QED BY <1>1, <1>2

LEMMA FeedingBecomes ==
  ASSUME Threads, Tales, InTurn, NEW f \in Feeders, Feeding(f)
  PROVE  \E r : Becomes(f, r)
<1> USE DEF Busy, InSequence, Places, At
<1>0. feeder[f] \in Thread /\ Fits(f, feeder[f])
  BY DEF Threads, InTurn
<1>1. CASE AskSize(f)
  <2> DEFINE size == Len(file')
             r == [Idle EXCEPT !.at = "read", !.size = size, !.start = Start(f, size)]
  <2>1. size \in Nat /\ Start(f, size) \in Nat
    BY <1>1, TextsAreLetters DEF Tales, Start, AskSize, FileChanges
  <2> HIDE DEF size
  <2>2. r \in Thread /\ r.at = "read" /\ r.todo = {}
    BY <2>1, IdleIsThread DEF Thread
  <2>3. Fits(f, r)
    BY <1>1, <2>2 DEF Fits, AskSize
  <2> QED BY <1>1, <2>2, <2>3 DEF Becomes, AskSize, size
<1>2. CASE ReadFile(f)
  <2>1. CASE feeder' = [feeder EXCEPT ![f] = Idle]
    BY <2>1, IdleBecomes
  <2>2. CASE Takes(f, Chunk(f, file'))
    <3>1. file' \in Seq(Letters)
      BY <1>2, TextsAreLetters DEF ReadFile, FileChanges
    <3>2. Chunk(f, file') \in Seq(Letters)
      BY <1>0, <3>1 DEF Chunk, Thread
    <3> QED BY <2>2, <3>2, TakesBecomes
  <2> QED BY <1>2, <2>1, <2>2 DEF ReadFile, NothingRead
<1>3. CASE MatchText(f)
  <2>1. CASE NextWatcher(f)
    BY <2>1, NextBecomes
  <2>2. CASE ~NextWatcher(f)
    <3> DEFINE token == Watchers[This(f)].patterns[Min(Hits(This(f), feeder[f].text))]
               r == [feeder[f] EXCEPT !.at = "check", !.token = token]
    <3>1. /\ Hits(This(f), feeder[f].text) # {}
          /\ feeder' = [feeder EXCEPT ![f].at = "check", ![f].token = token]
      BY <1>3, <2>2 DEF MatchText
    <3>2. This(f) \in Watcher /\ feeder[f].todo # {}
      BY <1>3, BusyIs DEF MatchText
    <3>3. token \in Tokens
      BY <3>1, <3>2, HitIsToken
    <3> HIDE DEF token
    <3>4. r \in Thread /\ r.at = "check" /\ r.todo = feeder[f].todo /\ r.maker = feeder[f].maker
      BY <1>0, <3>3 DEF Thread
    <3>5. Fits(f, r)
      BY <1>0, <3>2, <3>4 DEF Fits
    <3>6. feeder' = [feeder EXCEPT ![f] = r]
      BY <1>0, <3>1 DEF Threads, Thread
    <3> QED BY <3>4, <3>5, <3>6 DEF Becomes
  <2> QED BY <2>1, <2>2
<1>4. CASE Enter(f)
  <2> DEFINE there == IF current[This(f)] = None THEN "make" ELSE "append"
             maker == current[This(f)]
             r == [feeder[f] EXCEPT !.at = there, !.maker = maker]
  <2>1. /\ feeder' = [feeder EXCEPT ![f].maker = maker, ![f].at = there]
        /\ feeder[f].at = "match" /\ IsSequence(This(f))
    BY <1>4 DEF Enter
  <2>2. This(f) \in Watcher /\ feeder[f].todo # {}
    BY <2>1, BusyIs
  <2>3. maker \in Feeders \cup {None} /\ (there = "append" => maker # None)
    BY <2>2 DEF Tales
  <2>4. there \in {"make", "append"}
    OBVIOUS
  <2> HIDE DEF there, maker
  <2>5. r \in Thread /\ r.at = there /\ r.todo = feeder[f].todo /\ r.maker = maker
    BY <1>0, <2>3, <2>4 DEF Thread
  <2>6. Fits(f, r)
    BY <1>0, <2>1, <2>2, <2>3, <2>4, <2>5 DEF Fits, This
  <2>7. feeder' = [feeder EXCEPT ![f] = r]
    BY <1>0, <2>1 DEF Threads, Thread
  <2> QED BY <2>5, <2>6, <2>7 DEF Becomes
<1>5. CASE Make(f)
  <2> DEFINE r == [feeder[f] EXCEPT !.at = "append", !.maker = f]
  <2>1. feeder' = [feeder EXCEPT ![f].maker = f, ![f].at = "append"] /\ feeder[f].at = "make"
    BY <1>5 DEF Make
  <2>2. r \in Thread /\ r.at = "append" /\ r.todo = feeder[f].todo /\ r.maker = f
    BY <1>0 DEF Thread
  <2>3. Fits(f, r)
    BY <1>0, <2>1, <2>2, WatchAssumption DEF Fits
  <2>4. feeder' = [feeder EXCEPT ![f] = r]
    BY <1>0, <2>1 DEF Threads, Thread
  <2> QED BY <2>2, <2>3, <2>4 DEF Becomes
<1>6. CASE AppendText(f)
  <2>1. feeder[f].at = "append" /\ (NextWatcher(f) \/ Goes(f, "search"))
    BY <1>6 DEF AppendText
  <2>2. feeder[f].todo # {} /\ IsSequence(This(f)) /\ feeder[f].maker # None
    BY <1>0, <2>1 DEF Fits, This
  <2>3. CASE NextWatcher(f)
    BY <2>3, NextBecomes
  <2>4. CASE Goes(f, "search")
    BY <2>2, <2>4, GoesBecomes
  <2> QED BY <2>1, <2>3, <2>4
<1>7. CASE Search(f)
  <2>1. feeder[f].at = "search"
    BY <1>7 DEF Search
  <2>2. feeder[f].todo # {} /\ IsSequence(This(f)) /\ feeder[f].maker # None
    BY <1>0, <2>1 DEF Fits, This
  <2>3. CASE Complete(f) \/ Found(f) = 0
    BY <1>7, <2>3, NextBecomes DEF Search
  <2>4. CASE ~(Complete(f) \/ Found(f) = 0)
    <3> DEFINE token == Found(f) - Held(f).cursor
               r == [feeder[f] EXCEPT !.at = "advance", !.token = token]
    <3>1. feeder' = [feeder EXCEPT ![f].at = "advance", ![f].token = token]
      BY <1>7, <2>4 DEF Search
    <3>2. token \in Tokens /\ token \in Nat \ {0}
      BY <2>1, <2>4, FoundIs DEF Tokens
    <3> HIDE DEF token
    <3>3. /\ r \in Thread /\ r.at = "advance" /\ r.todo = feeder[f].todo
          /\ r.maker = feeder[f].maker /\ r.token = token
      BY <1>0, <3>2 DEF Thread
    <3>4. Fits(f, r)
      BY <1>0, <2>1, <3>2, <3>3 DEF Fits
    <3>5. feeder' = [feeder EXCEPT ![f] = r]
      BY <1>0, <3>1 DEF Threads, Thread
    <3> QED BY <3>3, <3>4, <3>5 DEF Becomes
  <2> QED BY <2>3, <2>4
<1>8. CASE Advance(f)
  <2> DEFINE there == IF Held(f).index + 1 >= Len(Watchers[This(f)].order) THEN "check"
                      ELSE "search"
             r == [feeder[f] EXCEPT !.at = there, !.token = None]
  <2>1. feeder' = [feeder EXCEPT ![f].at = there, ![f].token = None] /\ feeder[f].at = "advance"
    BY <1>8 DEF Advance
  <2>2. there \in {"check", "search"} /\ None \in Tokens
    BY DEF Tokens, None
  <2> HIDE DEF there
  <2>3. r \in Thread /\ r.at = there /\ r.todo = feeder[f].todo /\ r.maker = feeder[f].maker
    BY <1>0, <2>2 DEF Thread
  <2>4. Fits(f, r)
    BY <1>0, <2>1, <2>2, <2>3 DEF Fits
  <2>5. feeder' = [feeder EXCEPT ![f] = r]
    BY <1>0, <2>1 DEF Threads, Thread
  <2> QED BY <2>3, <2>4, <2>5 DEF Becomes
<1>9. CASE Check(f)
  <2>1. feeder[f].todo # {} /\ (NextWatcher(f) \/ Goes(f, "add"))
    BY <1>0, <1>9 DEF Check, Fits
  <2>2. CASE NextWatcher(f)
    BY <2>2, NextBecomes
  <2>3. CASE Goes(f, "add")
    BY <2>1, <2>3, GoesBecomes
  <2> QED BY <2>1, <2>2, <2>3
<1>10. CASE Add(f)
  BY <1>0, <1>10, GoesBecomes DEF Add, Fits
<1>11. CASE Emit(f)
  <2>1. CASE Goes(f, "act")
    BY <1>0, <1>11, <2>1, GoesBecomes DEF Emit, Fits
  <2>2. CASE Raises(f)
    BY <2>2, RaisesBecomes
  <2> QED BY <1>11, <2>1, <2>2 DEF Emit
<1>12. CASE Act(f)
  <2>1. feeder[f].todo # {}
    BY <1>0, <1>12 DEF Act, Fits
  <2>2. CASE Goes(f, "blame")
    BY <2>1, <2>2, GoesBecomes
  <2>3. CASE feeder' = [feeder EXCEPT ![f] = Idle]
    BY <2>3, IdleBecomes
  <2>4. CASE NextWatcher(f)
    BY <2>4, NextBecomes
  <2>5. CASE Raises(f)
    BY <2>5, RaisesBecomes
  <2> QED BY <1>12, <2>2, <2>3, <2>4, <2>5 DEF Act
<1>13. CASE Blame(f)
  BY <1>13, IdleBecomes DEF Blame
<1> QED
  BY <1>1, <1>2, <1>3, <1>4, <1>5, <1>6, <1>7, <1>8, <1>9, <1>10, <1>11, <1>12, <1>13
     DEF Feeding

LEMMA FeedBecomes ==
  ASSUME Threads, InTurn, NEW f \in Feeders, NEW text \in Texts, Feed(f, text)
  PROVE  \E r : Becomes(f, r)
  BY TextsAreLetters, TakesBecomes DEF Feed

LEMMA MemoGrows ==
  ASSUME NEW m \in Memo, NEW text \in Seq(Letters)
  PROVE  /\ [m EXCEPT !.buffer = @ \o text] \in Memo
         /\ m.buffer \o text \in Seq(Letters)
<1>1. m.buffer \o text \in Seq(Letters)
  BY DEF Memo
<1> QED BY <1>1 DEF Memo

LEMMA MemoMoves ==
  ASSUME NEW m \in Memo, NEW k \in Nat
  PROVE  [m EXCEPT !.index = @ + 1, !.cursor = @ + k] \in Memo
<1>1. m.index + 1 \in Nat /\ m.cursor + k \in Nat
  BY DEF Memo
<1> QED BY <1>1 DEF Memo

\* What is read, fed and held stays text.
LEMMA TalesStay ==
  ASSUME Threads, Tales, InTurn, NEW f \in Feeders, Feeding(f)
  PROVE  Tales'
<1>0. feeder[f] \in Thread /\ Fits(f, feeder[f])
  BY DEF Threads, InTurn
<1>1. CASE MatchText(f) \/ Search(f) \/ Check(f) \/ Add(f) \/ Emit(f) \/ Act(f) \/ Blame(f)
  BY <1>1 DEF Tales, MatchText, Search, Check, Add, Emit, Act, Blame, source, matching, flows
<1>2. CASE AskSize(f) \/ ReadFile(f)
  <2>1. file' \in Seq(Letters)
    BY <1>2, TextsAreLetters DEF ReadFile, AskSize, FileChanges
  <2>2. offset' \in Nat
    BY <1>0, <1>2 DEF ReadFile, AskSize, NothingRead, Tales, Thread
  <2> QED BY <1>2, <2>1, <2>2 DEF Tales, ReadFile, AskSize, matching, flows
<1>3. CASE Enter(f)
  <2>1. This(f) \in Watcher /\ feeder[f].text \in Seq(Letters)
    BY <1>0, <1>3, BusyIs DEF Thread, Enter, At, Busy
  <2>2. fed' = [fed EXCEPT ![This(f)] = @ \o feeder[f].text]
    BY <1>3 DEF Enter
  <2>3. fed \in [Watcher -> Seq(Letters)] /\ fed[This(f)] \o feeder[f].text \in Seq(Letters)
    BY <2>1 DEF Tales
  <2>4. fed' \in [Watcher -> Seq(Letters)]
    BY <2>1, <2>2, <2>3
  <2> QED BY <1>3, <2>4 DEF Tales, Enter, source, flows
<1>4. CASE Make(f)
  <2>1. Fresh \in Memo
    BY DEF Fresh, Memo
  <2> QED BY <1>4, <2>1 DEF Tales, Make, source
<1>5. CASE AppendText(f)
  <2>1. CASE UNCHANGED state
    BY <1>5, <2>1 DEF Tales, AppendText, source
  <2>2. CASE state' = [state EXCEPT ![This(f)][feeder[f].maker].buffer = @ \o feeder[f].text]
    <3>1. Held(f) \in Memo /\ feeder[f].maker \in Feeders /\ This(f) \in Watcher
      BY <1>5, HeldIs DEF AppendText, At
    <3>2. state' = [state EXCEPT ![This(f)][feeder[f].maker] =
                      [Held(f) EXCEPT !.buffer = @ \o feeder[f].text]]
      BY <2>2, <3>1 DEF Tales, Held, Memo
    <3>3. [Held(f) EXCEPT !.buffer = @ \o feeder[f].text] \in Memo
      BY <1>0, <3>1, MemoGrows DEF Thread
    <3>4. state' \in [Watcher -> [Feeders -> Memo]]
      BY <3>1, <3>2, <3>3 DEF Tales
    <3> QED BY <1>5, <3>4 DEF Tales, AppendText, source
  <2> QED BY <1>5, <2>1, <2>2 DEF AppendText
<1>6. CASE Advance(f)
  <2>1. Held(f) \in Memo /\ feeder[f].maker \in Feeders /\ This(f) \in Watcher
    BY <1>6, HeldIs DEF Advance, At
  <2>2. feeder[f].token \in Nat
    BY <1>0, <1>6 DEF Advance, Fits, At
  <2>3. [Held(f) EXCEPT !.index = @ + 1, !.cursor = @ + feeder[f].token] \in Memo
    BY <2>1, <2>2, MemoMoves
  <2>4. state' = [state EXCEPT ![This(f)][feeder[f].maker] =
                    [Held(f) EXCEPT !.index = @ + 1, !.cursor = @ + feeder[f].token]]
    BY <1>6 DEF Advance
  <2>5. state' \in [Watcher -> [Feeders -> Memo]]
    BY <2>1, <2>3, <2>4 DEF Tales
  <2> QED BY <1>6, <2>5 DEF Tales, Advance, source
<1> QED
  BY <1>1, <1>2, <1>3, <1>4, <1>5, <1>6 DEF Feeding

Logged == \E S : log \in Seq(S)

Types == Threads /\ Tales /\ InTurn /\ Logged

LEMMA InitTypes == Init => Types
<1> SUFFICES ASSUME Init PROVE Types
  OBVIOUS
<1>1. <<>> \in Seq(Letters)
  OBVIOUS
<1>2. Fresh \in Memo
  BY <1>1 DEF Fresh, Memo
<1>3. Threads
  BY IdleIsThread DEF Init, Threads
<1>4. Tales
  BY <1>1, <1>2 DEF Init, Tales
<1>5. InTurn
  BY IdleIsThread DEF Init, InTurn, Fits, Busy, InSequence
<1>6. Logged
  <2>1. log \in Seq({})
    BY DEF Init
  <2> QED BY <2>1 DEF Logged
<1> QED BY <1>3, <1>4, <1>5, <1>6 DEF Types

\* The other steps leave the threads, and what they hold, alone.
LEMMA OtherSteps ==
  ASSUME [Next]_vars
  PROVE  \/ \E f \in Feeders : Feeding(f)
         \/ \E f \in Feeders, text \in Texts : Feed(f, text)
         \/ UNCHANGED <<feeder, source, fed, matching>>
<1> USE DEF source, matching, outcome, ending
<1>1. CASE \E f \in Feeders : Feeding(f) \/ \E text \in Texts : Feed(f, text)
  BY <1>1
<1>2. CASE Stop \/ Judge \/ Tell
  BY <1>2 DEF Stop, Judge, Tell
<1>3. CASE UNCHANGED vars
  BY <1>3 DEF vars
<1> QED BY <1>1, <1>2, <1>3 DEF Next

\* What is added to the log.
Logs(entry) == log' = Append(log, entry)

\* Who changes the log, the flag of an abort, and what was seen.
LEMMA LogMoves ==
  ASSUME [Next]_vars
  PROVE  /\ \/ \E f \in Feeders : Emit(f) /\ Logs(Append(Digest(f), f))
            \/ Judge /\ \E w : Logs(<<w, "missing", None, None>>)
            \/ UNCHANGED log
         /\ (\E f \in Feeders : Add(f)) \/ UNCHANGED <<seenOnce, seenDedupe, raced>>
         /\ \/ \E f \in Feeders : Act(f) \/ Blame(f)
            \/ Judge \/ UNCHANGED <<abort, reason>>
<1> USE DEF source, matching, memory, outcome, ending, Logs
<1>1. ASSUME NEW f \in Feeders, Feeding(f)
      PROVE  /\ (Emit(f) /\ Logs(Append(Digest(f), f))) \/ UNCHANGED log
             /\ Add(f) \/ UNCHANGED <<seenOnce, seenDedupe, raced>>
             /\ Act(f) \/ Blame(f) \/ UNCHANGED <<abort, reason>>
  BY <1>1 DEF Feeding, AskSize, ReadFile, MatchText, Enter, Make, AppendText, Search,
              Advance, Check, Add, Emit, Act, Blame
<1>2. CASE \E f \in Feeders, text \in Texts : Feed(f, text)
  BY <1>2 DEF Feed
<1>3. CASE Stop \/ Tell
  BY <1>3 DEF Stop, Tell
<1>4. CASE Judge
  BY <1>4 DEF Judge
<1>5. CASE UNCHANGED vars
  BY <1>5 DEF vars
<1> QED BY <1>1, <1>2, <1>3, <1>4, <1>5 DEF Next

LEMMA LogGrows ==
  ASSUME Logged, NEW entry, Logs(entry)
  PROVE  \E S : /\ log \in Seq(S) /\ log' \in Seq(S) /\ Len(log') = Len(log) + 1
                /\ \A k \in 1 .. Len(log) : log'[k] = log[k]
                /\ log'[Len(log) + 1] = entry
<1>1. PICK S : log \in Seq(S)
  BY DEF Logged
<1>2. log \in Seq(S \cup {entry}) /\ Append(log, entry) \in Seq(S \cup {entry})
  BY <1>1
<1> QED BY <1>1, <1>2 DEF Logs

LEMMA TypesStay ==
  ASSUME Types, [Next]_vars
  PROVE  Types'
<1> USE DEF Types
<1>1. Threads' /\ InTurn'
  <2>1. CASE \E f \in Feeders : \E r : Becomes(f, r)
    BY <2>1, ThreadsStay
  <2>2. CASE UNCHANGED feeder
    BY <2>2 DEF Threads, InTurn, Fits
  <2>3. ASSUME NEW f \in Feeders, Feeding(f) PROVE \E r : Becomes(f, r)
    BY <2>3, FeedingBecomes
  <2>4. ASSUME NEW f \in Feeders, NEW text \in Texts, Feed(f, text) PROVE \E r : Becomes(f, r)
    BY <2>4, FeedBecomes
  <2> QED BY <2>1, <2>2, <2>3, <2>4, OtherSteps
<1>2. Tales'
  <2>1. CASE \E f \in Feeders : Feeding(f)
    BY <2>1, TalesStay
  <2>2. CASE \E f \in Feeders, text \in Texts : Feed(f, text)
    BY <2>2 DEF Feed, Tales, source, matching, flows
  <2>3. CASE UNCHANGED <<feeder, source, fed, matching>>
    BY <2>3 DEF Tales, source, matching, flows
  <2> QED BY <2>1, <2>2, <2>3, OtherSteps
<1>3. Logged'
  <2>1. ASSUME NEW entry, Logs(entry) PROVE Logged'
    BY <2>1, LogGrows DEF Logged
  <2>2. CASE UNCHANGED log
    BY <2>2 DEF Logged
  <2> QED BY <2>1, <2>2, LogMoves
<1> QED BY <1>1, <1>2, <1>3

THEOREM TypesHold == Spec => []Types
  BY InitTypes, TypesStay, PTL DEF Spec

-----------------------------------------------------------------------------
(* The steps of threads, and the log.                                       *)

LEMMA OneMoves ==
  ASSUME Types, NEW f \in Feeders,
         Feeding(f) \/ \E text \in Texts : Feed(f, text)
  PROVE  \A g \in Feeders \ {f} : feeder'[g] = feeder[g]
<1>1. PICK r : Becomes(f, r)
  BY FeedingBecomes, FeedBecomes DEF Types
<1> QED BY <1>1 DEF Becomes, Types, Threads

LEMMA GoesAt ==
  ASSUME Types, NEW f \in Feeders, NEW there, Goes(f, there)
  PROVE  /\ feeder'[f].at = there /\ feeder'[f].todo = feeder[f].todo
         /\ feeder'[f].token = feeder[f].token /\ feeder'[f].maker = feeder[f].maker
         /\ feeder'[f].text = feeder[f].text
  BY DEF Goes, Types, Threads, Thread

LEMMA IdleAt ==
  ASSUME Types, NEW f \in Feeders, feeder' = [feeder EXCEPT ![f] = Idle]
  PROVE  feeder'[f].at = "idle"
  BY IdleIsThread DEF Types, Threads

LEMMA NextAt ==
  ASSUME Types, NEW f \in Feeders, NextWatcher(f)
  PROVE  feeder'[f].at \in {"idle", "match"}
<1>1. feeder[f].text \in Seq(Letters) /\ feeder[f].todo \ {This(f)} \in SUBSET Work(f)
  BY DEF Types, Threads, Thread, InTurn, Fits
<1> QED BY <1>1, TurnsIs DEF NextWatcher, Types, Threads

LEMMA TakesAt ==
  ASSUME Types, NEW f \in Feeders, NEW text \in Seq(Letters), Takes(f, text)
  PROVE  feeder'[f].at \in {"idle", "match"}
<1>1. Work(f) \in SUBSET Work(f)
  OBVIOUS
<1> QED BY <1>1, TurnsIs DEF Takes, Types, Threads

LEMMA FeedAt ==
  ASSUME Types, NEW f \in Feeders, NEW text \in Texts, Feed(f, text)
  PROVE  feeder'[f].at \in {"idle", "match"}
  BY TextsAreLetters, TakesAt DEF Feed

LEMMA RaisesAt ==
  ASSUME Types, NEW f \in Feeders, Raises(f)
  PROVE  feeder'[f].at \in {"idle", "dead"}
<1>1. CASE f \in Pollers
  BY <1>1, IdleAt DEF Raises
<1>2. CASE f \notin Pollers
  BY <1>2, IdleIsThread DEF Raises, Types, Threads, Thread
<1> QED BY <1>1, <1>2

\* Where an action leads.
LEMMA Path ==
  ASSUME Types, NEW f \in Feeders, Feeding(f)
  PROVE  /\ AskSize(f) => feeder'[f].at = "read"
         /\ ReadFile(f) => feeder'[f].at \in {"idle", "match"}
         /\ MatchText(f) => feeder'[f].at \in {"idle", "match", "check"}
         /\ Enter(f) => feeder'[f].at \in {"make", "append"}
         /\ Make(f) => feeder'[f].at = "append"
         /\ AppendText(f) => feeder'[f].at \in {"idle", "match", "search"}
         /\ Search(f) => feeder'[f].at \in {"idle", "match", "advance"}
         /\ Advance(f) => feeder'[f].at \in {"search", "check"}
         /\ Check(f) => feeder'[f].at \in {"idle", "match", "add"}
         /\ Add(f) => feeder'[f].at = "emit"
         /\ Emit(f) => feeder'[f].at \in {"idle", "dead", "act"}
         /\ Act(f) => feeder'[f].at \in {"idle", "match", "dead", "blame"}
         /\ Blame(f) => feeder'[f].at = "idle"
<1>0. feeder \in [Feeders -> Thread]
  BY DEF Types, Threads
<1>1. AskSize(f) => feeder'[f].at = "read"
  BY <1>0, IdleIsThread DEF AskSize, Thread
<1>2. ReadFile(f) => feeder'[f].at \in {"idle", "match"}
  <2> SUFFICES ASSUME ReadFile(f) PROVE feeder'[f].at \in {"idle", "match"}
    OBVIOUS
  <2>1. Chunk(f, file') \in Seq(Letters)
    BY <1>0, TextsAreLetters DEF ReadFile, FileChanges, Chunk, Thread
  <2> QED BY <2>1, TakesAt, IdleAt DEF ReadFile, NothingRead
<1>3. MatchText(f) => feeder'[f].at \in {"idle", "match", "check"}
  BY <1>0, NextAt DEF MatchText, Thread
<1>4. Enter(f) => feeder'[f].at \in {"make", "append"}
  BY <1>0 DEF Enter, Thread
<1>5. Make(f) => feeder'[f].at = "append"
  BY <1>0 DEF Make, Thread
<1>6. AppendText(f) => feeder'[f].at \in {"idle", "match", "search"}
  BY NextAt, GoesAt DEF AppendText
<1>7. Search(f) => feeder'[f].at \in {"idle", "match", "advance"}
  BY <1>0, NextAt DEF Search, Thread
<1>8. Advance(f) => feeder'[f].at \in {"search", "check"}
  BY <1>0 DEF Advance, Thread
<1>9. Check(f) => feeder'[f].at \in {"idle", "match", "add"}
  BY NextAt, GoesAt DEF Check
<1>10. Add(f) => feeder'[f].at = "emit"
  BY GoesAt DEF Add
<1>11. Emit(f) => feeder'[f].at \in {"idle", "dead", "act"}
  BY RaisesAt, GoesAt DEF Emit
<1>12. Act(f) => feeder'[f].at \in {"idle", "match", "dead", "blame"}
  BY RaisesAt, NextAt, IdleAt, GoesAt DEF Act
<1>13. Blame(f) => feeder'[f].at = "idle"
  BY IdleAt DEF Blame
<1> QED BY <1>1, <1>2, <1>3, <1>4, <1>5, <1>6, <1>7, <1>8, <1>9, <1>10, <1>11, <1>12, <1>13

\* From where an action starts.
LEMMA From ==
  ASSUME NEW f
  PROVE  /\ AskSize(f) => feeder[f].at = "idle"
         /\ ReadFile(f) => feeder[f].at = "read"
         /\ MatchText(f) \/ Enter(f) => feeder[f].at = "match"
         /\ Make(f) => feeder[f].at = "make"
         /\ AppendText(f) => feeder[f].at = "append"
         /\ Search(f) => feeder[f].at = "search"
         /\ Advance(f) => feeder[f].at = "advance"
         /\ Check(f) => feeder[f].at = "check"
         /\ Add(f) => feeder[f].at = "add"
         /\ Emit(f) => feeder[f].at = "emit"
         /\ Act(f) => feeder[f].at = "act"
         /\ Blame(f) => feeder[f].at = "blame"
         /\ \A text : Feed(f, text) => feeder[f].at = "idle"
  BY DEF At, AskSize, ReadFile, MatchText, Enter, Make, AppendText, Search, Advance, Check,
         Add, Emit, Act, Blame, Feed

\* The entries of the log that are of matches.
Matches == {i \in DOMAIN log : log[i][2] # "missing"}

LEMMA MatchesGrow ==
  ASSUME Types, NEW entry, Logs(entry)
  PROVE  /\ \A i \in Matches : i \in Matches' /\ log'[i] = log[i] /\ i # Len(log) + 1
         /\ \A i \in Matches' \ Matches :
              i = Len(log) + 1 /\ log'[i] = entry /\ entry[2] # "missing"
<1>1. PICK S : /\ log \in Seq(S) /\ log' \in Seq(S) /\ Len(log') = Len(log) + 1
               /\ \A k \in 1 .. Len(log) : log'[k] = log[k]
               /\ log'[Len(log) + 1] = entry
  BY LogGrows DEF Types
<1>2. DOMAIN log = 1 .. Len(log) /\ DOMAIN log' = 1 .. (Len(log) + 1) /\ Len(log) \in Nat
  BY <1>1
<1> QED BY <1>1, <1>2 DEF Matches

LEMMA FiredIs == \A w : Fired(w) = {i \in Matches : log[i][1] = w}
  BY DEF Fired, Matches

LEMMA EntryIs ==
  ASSUME NEW f
  PROVE  LET e == Append(Digest(f), f)
         IN  e[1] = This(f) /\ e[2] = Source[f] /\ e[3] = feeder[f].token /\ e[4] = f
  BY DEF Digest

-----------------------------------------------------------------------------
(* A failure and its reason.                                                *)

\* Behind stop only those go on that it gave up.
Rested == stage # "open" => \A f \in Feeders \ late : Resting(f)

LEMMA RestedStays ==
  ASSUME Types, Rested, [Next]_vars
  PROVE  Rested' /\ (stage # "open" => late \subseteq late' /\ stage' # "open")
<1> USE DEF ending
<1>1. ASSUME NEW f \in Feeders, Feeding(f)
      PROVE  Rested' /\ UNCHANGED <<stage, late>>
  <2>1. UNCHANGED <<stage, late>>
    BY <1>1 DEF Feeding, AskSize, ReadFile, MatchText, Enter, Make, AppendText, Search,
                Advance, Check, Add, Emit, Act, Blame
  <2>2. stage = "open" \/ ~Resting(f)
    BY <1>1, From DEF Feeding, Resting, AskSize
  <2>3. stage # "open" => f \in late
    BY <2>2 DEF Rested
  <2> QED BY <1>1, <2>1, <2>3, OneMoves DEF Rested, Resting
<1>2. ASSUME NEW f \in Feeders, NEW text \in Texts, Feed(f, text)
      PROVE  Rested' /\ stage' = stage /\ late \subseteq late'
  <2>1. stage' = stage /\ late' = IF stage = "open" THEN late ELSE late \cup {f}
    BY <1>2 DEF Feed
  <2> QED BY <1>2, <2>1, OneMoves DEF Rested, Resting
<1>3. CASE Stop
  BY <1>3 DEF Stop, Rested, Resting
<1>4. CASE Judge \/ Tell
  BY <1>4 DEF Judge, Tell, Rested, Resting
<1>5. CASE UNCHANGED vars
  BY <1>5 DEF vars, Rested, Resting
<1> QED BY <1>1, <1>2, <1>3, <1>4, <1>5 DEF Next

Fails(w) == Watchers[w].action = "fail"

\* A thread that is about to write the reason.
Owes(f) == feeder[f].at = "blame" \/ (feeder[f].at = "act" /\ Fails(This(f)))

Failed == abort \/ \E w \in Watcher : Fails(w) /\ Fired(w) # {}

LateFailure == \E f \in late : \E w \in Work(f) : Fails(w)

\* A failure without a reason: a thread is about to give one.
Reasoned ==
  /\ reason # None \/ told # None => abort
  /\ \A f \in Feeders : feeder[f].at = "blame" => abort /\ Fails(This(f))
  /\ Failed => reason # None \/ \E f \in Feeders : Owes(f)

Verdict == stage = "over" /\ Failed => told # None \/ LateFailure

LEMMA OwesStays ==
  ASSUME Types, NEW g \in Feeders, Owes(g), NEW f \in Feeders,
         Feeding(f) \/ \E text \in Texts : Feed(f, text), ~Act(f), ~Blame(f)
  PROVE  Owes(g)'
<1>1. feeder[f].at \notin {"act", "blame"}
  BY From DEF Feeding
<1>2. g # f
  BY <1>1 DEF Owes
<1>3. feeder'[g] = feeder[g]
  BY <1>2, OneMoves
<1> QED BY <1>3 DEF Owes, This

LEMMA QuietReason ==
  ASSUME Types, Reasoned, UNCHANGED <<log, abort, reason, told>>,
         \A g \in Feeders : Owes(g) => Owes(g)',
         \A g \in Feeders : feeder'[g].at = "blame" => feeder'[g] = feeder[g]
  PROVE  Reasoned'
<1>1. Failed' => Failed
  BY DEF Failed, Fired
<1>2. \A g \in Feeders : feeder'[g].at = "blame" => abort' /\ Fails(This(g))'
  BY DEF Reasoned, Fails, This
<1> QED BY <1>1, <1>2 DEF Reasoned

LEMMA ActReason ==
  ASSUME Types, Reasoned, NEW f \in Feeders, Act(f)
  PROVE  Reasoned'
<1>0. UNCHANGED <<log, reason, told>> /\ feeder[f].at = "act"
  BY From DEF Act, ending
<1>1. \A g \in Feeders \ {f} : feeder'[g] = feeder[g]
  BY OneMoves DEF Feeding
<1>2. \A g \in Feeders \ {f} : Owes(g) => Owes(g)'
  BY <1>1 DEF Owes, This
<1>3. CASE Fails(This(f)) /\ abort' = TRUE /\ Goes(f, "blame")
  <2>1. feeder'[f].at = "blame" /\ This(f)' = This(f)
    BY <1>3, GoesAt DEF This
  <2>2. \A g \in Feeders : feeder'[g].at = "blame" => abort' /\ Fails(This(g))'
    BY <1>1, <1>3, <2>1 DEF Reasoned, Fails, This
  <2>3. Owes(f)'
    BY <2>1 DEF Owes
  <2> QED BY <1>0, <1>3, <2>2, <2>3 DEF Reasoned
<1>4. CASE ~Fails(This(f)) /\ UNCHANGED abort /\ feeder'[f].at # "blame"
  <2>1. \A g \in Feeders : Owes(g) => Owes(g)'
    BY <1>0, <1>2, <1>4 DEF Owes
  <2> QED BY <1>0, <1>1, <1>4, <2>1, QuietReason
<1>5. ~Fails(This(f)) => UNCHANGED abort /\ feeder'[f].at # "blame"
  BY RaisesAt, NextAt, IdleAt DEF Act, Fails
<1> QED BY <1>3, <1>4, <1>5 DEF Act, Fails

LEMMA EmitReason ==
  ASSUME Types, Reasoned, NEW f \in Feeders, Emit(f)
  PROVE  Reasoned'
<1>0. UNCHANGED <<abort, reason, told>>
  BY DEF Emit, ending
<1>1. \A g \in Feeders \ {f} : feeder'[g] = feeder[g]
  BY OneMoves DEF Feeding
<1>2. feeder[f].at = "emit" /\ feeder'[f].at # "blame"
  BY From, Path DEF Feeding
<1>3. \A g \in Feeders : Owes(g) => Owes(g)'
  BY OwesStays, From DEF Feeding
<1>4. \A g \in Feeders : feeder'[g].at = "blame" => feeder'[g] = feeder[g]
  BY <1>1, <1>2
<1>5. CASE UNCHANGED log
  BY <1>0, <1>3, <1>4, <1>5, QuietReason
<1>6. CASE Logs(Append(Digest(f), f)) /\ Goes(f, "act")
  <2>1. feeder'[f].at = "act" /\ This(f)' = This(f)
    BY <1>6, GoesAt DEF This
  <2>2. ASSUME NEW w \in Watcher, Fails(w), Fired(w)' # {}
        PROVE  Fired(w) # {} \/ Owes(f)'
    <3>1. PICK i \in Matches' : log'[i][1] = w
      BY <2>2 DEF Fired, Matches
    <3>2. CASE i \in Matches
      BY <1>6, <3>1, <3>2, MatchesGrow, FiredIs
    <3>3. CASE i \notin Matches
      <4>0. log'[i] = Append(Digest(f), f)
        BY <1>6, <3>1, <3>3, MatchesGrow
      <4>1. w = This(f)
        BY <3>1, <4>0, EntryIs
      <4> QED BY <2>1, <2>2, <4>1 DEF Owes, Fails
    <3> QED BY <3>2, <3>3
  <2>3. Failed' => Failed \/ \E g \in Feeders : Owes(g)'
    BY <1>0, <2>2 DEF Failed, Fails
  <2>4. \A g \in Feeders : feeder'[g].at = "blame" => abort' /\ Fails(This(g))'
    BY <1>0, <1>4 DEF Reasoned, Fails, This
  <2> QED BY <1>0, <1>3, <2>3, <2>4 DEF Reasoned
<1> QED BY <1>5, <1>6 DEF Emit, Logs

LEMMA BlameReason ==
  ASSUME Types, Reasoned, NEW f \in Feeders, Blame(f)
  PROVE  Reasoned'
<1>1. feeder[f].at = "blame" /\ This(f) # None
  <2>1. feeder[f].at = "blame" /\ feeder[f].todo # {}
    BY From, BusyIs DEF Types, Busy
  <2> QED BY <2>1, LeastWatcher DEF This, Types, Threads, Thread
<1>2. reason' # None /\ UNCHANGED <<abort, told>>
  BY <1>1 DEF Blame, ending
<1>3. \A g \in Feeders : feeder'[g].at = "blame" => feeder'[g] = feeder[g]
  BY OneMoves, Path DEF Feeding
<1> QED BY <1>1, <1>2, <1>3 DEF Reasoned, Fails, This

LEMMA JudgeReason ==
  ASSUME Types, Reasoned, Judge, left \subseteq Watcher
  PROVE  Reasoned'
<1>0. feeder' = feeder /\ told' = told
  BY DEF Judge
<1>1. \A g : This(g)' = This(g) /\ (Owes(g) => Owes(g)')
  BY <1>0 DEF This, Owes
<1>2. CASE UNCHANGED outcome
  BY <1>0, <1>1, <1>2, QuietReason DEF outcome
<1>3. CASE ~UNCHANGED outcome
  <2> DEFINE w == Min(left)
  <2>1. /\ Logs(<<w, "missing", None, None>>) /\ left # {}
        /\ abort' = (abort \/ Watchers[w].missing = "fail")
        /\ reason' = IF reason = None /\ Watchers[w].missing = "fail" THEN w ELSE reason
    BY <1>3 DEF Judge, Logs
  <2>2. w # None
    BY <2>1, LeastWatcher
  <2> HIDE DEF w
  <2>3. \A v : Fired(v)' # {} => Fired(v) # {}
    <3> SUFFICES ASSUME NEW v, NEW i \in Fired(v)' PROVE i \in Fired(v)
      OBVIOUS
    <3>1. i \in Matches' /\ log'[i][1] = v
      BY DEF Fired, Matches
    <3>2. i \in Matches
      BY <2>1, <3>1, MatchesGrow
    <3> QED BY <2>1, <3>1, <3>2, MatchesGrow, FiredIs
  <2>4. Failed' => Failed \/ reason' # None
    BY <2>1, <2>2, <2>3 DEF Failed, Fails
  <2>5. \A g \in Feeders : feeder'[g].at = "blame" => abort' /\ Fails(This(g))'
    BY <1>0, <1>1, <2>1 DEF Reasoned, Fails
  <2>6. reason # None => reason' # None
    BY <2>1
  <2>7. reason' # None \/ told' # None => abort'
    BY <1>0, <2>1 DEF Reasoned
  <2> QED BY <1>1, <2>4, <2>5, <2>6, <2>7 DEF Reasoned
<1> QED BY <1>2, <1>3

\* The sequences to be judged are watchers.
Queued == left \subseteq Watcher

LEMMA QueuedStays == ASSUME Queued, [Next]_vars PROVE Queued'
<1> USE DEF ending, Queued
<1>1. ASSUME NEW f \in Feeders, Feeding(f) \/ \E text \in Texts : Feed(f, text)
      PROVE  left' = left
  BY <1>1 DEF Feeding, AskSize, ReadFile, MatchText, Enter, Make, AppendText, Search,
              Advance, Check, Add, Emit, Act, Blame, Feed
<1>2. CASE Stop \/ Judge \/ Tell
  BY <1>2 DEF Stop, Judge, Tell, Judged
<1>3. CASE UNCHANGED vars
  BY <1>3 DEF vars
<1> QED BY <1>1, <1>2, <1>3 DEF Next

LEMMA ReasonedStays ==
  ASSUME Types, Queued, Reasoned, [Next]_vars
  PROVE  Reasoned'
<1>1. CASE \E f \in Feeders : Act(f) \/ Emit(f) \/ Blame(f)
  BY <1>1, ActReason, EmitReason, BlameReason
<1>2. CASE Judge
  BY <1>2, JudgeReason DEF Queued
<1>3. CASE ~Judge /\ ~\E f \in Feeders : Act(f) \/ Emit(f) \/ Blame(f)
  <2>1. UNCHANGED <<log, abort, reason>>
    BY <1>3, LogMoves
  <2>2. ASSUME NEW f \in Feeders, Feeding(f) \/ \E text \in Texts : Feed(f, text)
        PROVE  Reasoned'
    <3>1. UNCHANGED told
      BY <2>2 DEF Feeding, AskSize, ReadFile, MatchText, Enter, Make, AppendText, Search,
                  Advance, Check, Add, Emit, Act, Blame, Feed, ending
    <3>2. feeder'[f].at # "blame"
      <4>1. CASE Feeding(f)
        BY <1>3, <4>1, Path DEF Feeding
      <4>2. CASE \E text \in Texts : Feed(f, text)
        BY <4>2, FeedAt
      <4> QED BY <2>2, <4>1, <4>2
    <3>3. \A g \in Feeders : feeder'[g].at = "blame" => feeder'[g] = feeder[g]
      BY <2>2, <3>2, OneMoves
    <3>4. \A g \in Feeders : Owes(g) => Owes(g)'
      BY <1>3, <2>2, OwesStays
    <3> QED BY <2>1, <3>1, <3>3, <3>4, QuietReason
  <2>3. CASE Stop \/ UNCHANGED vars
    <3>1. UNCHANGED <<feeder, told>>
      BY <2>3 DEF Stop, vars, ending
    <3> QED BY <2>1, <3>1, QuietReason DEF Owes, This
  <2>4. CASE Tell
    <3>1. UNCHANGED feeder /\ told' = reason
      BY <2>4 DEF Tell
    <3>2. Failed' => Failed
      BY <2>1 DEF Failed, Fired
    <3>3. \A g \in Feeders : Owes(g) => Owes(g)'
      BY <3>1 DEF Owes, This
    <3> QED BY <2>1, <3>1, <3>2, <3>3 DEF Reasoned, Fails, This
  <2> QED BY <1>3, <2>2, <2>3, <2>4 DEF Next
<1> QED BY <1>1, <1>2, <1>3

\* Who owes a reason behind stop goes on behind stop.
LEMMA OwedIsLate ==
  ASSUME Types, Reasoned, Rested, stage # "open", NEW f \in Feeders, Owes(f)
  PROVE  LateFailure
<1>1. feeder[f].at \in {"act", "blame"} /\ Fails(This(f))
  BY DEF Owes, Reasoned
<1>2. This(f) \in Work(f)
  BY <1>1, BusyIs DEF Types, Busy
<1>3. f \in late
  BY <1>1 DEF Rested, Resting
<1> QED BY <1>1, <1>2, <1>3 DEF LateFailure

LEMMA VerdictStays ==
  ASSUME Types, Reasoned, Rested, Verdict, [Next]_vars
  PROVE  Verdict'
<1>1. CASE Tell
  <2>1. UNCHANGED <<log, abort, late>> /\ told' = reason /\ stage # "open"
    BY <1>1 DEF Tell, outcome
  <2>2. Failed' => Failed
    BY <2>1 DEF Failed, Fired
  <2>3. Failed => reason # None \/ LateFailure
    BY <2>1, OwedIsLate DEF Reasoned
  <2> QED BY <2>1, <2>2, <2>3 DEF Verdict, LateFailure
<1>2. CASE stage = "over" /\ ~Tell
  <2>1. UNCHANGED vars
    BY <1>2 DEF Next, Stop, Judge
  <2> QED BY <2>1 DEF vars, outcome, ending, Verdict, Failed, Fired, LateFailure
<1>3. CASE stage # "over" /\ ~Tell
  <2>1. stage' # "over"
    BY <1>3 DEF Next, Feeding, AskSize, ReadFile, MatchText, Enter, Make, AppendText, Search,
                Advance, Check, Add, Emit, Act, Blame, Feed, Stop, Judge, ending, vars
  <2> QED BY <2>1 DEF Verdict
<1> QED BY <1>1, <1>2, <1>3

\* Whatever failed, by a watcher that reported or by an abort, is told with its reason,
\* unless a thread with a watcher that fails went on behind stop.
THEOREM FailureIsToldHolds == Spec => []FailureIsTold
<1>1. Init => Types /\ Queued /\ Rested /\ Reasoned /\ Verdict
  <2> SUFFICES ASSUME Init PROVE Types /\ Queued /\ Rested /\ Reasoned /\ Verdict
    OBVIOUS
  <2>1. Queued /\ Rested /\ Verdict
    BY DEF Init, Queued, Rested, Verdict
  <2>2. Reasoned
    BY IdleIsThread DEF Init, Reasoned, Failed, Fired
  <2> QED BY <2>1, <2>2, InitTypes
<1>2. Types /\ Queued /\ Rested /\ Reasoned /\ Verdict /\ [Next]_vars
        => (Types /\ Queued /\ Rested /\ Reasoned /\ Verdict)'
  BY TypesStay, QueuedStays, RestedStays, ReasonedStays, VerdictStays
<1>3. Reasoned /\ Verdict => FailureIsTold
  BY DEF Reasoned, Verdict, FailureIsTold, Failed, LateFailure, Fails
<1> QED BY <1>1, <1>2, <1>3, PTL DEF Spec

-----------------------------------------------------------------------------
(* Firing once.                                                             *)

\* Whether what was found is new to a memory, or is in it.
New(d, once, dedupe) ==
  /\ Watchers[d[1]].once => d[1] \notin once
  /\ Watchers[d[1]].dedupe => d \notin dedupe

Remembered(d, once, dedupe) ==
  /\ Watchers[d[1]].once => d[1] \in once
  /\ Watchers[d[1]].dedupe => <<d[1], d[2], d[3]>> \in dedupe

IsNew(f) == New(Digest(f), seenOnce, seenDedupe)

LEMMA RememberedIsNotNew ==
  ASSUME NEW d, NEW w, NEW s, NEW t, NEW once, NEW dedupe,
         Remembered(d, once, dedupe), Same(d, <<w, s, t>>)
  PROVE  ~New(<<w, s, t>>, once, dedupe)
<1>1. <<d[1], d[2], d[3]>> \in dedupe \/ ~Watchers[d[1]].dedupe
  BY DEF Remembered
<1>2. CASE Watchers[w].once
  BY <1>2 DEF Remembered, Same, New
<1>3. CASE Watchers[w].dedupe /\ d[2] = s /\ d[3] = t
  BY <1>1, <1>3 DEF Same, New
<1> QED BY <1>2, <1>3 DEF Same

\* What has been reported is remembered.
Seen == \A i \in Matches : Remembered(log[i], seenOnce, seenDedupe)

\* What is about to be added is new, or another thread has come first.
Adding == \A f \in Feeders : feeder[f].at = "add" => IsNew(f) \/ This(f) \in raced

\* What is about to be reported is remembered; two threads that are about to report the
\* same have raced.
Emitting ==
  \A f \in Feeders : feeder[f].at = "emit" =>
    /\ Remembered(Digest(f), seenOnce, seenDedupe)
    /\ \A g \in Feeders \ {f} :
         feeder[g].at = "emit" /\ Same(Digest(f), Digest(g)) => This(f) \in raced

\* A thread that is about to report has not reported the same itself.
Own ==
  \A f \in Feeders : feeder[f].at \in {"add", "emit"} =>
    \A i \in Matches : Same(log[i], Digest(f)) =>
      log[i][4] # f /\ (feeder[f].at = "emit" => This(f) \in raced)

Once ==
  \A i, j \in Matches : i # j /\ Same(log[i], log[j]) =>
    log[i][1] \in raced /\ log[i][4] # log[j][4]

FireInv == Seen /\ Adding /\ Emitting /\ Own /\ Once

LEMMA SameDigest ==
  ASSUME NEW g, feeder'[g] = feeder[g]
  PROVE  This(g)' = This(g) /\ Digest(g)' = Digest(g)
  BY DEF This, Digest

LEMMA KeptDigest ==
  ASSUME Types, NEW f \in Feeders, NEW there, Goes(f, there)
  PROVE  This(f)' = This(f) /\ Digest(f)' = Digest(f)
  BY GoesAt DEF This, Digest

\* A step that reports nothing, and of which no thread comes to add or to emit.
LEMMA QuietFire ==
  ASSUME FireInv, UNCHANGED <<seenOnce, seenDedupe, raced>>,
         Matches' = Matches, \A i \in Matches : log'[i] = log[i],
         \A g \in Feeders : feeder'[g].at \in {"add", "emit"} => feeder'[g] = feeder[g]
  PROVE  FireInv'
<1> USE DEF FireInv
<1>1. \A g \in Feeders : feeder'[g].at \in {"add", "emit"} =>
        feeder'[g] = feeder[g] /\ This(g)' = This(g) /\ Digest(g)' = Digest(g)
  BY SameDigest
<1>2. Seen'
  BY DEF Seen, Remembered
<1>3. Once'
  BY DEF Once, Same
<1>4. Adding'
  BY <1>1 DEF Adding, IsNew, New
<1>5. Emitting'
  BY <1>1 DEF Emitting, Remembered, Same
<1>6. Own'
  BY <1>1 DEF Own, Same
<1> QED BY <1>2, <1>3, <1>4, <1>5, <1>6

LEMMA CheckFire ==
  ASSUME Types, FireInv, NEW f \in Feeders, Check(f)
  PROVE  FireInv'
<1> USE DEF FireInv
<1>1. UNCHANGED <<log, seenOnce, seenDedupe, raced>>
  BY DEF Check, matching, memory, outcome
<1>2. Matches' = Matches
  BY <1>1 DEF Matches
<1>3. \A g \in Feeders \ {f} : feeder'[g] = feeder[g] /\ This(g)' = This(g) /\ Digest(g)' = Digest(g)
  BY OneMoves, SameDigest DEF Feeding
<1>4. CASE NextWatcher(f)
  <2>1. feeder'[f].at \notin {"add", "emit"}
    BY <1>4, NextAt
  <2> QED BY <1>1, <1>2, <1>3, <2>1, QuietFire
<1>5. CASE Goes(f, "add") /\ IsNew(f)
  <2>1. feeder'[f].at = "add" /\ This(f)' = This(f) /\ Digest(f)' = Digest(f)
    BY <1>5, GoesAt, KeptDigest
  <2>2. Seen' /\ Once'
    BY <1>1, <1>2 DEF Seen, Once, Remembered, Same
  <2>3. Adding'
    BY <1>1, <1>3, <1>5, <2>1 DEF Adding, IsNew, New
  <2>4. Emitting'
    BY <1>1, <1>3, <2>1 DEF Emitting, Remembered, Same
  <2>5. \A i \in Matches : ~Same(log[i], Digest(f))
    BY <1>5, RememberedIsNotNew DEF Seen, IsNew, Digest
  <2>6. Own'
    BY <1>1, <1>2, <1>3, <2>1, <2>5 DEF Own, Same
  <2> QED BY <2>2, <2>3, <2>4, <2>6
<1>6. NextWatcher(f) \/ (Goes(f, "add") /\ IsNew(f))
  BY DEF Check, IsNew, New, Digest
<1> QED BY <1>4, <1>5, <1>6

LEMMA AddFire ==
  ASSUME Types, FireInv, NEW f \in Feeders, Add(f)
  PROVE  FireInv'
<1> USE DEF FireInv
<1> DEFINE d == Digest(f)
<1>1. /\ feeder[f].at = "add" /\ Goes(f, "emit") /\ UNCHANGED log
      /\ seenOnce' = IF Watchers[This(f)].once THEN seenOnce \cup {This(f)} ELSE seenOnce
      /\ seenDedupe' = IF Watchers[This(f)].dedupe THEN seenDedupe \cup {d} ELSE seenDedupe
      /\ raced' = IF Races(f) THEN raced \cup {This(f)} ELSE raced
  BY DEF Add, At, outcome
<1>2. Matches' = Matches
  BY <1>1 DEF Matches
<1>3. \A g \in Feeders \ {f} : feeder'[g] = feeder[g] /\ This(g)' = This(g) /\ Digest(g)' = Digest(g)
  BY OneMoves, SameDigest DEF Feeding
<1>4. feeder'[f].at = "emit" /\ This(f)' = This(f) /\ Digest(f)' = d
  BY <1>1, GoesAt, KeptDigest
<1>5. seenOnce \subseteq seenOnce' /\ seenDedupe \subseteq seenDedupe' /\ raced \subseteq raced'
  BY <1>1
<1>6. \A e : Remembered(e, seenOnce, seenDedupe) => Remembered(e, seenOnce', seenDedupe')
  BY <1>5 DEF Remembered
<1>7. Remembered(d, seenOnce', seenDedupe')
  BY <1>1 DEF Remembered, Digest
<1>8. Seen'
  BY <1>1, <1>2, <1>6 DEF Seen
<1>9. Once'
  BY <1>1, <1>2, <1>5 DEF Once, Same
<1>10. ASSUME NEW g \in Feeders, feeder'[g].at = "add"
       PROVE  IsNew(g)' \/ This(g)' \in raced'
  <2>1. g # f /\ feeder[g].at = "add" /\ This(g)' = This(g) /\ Digest(g)' = Digest(g)
    BY <1>3, <1>4, <1>10
  <2>2. CASE Same(d, Digest(g))
    <3>1. Races(f) /\ This(g) = This(f)
      BY <2>1, <2>2 DEF Races, At, Same, Digest
    <3> QED BY <1>1, <2>1, <3>1
  <2>3. CASE ~Same(d, Digest(g)) /\ IsNew(g)
    <3>1. Watchers[This(g)].once => This(g) # This(f)
      BY <2>3 DEF Same, Digest
    <3>2. Watchers[This(g)].dedupe => Digest(g) # d
      BY <2>3 DEF Same, Digest
    <3>3. New(Digest(g), seenOnce', seenDedupe')
      BY <1>1, <2>3, <3>1, <3>2 DEF IsNew, New, Digest
    <3> QED BY <2>1, <3>3 DEF IsNew
  <2> QED BY <1>5, <2>1, <2>2, <2>3 DEF Adding
<1>11. ASSUME NEW e, Remembered(e, seenOnce, seenDedupe), Same(e, d)
       PROVE  This(f) \in raced
  <2>1. ~IsNew(f)
    BY <1>11, RememberedIsNotNew DEF IsNew, Digest
  <2> QED BY <1>1, <2>1 DEF Adding
<1>12. Emitting'
  <2>1. ASSUME NEW g \in Feeders, feeder'[g].at = "emit"
        PROVE  Remembered(Digest(g)', seenOnce', seenDedupe')
    BY <1>3, <1>4, <1>6, <1>7, <2>1 DEF Emitting
  <2>2. ASSUME NEW g \in Feeders, NEW h \in Feeders \ {g}, feeder'[g].at = "emit",
               feeder'[h].at = "emit", Same(Digest(g)', Digest(h)')
        PROVE  This(g)' \in raced'
    <3>1. CASE g # f /\ h # f
      <4>1. feeder[g].at = "emit" /\ feeder[h].at = "emit" /\ Same(Digest(g), Digest(h))
        BY <1>3, <2>2, <3>1
      <4>2. This(g) \in raced
        BY <2>2, <4>1 DEF Emitting
      <4> QED BY <1>3, <1>5, <3>1, <4>2
    <3>2. CASE g = f
      <4>1. feeder[h].at = "emit" /\ Same(Digest(h), d)
        BY <1>3, <1>4, <2>2, <3>2 DEF Same
      <4>2. This(f) \in raced
        BY <1>11, <2>2, <4>1 DEF Emitting
      <4> QED BY <1>4, <1>5, <3>2, <4>2
    <3>3. CASE h = f /\ g # f
      <4>1. feeder[g].at = "emit" /\ Same(Digest(g), d)
        BY <1>3, <1>4, <2>2, <3>3
      <4>2. This(f) \in raced /\ This(g) = This(f)
        BY <1>11, <2>2, <4>1 DEF Emitting, Same, Digest
      <4> QED BY <1>3, <1>5, <3>3, <4>2
    <3> QED BY <2>2, <3>1, <3>2, <3>3
  <2>3. \A g \in Feeders, h \in Feeders : Same(Digest(g), Digest(h))' <=> Same(Digest(g)', Digest(h)')
    BY DEF Same
  <2>4. \A g \in Feeders : Remembered(Digest(g), seenOnce, seenDedupe)'
                           <=> Remembered(Digest(g)', seenOnce', seenDedupe')
    BY DEF Remembered
  <2> QED BY <2>1, <2>2, <2>3, <2>4 DEF Emitting
<1>13. ASSUME NEW g \in Feeders, feeder'[g].at \in {"add", "emit"}, NEW i \in Matches,
              Same(log[i], Digest(g)')
       PROVE  log[i][4] # g /\ (feeder'[g].at = "emit" => This(g)' \in raced')
  <2>1. CASE g # f
    BY <1>3, <1>5, <1>13, <2>1 DEF Own
  <2>2. CASE g = f
    <3>1. Same(log[i], d)
      BY <1>4, <1>13, <2>2
    <3>2. log[i][4] # f
      BY <1>1, <3>1 DEF Own
    <3>3. This(f) \in raced
      BY <1>11, <3>1 DEF Seen
    <3> QED BY <1>4, <1>5, <2>2, <3>2, <3>3
  <2> QED BY <2>1, <2>2
<1>14. Own'
  BY <1>1, <1>2, <1>13 DEF Own, Same
<1> QED BY <1>8, <1>9, <1>10, <1>12, <1>14 DEF Adding

LEMMA EmitFire ==
  ASSUME Types, FireInv, NEW f \in Feeders, Emit(f)
  PROVE  FireInv'
<1> USE DEF FireInv
<1> DEFINE d == Digest(f)
           e == Append(d, f)
<1>1. feeder[f].at = "emit" /\ UNCHANGED <<seenOnce, seenDedupe, raced>>
  BY From DEF Emit, matching, memory
<1>2. feeder'[f].at \notin {"add", "emit"}
  BY Path DEF Feeding
<1>3. \A g \in Feeders : feeder'[g].at \in {"add", "emit"} =>
        g # f /\ feeder'[g] = feeder[g] /\ This(g)' = This(g) /\ Digest(g)' = Digest(g)
  BY <1>2, OneMoves, SameDigest DEF Feeding
<1>4. CASE UNCHANGED log
  <2>1. Matches' = Matches
    BY <1>4 DEF Matches
  <2> QED BY <1>1, <1>3, <1>4, <2>1, QuietFire
<1>5. CASE Logs(e)
  <2>1. /\ \A i \in Matches : i \in Matches' /\ log'[i] = log[i]
        /\ \A i \in Matches' \ Matches : i = Len(log) + 1 /\ log'[i] = e
    BY <1>5, MatchesGrow
  <2>2. e[1] = d[1] /\ e[2] = d[2] /\ e[3] = d[3] /\ e[4] = f /\ d[1] = This(f)
    BY EntryIs DEF Digest
  <2> HIDE DEF e
  <2>3. Remembered(e, seenOnce, seenDedupe)
    BY <1>1, <2>2 DEF Emitting, Remembered
  <2> HIDE DEF d
  <2>4. \A i \in Matches' : (i \in Matches /\ log'[i] = log[i]) \/ log'[i] = e
    BY <2>1
  <2>5. Seen'
    BY <1>1, <2>3, <2>4 DEF Seen, Remembered
  <2>6. \A x : (Same(x, e) <=> Same(x, d)) /\ (Same(e, x) <=> Same(d, x)) /\ (Same(d, x) <=> Same(x, d))
    BY <2>2 DEF Same
  <2>7. \A i \in Matches : Same(log[i], e) => This(f) \in raced /\ log[i][4] # f
    BY <1>1, <2>6 DEF Own, d
  <2>8. ASSUME NEW i \in Matches', NEW j \in Matches', i # j, Same(log'[i], log'[j])
        PROVE  log'[i][1] \in raced /\ log'[i][4] # log'[j][4]
    <3>1. CASE i \in Matches /\ j \in Matches
      BY <2>1, <2>8, <3>1 DEF Once
    <3>2. CASE i \in Matches /\ j \notin Matches
      <4>1. log'[i] = log[i] /\ log'[j] = e /\ Same(log[i], e)
        BY <2>1, <2>8, <3>2
      <4>2. log[i][1] = This(f)
        BY <2>2, <4>1 DEF Same
      <4> QED BY <2>2, <2>7, <3>2, <4>1, <4>2
    <3>3. CASE i \notin Matches /\ j \in Matches
      <4>1. log'[j] = log[j] /\ log'[i] = e /\ Same(e, log[j])
        BY <2>1, <2>8, <3>3
      <4>2. Same(log[j], e)
        BY <2>6, <4>1
      <4> QED BY <2>2, <2>7, <3>3, <4>1, <4>2
    <3>4. CASE i \notin Matches /\ j \notin Matches
      BY <2>1, <2>8, <3>4
    <3> QED BY <3>1, <3>2, <3>3, <3>4
  <2>9. Once'
    BY <1>1, <2>8 DEF Once, Same
  <2>10. Adding'
    BY <1>1, <1>3 DEF Adding, IsNew, New
  <2>11. Emitting'
    BY <1>1, <1>3 DEF Emitting, Remembered, Same
  <2>12. ASSUME NEW g \in Feeders, feeder'[g].at \in {"add", "emit"}, NEW i \in Matches',
                Same(log'[i], Digest(g))
         PROVE  log'[i][4] # g /\ (feeder'[g].at = "emit" => This(g) \in raced)
    <3>1. g # f /\ feeder'[g] = feeder[g]
      BY <1>3, <2>12
    <3>2. CASE i \in Matches
      BY <2>1, <2>12, <3>1, <3>2 DEF Own
    <3>3. CASE log'[i] = e
      <4>1. Same(Digest(g), d)
        BY <2>6, <2>12, <3>3
      <4>2. feeder[g].at = "emit" => This(g) \in raced
        BY <1>1, <3>1, <4>1 DEF Emitting, d
      <4> QED BY <2>2, <3>1, <3>3, <4>2
    <3> QED BY <2>4, <3>2, <3>3
  <2>13. Own'
    BY <1>1, <1>3, <2>12 DEF Own, Same
  <2> QED BY <2>5, <2>9, <2>10, <2>11, <2>13
<1> QED BY <1>4, <1>5 DEF Emit, Logs

LEMMA FireStays ==
  ASSUME Types, FireInv, [Next]_vars
  PROVE  FireInv'
<1>1. CASE \E f \in Feeders : Add(f) \/ Emit(f) \/ Check(f)
  BY <1>1, AddFire, EmitFire, CheckFire
<1>2. CASE ~\E f \in Feeders : Add(f) \/ Emit(f) \/ Check(f)
  <2>1. UNCHANGED <<seenOnce, seenDedupe, raced>>
    BY <1>2, LogMoves
  <2>2. Matches' = Matches /\ \A i \in Matches : log'[i] = log[i]
    <3>1. ASSUME NEW w, Logs(<<w, "missing", None, None>>)
          PROVE  Matches' = Matches /\ \A i \in Matches : log'[i] = log[i]
      <4>1. /\ \A i \in Matches : i \in Matches' /\ log'[i] = log[i]
            /\ Matches' \ Matches = {}
        BY <3>1, MatchesGrow
      <4> QED BY <4>1
    <3>2. CASE UNCHANGED log
      BY <3>2 DEF Matches
    <3> QED BY <1>2, <3>1, <3>2, LogMoves
  <2>3. ASSUME NEW g \in Feeders, feeder'[g].at \in {"add", "emit"}
        PROVE  feeder'[g] = feeder[g]
    <3>1. ASSUME NEW f \in Feeders, Feeding(f) PROVE feeder'[g] = feeder[g]
      <4>1. feeder'[f].at \notin {"add", "emit"}
        BY <1>2, <3>1, Path DEF Feeding
      <4> QED BY <2>3, <3>1, <4>1, OneMoves
    <3>2. ASSUME NEW f \in Feeders, NEW text \in Texts, Feed(f, text)
          PROVE  feeder'[g] = feeder[g]
      BY <2>3, <3>2, FeedAt, OneMoves
    <3> QED BY <3>1, <3>2, OtherSteps
  <2> QED BY <2>1, <2>2, <2>3, QuietFire
<1> QED BY <1>1, <1>2

\* A watcher with once fires once, and one that dedupes fires once for what it found in a
\* source, for any number of threads: it fires again only for a second thread, when two
\* had found it new at once.
THEOREM FiresOnceHolds == Spec => []FiresOnce
<1>1. Init => FireInv
  BY IdleIsThread DEF Init, FireInv, Seen, Adding, Emitting, Own, Once, Matches
<1>2. Types /\ FireInv /\ [Next]_vars => FireInv'
  BY FireStays
<1>3. FireInv => FiresOnce
  BY FiredIs DEF FireInv, Once, FiresOnce
<1> QED BY TypesHold, <1>1, <1>2, <1>3, PTL DEF Spec

-----------------------------------------------------------------------------
(* Symbols in order.                                                        *)

\* The first k symbols of an order lie in the first n of a text.
Lies(order, k, text, n) ==
  \E h \in [1 .. k -> 1 .. n] :
    /\ \A i, j \in 1 .. k : i < j => h[i] < h[j]
    /\ \A i \in 1 .. k : text[h[i]] = order[i]

LEMMA NothingLies ==
  ASSUME NEW order, NEW text, NEW n \in Nat
  PROVE  Lies(order, 0, text, n)
<1> DEFINE h == [i \in 1 .. 0 |-> 1]
<1>1. 1 .. 0 = {}
  OBVIOUS
<1>2. h \in [1 .. 0 -> 1 .. n]
  BY <1>1
<1> QED BY <1>1, <1>2 DEF Lies

\* One symbol more.
LEMMA LiesFurther ==
  ASSUME NEW order, NEW text, NEW k \in Nat, NEW n \in Nat, NEW j \in Nat, n < j,
         Lies(order, k, text, n), text[j] = order[k + 1]
  PROVE  Lies(order, k + 1, text, j)
<1>1. PICK h \in [1 .. k -> 1 .. n] :
        /\ \A p, q \in 1 .. k : p < q => h[p] < h[q]
        /\ \A p \in 1 .. k : text[h[p]] = order[p]
  BY DEF Lies
<1> DEFINE g == [p \in 1 .. k + 1 |-> IF p = k + 1 THEN j ELSE h[p]]
<1>2. \A p \in 1 .. k + 1 : p = k + 1 \/ p \in 1 .. k
  OBVIOUS
<1>3. \A p \in 1 .. k : h[p] \in 1 .. n /\ p # k + 1
  BY <1>1
<1>4. g \in [1 .. k + 1 -> 1 .. j]
  <2>1. \A p \in 1 .. k + 1 : g[p] \in 1 .. j
    BY <1>2, <1>3
  <2> QED BY <2>1
<1>5. ASSUME NEW p \in 1 .. k + 1, NEW q \in 1 .. k + 1, p < q PROVE g[p] < g[q]
  <2>1. p \in 1 .. k
    BY <1>5
  <2>2. CASE q = k + 1
    BY <1>3, <2>1, <2>2
  <2>3. CASE q \in 1 .. k
    <3>1. h[p] < h[q]
      BY <1>1, <1>5, <2>1, <2>3
    <3>2. g[p] = h[p] /\ g[q] = h[q]
      BY <1>3, <2>1, <2>3
    <3> QED BY <3>1, <3>2
  <2> QED BY <1>2, <2>2, <2>3
<1>6. \A p \in 1 .. k + 1 : text[g[p]] = order[p]
  BY <1>1, <1>2, <1>3
<1> HIDE DEF g
<1> QED BY <1>4, <1>5, <1>6 DEF Lies

\* One symbol less.
LEMMA LiesBefore ==
  ASSUME NEW order, NEW text, NEW k \in Nat, NEW n \in Nat, Lies(order, k + 1, text, n)
  PROVE  \E j \in 1 .. n : text[j] = order[k + 1] /\ Lies(order, k, text, j - 1)
<1>1. PICK h \in [1 .. k + 1 -> 1 .. n] :
        /\ \A p, q \in 1 .. k + 1 : p < q => h[p] < h[q]
        /\ \A p \in 1 .. k + 1 : text[h[p]] = order[p]
  BY DEF Lies
<1> DEFINE g == [p \in 1 .. k |-> h[p]]
<1>2. k + 1 \in 1 .. k + 1 /\ \A p \in 1 .. k : p \in 1 .. k + 1 /\ p < k + 1
  OBVIOUS
<1>3. h[k + 1] \in 1 .. n /\ text[h[k + 1]] = order[k + 1]
  BY <1>1, <1>2
<1>4. \A p \in 1 .. k : h[p] \in 1 .. n /\ h[p] < h[k + 1]
  BY <1>1, <1>2
<1>5. g \in [1 .. k -> 1 .. h[k + 1] - 1]
  BY <1>3, <1>4
<1>6. \A p, q \in 1 .. k : p < q => g[p] < g[q]
  BY <1>1, <1>2
<1>7. \A p \in 1 .. k : text[g[p]] = order[p]
  BY <1>1, <1>2
<1> HIDE DEF g
<1>8. Lies(order, k, text, h[k + 1] - 1)
  BY <1>5, <1>6, <1>7 DEF Lies
<1> QED BY <1>3, <1>8

\* A shorter part of the order, in a longer part of a text that says the same.
LEMMA LiesStill ==
  ASSUME NEW order, NEW text, NEW k \in Nat, NEW n \in Nat, NEW m \in Nat, NEW l \in Nat,
         NEW more, l <= k, n <= m, Lies(order, k, text, n),
         \A i \in 1 .. n : more[i] = text[i]
  PROVE  Lies(order, l, more, m)
<1>1. PICK h \in [1 .. k -> 1 .. n] :
        /\ \A p, q \in 1 .. k : p < q => h[p] < h[q]
        /\ \A p \in 1 .. k : text[h[p]] = order[p]
  BY DEF Lies
<1> DEFINE g == [p \in 1 .. l |-> h[p]]
<1>2. \A p \in 1 .. l : p \in 1 .. k
  OBVIOUS
<1>3. \A p \in 1 .. l : h[p] \in 1 .. n /\ h[p] \in 1 .. m
  BY <1>1, <1>2
<1>4. g \in [1 .. l -> 1 .. m]
  BY <1>3
<1>5. \A p, q \in 1 .. l : p < q => g[p] < g[q]
  BY <1>1, <1>2
<1>6. \A p \in 1 .. l : more[g[p]] = order[p]
  BY <1>1, <1>2, <1>3
<1> HIDE DEF g
<1> QED BY <1>4, <1>5, <1>6 DEF Lies

LEMMA EmbedsLies ==
  ASSUME NEW S, NEW order \in Seq(S), NEW T, NEW text \in Seq(T)
  PROVE  Embeds(order, text) <=> Lies(order, Len(order), text, Len(text))
<1>1. DOMAIN order = 1 .. Len(order) /\ DOMAIN text = 1 .. Len(text)
  OBVIOUS
<1> QED BY <1>1 DEF Embeds, Lies

\* A text that comes up in another one brings with it what comes up in it.
LEMMA EmbedsThrough ==
  ASSUME NEW order, NEW text, NEW S, NEW more \in Seq(S), Embeds(order, text), Embeds(text, more)
  PROVE  Embeds(order, more)
<1>1. PICK h \in [DOMAIN order -> DOMAIN text] :
        /\ \A m, n \in DOMAIN order : m < n => h[m] < h[n]
        /\ \A m \in DOMAIN order : text[h[m]] = order[m]
  BY DEF Embeds
<1>2. PICK g \in [DOMAIN text -> DOMAIN more] :
        /\ \A m, n \in DOMAIN text : m < n => g[m] < g[n]
        /\ \A m \in DOMAIN text : more[g[m]] = text[m]
  BY DEF Embeds
<1> DEFINE e == [m \in DOMAIN order |-> g[h[m]]]
<1>3. e \in [DOMAIN order -> DOMAIN more]
  BY <1>1, <1>2
<1>4. \A m, n \in DOMAIN order : m < n => e[m] < e[n]
  BY <1>1, <1>2
<1>5. \A m \in DOMAIN order : more[e[m]] = order[m]
  BY <1>1, <1>2
<1> HIDE DEF e
<1> QED BY <1>3, <1>4, <1>5 DEF Embeds

LEMMA OneAfterOther ==
  ASSUME NEW S, NEW s \in Seq(S), NEW t \in Seq(S)
  PROVE  /\ s \o t \in Seq(S) /\ Len(s \o t) = Len(s) + Len(t)
         /\ \A i \in 1 .. Len(s) : (s \o t)[i] = s[i]
         /\ \A i \in 1 .. Len(t) : (s \o t)[Len(s) + i] = t[i]
<1>1. s \o t \in Seq(S) /\ Len(s \o t) = Len(s) + Len(t)
  OBVIOUS
<1>2. \A i \in 1 .. Len(s) : (s \o t)[i] = s[i]
  OBVIOUS
<1>3. \A i \in 1 .. Len(t) : (s \o t)[Len(s) + i] = t[i]
  OBVIOUS
<1> QED BY <1>1, <1>2, <1>3

\* What is read next is fed next.
LEMMA EmbedsNext ==
  ASSUME NEW S, NEW given \in Seq(S), NEW whole \in Seq(S), NEW from \in Nat, NEW upto \in Nat,
         NEW old \in Nat, old <= upto, upto <= Len(whole), from \in {0, old},
         Embeds(SubSeq(whole, 1, old), given)
  PROVE  Embeds(SubSeq(whole, 1, upto), given \o SubSeq(whole, from + 1, Len(whole)))
<1> DEFINE chunk == SubSeq(whole, from + 1, Len(whole))
<1>0. from <= upto /\ Len(whole) \in Nat /\ Len(given) \in Nat
  OBVIOUS
<1>1. /\ chunk \in Seq(S) /\ Len(chunk) = Len(whole) - from
      /\ \A i \in 1 .. Len(whole) - from : chunk[i] = whole[i + from]
  BY <1>0
<1> HIDE DEF chunk
<1>2. /\ given \o chunk \in Seq(S) /\ Len(given \o chunk) = Len(given) + Len(chunk)
      /\ \A i \in 1 .. Len(given) : (given \o chunk)[i] = given[i]
      /\ \A i \in 1 .. Len(chunk) : (given \o chunk)[Len(given) + i] = chunk[i]
  <2>1. chunk \in Seq(S)
    BY <1>1
  <2> QED BY <2>1, OneAfterOther
<1>3. /\ DOMAIN SubSeq(whole, 1, old) = 1 .. old /\ DOMAIN SubSeq(whole, 1, upto) = 1 .. upto
      /\ \A i \in 1 .. old : SubSeq(whole, 1, old)[i] = whole[i]
      /\ \A i \in 1 .. upto : SubSeq(whole, 1, upto)[i] = whole[i]
  OBVIOUS
<1>4. PICK h \in [1 .. old -> 1 .. Len(given)] :
        /\ \A m, n \in 1 .. old : m < n => h[m] < h[n]
        /\ \A m \in 1 .. old : given[h[m]] = whole[m]
  <2>1. DOMAIN given = 1 .. Len(given)
    OBVIOUS
  <2>2. PICK h \in [DOMAIN SubSeq(whole, 1, old) -> DOMAIN given] :
          /\ \A m, n \in DOMAIN SubSeq(whole, 1, old) : m < n => h[m] < h[n]
          /\ \A m \in DOMAIN SubSeq(whole, 1, old) : given[h[m]] = SubSeq(whole, 1, old)[m]
    BY DEF Embeds
  <2>3. h \in [1 .. old -> 1 .. Len(given)]
    BY <1>3, <2>1, <2>2
  <2>4. \A m, n \in 1 .. old : m < n => h[m] < h[n]
    BY <1>3, <2>2
  <2>5. \A m \in 1 .. old : given[h[m]] = whole[m]
    BY <1>3, <2>2
  <2> QED BY <2>3, <2>4, <2>5
<1> DEFINE g == [i \in 1 .. upto |-> IF i <= from THEN h[i] ELSE Len(given) + (i - from)]
<1>5. \A i \in 1 .. upto : i <= from => i \in 1 .. old /\ h[i] \in 1 .. Len(given)
  BY <1>4
<1>6. \A i \in 1 .. upto : ~(i <= from) => i - from \in 1 .. Len(chunk)
  BY <1>0, <1>1
<1>7. g \in [1 .. upto -> 1 .. Len(given \o chunk)]
  <2>1. ASSUME NEW i \in 1 .. upto PROVE g[i] \in 1 .. Len(given \o chunk)
    <3>1. CASE i <= from
      BY <1>0, <1>1, <1>2, <1>5, <3>1
    <3>2. CASE ~(i <= from)
      BY <1>0, <1>1, <1>2, <1>6, <3>2
    <3> QED BY <3>1, <3>2
  <2> QED BY <2>1
<1>8. ASSUME NEW m \in 1 .. upto, NEW n \in 1 .. upto, m < n PROVE g[m] < g[n]
  <2>1. CASE n <= from
    BY <1>4, <1>5, <1>8, <2>1
  <2>2. CASE m <= from /\ ~(n <= from)
    BY <1>0, <1>5, <1>6, <2>2
  <2>3. CASE ~(m <= from)
    BY <1>0, <1>8, <2>3
  <2> QED BY <1>8, <2>1, <2>2, <2>3
<1>9. ASSUME NEW m \in 1 .. upto PROVE (given \o chunk)[g[m]] = whole[m]
  <2>1. CASE m <= from
    BY <1>2, <1>4, <1>5, <2>1
  <2>2. CASE ~(m <= from)
    <3>1. (given \o chunk)[g[m]] = chunk[m - from]
      BY <1>2, <1>6, <2>2
    <3>2. chunk[m - from] = whole[m]
      BY <1>1, <1>6, <2>2, <1>0
    <3> QED BY <3>1, <3>2
  <2> QED BY <2>1, <2>2
<1> HIDE DEF g
<1>10. DOMAIN (given \o chunk) = 1 .. Len(given \o chunk)
  BY <1>2
<1>11. ASSUME NEW part, part = SubSeq(whole, 1, upto), NEW text, text = given \o chunk
       PROVE  Embeds(part, text)
  <2>1. DOMAIN part = 1 .. upto /\ \A m \in 1 .. upto : part[m] = whole[m]
    BY <1>3, <1>11
  <2>2. g \in [DOMAIN part -> DOMAIN text]
    BY <1>7, <1>10, <1>11, <2>1
  <2>3. \A m, n \in DOMAIN part : m < n => g[m] < g[n]
    BY <1>8, <2>1
  <2>4. \A m \in DOMAIN part : text[g[m]] = part[m]
    BY <1>9, <1>11, <2>1
  <2> QED BY <2>2, <2>3, <2>4 DEF Embeds
<1> QED BY <1>11 DEF chunk

LEMMA EmbedsLonger ==
  ASSUME NEW S, NEW order \in Seq(S), NEW T, NEW text \in Seq(T), NEW more \in Seq(T),
         Embeds(order, text)
  PROVE  Embeds(order, text \o more)
<1>1. /\ text \o more \in Seq(T) /\ Len(text \o more) = Len(text) + Len(more)
      /\ \A i \in 1 .. Len(text) : (text \o more)[i] = text[i]
  BY OneAfterOther
<1>2. Len(order) \in Nat /\ Len(text) \in Nat /\ Len(more) \in Nat
  OBVIOUS
<1>3. Lies(order, Len(order), text, Len(text))
  BY EmbedsLies
<1>4. Lies(order, Len(order), text \o more, Len(text \o more))
  <2> DEFINE n == Len(text \o more)
  <2>1. n \in Nat /\ Len(text) <= n
    BY <1>1, <1>2
  <2> HIDE DEF n
  <2>2. ASSUME NEW whole, whole = text \o more PROVE Lies(order, Len(order), whole, n)
    <3>1. \A i \in 1 .. Len(text) : whole[i] = text[i]
      BY <1>1, <2>2
    <3> QED BY <1>2, <1>3, <2>1, <3>1, LiesStill
  <2> QED BY <2>2 DEF n
<1> QED BY <1>1, <1>4, EmbedsLies

-----------------------------------------------------------------------------
(* The state of a sequence.                                                 *)

\* The patterns before the index lie before the cursor, and before no earlier place.
Grown(order, s) ==
  /\ s.index <= Len(order) /\ s.cursor <= Len(s.buffer)
  /\ Lies(order, s.index, s.buffer, s.cursor)
  /\ s.cursor > 0 => ~Lies(order, s.index, s.buffer, s.cursor - 1)

\* The next pattern is not found between the cursor and a place.
NotAhead(order, s, upto) == \A j \in s.cursor + 1 .. upto : s.buffer[j] # order[s.index + 1]

Searched(order, s) == s.index < Len(order) => NotAhead(order, s, Len(s.buffer))

LEMMA FreshGrown ==
  ASSUME NEW S, NEW order \in Seq(S)
  PROVE  Grown(order, Fresh) /\ Searched(order, Fresh)
<1>1. Len(<<>>) = 0 /\ Len(order) \in Nat
  OBVIOUS
<1>2. Lies(order, 0, <<>>, 0)
  BY NothingLies
<1> QED BY <1>1, <1>2 DEF Grown, Searched, NotAhead, Fresh

LEMMA AppendGrown ==
  ASSUME NEW S, NEW order \in Seq(S), NEW s \in Memo, NEW text \in Seq(Letters),
         Grown(order, s)
  PROVE  Grown(order, [s EXCEPT !.buffer = @ \o text])
<1> DEFINE more == s.buffer \o text
<1>1. s.buffer \in Seq(Letters) /\ s.cursor \in Nat /\ s.index \in Nat
  BY DEF Memo
<1>2. /\ more \in Seq(Letters) /\ Len(more) = Len(s.buffer) + Len(text)
      /\ \A i \in 1 .. Len(s.buffer) : more[i] = s.buffer[i]
  BY <1>1, OneAfterOther
<1>3. Len(s.buffer) \in Nat /\ Len(text) \in Nat
  BY <1>1
<1> HIDE DEF more
<1>4. \A i \in 1 .. s.cursor : i \in 1 .. Len(s.buffer)
  BY <1>1, <1>3 DEF Grown
<1>5. Lies(order, s.index, more, s.cursor)
  <2>1. \A i \in 1 .. s.cursor : more[i] = s.buffer[i]
    BY <1>2, <1>4
  <2>2. Lies(order, s.index, s.buffer, s.cursor)
    BY DEF Grown
  <2> QED BY <1>1, <2>1, <2>2, LiesStill
<1>6. ASSUME s.cursor > 0, Lies(order, s.index, more, s.cursor - 1)
      PROVE  Lies(order, s.index, s.buffer, s.cursor - 1)
  <2>1. s.cursor - 1 \in Nat /\ \A i \in 1 .. s.cursor - 1 : i \in 1 .. s.cursor
    BY <1>1, <1>6
  <2>2. \A i \in 1 .. s.cursor - 1 : s.buffer[i] = more[i]
    BY <1>2, <1>4, <2>1
  <2> QED BY <1>1, <1>6, <2>1, <2>2, LiesStill
<1>7. s.cursor <= Len(more)
  BY <1>1, <1>2, <1>3 DEF Grown
<1> DEFINE r == [s EXCEPT !.buffer = more]
<1>8. r.buffer = more /\ r.cursor = s.cursor /\ r.index = s.index
  BY DEF Memo
<1> HIDE DEF r
<1>9. Grown(order, r)
  BY <1>5, <1>6, <1>7, <1>8 DEF Grown
<1> QED BY <1>9 DEF r, more

LEMMA AdvanceGrown ==
  ASSUME NEW S, NEW order \in Seq(S), NEW s \in Memo, NEW k \in Nat \ {0},
         Grown(order, s), s.index < Len(order), s.cursor + k <= Len(s.buffer),
         s.buffer[s.cursor + k] = order[s.index + 1], NotAhead(order, s, s.cursor + k - 1)
  PROVE  Grown(order, [s EXCEPT !.index = @ + 1, !.cursor = @ + k])
<1>1. s.buffer \in Seq(Letters) /\ s.cursor \in Nat /\ s.index \in Nat /\ Len(order) \in Nat
  BY DEF Memo
<1>2. Lies(order, s.index + 1, s.buffer, s.cursor + k)
  BY <1>1, LiesFurther DEF Grown
<1>3. ASSUME Lies(order, s.index + 1, s.buffer, s.cursor + k - 1) PROVE FALSE
  <2>1. s.cursor + k - 1 \in Nat
    BY <1>1
  <2>2. PICK j \in 1 .. s.cursor + k - 1 :
          s.buffer[j] = order[s.index + 1] /\ Lies(order, s.index, s.buffer, j - 1)
    BY <1>1, <1>3, <2>1, LiesBefore
  <2>3. j <= s.cursor
    BY <1>1, <2>1, <2>2 DEF NotAhead
  <2>4. j - 1 \in Nat /\ s.cursor - 1 \in Nat /\ j - 1 <= s.cursor - 1 /\ s.cursor > 0
    <3>1. j \in Nat /\ 1 <= j /\ s.cursor \in Nat
      BY <1>1, <2>1
    <3> QED BY <2>3, <3>1
  <2>5. Lies(order, s.index, s.buffer, s.cursor - 1)
    BY <1>1, <2>2, <2>4, LiesStill
  <2> QED BY <2>4, <2>5 DEF Grown
<1> DEFINE r == [s EXCEPT !.index = @ + 1, !.cursor = @ + k]
<1>4. r.buffer = s.buffer /\ r.cursor = s.cursor + k /\ r.index = s.index + 1
  BY DEF Memo
<1> HIDE DEF r
<1>5. s.index + 1 <= Len(order)
  BY <1>1
<1>6. Grown(order, r)
  <2>1. r.index <= Len(order) /\ r.cursor <= Len(r.buffer)
    BY <1>4, <1>5
  <2>2. Lies(order, r.index, r.buffer, r.cursor)
    BY <1>2, <1>4
  <2>3. ~Lies(order, r.index, r.buffer, r.cursor - 1)
    <3>1. r.cursor - 1 = s.cursor + k - 1
      BY <1>1, <1>4
    <3> QED BY <1>3, <1>4, <3>1
  <2> QED BY <2>1, <2>2, <2>3 DEF Grown
<1> QED BY <1>6 DEF r

\* An index at the end: the patterns came up in their order.
LEMMA GrownFollows ==
  ASSUME NEW S, NEW order \in Seq(S), NEW s \in Memo, Grown(order, s), s.index = Len(order)
  PROVE  Embeds(order, s.buffer)
<1>1. s.buffer \in Seq(Letters) /\ s.cursor \in Nat /\ Len(order) \in Nat /\ Len(s.buffer) \in Nat
  BY DEF Memo
<1>2. Lies(order, Len(order), s.buffer, Len(s.buffer))
  BY <1>1, LiesStill DEF Grown
<1> QED BY <1>1, <1>2, EmbedsLies

\* An index before the end, and nothing to find: they did not.
LEMMA GrownFollowsNot ==
  ASSUME NEW S, NEW order \in Seq(S), NEW s \in Memo, Grown(order, s), Searched(order, s),
         s.index < Len(order)
  PROVE  ~Embeds(order, s.buffer)
<1> SUFFICES ASSUME Embeds(order, s.buffer) PROVE FALSE
  OBVIOUS
<1>1. /\ s.buffer \in Seq(Letters) /\ s.cursor \in Nat /\ s.index \in Nat
      /\ Len(order) \in Nat /\ Len(s.buffer) \in Nat
  BY DEF Memo
<1>2. Lies(order, Len(order), s.buffer, Len(s.buffer))
  BY <1>1, EmbedsLies
<1>3. Lies(order, s.index + 1, s.buffer, Len(s.buffer))
  BY <1>1, <1>2, LiesStill
<1>4. PICK j \in 1 .. Len(s.buffer) :
        s.buffer[j] = order[s.index + 1] /\ Lies(order, s.index, s.buffer, j - 1)
  BY <1>1, <1>3, LiesBefore
<1>5. j <= s.cursor
  BY <1>1, <1>4 DEF Searched, NotAhead
<1>6. j - 1 \in Nat /\ s.cursor - 1 \in Nat /\ j - 1 <= s.cursor - 1 /\ s.cursor > 0
  BY <1>1, <1>4, <1>5
<1>7. Lies(order, s.index, s.buffer, s.cursor - 1)
  BY <1>1, <1>4, <1>6, LiesStill
<1> QED BY <1>6, <1>7 DEF Grown

-----------------------------------------------------------------------------
(* The story of a sequence: what its state says of the texts it was matched *)
(* with, as long as no two threads are in it at once.                       *)

Acting == {"check", "add", "emit", "act", "blame"}
Untaken == {"make", "append"}
Looking == {"search", "advance"}

\* The state that the next thread will find.
Memory(w) == IF current[w] = None THEN Fresh ELSE state[w][current[w]]

Plot(w, turn, r, s, cur, text) ==
  /\ Grown(Watchers[w].order, s)
  /\ s.index < Len(Watchers[w].order) =>
       text = IF turn \in Untaken THEN s.buffer \o r.text ELSE s.buffer
  /\ s.index = Len(Watchers[w].order) => Embeds(Watchers[w].order, text)
  /\ turn \in Looking \cup {"append"} => r.maker = cur /\ cur # None
  /\ turn = "make" => cur = None
  /\ turn \in Looking => s.index < Len(Watchers[w].order)
  /\ turn \notin Looking => Searched(Watchers[w].order, s)
  /\ turn = "advance" =>
       /\ s.cursor + r.token <= Len(s.buffer)
       /\ s.buffer[s.cursor + r.token] = Watchers[w].order[s.index + 1]
       /\ NotAhead(Watchers[w].order, s, s.cursor + r.token - 1)

Inside(f, w) == Plot(w, feeder[f].at, feeder[f], Memory(w), current[w], fed[w])
Outside(w) == Plot(w, "away", Idle, Memory(w), current[w], fed[w])

Acts(f, w) == feeder[f].at \in Acting /\ This(f) = w

Story(w) ==
  /\ \A f \in Feeders : IsIn(f, w) => Inside(f, w) /\ \A g \in Feeders \ {f} : ~IsIn(g, w)
  /\ (\A f \in Feeders : ~IsIn(f, w)) => Outside(w)
  /\ \A f \in Feeders : Acts(f, w) => Followed(w)

Stories == \A w \in Watcher \ crossed : IsSequence(w) => Story(w)

LEMMA OrderIs ==
  ASSUME NEW w \in Watcher
  PROVE  Watchers[w].order \in Seq(Range(Watchers[w].order)) /\ Len(Watchers[w].order) \in Nat
<1>1. Watchers[w].order \in Seq(Range(Watchers[w].order))
  BY WatchAssumption DEF Watcher
<1> QED BY <1>1

LEMMA MemoryIs ==
  ASSUME Types, NEW w \in Watcher
  PROVE  Memory(w) \in Memo /\ fed[w] \in Seq(Letters)
<1>1. Fresh \in Memo
  <2>1. <<>> \in Seq(Letters)
    OBVIOUS
  <2> QED BY <2>1 DEF Fresh, Memo
<1> QED BY <1>1 DEF Types, Tales, Memory

\* The actions in which a thread is in a sequence.
Within(f) == Enter(f) \/ Make(f) \/ AppendText(f) \/ Search(f) \/ Advance(f)

\* A step of a thread leaves the other watchers alone.
LEMMA OneWatcher ==
  ASSUME Types, NEW f \in Feeders, Feeding(f), NEW w \in Watcher, ~Within(f) \/ This(f) # w
  PROVE  state'[w] = state[w] /\ current'[w] = current[w] /\ fed'[w] = fed[w]
<1>0. Tales
  BY DEF Types
<1>1. CASE ~Within(f)
  BY <1>1 DEF Within, Feeding, AskSize, ReadFile, MatchText, Check, Add, Emit, Act, Blame,
              matching, flows
<1>2. CASE Enter(f) /\ This(f) # w
  <2>1. fed' = [fed EXCEPT ![This(f)] = @ \o feeder[f].text] /\ UNCHANGED flows
    BY <1>2 DEF Enter
  <2> QED BY <1>0, <1>2, <2>1 DEF Tales, flows
<1>3. CASE Make(f) /\ This(f) # w
  BY <1>0, <1>3 DEF Make, Tales
<1>4. CASE (AppendText(f) \/ Advance(f)) /\ This(f) # w
  <2>1. \/ UNCHANGED state
        \/ \E m : state' = [state EXCEPT ![This(f)][feeder[f].maker] = m]
        \/ state' = [state EXCEPT ![This(f)][feeder[f].maker].buffer = @ \o feeder[f].text]
    BY <1>4 DEF AppendText, Advance
  <2>2. state'[w] = state[w]
    BY <1>0, <1>4, <2>1 DEF Tales
  <2> QED BY <1>4, <2>2 DEF AppendText, Advance
<1>5. CASE Search(f)
  BY <1>5 DEF Search, matching, flows
<1> QED BY <1>1, <1>2, <1>3, <1>4, <1>5 DEF Within

\* A step of a thread makes it another watcher's turn only with a new text, or when it
\* comes to its text's next watcher.
LEMMA TurnsOver ==
  ASSUME Types, NEW f \in Feeders, Feeding(f)
  PROVE  \/ feeder'[f].at \in {"idle", "read", "match", "dead"}
         \/ feeder'[f].todo = feeder[f].todo /\ This(f)' = This(f)
<1>0. feeder \in [Feeders -> Thread]
  BY DEF Types, Threads
<1> DEFINE over == feeder'[f].at \in {"idle", "read", "match", "dead"}
           same == feeder'[f].todo = feeder[f].todo
<1>1. CASE AskSize(f) \/ ReadFile(f) \/ Blame(f)
  <2>1. over
    BY <1>1, Path
  <2> QED BY <2>1
<1>2. CASE MatchText(f)
  <2>1. over \/ same
    BY <1>0, <1>2, NextAt DEF MatchText, Thread
  <2> QED BY <2>1 DEF This
<1>3. CASE Enter(f) \/ Make(f)
  <2>1. Enter(f) => same
    BY <1>0 DEF Enter, Thread
  <2>2. Make(f) => same
    BY <1>0 DEF Make, Thread
  <2>3. same
    BY <1>3, <2>1, <2>2
  <2> QED BY <2>3 DEF This
<1>4. CASE AppendText(f) \/ Check(f) \/ Add(f) \/ Emit(f) \/ Act(f)
  <2>1. over \/ same
    BY <1>4, NextAt, GoesAt, RaisesAt, IdleAt DEF AppendText, Check, Add, Emit, Act
  <2> QED BY <2>1 DEF This
<1>5. CASE Search(f) \/ Advance(f)
  <2>1. over \/ same
    BY <1>0, <1>5, NextAt DEF Search, Advance, Thread
  <2> QED BY <2>1 DEF This
<1> QED BY <1>1, <1>2, <1>3, <1>4, <1>5 DEF Feeding

\* What was fed is only fed more, by a thread that the watcher is the work of.
LEMMA FedGrows ==
  ASSUME Types, [Next]_vars, NEW w \in Watcher
  PROVE  \/ fed'[w] = fed[w]
         \/ \E f \in Feeders :
              /\ Enter(f) /\ This(f) = w /\ w \in Work(f)
              /\ feeder[f].text \in Seq(Letters) /\ fed'[w] = fed[w] \o feeder[f].text
<1>0. feeder \in [Feeders -> Thread] /\ fed \in [Watcher -> Seq(Letters)]
  BY DEF Types, Threads, Tales
<1>1. ASSUME NEW f \in Feeders, Feeding(f), fed'[w] # fed[w]
      PROVE  /\ Enter(f) /\ This(f) = w /\ w \in Work(f)
             /\ feeder[f].text \in Seq(Letters) /\ fed'[w] = fed[w] \o feeder[f].text
  <2>1. Enter(f)
    BY <1>1 DEF Feeding, AskSize, ReadFile, MatchText, Make, AppendText, Search, Advance,
                Check, Add, Emit, Act, Blame
  <2>2. This(f) = w
    BY <1>1, OneWatcher
  <2>3. w \in Work(f)
    BY <2>1, <2>2, From, BusyIs DEF Types, Busy
  <2>4. fed' = [fed EXCEPT ![w] = @ \o feeder[f].text]
    BY <2>1, <2>2 DEF Enter
  <2>5. fed'[w] = fed[w] \o feeder[f].text /\ feeder[f].text \in Seq(Letters)
    BY <1>0, <2>4 DEF Thread
  <2> QED BY <2>1, <2>2, <2>3, <2>5
<1>2. (\E f \in Feeders, text \in Texts : Feed(f, text)) => fed' = fed
  BY DEF Feed
<1> QED BY <1>1, <1>2, OtherSteps

LEMMA FollowedStays ==
  ASSUME Types, [Next]_vars, NEW w \in Watcher, Followed(w)
  PROVE  Followed(w)'
<1>1. Embeds(Watchers[w].order, fed[w]) /\ fed[w] \in Seq(Letters)
  BY DEF Followed, Follows, Types, Tales
<1>2. Watchers[w].order \in Seq(Range(Watchers[w].order))
  BY OrderIs
<1>3. ASSUME NEW text \in Seq(Letters) PROVE Embeds(Watchers[w].order, fed[w] \o text)
  BY <1>1, <1>2, EmbedsLonger
<1>4. Embeds(Watchers[w].order, fed'[w])
  BY <1>1, <1>3, FedGrows
<1> QED BY <1>4 DEF Followed, Follows

LEMMA CrossedGrows == ASSUME [Next]_vars PROVE crossed \subseteq crossed'
<1> USE DEF matching, vars
<1>1. ASSUME NEW f \in Feeders, Feeding(f) PROVE crossed \subseteq crossed'
  BY <1>1 DEF Feeding, AskSize, ReadFile, MatchText, Enter, Make, AppendText, Search, Advance,
              Check, Add, Emit, Act, Blame
<1>2. CASE \E f \in Feeders, text \in Texts : Feed(f, text)
  BY <1>2 DEF Feed
<1> QED BY <1>1, <1>2, OtherSteps

\* A step in which no thread enters or leaves the sequence, or comes to act on it.
LEMMA StoryRests ==
  ASSUME Types, [Next]_vars, NEW w \in Watcher, Story(w),
         state'[w] = state[w] /\ current'[w] = current[w] /\ fed'[w] = fed[w],
         \A f \in Feeders : (IsIn(f, w) => feeder'[f] = feeder[f]) /\ (IsIn(f, w)' => IsIn(f, w)),
         \A f \in Feeders : Acts(f, w)' => Acts(f, w)
  PROVE  Story(w)'
<1>1. Memory(w)' = Memory(w)
  BY DEF Memory
<1>2. \A f \in Feeders : IsIn(f, w) => IsIn(f, w)'
  BY DEF IsIn, This
<1>3. ASSUME NEW f \in Feeders, IsIn(f, w)'
      PROVE  Inside(f, w)' /\ \A g \in Feeders \ {f} : ~IsIn(g, w)'
  <2>1. Inside(f, w) /\ feeder'[f] = feeder[f] /\ \A g \in Feeders \ {f} : ~IsIn(g, w)
    BY <1>3 DEF Story
  <2> QED BY <1>1, <2>1 DEF Inside
<1>4. (\A f \in Feeders : ~IsIn(f, w)') => Outside(w)'
  BY <1>1, <1>2 DEF Story, Outside
<1>5. ASSUME NEW f \in Feeders, Acts(f, w)' PROVE Followed(w)'
  BY <1>5, FollowedStays DEF Story
<1> QED BY <1>3, <1>4, <1>5 DEF Story

\* A thread's step in another watcher's turn, or outside of its sequences.
LEMMA StoryOfOthers ==
  ASSUME Types, NEW f \in Feeders, Feeding(f), [Next]_vars, NEW w \in Watcher, IsSequence(w),
         Story(w), ~Within(f) \/ This(f) # w
  PROVE  Story(w)'
<1>1. state'[w] = state[w] /\ current'[w] = current[w] /\ fed'[w] = fed[w]
  BY OneWatcher
<1>2. \A g \in Feeders \ {f} : feeder'[g] = feeder[g] /\ This(g)' = This(g)
  BY OneMoves DEF This
<1>3. ~IsIn(f, w) /\ ~IsIn(f, w)'
  <2>1. CASE ~Within(f)
    <3>1. feeder[f].at \notin InSequence
      BY <2>1, From DEF Feeding, Within, InSequence
    <3>2. feeder'[f].at \notin InSequence
      BY <2>1, Path DEF Feeding, Within, InSequence
    <3> QED BY <3>1, <3>2 DEF IsIn
  <2>2. CASE This(f) # w
    <3>1. feeder'[f].at \in {"idle", "read", "match", "dead"} \/ This(f)' # w
      BY <2>2, TurnsOver
    <3> QED BY <2>2, <3>1 DEF IsIn, InSequence
  <2> QED BY <2>1, <2>2
<1>4. Acts(f, w)' => Acts(f, w)
  <2> SUFFICES ASSUME Acts(f, w)' PROVE Acts(f, w)
    OBVIOUS
  <2>1. feeder'[f].at \in Acting /\ This(f)' = w
    BY DEF Acts
  <2>2. This(f) = w
    BY <2>1, TurnsOver DEF Acting
  <2>3. ~Within(f) /\ ~MatchText(f)
    BY <2>2 DEF MatchText
  <2>4. ~AskSize(f) /\ ~ReadFile(f)
    BY <2>1, Path DEF Acting
  <2>5. feeder[f].at \in Acting
    BY <2>3, <2>4, From DEF Feeding, Within, Acting
  <2> QED BY <2>2, <2>5 DEF Acts
<1>5. \A g \in Feeders \ {f} :
        /\ IsIn(g, w) => feeder'[g] = feeder[g]
        /\ IsIn(g, w)' => IsIn(g, w)
        /\ Acts(g, w)' => Acts(g, w)
  BY <1>2 DEF IsIn, Acts
<1>6. \A g \in Feeders : (IsIn(g, w) => feeder'[g] = feeder[g]) /\ (IsIn(g, w)' => IsIn(g, w))
  BY <1>3, <1>5
<1>7. \A g \in Feeders : Acts(g, w)' => Acts(g, w)
  BY <1>4, <1>5
<1> QED BY <1>1, <1>6, <1>7, StoryRests

LEMMA FeedStory ==
  ASSUME Types, NEW f \in Feeders, NEW text \in Texts, Feed(f, text), [Next]_vars,
         NEW w \in Watcher, Story(w)
  PROVE  Story(w)'
<1>1. UNCHANGED <<state, current, fed>> /\ feeder[f].at = "idle"
  BY From DEF Feed, matching, flows
<1>2. \A g \in Feeders \ {f} : feeder'[g] = feeder[g] /\ This(g)' = This(g)
  BY OneMoves DEF This
<1>3. feeder'[f].at \in {"idle", "match"}
  BY FeedAt
<1>4. \A g \in Feeders : (IsIn(g, w) => feeder'[g] = feeder[g]) /\ (IsIn(g, w)' => IsIn(g, w))
  BY <1>1, <1>2, <1>3 DEF IsIn, InSequence
<1>5. \A g \in Feeders : Acts(g, w)' => Acts(g, w)
  BY <1>2, <1>3 DEF Acts, Acting
<1> QED BY <1>1, <1>4, <1>5, StoryRests

\* When a thread is in the sequence, it is enough to look at it.
LEMMA StoryInside ==
  ASSUME Types, NEW f \in Feeders, Feeding(f), [Next]_vars, NEW w \in Watcher, Story(w),
         \A g \in Feeders \ {f} : ~IsIn(g, w),
         IsIn(f, w)' => Inside(f, w)', ~IsIn(f, w)' => Outside(w)',
         Acts(f, w)' => Followed(w)'
  PROVE  Story(w)'
<1>1. \A g \in Feeders \ {f} : feeder'[g] = feeder[g] /\ This(g)' = This(g)
  BY OneMoves DEF This
<1>2. \A g \in Feeders \ {f} : ~IsIn(g, w)'
  BY <1>1 DEF IsIn
<1>3. \A g \in Feeders \ {f} : Acts(g, w)' => Followed(w)'
  BY <1>1, FollowedStays DEF Acts, Story
<1> QED BY <1>2, <1>3 DEF Story

LEMMA EnterStory ==
  ASSUME Types, NEW f \in Feeders, Enter(f), [Next]_vars, NEW w \in Watcher, w \notin crossed',
         IsSequence(w), Story(w), This(f) = w
  PROVE  Story(w)'
<1>0. feeder[f] \in Thread /\ Tales /\ Threads
  BY DEF Types, Threads
<1> DEFINE there == IF current[w] = None THEN "make" ELSE "append"
           s == Memory(w)
           order == Watchers[w].order
<1>1. /\ feeder[f].at = "match" /\ UNCHANGED <<state, current>>
      /\ fed' = [fed EXCEPT ![w] = @ \o feeder[f].text]
      /\ feeder' = [feeder EXCEPT ![f].maker = current[w], ![f].at = there]
  BY DEF Enter, At, flows
<1>2. /\ feeder'[f].at = there /\ feeder'[f].todo = feeder[f].todo
      /\ feeder'[f].text = feeder[f].text /\ feeder'[f].maker = current[w]
  BY <1>0, <1>1 DEF Threads, Thread
<1>3. \A g \in Feeders \ {f} : ~IsIn(g, w)
  BY DEF Enter
<1>4. Outside(w)
  <2>1. ~IsIn(f, w)
    BY <1>1 DEF IsIn, InSequence
  <2> QED BY <1>3, <2>1 DEF Story
<1>5. fed'[w] = fed[w] \o feeder[f].text /\ fed[w] \in Seq(Letters) /\ feeder[f].text \in Seq(Letters)
  BY <1>0, <1>1 DEF Tales, Thread
<1>6. Memory(w)' = s /\ current'[w] = current[w]
  BY <1>1 DEF Memory
<1>7. IsIn(f, w)' /\ ~Acts(f, w)'
  BY <1>2 DEF IsIn, This, InSequence, Acts, Acting
<1>8. Embeds(order, fed[w]) => Embeds(order, fed[w] \o feeder[f].text)
  <2>1. order \in Seq(Range(order))
    BY OrderIs
  <2> HIDE DEF order
  <2> QED BY <1>5, <2>1, EmbedsLonger
<1>9. ASSUME NEW r, r.text = feeder[f].text, r.maker = current[w]
      PROVE  Plot(w, there, r, s, current[w], fed[w] \o feeder[f].text)
  <2>1. Plot(w, "away", Idle, s, current[w], fed[w])
    BY <1>4 DEF Outside
  <2> HIDE DEF s
  <2>2. CASE current[w] = None
    BY <1>8, <1>9, <2>1, <2>2 DEF Plot, Untaken, Looking
  <2>3. CASE current[w] # None
    BY <1>8, <1>9, <2>1, <2>3 DEF Plot, Untaken, Looking
  <2> QED BY <2>2, <2>3
<1>10. Inside(f, w)'
  BY <1>2, <1>5, <1>6, <1>9 DEF Inside
<1> QED BY <1>3, <1>7, <1>10, StoryInside DEF Feeding

\* The thread in the sequence, and what it holds.
LEMMA InsideIs ==
  ASSUME Types, NEW f \in Feeders, NEW w \in Watcher, IsSequence(w), Story(w), This(f) = w,
         feeder[f].at \in InSequence
  PROVE  /\ Inside(f, w) /\ \A g \in Feeders \ {f} : ~IsIn(g, w)
         /\ feeder[f] \in Thread /\ Fits(f, feeder[f]) /\ Threads /\ Tales /\ Memory(w) \in Memo
         /\ feeder[f].at # "make" => /\ feeder[f].maker = current[w] /\ current[w] \in Feeders
                                     /\ Held(f) = Memory(w)
<1>1. IsIn(f, w)
  BY DEF IsIn
<1>2. Inside(f, w) /\ \A g \in Feeders \ {f} : ~IsIn(g, w)
  BY <1>1 DEF Story
<1>3. feeder[f] \in Thread /\ Fits(f, feeder[f]) /\ Threads /\ Tales /\ Memory(w) \in Memo
  BY MemoryIs DEF Types, Threads, InTurn
<1>4. ASSUME feeder[f].at # "make"
      PROVE  feeder[f].maker = current[w] /\ current[w] \in Feeders /\ Held(f) = Memory(w)
  <2>1. feeder[f].maker = current[w] /\ current[w] # None
    BY <1>2, <1>4 DEF Inside, Plot, Looking, InSequence
  <2> QED BY <1>3, <2>1 DEF Held, Memory, Tales
<1> QED BY <1>2, <1>3, <1>4

LEMMA MakeStory ==
  ASSUME Types, NEW f \in Feeders, Make(f), [Next]_vars, NEW w \in Watcher,
         IsSequence(w), Story(w), This(f) = w
  PROVE  Story(w)'
<1>1. /\ feeder[f].at = "make" /\ UNCHANGED fed
      /\ current' = [current EXCEPT ![w] = f] /\ state' = [state EXCEPT ![w][f] = Fresh]
      /\ feeder' = [feeder EXCEPT ![f].maker = f, ![f].at = "append"]
  BY DEF Make, At
<1>2. /\ Inside(f, w) /\ (\A g \in Feeders \ {f} : ~IsIn(g, w))
      /\ feeder[f] \in Thread /\ Threads /\ Tales
  BY <1>1, InsideIs DEF InSequence
<1>3. /\ feeder'[f].at = "append" /\ feeder'[f].todo = feeder[f].todo
      /\ feeder'[f].text = feeder[f].text /\ feeder'[f].maker = f
  BY <1>1, <1>2 DEF Threads, Thread
<1>4. IsIn(f, w)' /\ ~Acts(f, w)'
  BY <1>3 DEF IsIn, This, InSequence, Acts, Acting
<1>5. Plot(w, "make", feeder[f], Memory(w), current[w], fed[w])
  BY <1>1, <1>2 DEF Inside
<1>6. Memory(w) = Fresh
  BY <1>5 DEF Plot, Memory
<1>7. f # None
  BY WatchAssumption
<1>8. current'[w] = f /\ Memory(w)' = Fresh
  BY <1>1, <1>2, <1>7 DEF Tales, Memory
<1>9. ASSUME NEW r, r.text = feeder[f].text, r.maker = f
      PROVE  Plot(w, "append", r, Fresh, f, fed[w])
  BY <1>5, <1>6, <1>7, <1>9 DEF Plot, Untaken, Looking
<1>10. Inside(f, w)'
  BY <1>1, <1>3, <1>8, <1>9 DEF Inside
<1> QED BY <1>2, <1>4, <1>10, StoryInside DEF Feeding

LEMMA AppendStory ==
  ASSUME Types, NEW f \in Feeders, AppendText(f), [Next]_vars, NEW w \in Watcher,
         IsSequence(w), Story(w), This(f) = w
  PROVE  Story(w)'
<1> DEFINE s == Memory(w)
           order == Watchers[w].order
<1>1. feeder[f].at = "append" /\ UNCHANGED <<current, fed>>
  BY DEF AppendText, At
<1>2. /\ Inside(f, w) /\ (\A g \in Feeders \ {f} : ~IsIn(g, w))
      /\ feeder[f] \in Thread /\ Threads /\ Tales /\ s \in Memo
      /\ feeder[f].maker = current[w] /\ current[w] \in Feeders /\ Held(f) = s
  BY <1>1, InsideIs DEF InSequence
<1>3. Plot(w, "append", feeder[f], s, current[w], fed[w]) /\ current[w] # None
  BY <1>1, <1>2, WatchAssumption DEF Inside
<1>4. Len(order) \in Nat /\ order \in Seq(Range(order)) /\ feeder[f].text \in Seq(Letters)
  BY <1>2, OrderIs DEF Thread
<1>5. CASE Complete(f)
  <2>1. NextWatcher(f) /\ UNCHANGED state
    BY <1>5 DEF AppendText
  <2>2. ~IsIn(f, w)' /\ ~Acts(f, w)'
    BY <2>1, NextAt DEF IsIn, InSequence, Acts, Acting
  <2>3. Memory(w)' = s
    BY <1>1, <2>1 DEF Memory
  <2>4. s.index = Len(order)
    BY <1>2, <1>3, <1>4, <1>5 DEF Complete, Plot, Grown, Memo
  <2>5. Plot(w, "away", Idle, s, current[w], fed[w])
    BY <1>3, <1>4, <2>4 DEF Plot, Untaken, Looking
  <2>6. Outside(w)'
    BY <1>1, <2>3, <2>5 DEF Outside
  <2> QED BY <1>2, <2>2, <2>6, StoryInside DEF Feeding
<1>6. CASE ~Complete(f)
  <2> DEFINE more == [s EXCEPT !.buffer = @ \o feeder[f].text]
  <2>1. /\ Goes(f, "search")
        /\ state' = [state EXCEPT ![w][current[w]].buffer = @ \o feeder[f].text]
    BY <1>2, <1>6 DEF AppendText
  <2>2. Memory(w)' = more
    <3>1. s = state[w][current[w]]
      BY <1>3 DEF Memory
    <3> QED BY <1>1, <1>2, <1>3, <2>1, <3>1 DEF Tales, Memory
  <2>3. feeder'[f].at = "search" /\ feeder'[f].todo = feeder[f].todo /\ feeder'[f].maker = current[w]
    BY <1>2, <2>1, GoesAt
  <2>4. IsIn(f, w)' /\ ~Acts(f, w)'
    BY <2>3 DEF IsIn, This, InSequence, Acts, Acting
  <2>5. s.index < Len(order) /\ s.index # Len(order)
    BY <1>2, <1>4, <1>6 DEF Complete, Memo
  <2>6. /\ more.index = s.index /\ more.buffer = s.buffer \o feeder[f].text
        /\ more.cursor = s.cursor
    BY <1>2 DEF Memo
  <2>7. Grown(order, more)
    <3>1. Grown(order, s)
      BY <1>3 DEF Plot
    <3> HIDE DEF order, s
    <3> QED BY <1>2, <1>4, <3>1, AppendGrown
  <2>8. fed[w] = more.buffer
    BY <1>3, <2>5, <2>6 DEF Plot, Untaken
  <2> HIDE DEF more, order, s
  <2>9. ASSUME NEW r, r.maker = current[w] PROVE Plot(w, "search", r, more, current[w], fed[w])
    BY <1>3, <2>5, <2>6, <2>7, <2>8, <2>9 DEF Plot, Untaken, Looking, order
  <2>10. Inside(f, w)'
    BY <1>1, <2>2, <2>3, <2>9 DEF Inside
  <2> QED BY <1>2, <2>4, <2>10, StoryInside DEF Feeding
<1> QED BY <1>5, <1>6

LEMMA SearchStory ==
  ASSUME Types, NEW f \in Feeders, Search(f), [Next]_vars, NEW w \in Watcher,
         IsSequence(w), Story(w), This(f) = w
  PROVE  Story(w)'
<1> DEFINE s == Memory(w)
           order == Watchers[w].order
<1>1. feeder[f].at = "search" /\ UNCHANGED <<state, current, fed>>
  BY From DEF Search, matching, flows
<1>2. /\ Inside(f, w) /\ (\A g \in Feeders \ {f} : ~IsIn(g, w))
      /\ feeder[f] \in Thread /\ Threads /\ Tales /\ s \in Memo
      /\ feeder[f].maker = current[w] /\ current[w] \in Feeders /\ Held(f) = s
  BY <1>1, InsideIs DEF InSequence
<1>3. Plot(w, "search", feeder[f], s, current[w], fed[w]) /\ current[w] # None
  BY <1>1, <1>2, WatchAssumption DEF Inside
<1>4. Len(order) \in Nat /\ s.index < Len(order)
  BY <1>3, OrderIs DEF Plot, Looking
<1>5. ~Complete(f)
  BY <1>2, <1>4 DEF Complete, Memo
<1>6. Memory(w)' = s
  BY <1>1 DEF Memory
<1>7. CASE Found(f) = 0
  <2>1. NextWatcher(f)
    BY <1>7 DEF Search
  <2>2. ~IsIn(f, w)' /\ ~Acts(f, w)'
    BY <2>1, NextAt DEF IsIn, InSequence, Acts, Acting
  <2>3. NotAhead(order, s, Len(s.buffer))
    <3> DEFINE at == {i \in s.cursor + 1 .. Len(s.buffer) : s.buffer[i] = order[s.index + 1]}
    <3>1. at \in SUBSET Nat /\ 0 \notin at
      <4>1. s.cursor \in Nat /\ Len(s.buffer) \in Nat
        BY <1>2 DEF Memo
      <4> QED BY <4>1
    <3>2. Found(f) = IF at = {} THEN 0 ELSE Min(at)
      BY <1>2 DEF Found
    <3>3. at # {} => Min(at) \in at
      BY <3>1, Least
    <3>4. at = {}
      BY <1>7, <3>1, <3>2, <3>3
    <3> QED BY <3>4 DEF NotAhead
  <2>4. Searched(order, s)
    BY <2>3 DEF Searched
  <2>5. Plot(w, "away", Idle, s, current[w], fed[w])
    BY <1>3, <2>4 DEF Plot, Untaken, Looking
  <2>6. Outside(w)'
    BY <1>1, <1>6, <2>5 DEF Outside
  <2> QED BY <1>2, <2>2, <2>6, StoryInside DEF Feeding
<1>8. CASE Found(f) # 0
  <2> DEFINE token == Found(f) - s.cursor
  <2>1. feeder' = [feeder EXCEPT ![f].at = "advance", ![f].token = token]
    BY <1>2, <1>5, <1>8 DEF Search
  <2>2. /\ feeder'[f].at = "advance" /\ feeder'[f].todo = feeder[f].todo
        /\ feeder'[f].maker = current[w] /\ feeder'[f].token = token
    BY <1>2, <2>1 DEF Threads, Thread
  <2>3. IsIn(f, w)' /\ ~Acts(f, w)'
    BY <2>2 DEF IsIn, This, InSequence, Acts, Acting
  <2>4. /\ Found(f) \in s.cursor + 1 .. Len(s.buffer)
        /\ s.buffer[Found(f)] = order[s.index + 1]
        /\ \A j \in s.cursor + 1 .. Found(f) - 1 : s.buffer[j] # order[s.index + 1]
    BY <1>1, <1>2, <1>8, FoundIs DEF Types
  <2>5. s.cursor \in Nat /\ Len(s.buffer) \in Nat
    BY <1>2 DEF Memo
  <2> HIDE DEF s, order
  <2>6. s.cursor + token = Found(f) /\ Found(f) <= Len(s.buffer)
    BY <2>4, <2>5
  <2>7. NotAhead(order, s, s.cursor + token - 1)
    <3>1. s.cursor + token - 1 = Found(f) - 1
      BY <2>4, <2>5
    <3> HIDE DEF token
    <3> QED BY <2>4, <3>1 DEF NotAhead
  <2> HIDE DEF token
  <2>8. ASSUME NEW r, r.maker = current[w], r.token = token
        PROVE  Plot(w, "advance", r, s, current[w], fed[w])
    BY <1>3, <1>4, <2>4, <2>6, <2>7, <2>8 DEF Plot, Untaken, Looking, order
  <2>9. Inside(f, w)'
    BY <1>1, <1>6, <2>2, <2>8 DEF Inside
  <2> QED BY <1>2, <2>3, <2>9, StoryInside DEF Feeding
<1> QED BY <1>7, <1>8

LEMMA AdvanceStory ==
  ASSUME Types, NEW f \in Feeders, Advance(f), [Next]_vars, NEW w \in Watcher,
         IsSequence(w), Story(w), This(f) = w
  PROVE  Story(w)'
<1> DEFINE s == Memory(w)
           order == Watchers[w].order
           token == feeder[f].token
           there == IF s.index + 1 >= Len(order) THEN "check" ELSE "search"
           more == [s EXCEPT !.index = @ + 1, !.cursor = @ + token]
<1>1. feeder[f].at = "advance" /\ UNCHANGED <<current, fed>>
  BY DEF Advance, At
<1>2. /\ Inside(f, w) /\ (\A g \in Feeders \ {f} : ~IsIn(g, w))
      /\ feeder[f] \in Thread /\ Fits(f, feeder[f]) /\ Threads /\ Tales /\ s \in Memo
      /\ feeder[f].maker = current[w] /\ current[w] \in Feeders /\ Held(f) = s
  BY <1>1, InsideIs DEF InSequence
<1>3. Plot(w, "advance", feeder[f], s, current[w], fed[w]) /\ current[w] # None
  BY <1>1, <1>2, WatchAssumption DEF Inside
<1>4. /\ Len(order) \in Nat /\ s.index < Len(order) /\ token \in Nat \ {0}
      /\ order \in Seq(Range(order))
  BY <1>1, <1>2, <1>3, OrderIs DEF Plot, Looking, Fits
<1>5. /\ s.cursor + token <= Len(s.buffer)
      /\ s.buffer[s.cursor + token] = order[s.index + 1]
      /\ NotAhead(order, s, s.cursor + token - 1) /\ Grown(order, s)
      /\ fed[w] = s.buffer
  BY <1>3, <1>4 DEF Plot, Untaken
<1>6. /\ state' = [state EXCEPT ![w][current[w]] = more]
      /\ feeder' = [feeder EXCEPT ![f].at = there, ![f].token = None]
  BY <1>2 DEF Advance
<1>7. Memory(w)' = more
  <2> HIDE DEF more
  <2> QED BY <1>1, <1>2, <1>3, <1>6 DEF Tales, Memory
<1>8. feeder'[f].at = there /\ feeder'[f].todo = feeder[f].todo /\ feeder'[f].maker = current[w]
  <2> HIDE DEF there
  <2> QED BY <1>2, <1>6 DEF Threads, Thread
<1>9. This(f)' = w
  BY <1>8 DEF This
<1>10. more.index = s.index + 1 /\ more.buffer = s.buffer /\ more \in Memo
  <2>1. s \in Memo /\ token \in Nat
    BY <1>2, <1>4
  <2> HIDE DEF s, token
  <2>2. more \in Memo
    BY <2>1, MemoMoves
  <2>3. more.index = s.index + 1 /\ more.buffer = s.buffer
    BY <2>1 DEF Memo
  <2> QED BY <2>2, <2>3
<1>11. there \in {"check", "search"} /\ (there = "check" <=> more.index >= Len(order))
  BY <1>10
<1> HIDE DEF s, order, token, there, more
<1>12. more.index <= Len(order) /\ more.index \in Nat
  <2>1. s.index \in Nat /\ s.index < Len(order) /\ Len(order) \in Nat
    BY <1>2, <1>4 DEF Memo
  <2> QED BY <1>10, <2>1
<1>13. Grown(order, more)
  BY <1>2, <1>4, <1>5, AdvanceGrown DEF more
<1>14. more.index = Len(order) => Embeds(order, more.buffer)
  BY <1>4, <1>10, <1>13, GrownFollows
<1>15. CASE more.index = Len(order)
  <2>1. there = "check" /\ ~(more.index < Len(order))
    BY <1>4, <1>11, <1>15
  <2>2. Searched(order, more)
    BY <2>1 DEF Searched
  <2>3. Plot(w, "away", Idle, more, current[w], fed[w])
    BY <1>5, <1>10, <1>13, <1>14, <1>15, <2>1, <2>2 DEF Plot, Untaken, Looking, order
  <2>4. Outside(w)'
    BY <1>1, <1>7, <2>3 DEF Outside
  <2>5. ~IsIn(f, w)'
    BY <1>8, <2>1 DEF IsIn, InSequence
  <2>6. Followed(w)'
    BY <1>1, <1>5, <1>10, <1>14, <1>15 DEF Followed, Follows, order
  <2> QED BY <1>2, <2>4, <2>5, <2>6, StoryInside DEF Feeding
<1>16. CASE more.index # Len(order)
  <2>1. there = "search" /\ more.index < Len(order)
    BY <1>4, <1>11, <1>12, <1>16
  <2>2. ASSUME NEW r, r.maker = current[w] PROVE Plot(w, "search", r, more, current[w], fed[w])
    BY <1>3, <1>5, <1>10, <1>13, <1>16, <2>1, <2>2 DEF Plot, Untaken, Looking, order
  <2>3. Inside(f, w)'
    BY <1>1, <1>7, <1>8, <2>1, <2>2 DEF Inside
  <2>4. IsIn(f, w)' /\ ~Acts(f, w)'
    BY <1>8, <1>9, <2>1 DEF IsIn, InSequence, Acts, Acting
  <2> QED BY <1>2, <2>3, <2>4, StoryInside DEF Feeding
<1> QED BY <1>15, <1>16

LEMMA StoriesStay ==
  ASSUME Types, Stories, [Next]_vars
  PROVE  Stories'
<1> SUFFICES ASSUME NEW w \in Watcher \ crossed', IsSequence(w) PROVE Story(w)'
  BY DEF Stories, IsSequence
<1>0. Story(w) /\ w \in Watcher
  BY CrossedGrows DEF Stories
<1>1. ASSUME NEW f \in Feeders, Feeding(f) PROVE Story(w)'
  <2>1. CASE ~Within(f) \/ This(f) # w
    BY <1>0, <1>1, <2>1, StoryOfOthers
  <2>2. CASE Within(f) /\ This(f) = w
    BY <1>0, <2>2, EnterStory, MakeStory, AppendStory, SearchStory, AdvanceStory DEF Within
  <2> QED BY <2>1, <2>2
<1>2. ASSUME NEW f \in Feeders, NEW text \in Texts, Feed(f, text) PROVE Story(w)'
  BY <1>0, <1>2, FeedStory
<1>3. CASE UNCHANGED <<feeder, source, fed, matching>>
  BY <1>0, <1>3, StoryRests DEF IsIn, Acts, This, matching, flows
<1> QED BY <1>1, <1>2, <1>3, OtherSteps

LEMMA InitStories == Init => Stories
<1> SUFFICES ASSUME Init, NEW w \in Watcher, IsSequence(w) PROVE Story(w)
  BY DEF Stories
<1>1. Memory(w) = Fresh /\ current[w] = None /\ fed[w] = <<>>
  BY DEF Init, Memory
<1>2. \A f \in Feeders : feeder[f].at = "idle"
  BY IdleIsThread DEF Init
<1>3. Grown(Watchers[w].order, Fresh) /\ Searched(Watchers[w].order, Fresh)
  BY OrderIs, FreshGrown
<1>4. Fresh.index = 0 /\ Fresh.buffer = <<>>
  BY DEF Fresh
<1>5. Len(Watchers[w].order) # 0
  BY OrderIs DEF IsSequence
<1>6. Outside(w)
  BY <1>1, <1>3, <1>4, <1>5 DEF Outside, Plot, Untaken, Looking
<1> QED BY <1>2, <1>6 DEF Story, IsIn, InSequence, Acts, Acting

LEMMA CompletesStays ==
  ASSUME Types, Stories, CompletesInOrder, [Next]_vars
  PROVE  CompletesInOrder'
<1> SUFFICES ASSUME NEW w \in Watcher, IsSequence(w), Fired(w)' # {}, w \notin crossed'
             PROVE  Followed(w)'
  BY DEF CompletesInOrder, IsSequence
<1>0. w \notin crossed
  BY CrossedGrows
<1>1. ASSUME Fired(w) # {} PROVE Followed(w)'
  BY <1>0, <1>1, FollowedStays DEF CompletesInOrder
<1>2. ASSUME NEW entry, Logs(entry), entry[1] # w \/ entry[2] = "missing" PROVE Followed(w)'
  <2>1. PICK i \in Matches' : log'[i][1] = w
    BY DEF Fired, Matches
  <2>2. i \in Matches /\ log[i][1] = w
    BY <1>2, <2>1, MatchesGrow
  <2> QED BY <1>1, <2>2, FiredIs
<1>3. ASSUME NEW f \in Feeders, Emit(f), Logs(Append(Digest(f), f)) PROVE Followed(w)'
  <2>1. CASE This(f) # w
    BY <1>2, <1>3, <2>1, EntryIs
  <2>2. CASE This(f) = w
    <3>1. Acts(f, w)
      BY <1>3, <2>2, From DEF Acts, Acting
    <3>2. Followed(w)
      BY <1>0, <3>1 DEF Stories, Story
    <3> QED BY <3>2, FollowedStays
  <2> QED BY <2>1, <2>2
<1>4. ASSUME NEW v, Logs(<<v, "missing", None, None>>) PROVE Followed(w)'
  BY <1>2, <1>4
<1>5. CASE UNCHANGED log
  <2>1. Fired(w)' = Fired(w)
    BY <1>5 DEF Fired
  <2> QED BY <1>1, <2>1
<1> QED BY <1>3, <1>4, <1>5, LogMoves

\* A sequence fires only after its patterns came up in their order, over any number of
\* texts and threads, unless two threads were in it at once.
THEOREM CompletesInOrderHolds == Spec => []CompletesInOrder
<1>1. Init => Stories /\ CompletesInOrder
  BY InitStories DEF Init, CompletesInOrder, Fired
<1>2. Types /\ Stories /\ CompletesInOrder /\ [Next]_vars => (Stories /\ CompletesInOrder)'
  BY StoriesStay, CompletesStays
<1> QED BY TypesHold, <1>1, <1>2, PTL DEF Spec

-----------------------------------------------------------------------------
(* What is judged when the stage ends.                                      *)

Done(w) == current[w] # None /\ state[w][current[w]].index = Len(Watchers[w].order)

\* What the state of a sequence that no thread is in says of all that it was fed.
LEMMA StoryTold ==
  ASSUME Types, Stories, NEW w \in Watcher \ crossed, IsSequence(w),
         \A f \in Feeders : ~IsIn(f, w)
  PROVE  /\ Followed(w) => Done(w)
         /\ ~Followed(w) /\ fed[w] # <<>> => Missing(w)
<1> DEFINE order == Watchers[w].order
           s == Memory(w)
<1>1. order \in Seq(Range(order)) /\ Len(order) \in Nat /\ Len(order) # 0
  BY OrderIs DEF IsSequence
<1>2. Plot(w, "away", Idle, s, current[w], fed[w])
  BY DEF Stories, Story, Outside
<1>3. /\ Grown(order, s) /\ Searched(order, s)
      /\ s.index < Len(order) => fed[w] = s.buffer
      /\ s.index = Len(order) => Embeds(order, fed[w])
  BY <1>2 DEF Plot, Untaken, Looking
<1>4. s \in Memo
  BY MemoryIs
<1>5. s.index <= Len(order) /\ s.index \in Nat
  BY <1>3, <1>4 DEF Grown, Memo
<1>6. s.index < Len(order) => ~Embeds(order, fed[w])
  BY <1>1, <1>3, <1>4, GrownFollowsNot
<1>7. current[w] = None => s.index < Len(order) /\ fed[w] = <<>>
  <2>1. Fresh.index = 0 /\ Fresh.buffer = <<>>
    BY DEF Fresh
  <2> QED BY <1>1, <1>3, <2>1 DEF Memory
<1>8. current[w] # None => s = state[w][current[w]]
  BY DEF Memory
<1> HIDE DEF s
<1> QED BY <1>1, <1>3, <1>5, <1>6, <1>7, <1>8 DEF Followed, Follows, Done, Missing

Followers(w) == {f \in late : w \in Work(f)}

\* The sequences that finalize has judged.
Tried(w) ==
  /\ w \in Judged \ (left \cup crossed)
  /\ Watchers[w].missing = "fail" /\ fed[w] # <<>> /\ Followers(w) = {}

Trial == stage # "open" => \A w : Tried(w) => Followed(w) \/ (abort /\ reason # None)

Read == stage = "over" => told = reason

\* Of a watcher whose feeders stop did not leave behind, none is in its sequence.
LEMMA NobodyIn ==
  ASSUME Types, Rested, stage # "open", NEW w, Followers(w) = {}, NEW f \in Feeders
  PROVE  feeder[f].at \in Busy => This(f) # w
<1> SUFFICES ASSUME feeder[f].at \in Busy, This(f) = w PROVE FALSE
  OBVIOUS
<1>1. w \in Work(f)
  BY BusyIs DEF Types
<1>2. ~Resting(f)
  BY DEF Resting, Busy, InSequence
<1> QED BY <1>1, <1>2 DEF Rested, Followers

LEMMA JudgeTrial ==
  ASSUME Types, Queued, Rested, Stories, Trial, Judge, [Next]_vars
  PROVE  Trial'
<1>0. /\ UNCHANGED <<fed, crossed, late>> /\ stage # "open" /\ left # {}
      /\ Min(left) \in Watcher /\ Min(left) # None
  <2>1. left # {} /\ stage = "final" /\ UNCHANGED <<fed, crossed, late>>
    BY DEF Judge, matching
  <2> QED BY <2>1, LeastWatcher DEF Queued
<1>1. \A w : Followed(w)' <=> Followed(w)
  BY <1>0 DEF Followed, Follows
<1>2. abort /\ reason # None => abort' /\ reason' # None
  BY DEF Judge, outcome
<1>3. ASSUME NEW w, Tried(w)', Tried(w) PROVE Followed(w)' \/ (abort' /\ reason' # None)
  BY <1>0, <1>1, <1>2, <1>3 DEF Trial
<1>4. ASSUME NEW w, Tried(w)', ~Tried(w) PROVE Followed(w)' \/ (abort' /\ reason' # None)
  <2>1. /\ w \in Judged \ (left' \cup crossed) /\ fed[w] # <<>> /\ Followers(w) = {}
        /\ Watchers[w].missing = "fail"
    BY <1>0, <1>4 DEF Tried, Followers, Judged, Allowed, IsSequence, Work, Phase
  <2>2. w \in left /\ w \notin left'
    BY <1>4, <2>1 DEF Tried
  <2>3. w = Min(left) /\ left' = left \ {w}
    BY <2>2 DEF Judge
  <2>4. w \in Watcher \ crossed /\ IsSequence(w)
    BY <2>1 DEF Judged
  <2>5. \A f \in Feeders : ~IsIn(f, w)
    BY <1>0, <2>1, NobodyIn DEF IsIn, Busy
  <2>6. Followed(w) \/ Missing(w)
    BY <2>1, <2>4, <2>5, StoryTold
  <2>7. CASE Missing(w)
    <3>1. left' # left
      BY <2>2
    <3>2. abort' = (abort \/ TRUE) /\ reason' = IF reason = None /\ TRUE THEN w ELSE reason
      BY <2>1, <2>3, <2>7, <3>1 DEF Judge
    <3> QED BY <1>0, <2>3, <3>2
  <2> QED BY <1>1, <2>6, <2>7
<1> QED BY <1>3, <1>4 DEF Trial

\* A reason that was given stays, and so does the abort.
LEMMA ReasonStays ==
  ASSUME [Next]_vars, abort, reason # None
  PROVE  abort' /\ reason' # None
<1>1. CASE \E f \in Feeders : Act(f) \/ Blame(f)
  BY <1>1 DEF Act, Blame
<1>2. CASE Judge
  BY <1>2 DEF Judge, outcome
<1>3. CASE UNCHANGED <<abort, reason>>
  BY <1>3
<1> QED BY <1>1, <1>2, <1>3, LogMoves

\* What threads do behind stop does not touch what was judged.
LEMMA ThreadTrial ==
  ASSUME Types, Rested, Trial, [Next]_vars, stage # "open", UNCHANGED left
  PROVE  Trial'
<1>1. late \subseteq late' /\ crossed \subseteq crossed'
  BY RestedStays, CrossedGrows
<1>2. ASSUME NEW w, Tried(w)' PROVE Followed(w)' \/ (abort' /\ reason' # None)
  <2>1. /\ w \in Judged \ (left \cup crossed) /\ Watchers[w].missing = "fail"
        /\ fed'[w] # <<>> /\ Followers(w) = {}
    BY <1>1, <1>2 DEF Tried, Followers, Judged, Allowed, IsSequence, Work, Phase
  <2>2. w \in Watcher
    BY <2>1 DEF Judged
  <2>3. fed'[w] = fed[w]
    <3> SUFFICES ASSUME NEW f \in Feeders, Enter(f), This(f) = w PROVE FALSE
      BY <2>2, FedGrows
    <3>1. feeder[f].at \in Busy
      BY From DEF Busy
    <3> QED BY <2>1, <3>1, NobodyIn
  <2>4. Tried(w)
    BY <2>1, <2>3 DEF Tried
  <2> QED BY <2>2, <2>4, FollowedStays, ReasonStays DEF Trial
<1> QED BY <1>2 DEF Trial

LEMMA TrialStays ==
  ASSUME Types, Queued, Rested, Stories, Trial, [Next]_vars
  PROVE  Trial'
<1> USE DEF ending
<1>1. CASE Judge
  BY <1>1, JudgeTrial
<1>2. CASE Stop
  <2>1. left' = Judged
    BY <1>2 DEF Stop
  <2> QED BY <2>1 DEF Trial, Tried, Judged, Allowed, IsSequence
<1>3. CASE ~Judge /\ ~Stop
  <2>1. UNCHANGED left /\ (stage = "open" => stage' = "open")
    BY <1>3 DEF Next, Feeding, AskSize, ReadFile, MatchText, Enter, Make, AppendText, Search,
                Advance, Check, Add, Emit, Act, Blame, Feed, Tell, vars
  <2>2. CASE stage = "open"
    BY <2>1, <2>2 DEF Trial
  <2> QED BY <2>1, <2>2, ThreadTrial
<1> QED BY <1>1, <1>2, <1>3

LEMMA ReadStays == ASSUME Read, [Next]_vars PROVE Read'
<1>1. CASE Tell
  BY <1>1 DEF Tell, Read, outcome
<1>2. CASE stage = "over" /\ ~Tell
  <2>1. UNCHANGED vars
    BY <1>2 DEF Next, Stop, Judge
  <2> QED BY <2>1 DEF vars, outcome, ending, Read
<1>3. CASE stage # "over" /\ ~Tell
  <2>1. stage' # "over"
    BY <1>3 DEF Next, Feeding, AskSize, ReadFile, MatchText, Enter, Make, AppendText, Search,
                Advance, Check, Add, Emit, Act, Blame, Feed, Stop, Judge, ending, vars
  <2> QED BY <2>1 DEF Read
<1> QED BY <1>1, <1>2, <1>3

\* A sequence that was begun, and that no thread feeds behind stop, has completed or
\* the stage has failed with a reason, once finalize has judged it.
THEOREM BegunIsMissedHolds == Spec => []BegunIsMissed
<1>1. Init => Queued /\ Rested /\ Stories /\ Trial /\ Read
  BY InitStories DEF Init, Queued, Rested, Trial, Read
<1>2. Types /\ Queued /\ Rested /\ Stories /\ Trial /\ Read /\ [Next]_vars
        => (Queued /\ Rested /\ Stories /\ Trial /\ Read)'
  BY QueuedStays, RestedStays, StoriesStay, TrialStays, ReadStays
<1>3. Trial /\ Read => BegunIsMissed
  BY DEF Trial, Read, BegunIsMissed, Tried, Followers
<1> QED BY TypesHold, <1>1, <1>2, <1>3, PTL DEF Spec

-----------------------------------------------------------------------------
(* The file that is read while it grows.                                    *)

\* What the first watcher of a reader was fed, the text that it is about to take in
\* included.
Heard(f, w) ==
  IF feeder[f].at = "match" /\ feeder[f].todo = Work(f) THEN fed[w] \o feeder[f].text
  ELSE fed[w]

FirstFlow(f, w) == w \in Work(f) /\ w = Min(Work(f)) /\ IsSequence(w) /\ FedByOne(w)

Asked ==
  \A f \in Readers : feeder[f].at = "read" =>
    feeder[f].start \in {0, offset} /\ offset <= feeder[f].size /\ feeder[f].size <= Len(file)

AllHeard ==
  \A f \in Readers : \A w \in Work(f) :
    FirstFlow(f, w) => Embeds(SubSeq(file, 1, offset), Heard(f, w))

\* Until the file is truncated, what counts as read was fed.
FileRead == cuts \in Nat /\ (cuts = 0 => offset <= Len(file) /\ Asked /\ AllHeard)

\* A text that has grown begins as it did before.
LEMMA GrownText ==
  ASSUME NEW S, NEW s \in Seq(S), NEW t \in Seq(S), IsPrefix(s, t), NEW n \in Nat, n <= Len(s)
  PROVE  Len(s) <= Len(t) /\ SubSeq(t, 1, n) = SubSeq(s, 1, n)
<1>1. Len(s) <= Len(t) /\ SubSeq(s, 1, Len(s)) = SubSeq(t, 1, Len(s))
  BY DEF IsPrefix
<1>2. Len(s) \in Nat /\ Len(t) \in Nat
  OBVIOUS
<1>3. ASSUME NEW i \in 1 .. Len(s) PROVE t[i] = s[i]
  <2>1. SubSeq(s, 1, Len(s))[i] = s[i] /\ SubSeq(t, 1, Len(s))[i] = t[i]
    BY <1>1, <1>2
  <2> QED BY <1>1, <2>1
<1> QED BY <1>1, <1>2, <1>3

\* A change of the file that does not truncate it.
LEMMA FileGrows ==
  ASSUME Types, FileRead, FileChanges, cuts = 0, cuts' = 0
  PROVE  /\ file' \in Seq(Letters) /\ file \in Seq(Letters)
         /\ Len(file) \in Nat /\ Len(file') \in Nat /\ Len(file) <= Len(file')
         /\ SubSeq(file', 1, offset) = SubSeq(file, 1, offset)
<1>1. file \in Seq(Letters) /\ file' \in Seq(Letters) /\ offset \in Nat /\ offset <= Len(file)
  BY TextsAreLetters DEF FileChanges, Types, Tales, FileRead
<1>2. IsPrefix(file, file')
  BY DEF FileChanges
<1> QED BY <1>1, <1>2, GrownText

\* The steps in which a thread comes to read, or to match a text.
LEMMA ReadPath ==
  ASSUME Types, NEW f \in Feeders, Feeding(f)
  PROVE  \/ AskSize(f) \/ ReadFile(f)
         \/ /\ UNCHANGED source
            /\ NextWatcher(f) \/ feeder'[f].at \notin {"read", "match"}
<1>1. CASE MatchText(f) \/ AppendText(f) \/ Search(f) \/ Check(f) \/ Act(f)
  <2>1. UNCHANGED source
    BY <1>1 DEF MatchText, AppendText, Search, Check, Act
  <2>2. feeder \in [Feeders -> Thread]
    BY DEF Types, Threads
  <2>3. NextWatcher(f) \/ feeder'[f].at \notin {"read", "match"}
    BY <1>1, <2>2, GoesAt, IdleAt, RaisesAt DEF MatchText, AppendText, Search, Check, Act, Thread
  <2> QED BY <2>1, <2>3
<1>2. CASE Enter(f) \/ Make(f) \/ Advance(f) \/ Add(f) \/ Emit(f) \/ Blame(f)
  <2>1. UNCHANGED source
    BY <1>2 DEF Enter, Make, Advance, Add, Emit, Blame
  <2> QED BY <1>2, <2>1, Path
<1> QED BY <1>1, <1>2 DEF Feeding

\* A step that leaves the file and what is read of it alone.
LEMMA OtherRead ==
  ASSUME Types, FileRead, [Next]_vars, cuts = 0, UNCHANGED source,
         \A f \in Readers : \/ feeder'[f] = feeder[f]
                            \/ /\ feeder'[f].at # "read"
                               /\ feeder'[f].at = "match" => feeder'[f].todo # Work(f)
  PROVE  offset' <= Len(file') /\ Asked' /\ AllHeard'
<1>0. UNCHANGED <<file, offset>>
  BY DEF source
<1>1. Asked'
  BY <1>0 DEF FileRead, Asked
<1>2. ASSUME NEW f \in Readers, NEW w \in Work(f), FirstFlow(f, w)
      PROVE  Embeds(SubSeq(file, 1, offset), Heard(f, w)')
  <2>0. w \in Watcher /\ f \in Feeders
    BY WorkIsWatchers, WatchAssumption
  <2>1. fed[w] \in Seq(Letters) /\ feeder[f].text \in Seq(Letters)
    BY <2>0 DEF Types, Tales, Threads, Thread
  <2>2. Embeds(SubSeq(file, 1, offset), Heard(f, w))
    BY <1>2 DEF FileRead, AllHeard
  <2>3. SubSeq(file, 1, offset) \in Seq(Letters)
    BY DEF Types, Tales, FileRead
  <2>4. \/ fed'[w] = fed[w]
        \/ Enter(f) /\ fed'[w] = fed[w] \o feeder[f].text
    BY <1>2, <2>0, FedGrows DEF FirstFlow, FedByOne
  <2>5. CASE feeder'[f] = feeder[f]
    <3>1. ~Enter(f)
      BY <2>0, <2>5, From, Path DEF Feeding
    <3>2. Heard(f, w)' = Heard(f, w)
      BY <2>4, <2>5, <3>1 DEF Heard, Work, Phase, Allowed
    <3> QED BY <2>2, <3>2
  <2>6. CASE feeder'[f] # feeder[f]
    <3>1. Heard(f, w)' = fed'[w]
      BY <2>6 DEF Heard, Work, Phase, Allowed
    <3>2. ASSUME feeder[f].at = "match", feeder[f].todo = Work(f)
          PROVE  Enter(f) /\ fed'[w] = fed[w] \o feeder[f].text
      <4>1. PICK g \in Feeders : Feeding(g) \/ \E text \in Texts : Feed(g, text)
        BY <2>6, OtherSteps
      <4>2. g = f
        BY <2>0, <2>6, <4>1, OneMoves
      <4>3. This(f) = w /\ IsSequence(w)
        BY <1>2, <3>2 DEF This, FirstFlow
      <4>4. Enter(f)
        BY <3>2, <4>1, <4>2, <4>3, From DEF Feeding, MatchText
      <4>5. fed' = [fed EXCEPT ![w] = @ \o feeder[f].text]
        BY <4>3, <4>4 DEF Enter
      <4> QED BY <2>0, <4>4, <4>5 DEF Types, Tales
    <3>3. CASE feeder[f].at = "match" /\ feeder[f].todo = Work(f)
      BY <2>2, <3>1, <3>2, <3>3 DEF Heard
    <3>4. CASE Heard(f, w) = fed[w]
      BY <2>1, <2>2, <2>3, <2>4, <3>1, <3>4, EmbedsLonger
    <3> QED BY <3>3, <3>4 DEF Heard
  <2> QED BY <2>5, <2>6
<1>3. AllHeard'
  BY <1>0, <1>2 DEF AllHeard, FirstFlow, FedByOne, Work, Phase, Allowed, IsSequence
<1> QED BY <1>0, <1>1, <1>3 DEF FileRead

\* A poll that asks for the file's size.
LEMMA AskRead ==
  ASSUME Types, FileRead, OneReader, NEW f \in Feeders, AskSize(f), cuts = 0, cuts' = 0
  PROVE  offset' <= Len(file') /\ Asked' /\ AllHeard'
<1>0. feeder \in [Feeders -> Thread] /\ offset \in Nat /\ offset <= Len(file)
  BY DEF Types, Threads, Tales, FileRead
<1>1. /\ f \in Readers /\ feeder[f].at = "idle" /\ UNCHANGED <<offset, fed>> /\ FileChanges
      /\ feeder' = [feeder EXCEPT ![f] = [Idle EXCEPT !.at = "read", !.size = Len(file'),
                                                      !.start = Start(f, Len(file'))]]
  BY DEF AskSize, At
<1>2. /\ Len(file) \in Nat /\ Len(file') \in Nat /\ Len(file) <= Len(file')
      /\ SubSeq(file', 1, offset) = SubSeq(file, 1, offset)
  BY <1>1, FileGrows
<1>3. /\ feeder'[f].at = "read" /\ feeder'[f].size = Len(file')
      /\ feeder'[f].start = Start(f, Len(file'))
  <2> DEFINE size == Len(file')
             start == Start(f, Len(file'))
  <2>1. feeder'[f] = [Idle EXCEPT !.at = "read", !.size = size, !.start = start]
    BY <1>0, <1>1
  <2> HIDE DEF size, start
  <2>2. feeder'[f].at = "read" /\ feeder'[f].size = size /\ feeder'[f].start = start
    BY <2>1 DEF Idle
  <2> QED BY <2>2 DEF size, start
<1>4. Start(f, Len(file')) \in {0, offset}
  BY DEF Start
<1>5. \A g \in Readers : g = f
  BY <1>1 DEF OneReader
<1>6. Asked'
  BY <1>0, <1>1, <1>2, <1>3, <1>4, <1>5 DEF Asked
<1>7. AllHeard'
  <2> SUFFICES ASSUME NEW w \in Work(f), FirstFlow(f, w)
               PROVE  Embeds(SubSeq(file, 1, offset)', Heard(f, w)')
    BY <1>5 DEF AllHeard, FirstFlow, FedByOne, Work, Phase, Allowed, IsSequence
  <2>1. Heard(f, w) = fed[w] /\ Heard(f, w)' = fed[w]
    BY <1>1, <1>3 DEF Heard
  <2> QED BY <1>1, <1>2, <2>1 DEF FileRead, AllHeard
<1> QED BY <1>0, <1>1, <1>2, <1>6, <1>7

\* A poll that reads: what it hands on holds all that is new of what then counts as read.
LEMMA ReadRead ==
  ASSUME Types, FileRead, OneReader, NEW f \in Feeders, ReadFile(f), cuts = 0, cuts' = 0
  PROVE  offset' <= Len(file') /\ Asked' /\ AllHeard'
<1>0. /\ feeder \in [Feeders -> Thread] /\ offset \in Nat
      /\ feeder[f].size \in Nat /\ feeder[f].start \in Nat
  BY DEF Types, Threads, Tales, Thread
<1>1. f \in Readers /\ feeder[f].at = "read" /\ UNCHANGED fed /\ FileChanges
  BY DEF ReadFile, At, Types, InTurn, Fits
<1>2. /\ feeder[f].start \in {0, offset} /\ offset <= feeder[f].size
      /\ feeder[f].size <= Len(file) /\ offset <= Len(file)
  BY <1>1 DEF FileRead, Asked
<1>3. /\ Len(file) \in Nat /\ Len(file') \in Nat /\ Len(file) <= Len(file')
      /\ SubSeq(file', 1, offset) = SubSeq(file, 1, offset) /\ file' \in Seq(Letters)
  BY <1>1, FileGrows
<1>4. \A g \in Readers : g = f
  BY <1>1 DEF OneReader
<1>5. ASSUME NEW w \in Work(f), FirstFlow(f, w)
      PROVE  Embeds(SubSeq(file', 1, offset), fed[w]) /\ fed[w] \in Seq(Letters)
  <2>1. Heard(f, w) = fed[w]
    BY <1>1 DEF Heard
  <2>2. fed[w] \in Seq(Letters)
    BY WorkIsWatchers DEF Types, Tales
  <2> QED BY <1>1, <1>3, <1>5, <2>1, <2>2 DEF FileRead, AllHeard
<1>6. CASE NothingRead(f)
  <2>1. feeder'[f].at = "idle" /\ offset' = offset
    BY <1>6, IdleAt DEF NothingRead
  <2>2. AllHeard'
    <3> SUFFICES ASSUME NEW w \in Work(f), FirstFlow(f, w)
                 PROVE  Embeds(SubSeq(file, 1, offset)', Heard(f, w)')
      BY <1>4 DEF AllHeard, FirstFlow, FedByOne, Work, Phase, Allowed, IsSequence
    <3>1. Heard(f, w)' = fed[w]
      BY <1>1, <2>1 DEF Heard
    <3> QED BY <1>5, <2>1, <3>1
  <2>3. Asked'
    BY <1>4, <2>1 DEF Asked
  <2> QED BY <1>0, <1>2, <1>3, <2>1, <2>2, <2>3
<1>7. CASE offset' = feeder[f].size /\ Takes(f, Chunk(f, file'))
  <2>1. Chunk(f, file') \in Seq(Letters)
    BY <1>0, <1>3 DEF Chunk
  <2>2. feeder'[f].at # "read"
    BY <1>7, <2>1, TakesAt
  <2>3. AllHeard'
    <3> SUFFICES ASSUME NEW w \in Work(f), FirstFlow(f, w)
                 PROVE  Embeds(SubSeq(file, 1, offset)', Heard(f, w)')
      BY <1>4 DEF AllHeard, FirstFlow, FedByOne, Work, Phase, Allowed, IsSequence
    <3>1. feeder'[f] = [Idle EXCEPT !.at = "match", !.text = Chunk(f, file'), !.todo = Work(f)]
      BY <1>0, <1>7 DEF Takes, Turns
    <3>2. /\ feeder'[f].at = "match" /\ feeder'[f].todo = Work(f)
          /\ feeder'[f].text = Chunk(f, file')
      BY <3>1 DEF Idle
    <3>3. Heard(f, w)' = fed[w] \o SubSeq(file', feeder[f].start + 1, Len(file'))
      BY <1>1, <3>2 DEF Heard, Chunk, Work, Phase, Allowed
    <3>4. Embeds(SubSeq(file', 1, feeder[f].size),
                 fed[w] \o SubSeq(file', feeder[f].start + 1, Len(file')))
      <4> DEFINE size == feeder[f].size
                 start == feeder[f].start
      <4>1. /\ size \in Nat /\ start \in Nat /\ offset \in Nat /\ offset <= size
            /\ size <= Len(file') /\ start \in {0, offset}
        BY <1>0, <1>2, <1>3
      <4>2. Embeds(SubSeq(file', 1, offset), fed[w]) /\ fed[w] \in Seq(Letters)
        BY <1>5
      <4> HIDE DEF size, start
      <4>3. Embeds(SubSeq(file', 1, size), fed[w] \o SubSeq(file', start + 1, Len(file')))
        BY <1>3, <4>1, <4>2, EmbedsNext
      <4> QED BY <4>3 DEF size, start
    <3> QED BY <1>7, <3>3, <3>4
  <2>4. Asked'
    BY <1>4, <2>2 DEF Asked
  <2> QED BY <1>0, <1>2, <1>3, <1>7, <2>3, <2>4
<1> QED BY <1>6, <1>7 DEF ReadFile

\* The watchers that are left are not all of them.
LEMMA NextIsNotFirst ==
  ASSUME Types, NEW f \in Feeders, NextWatcher(f), feeder[f].todo # {}
  PROVE  /\ feeder'[f].at # "read"
         /\ feeder'[f].at = "match" => feeder'[f].todo # Work(f)
<1> DEFINE todo == feeder[f].todo \ {This(f)}
<1>1. feeder[f].text \in Seq(Letters) /\ todo \in SUBSET Work(f)
  BY DEF Types, Threads, Thread, InTurn, Fits
<1>2. This(f) \in Work(f)
  BY ThisIs DEF Types
<1>3. todo # Work(f) /\ feeder'[f] = Turns(feeder[f].text, todo)
  BY <1>2 DEF NextWatcher, Types, Threads
<1> HIDE DEF todo
<1> QED BY <1>1, <1>3, TurnsIs

LEMMA FileReadStays ==
  ASSUME Types, FileRead, OneReader, [Next]_vars
  PROVE  FileRead'
<1>0. Readers \subseteq Feeders
  BY WatchAssumption
<1>1. ASSUME NEW f \in Feeders, Feeding(f), ~AskSize(f), ~ReadFile(f), cuts = 0
      PROVE  UNCHANGED source /\ offset' <= Len(file') /\ Asked' /\ AllHeard'
  <2>1. UNCHANGED source /\ (NextWatcher(f) \/ feeder'[f].at \notin {"read", "match"})
    BY <1>1, ReadPath
  <2>2. feeder[f].todo # {}
    <3>1. feeder[f].at \in Busy
      BY <1>1, From DEF Feeding, Busy, InSequence
    <3> QED BY <3>1, BusyIs DEF Types
  <2>3. /\ feeder'[f].at # "read"
        /\ feeder'[f].at = "match" => feeder'[f].todo # Work(f)
    BY <2>1, <2>2, NextIsNotFirst
  <2>4. \A g \in Readers \ {f} : feeder'[g] = feeder[g]
    BY <1>0, <1>1, OneMoves
  <2> QED BY <1>1, <2>1, <2>3, <2>4, OtherRead
<1>2. ASSUME NEW f \in Feeders, NEW text \in Texts, Feed(f, text), cuts = 0
      PROVE  offset' <= Len(file') /\ Asked' /\ AllHeard'
  <2>1. UNCHANGED source /\ f \notin Readers
    BY <1>2 DEF Feed
  <2>2. \A g \in Readers : feeder'[g] = feeder[g]
    BY <1>0, <1>2, <2>1, OneMoves
  <2> QED BY <1>2, <2>1, <2>2, OtherRead
<1>3. ASSUME UNCHANGED <<feeder, source, fed, matching>>, cuts = 0
      PROVE  offset' <= Len(file') /\ Asked' /\ AllHeard'
  BY <1>3, OtherRead
<1>4. cuts' \in Nat /\ (cuts' = 0 => cuts = 0)
  <2>1. cuts' = cuts \/ cuts' = cuts + 1
    <3>1. ASSUME NEW f \in Feeders, Feeding(f) PROVE cuts' = cuts \/ cuts' = cuts + 1
      BY <3>1 DEF Feeding, AskSize, ReadFile, FileChanges, MatchText, Enter, Make, AppendText,
                  Search, Advance, Check, Add, Emit, Act, Blame, source
    <3>2. (\E f \in Feeders, text \in Texts : Feed(f, text)) => cuts' = cuts
      BY DEF Feed, source
    <3> QED BY <3>1, <3>2, OtherSteps DEF source
  <2> QED BY <2>1 DEF FileRead
<1> SUFFICES ASSUME cuts' = 0, cuts = 0 PROVE offset' <= Len(file') /\ Asked' /\ AllHeard'
  BY <1>4 DEF FileRead
<1> QED BY <1>1, <1>2, <1>3, AskRead, ReadRead, OtherSteps

LEMMA InitFileRead == Init => FileRead
<1> SUFFICES ASSUME Init PROVE FileRead
  OBVIOUS
<1>0. Readers \subseteq Feeders
  BY WatchAssumption
<1>1. cuts = 0 /\ offset = 0 /\ file = <<>> /\ \A f \in Readers : feeder[f].at = "idle"
  BY <1>0, IdleIsThread DEF Init
<1>2. ASSUME NEW text PROVE Embeds(SubSeq(<<>>, 1, 0), text)
  <2>1. DOMAIN SubSeq(<<>>, 1, 0) = {}
    OBVIOUS
  <2>2. [m \in {} |-> 1] \in [{} -> DOMAIN text]
    OBVIOUS
  <2> QED BY <2>1, <2>2 DEF Embeds
<1>3. AllHeard
  BY <1>1, <1>2 DEF AllHeard
<1> QED BY <1>1, <1>3 DEF FileRead, Asked

LEMMA NothingOverlooked ==
  Types /\ Stories /\ FileRead => NoFlowOverlooked
<1> SUFFICES ASSUME Types, Stories, FileRead, AllIdle, NEW w \in Watcher \ crossed, IsSequence(w),
                    \/ Followed(w)
                    \/ /\ \E f \in Readers : w \in Work(f) /\ w = Min(Work(f)) /\ FedByOne(w)
                       /\ cuts = 0 /\ Follows(SubSeq(file, 1, offset), w)
             PROVE  current[w] # None /\ state[w][current[w]].index = Len(Watchers[w].order)
  BY DEF NoFlowOverlooked
<1>1. ASSUME NEW f \in Readers, w \in Work(f), w = Min(Work(f)), FedByOne(w), cuts = 0,
             Follows(SubSeq(file, 1, offset), w)
      PROVE  Followed(w)
  <2>1. f \in Feeders
    BY WatchAssumption
  <2>2. Heard(f, w) = fed[w]
    BY <2>1 DEF AllIdle, Resting, Heard
  <2>3. Embeds(SubSeq(file, 1, offset), fed[w])
    BY <1>1, <2>2 DEF FileRead, AllHeard, FirstFlow
  <2>4. fed[w] \in Seq(Letters)
    BY DEF Types, Tales
  <2>5. Embeds(Watchers[w].order, SubSeq(file, 1, offset))
    BY <1>1 DEF Follows
  <2> HIDE DEF Followed
  <2>6. Embeds(Watchers[w].order, fed[w])
    BY <2>3, <2>4, <2>5, EmbedsThrough
  <2> QED BY <2>6 DEF Followed, Follows
<1>2. Followed(w)
  BY <1>1
<1>3. \A f \in Feeders : ~IsIn(f, w)
  BY DEF AllIdle, Resting, IsIn, InSequence
<1> QED BY <1>2, <1>3, StoryTold DEF Done

\* When nothing is matched, a sequence that no two threads were in at once and whose
\* patterns came up in order, in what was fed or in what counts as read of the file, is
\* complete, if one thread polls the file.
THEOREM NoFlowOverlookedHolds ==
  ASSUME OneReader
  PROVE  Spec => []NoFlowOverlooked
<1>1. Init => Stories /\ FileRead
  BY InitStories, InitFileRead
<1>2. Types /\ Stories /\ FileRead /\ [Next]_vars => (Stories /\ FileRead)'
  BY StoriesStay, FileReadStays
<1> QED BY TypesHold, NothingOverlooked, <1>1, <1>2, PTL DEF Spec
=============================================================================
