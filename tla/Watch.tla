-------------------------------- MODULE Watch --------------------------------
(***************************************************************************)
(* WatchRuntime (watch/runtime.py): the threads that hand texts to it, the *)
(* matching of watchers, their actions, and the end of the stage.          *)
(*                                                                         *)
(* A feeder is a thread: an output pump of a job, which calls feed_output, *)
(* or the poller of one source.  None of them holds a lock; another feeder *)
(* may run between two statements, and hence between two actions.  A text  *)
(* is a sequence of symbols, and a pattern is a symbol.  A source may be a *)
(* file that something else writes to while it is read.                    *)
(*                                                                         *)
(* stop waits a second for a poller, and the executor some seconds for a   *)
(* pump: either may go on while the stage ends, and after that.            *)
(***************************************************************************)
EXTENDS Naturals, Sequences, FiniteSets, FiniteSetsExt, Functions, SequencesExt

CONSTANTS
  Feeders,    \* the threads
  Pollers,    \* those of them that poll
  Readers,    \* those of the pollers whose source is the file
  Snapshot,   \* those of them that read it from its start each time
  Source,     \* the source that a feeder's texts belong to
  Watchers,   \* the watchers, in the order in which they are defined
  Texts,      \* the texts that are fed
  Contents,   \* what the file may contain
  MaxTexts,   \* bound: the texts and the polls of the file of a behaviour
  MaxCuts     \* bound: how often the file is truncated

None == 0

ASSUME WatchAssumption ==
  /\ None \notin Feeders
  /\ Pollers \subseteq Feeders /\ Readers \subseteq Pollers /\ Snapshot \subseteq Readers
  /\ {MaxTexts, MaxCuts} \subseteq Nat
  /\ <<>> \in Contents
  /\ \A text \in Texts \cup Contents : text \in Seq(Range(text))
  /\ Watchers \in Seq(Range(Watchers))
  /\ \A i \in DOMAIN Watchers :
       /\ Watchers[i].sources # {}
       /\ Watchers[i].order \in Seq(Range(Watchers[i].order))
       /\ Watchers[i].patterns \in Seq(Range(Watchers[i].patterns))
       /\ Watchers[i].action \in {"report", "send", "script", "success", "fail"}
       /\ Watchers[i].missing \in {"ignore", "warn", "fail"}

Watcher == DOMAIN Watchers
IsSequence(w) == Watchers[w].order # <<>>
Phase(f) == IF f \in Pollers THEN "stage" ELSE "job"
Allowed(w, phase) == {"run", phase} \cap Watchers[w].phases # {}

\* The watchers that a text of f is matched with.
Work(f) ==
  {w \in Watcher : Source[f] \in Watchers[w].sources /\ Allowed(w, Phase(f))}

\* No two threads feed the watcher.
FedByOne(w) == \A f, g \in Feeders : w \in Work(f) /\ w \in Work(g) => f = g

\* One thread polls the file: what a theorem about the file supposes.
OneReader == \A f, g \in Readers : f = g

VARIABLES
  feeder,      \* what each thread does
  count,       \* texts fed and polls of the file so far (bounds the model)
  file,        \* what the file contains
  cuts,        \* how often it was truncated
  offset,      \* _offsets, the entry of the file
  fed,         \* the texts matched with each sequence, one after the other (history)
  crossed,     \* the sequences that two threads were in at once (history)
  raced,       \* the watchers that two threads found new at once (history)
  seenOnce,    \* _seen_once
  seenDedupe,  \* _seen_dedupe
  current,     \* _sequence_states: the thread that made the watcher's state
  state,       \* the states that threads have made
  log,         \* the events that were emitted: watcher, source, token, thread
  abort,       \* _abort_requested
  reason,      \* the watcher that _failure_reason names
  stage,       \* "open", "final" in finalize, "ends" when that raised, "over"
  late,        \* the threads that went on behind stop (history)
  left,        \* the sequences that finalize has not judged
  told         \* watch_failure_reason, as the dispatcher reads it

source == <<file, cuts, offset>>
memory == <<seenOnce, seenDedupe>>
flows == <<current, state>>
matching == <<memory, flows, crossed, raced>>
outcome == <<log, abort, reason>>
ending == <<stage, late, left, told>>
vars == <<feeder, count, source, fed, matching, outcome, ending>>

Fresh == [buffer |-> <<>>, cursor |-> 0, index |-> 0]
Idle == [at |-> "idle", text |-> <<>>, todo |-> {}, token |-> None, maker |-> None,
         size |-> 0, start |-> 0]

Init ==
  /\ feeder = [f \in Feeders |-> Idle] /\ count = 0
  /\ file = <<>> /\ cuts = 0 /\ offset = 0
  /\ fed = [w \in Watcher |-> <<>>] /\ crossed = {} /\ raced = {}
  /\ seenOnce = {} /\ seenDedupe = {}
  /\ current = [w \in Watcher |-> None]
  /\ state = [w \in Watcher |-> [f \in Feeders |-> Fresh]]
  /\ log = <<>> /\ abort = FALSE /\ reason = None
  /\ stage = "open" /\ late = {} /\ left = {} /\ told = None

-----------------------------------------------------------------------------
(* Feeding: one watcher after the other, in the order of their definition. *)

This(f) == Min(feeder[f].todo)
Goes(f, there) == feeder' = [feeder EXCEPT ![f].at = there]
At(f, where) == feeder[f].at = where

\* What a thread does with a text that some watchers have not seen.
Turns(text, todo) ==
  IF todo = {} THEN Idle ELSE [Idle EXCEPT !.at = "match", !.text = text, !.todo = todo]

Takes(f, text) ==
  feeder' = [feeder EXCEPT ![f] = Turns(text, Work(f))]

NextWatcher(f) ==
  feeder' = [feeder EXCEPT ![f] = Turns(feeder[f].text, feeder[f].todo \ {This(f)})]

\* A pump hands on what a job prints, behind stop too; a poll of a URL or of a command
\* returns a text.
Feed(f, text) ==
  /\ f \notin Readers
  /\ At(f, "idle") /\ count < MaxTexts
  /\ f \in Pollers => stage = "open"
  /\ Takes(f, text) /\ count' = count + 1
  /\ late' = IF stage = "open" THEN late ELSE late \cup {f}
  /\ UNCHANGED <<source, fed, matching, outcome, stage, left, told>>

\* Something else appends to the file, or empties it first.  What becomes of it between
\* two looks of a poll is seen with the second one.
FileChanges ==
  /\ file' \in Contents
  /\ \/ IsPrefix(file, file') /\ UNCHANGED cuts
     \/ file # <<>> /\ cuts < MaxCuts /\ cuts' = cuts + 1

\* A file that is shorter than what was read of it is read from its start.
Start(f, size) == IF f \in Snapshot \/ size < offset THEN 0 ELSE offset

\* A poll of the file asks for its size first.
AskSize(f) ==
  /\ f \in Readers
  /\ At(f, "idle") /\ count < MaxTexts /\ stage = "open"
  /\ FileChanges
  /\ feeder' = [feeder EXCEPT ![f] = [Idle EXCEPT !.at = "read", !.size = Len(file'),
                                                  !.start = Start(f, Len(file'))]]
  /\ count' = count + 1
  /\ UNCHANGED <<offset, fed, matching, outcome, ending>>

\* The file is read to its end.
Chunk(f, contents) == SubSeq(contents, feeder[f].start + 1, Len(contents))

\* A poll that cannot read, or reads nothing, has no effect.
NothingRead(f) == feeder' = [feeder EXCEPT ![f] = Idle] /\ UNCHANGED offset

\* Mutant: the size is kept though the file could not be read.
ReadFileAnyhow(f) ==
  /\ At(f, "read")
  /\ FileChanges
  /\ offset' = feeder[f].size
  /\ \/ feeder' = [feeder EXCEPT ![f] = Idle]
     \/ Chunk(f, file') # <<>> /\ Takes(f, Chunk(f, file'))
  /\ UNCHANGED <<count, fed, matching, outcome, ending>>

\* What is kept is the size that the file had before it was read.
ReadFile(f) ==
  /\ At(f, "read")
  /\ FileChanges
  /\ \/ NothingRead(f)
     \/ /\ Chunk(f, file') # <<>>
        /\ offset' = feeder[f].size
        /\ Takes(f, Chunk(f, file'))
  /\ UNCHANGED <<count, fed, matching, outcome, ending>>

\* The patterns of a match that a text has.
Hits(w, text) == {p \in DOMAIN Watchers[w].patterns : Watchers[w].patterns[p] \in Range(text)}

\* Whether a thread is in _match_sequence for the watcher.
InSequence == {"make", "append", "search", "advance"}
IsIn(f, w) == feeder[f].at \in InSequence /\ This(f) = w

\* The watcher's turn.  A match looks for its first pattern that is in the text.
MatchText(f) ==
  /\ At(f, "match") /\ ~IsSequence(This(f))
  /\ LET hits == Hits(This(f), feeder[f].text)
     IN IF hits = {} THEN NextWatcher(f)
        ELSE feeder' = [feeder EXCEPT ![f].at = "check",
                                      ![f].token = Watchers[This(f)].patterns[Min(hits)]]
  /\ UNCHANGED <<count, source, fed, matching, outcome, ending>>

-----------------------------------------------------------------------------
(* _match_sequence *)

Enter(f) ==
  /\ At(f, "match") /\ IsSequence(This(f))
  /\ feeder' = [feeder EXCEPT ![f].maker = current[This(f)],
                              ![f].at = IF current[This(f)] = None THEN "make" ELSE "append"]
  /\ fed' = [fed EXCEPT ![This(f)] = @ \o feeder[f].text]
  /\ crossed' = IF \E g \in Feeders \ {f} : IsIn(g, This(f))
                  THEN crossed \cup {This(f)} ELSE crossed
  /\ UNCHANGED <<count, source, memory, flows, raced, outcome, ending>>

\* The thread that found no state makes one, in place of any made meanwhile.
Make(f) ==
  /\ At(f, "make")
  /\ current' = [current EXCEPT ![This(f)] = f]
  /\ state' = [state EXCEPT ![This(f)][f] = Fresh]
  /\ feeder' = [feeder EXCEPT ![f].maker = f, ![f].at = "append"]
  /\ UNCHANGED <<count, source, fed, memory, crossed, raced, outcome, ending>>

Held(f) == state[This(f)][feeder[f].maker]
Complete(f) == Held(f).index >= Len(Watchers[This(f)].order)

AppendText(f) ==
  /\ At(f, "append")
  /\ IF Complete(f)
       THEN NextWatcher(f) /\ UNCHANGED state
       ELSE /\ state' = [state EXCEPT ![This(f)][feeder[f].maker].buffer = @ \o feeder[f].text]
            /\ Goes(f, "search")
  /\ UNCHANGED <<count, source, fed, memory, current, crossed, raced, outcome, ending>>

\* Where the next pattern is found behind the cursor; zero if it is not.
Found(f) ==
  LET at == {i \in Held(f).cursor + 1 .. Len(Held(f).buffer) :
               Held(f).buffer[i] = Watchers[This(f)].order[Held(f).index + 1]}
  IN IF at = {} THEN 0 ELSE Min(at)

\* The match is found before the state is moved on; token keeps its length.
Search(f) ==
  /\ At(f, "search")
  /\ IF Complete(f) \/ Found(f) = 0 THEN NextWatcher(f)
     ELSE feeder' = [feeder EXCEPT ![f].at = "advance",
                                   ![f].token = Found(f) - Held(f).cursor]
  /\ UNCHANGED <<count, source, fed, matching, outcome, ending>>

\* Mutant: the length of the match and the one step are swapped.
AdvanceSwapped(f) ==
  /\ At(f, "advance")
  /\ state' = [state EXCEPT ![This(f)][feeder[f].maker] =
                 [Held(f) EXCEPT !.index = @ + feeder[f].token, !.cursor = @ + 1]]
  /\ feeder' = [feeder EXCEPT
       ![f].at = IF Held(f).index + feeder[f].token >= Len(Watchers[This(f)].order) THEN "check" ELSE "search",
       ![f].token = None]
  /\ UNCHANGED <<count, source, fed, memory, current, crossed, raced, outcome, ending>>

Advance(f) ==
  /\ At(f, "advance")
  /\ state' = [state EXCEPT ![This(f)][feeder[f].maker] =
                 [Held(f) EXCEPT !.index = @ + 1, !.cursor = @ + feeder[f].token]]
  /\ feeder' = [feeder EXCEPT
       ![f].at = IF Held(f).index + 1 >= Len(Watchers[This(f)].order) THEN "check" ELSE "search",
       ![f].token = None]
  /\ UNCHANGED <<count, source, fed, memory, current, crossed, raced, outcome, ending>>

-----------------------------------------------------------------------------
(* once, dedupe and the action. *)

Digest(f) == <<This(f), Source[f], feeder[f].token>>

Check(f) ==
  /\ At(f, "check")
  /\ LET w == This(f)
     IN IF \/ Watchers[w].once /\ w \in seenOnce
           \/ Watchers[w].dedupe /\ Digest(f) \in seenDedupe
        THEN NextWatcher(f) ELSE Goes(f, "add")
  /\ UNCHANGED <<count, source, fed, matching, outcome, ending>>

\* Whether the second of two finds is one too many.
Same(d, e) ==
  /\ d[1] = e[1]
  /\ Watchers[d[1]].once \/ (Watchers[d[1]].dedupe /\ d[2] = e[2] /\ d[3] = e[3])

\* Whether another thread has found the match new, and not remembered it yet.
Races(f) == \E g \in Feeders \ {f} : At(g, "add") /\ Same(Digest(f), Digest(g))

\* Mutant: a watcher that dedupes does not remember that it fires once.
AddDigestOnly(f) ==
  /\ At(f, "add")
  /\ LET w == This(f)
     IN /\ seenOnce' = IF Watchers[w].once /\ ~Watchers[w].dedupe THEN seenOnce \cup {w} ELSE seenOnce
        /\ seenDedupe' = IF Watchers[w].dedupe THEN seenDedupe \cup {Digest(f)} ELSE seenDedupe
        /\ raced' = IF Races(f) THEN raced \cup {w} ELSE raced
  /\ Goes(f, "emit")
  /\ UNCHANGED <<count, source, fed, flows, crossed, outcome, ending>>

Add(f) ==
  /\ At(f, "add")
  /\ LET w == This(f)
     IN /\ seenOnce' = IF Watchers[w].once THEN seenOnce \cup {w} ELSE seenOnce
        /\ seenDedupe' = IF Watchers[w].dedupe THEN seenDedupe \cup {Digest(f)} ELSE seenDedupe
        /\ raced' = IF Races(f) THEN raced \cup {w} ELSE raced
  /\ Goes(f, "emit")
  /\ UNCHANGED <<count, source, fed, flows, crossed, outcome, ending>>

\* A poller goes on with its next poll, a pump dies.
Raises(f) ==
  feeder' = [feeder EXCEPT ![f] = IF f \in Pollers THEN Idle ELSE [Idle EXCEPT !.at = "dead"]]

\* The event may raise: the match is remembered, and nothing comes of it.
Emit(f) ==
  /\ At(f, "emit")
  /\ \/ log' = Append(log, Append(Digest(f), f)) /\ Goes(f, "act")
     \/ Raises(f) /\ UNCHANGED log
  /\ UNCHANGED <<count, source, fed, matching, abort, reason, ending>>

\* A script may raise.
Act(f) ==
  /\ At(f, "act")
  /\ \/ /\ Watchers[This(f)].action = "fail"
        /\ abort' = TRUE /\ Goes(f, "blame")
     \/ /\ Watchers[This(f)].action # "fail"
        /\ UNCHANGED abort
        /\ IF abort THEN feeder' = [feeder EXCEPT ![f] = Idle] ELSE NextWatcher(f)
     \/ /\ Watchers[This(f)].action = "script"
        /\ UNCHANGED abort
        /\ Raises(f)
  /\ UNCHANGED <<count, source, fed, matching, log, reason, ending>>

\* Mutant: a reason is replaced, but none is given.
BlameAnd(f) ==
  /\ At(f, "blame")
  /\ reason' = IF reason = None THEN reason ELSE This(f)
  /\ feeder' = [feeder EXCEPT ![f] = Idle]
  /\ UNCHANGED <<count, source, fed, matching, log, abort, ending>>

\* The first watcher that fails gives the reason; the rest of the text's
\* watchers are left out after an abort.
Blame(f) ==
  /\ At(f, "blame")
  /\ reason' = IF reason = None THEN This(f) ELSE reason
  /\ feeder' = [feeder EXCEPT ![f] = Idle]
  /\ UNCHANGED <<count, source, fed, matching, log, abort, ending>>

Feeding(f) ==
  \/ AskSize(f) \/ ReadFile(f) \/ MatchText(f)
  \/ Enter(f) \/ Make(f) \/ AppendText(f) \/ Search(f) \/ Advance(f)
  \/ Check(f) \/ Add(f) \/ Emit(f) \/ Act(f) \/ Blame(f)

-----------------------------------------------------------------------------
(* The end of the stage: the jobs have ended, but the last of their output may still *)
(* be matched.                                                                      *)

Resting(f) == feeder[f].at \in {"idle", "dead"}

\* The sequences whose missing patterns matter.
Judged == {w \in Watcher : IsSequence(w) /\ Allowed(w, "stage") /\ Watchers[w].missing # "ignore"}

\* No poller begins a poll behind stop, and the join of each ends because the poller
\* has ended or because a second has passed.
Stop ==
  /\ stage = "open" /\ stage' = "final"
  /\ late' = {f \in Feeders : ~Resting(f)}
  /\ left' = Judged
  /\ UNCHANGED <<feeder, count, source, fed, matching, outcome, told>>

\* Mutant: a sequence that lacks only its last pattern is not missed.
MissingLenient(w) ==
  current[w] # None /\ state[w][current[w]].index + 1 < Len(Watchers[w].order)

\* Begun, and not complete.
Missing(w) == current[w] # None /\ state[w][current[w]].index < Len(Watchers[w].order)

\* finalize: one sequence after the other.  The event of one that is missing may raise,
\* and the dispatcher passes over that.
Judge ==
  /\ stage = "final" /\ left # {}
  /\ LET w == Min(left)
         fails == Watchers[w].missing = "fail"
     IN \/ /\ ~Missing(w)
           /\ left' = left \ {w}
           /\ UNCHANGED <<outcome, stage>>
        \/ /\ Missing(w)
           /\ left' = left \ {w}
           /\ log' = Append(log, <<w, "missing", None, None>>)
           /\ abort' = (abort \/ fails)
           /\ reason' = IF reason = None /\ fails THEN w ELSE reason
           /\ UNCHANGED stage
        \/ /\ Missing(w)
           /\ stage' = "ends"
           /\ UNCHANGED <<outcome, left>>
  /\ UNCHANGED <<feeder, count, source, fed, matching, late, told>>

\* Behind finalize the dispatcher reads the reason: the stage's verdict.
Tell ==
  /\ stage = "ends" \/ (stage = "final" /\ left = {})
  /\ stage' = "over" /\ told' = reason
  /\ UNCHANGED <<feeder, count, source, fed, matching, outcome, late, left>>

\* The model ends with the verdict.
Next ==
  \/ stage # "over" /\ \E f \in Feeders : Feeding(f) \/ \E text \in Texts : Feed(f, text)
  \/ Stop \/ Judge \/ Tell

Spec == Init /\ [][Next]_vars

-----------------------------------------------------------------------------
(* Properties. *)

Fired(w) == {i \in DOMAIN log : log[i][1] = w /\ log[i][2] # "missing"}

\* Whether the symbols of one text come up in another one, in their order.
Embeds(order, text) ==
  \E h \in [DOMAIN order -> DOMAIN text] :
    /\ \A m, n \in DOMAIN order : m < n => h[m] < h[n]
    /\ \A m \in DOMAIN order : text[h[m]] = order[m]

\* Whether a text follows the whole order of a sequence.
Follows(text, w) == Embeds(Watchers[w].order, text)
Followed(w) == Follows(fed[w], w)
AllIdle == \A f \in Feeders : Resting(f)

\* A watcher with once fires once, and a watcher that dedupes fires once for what it
\* found in a source (the tests named "reports_only_once"), however often and by
\* however many threads it is found: it fires again only for another thread, one
\* that had found it new before the first had remembered it.
FiresOnce ==
  \A w \in Watcher : \A i, j \in Fired(w) :
    i # j /\ Same(log[i], log[j]) => w \in raced /\ log[i][4] # log[j][4]

\* A sequence completes only after its patterns came up in their order, over
\* any number of texts and threads ("watches ordered message flows", README.md), as
\* long as no two threads were in it at once.
CompletesInOrder ==
  \A w \in Watcher : IsSequence(w) /\ Fired(w) # {} => Followed(w) \/ w \in crossed

\* No flow is overlooked: when nothing is being matched, a sequence that no two threads
\* were in at once and whose patterns came up in order is complete, wherever the texts
\* were cut; and so is one whose patterns are in the part of the file that counts as
\* read, however the file grew while it was read (if it was never truncated, and the
\* watcher hears the file alone, and is the first to hear it).
NoFlowOverlooked ==
  AllIdle =>
    \A w \in Watcher \ crossed :
      /\ IsSequence(w)
      /\ \/ Followed(w)
         \/ /\ \E f \in Readers : w \in Work(f) /\ w = Min(Work(f)) /\ FedByOne(w)
            /\ cuts = 0 /\ Follows(SubSeq(file, 1, offset), w)
      => current[w] # None /\ state[w][current[w]].index = Len(Watchers[w].order)

\* "missing can warn or fail if the flow never completes" (README.md): a sequence that
\* a text was matched with and that never completed fails the stage, if its watcher
\* says so and its phases include the stage.  It is overlooked only if finalize did not
\* come to its end, if two threads were in the sequence at once, or if a thread that
\* feeds it went on behind stop.
BegunIsMissed ==
  stage = "over" =>
    \A w \in Judged \ (left \cup crossed) :
      /\ Watchers[w].missing = "fail" /\ fed[w] # <<>>
      /\ \A f \in late : w \notin Work(f)
      => Followed(w) \/ (abort /\ told # None)

\* The stage has the reason of a failure: of one that a watcher has reported, and of an
\* abort that other threads have seen.  The reason is written after the event and the
\* flag, by another thread than the one that reads it: it may come too late only from
\* a thread that went on behind stop.
FailureIsTold ==
  stage = "over" =>
    /\ told # None => abort
    /\ \/ abort
       \/ \E w \in Watcher : Watchers[w].action = "fail" /\ Fired(w) # {}
       => \/ told # None
          \/ \E f \in late : \E w \in Work(f) : Watchers[w].action = "fail"
=============================================================================
