---------------------------- MODULE ExpectSession ----------------------------
(***************************************************************************)
(* An interactive session: a command that asks, the two pumps that hand    *)
(* its lines to ExpectRuntime.feed_output (expect/runtime.py), and the     *)
(* answers that they write to its standard input.  The stage executor      *)
(* makes one ExpectRuntime for the stage, and allows it one job; the       *)
(* attempts of that job share it.                                          *)
(*                                                                         *)
(* Prompt k is the text that step k matches.  The command asks its prompts *)
(* in order and waits for an answer to each.  The GIL may pass to the      *)
(* other pump between the actions of a pump.  A callback that raises ends   *)
(* the pump that called it, and nobody reads its stream any more.          *)
(***************************************************************************)
EXTENDS Naturals, Sequences

CONSTANTS
  Steps,       \* the number of steps
  Listen,      \* the streams that a step accepts its prompt from
  Prints,      \* the streams that the command prints a prompt to
  MaxRetries,  \* retries of the job
  EndsLine     \* whether prompts end with a line break

Streams == {"stdout", "stderr"}
Prompt == 1 .. Steps

ASSUME SessionAssumption ==
  /\ Steps \in Nat \ {0} /\ MaxRetries \in Nat /\ EndsLine \in BOOLEAN
  /\ Listen \in [Prompt -> SUBSET Streams]
  /\ Prints \in [Prompt -> SUBSET Streams \ {{}}]

VARIABLES
  attempt,  \* the attempt of the job
  command,  \* "running", "passed" or "failed"
  asked,    \* prompts that this attempt's command has printed
  got,      \* answers that it has read
  pipe,     \* texts printed to each stream and not yet read
  stdin,    \* answers written and not yet read
  pump,     \* what each pump does
  index,    \* ExpectRuntime._index, from zero
  sent      \* ExpectRuntime._sent, as numbers of steps

session == <<attempt, command, asked, got>>
vars == <<session, pipe, stdin, pump, index, sent>>

Reading == [at |-> "read", text |-> 0, step |-> 0]
Dead == [at |-> "dead", text |-> 0, step |-> 0]
At(where, text, step) == [at |-> where, text |-> text, step |-> step]

TypeOK ==
  /\ attempt \in 0 .. MaxRetries
  /\ command \in {"running", "passed", "failed"}
  /\ asked \in 0 .. Steps
  /\ got \in Seq(Prompt) /\ stdin \in Seq(Prompt) /\ sent \in Seq(Prompt)
  /\ pipe \in [Streams -> Seq(Prompt)]
  /\ pump \in [Streams -> [at : {"read", "current", "search", "send", "write", "dead"},
                           text : 0 .. Steps, step : 0 .. Steps]]
  /\ index \in 0 .. Steps

Fresh ==
  /\ command' = "running" /\ asked' = 0 /\ got' = <<>> /\ stdin' = <<>>
  /\ pipe' = [s \in Streams |-> <<>>] /\ pump' = [s \in Streams |-> Reading]

Init ==
  /\ attempt = 0 /\ command = "running" /\ asked = 0 /\ got = <<>> /\ stdin = <<>>
  /\ pipe = [s \in Streams |-> <<>>] /\ pump = [s \in Streams |-> Reading]
  /\ index = 0 /\ sent = <<>>

-----------------------------------------------------------------------------
(* The command. *)

Waiting == command = "running" /\ Len(got) < asked

Ask ==
  /\ command = "running" /\ Len(got) = asked /\ asked < Steps
  /\ asked' = asked + 1
  /\ pipe' = [s \in Streams |->
                IF s \in Prints[asked'] THEN Append(pipe[s], asked') ELSE pipe[s]]
  /\ UNCHANGED <<attempt, command, got, stdin, pump, index, sent>>

ReadAnswer ==
  /\ Waiting /\ stdin # <<>>
  /\ got' = Append(got, Head(stdin)) /\ stdin' = Tail(stdin)
  /\ UNCHANGED <<attempt, command, asked, pipe, pump, index, sent>>

End(how) ==
  /\ command = "running"
  /\ how = "passed" => Len(got) = Steps
  /\ command' = how
  /\ UNCHANGED <<attempt, asked, got, pipe, stdin, pump, index, sent>>

\* The next attempt starts when the pumps have read what there was.
Retry ==
  /\ command = "failed" /\ attempt < MaxRetries
  /\ \A s \in Streams : pump[s].at = "dead" \/ (pump[s].at = "read" /\ pipe[s] = <<>>)
  /\ attempt' = attempt + 1 /\ Fresh
  /\ UNCHANGED <<index, sent>>

-----------------------------------------------------------------------------
(* A pump: one line, one call of feed_output, one answer. *)

Becomes(s, p) == pump' = [pump EXCEPT ![s] = p]

\* The pump reads whole lines.  feed_output drops a text once it is complete.
Take(s) ==
  /\ pump[s].at = "read" /\ pipe[s] # <<>>
  /\ EndsLine \/ command # "running"
  /\ pipe' = [pipe EXCEPT ![s] = Tail(@)]
  /\ Becomes(s, IF index >= Steps THEN Reading ELSE At("current", Head(pipe[s]), 0))
  /\ UNCHANGED <<session, stdin, index, sent>>

\* on_stdout or on_stderr cannot write the line to its log: feed_output is not called.
LogFails(s) ==
  /\ pump[s].at = "read" /\ pipe[s] # <<>>
  /\ EndsLine \/ command # "running"
  /\ pipe' = [pipe EXCEPT ![s] = Tail(@)]
  /\ Becomes(s, Dead)
  /\ UNCHANGED <<session, stdin, index, sent>>

\* steps[_index] raises when the other pump took the last step meanwhile.
Current(s) ==
  LET step == index + 1
  IN /\ pump[s].at = "current"
     /\ Becomes(s, IF index >= Steps THEN Dead
                   ELSE IF s \in Listen[step] THEN At("search", pump[s].text, step)
                   ELSE Reading)
     /\ UNCHANGED <<session, pipe, stdin, index, sent>>

Search(s) ==
  /\ pump[s].at = "search"
  /\ Becomes(s, IF pump[s].text = pump[s].step
                THEN At("send", pump[s].text, pump[s].step) ELSE Reading)
  /\ UNCHANGED <<session, pipe, stdin, index, sent>>

\* Mutant: the step is not counted.
SendAgain(s) ==
  /\ pump[s].at = "send"
  /\ sent' = Append(sent, pump[s].step) /\ index' = index
  /\ Becomes(s, At("write", 0, pump[s].step))
  /\ UNCHANGED <<session, pipe, stdin>>

Send(s) ==
  /\ pump[s].at = "send"
  /\ sent' = Append(sent, pump[s].step) /\ index' = index + 1
  /\ Becomes(s, At("write", 0, pump[s].step))
  /\ UNCHANGED <<session, pipe, stdin>>

\* The event of the answer cannot be emitted: the step is counted, and its answer is
\* not returned to the pump.
SendFails(s) ==
  /\ pump[s].at = "send"
  /\ sent' = Append(sent, pump[s].step) /\ index' = index + 1
  /\ Becomes(s, Dead)
  /\ UNCHANGED <<session, pipe, stdin>>

\* Mutant: the text of the prompt's successor is written.
WriteNext(s) ==
  /\ pump[s].at = "write"
  /\ stdin' = Append(stdin, IF pump[s].step < Steps THEN pump[s].step + 1 ELSE 1)
  /\ Becomes(s, Reading)
  /\ UNCHANGED <<session, pipe, index, sent>>

\* A write to a command that has ended fails and is forgotten.
Write(s) ==
  /\ pump[s].at = "write"
  /\ stdin' = IF command = "running" THEN Append(stdin, pump[s].step) ELSE stdin
  /\ Becomes(s, Reading)
  /\ UNCHANGED <<session, pipe, index, sent>>

Pump(s) ==
  \/ Take(s) \/ LogFails(s) \/ Current(s) \/ Search(s)
  \/ Send(s) \/ SendFails(s) \/ Write(s)

Next ==
  \/ Ask \/ ReadAnswer \/ Retry
  \/ \E how \in {"passed", "failed"} : End(how)
  \/ \E s \in Streams : Pump(s)

Spec == Init /\ [][Next]_vars

\* The pumps are scheduled and the command reads the answers that it gets.
FairSpec == Spec /\ WF_vars(ReadAnswer) /\ \A s \in Streams : WF_vars(Pump(s))

-----------------------------------------------------------------------------
(* Properties. *)

\* The steps are answered in order, each of them once (the test
\* test_expect_runtime_sends_prompt_response_once), in whatever order the
\* pumps call feed_output.
EachStepOnce == \A i \in 1 .. Len(sent) : sent[i] = i

\* The command gets the answer to the prompt that it asked, and not that to
\* another step.
AnswersFit == \A i \in 1 .. Len(got) : got[i] = i

\* A prompt of the first attempt that is a whole line is answered, whichever
\* streams it comes from, unless the pump of the stream that its step listens to
\* has died of an event or a log that could not be written: no prompt is passed
\* over, and what becomes of the other stream does not matter.
AnsweredFirst ==
  \A k \in Prompt :
    Waiting /\ attempt = 0 /\ asked = k
      ~> ~Waiting \/ \E s \in Listen[k] : pump[s].at = "dead"
=============================================================================
