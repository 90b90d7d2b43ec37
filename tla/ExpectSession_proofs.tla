------------------------- MODULE ExpectSession_proofs -------------------------
(***************************************************************************)
(* An interactive session answers its prompts in order, for any number of   *)
(* steps and of attempts, as long as each step listens to one stream.       *)
(***************************************************************************)
EXTENDS ExpectSession, TLAPS

\* With a step that both pumps look for, they may find it at once.
OneListener == \A k \in Prompt : \A s, t \in Listen[k] : s = t

\* What is sent is what _index has passed.
SentSoFar ==
  /\ Len(sent) = index
  /\ \A i \in 1 .. Len(sent) : sent[i] = i

\* A pump that searches for a step, or is about to answer it, is one that the step
\* listens to, and the step is the next one.
PumpFits ==
  \A s \in Streams : pump[s].at \in {"search", "send"} =>
    /\ pump[s].step = index + 1 /\ pump[s].step \in Prompt
    /\ s \in Listen[pump[s].step]

\* What a pump answers it has found; what it writes is a step's answer.
Found ==
  \A s \in Streams :
    /\ pump[s].at = "send" => pump[s].text = pump[s].step
    /\ pump[s].at = "write" => pump[s].step \in Prompt

\* The command waits for one answer at a time, and pumps have read what it printed.
Asked ==
  /\ asked <= Len(got) + 1
  /\ \A s \in Streams :
       /\ pump[s].text <= asked
       /\ \A i \in DOMAIN pipe[s] : pipe[s][i] <= asked

\* An attempt that starts after the first step was answered gets no answer at all.
Behind ==
  /\ index > 0 /\ asked <= 1 /\ got = <<>> /\ stdin = <<>>
  /\ \A s \in Streams : pump[s].at \notin {"send", "write"}

\* The last answer has been read, or is in the pipe, or is being written.
InStep ==
  \/ /\ index = Len(got) /\ stdin = <<>>
     /\ \A s \in Streams : pump[s].at # "write"
  \/ /\ index = Len(got) + 1 /\ stdin = <<index>>
     /\ \A s \in Streams : pump[s].at # "write"
  \/ /\ index = Len(got) + 1 /\ stdin = <<>>
     /\ \A s \in Streams : pump[s].at = "write" => pump[s].step = index
     /\ \A s, t \in Streams : pump[s].at = "write" /\ pump[t].at = "write" => s = t

Dialogue == command = "running" => Behind \/ InStep

IInv ==
  TypeOK /\ SentSoFar /\ PumpFits /\ Found /\ Asked /\ Dialogue /\ AnswersFit

-----------------------------------------------------------------------------
LEMMA InitIInv == Init => IInv
  BY SessionAssumption
  DEF Init, IInv, TypeOK, SentSoFar, PumpFits, Found, Asked, Dialogue, InStep,
      AnswersFit, Reading, Prompt, Streams

\* A pump's state is replaced, the other's is not.
LEMMA OnePump ==
  ASSUME TypeOK, NEW s \in Streams, NEW p, Becomes(s, p)
  PROVE  /\ pump'[s] = p
         /\ \A t \in Streams : t # s => pump'[t] = pump[t]
  BY DEF TypeOK, Becomes

LEMMA AskKeeps ==
  ASSUME IInv, Ask
  PROVE  IInv'
<1> USE SessionAssumption
<1>1. asked' = asked + 1 /\ asked' \in Prompt /\ asked' = Len(got) + 1
  BY DEF IInv, TypeOK, Ask, Prompt
<1>2. \A s \in Streams :
        /\ pipe'[s] \in Seq(Prompt)
        /\ \A i \in DOMAIN pipe'[s] : pipe'[s][i] <= asked'
  <2> TAKE s \in Streams
  <2>1. pipe'[s] = Append(pipe[s], asked') \/ pipe'[s] = pipe[s]
    BY DEF Ask
  <2>2. pipe[s] \in Seq(Prompt) /\ asked \in Nat
    BY DEF IInv, TypeOK
  <2>3. \A i \in DOMAIN pipe[s] : pipe[s][i] <= asked'
    BY <1>1, <2>2 DEF IInv, Asked, Prompt
  <2>4. CASE pipe'[s] = pipe[s]
    BY <2>2, <2>3, <2>4
  <2>5. CASE pipe'[s] = Append(pipe[s], asked')
    <3>1. asked' <= asked'
      BY <1>1, <2>2
    <3> QED
      BY <1>1, <2>2, <2>3, <2>5, <3>1
  <2> QED
    BY <2>1, <2>4, <2>5
<1>3. pipe' \in [Streams -> Seq(Prompt)]
  BY <1>2 DEF Ask
<1>4. TypeOK'
  BY <1>1, <1>3 DEF IInv, TypeOK, Ask, Prompt
<1>5. Asked'
  BY <1>1, <1>2 DEF IInv, TypeOK, Asked, Ask, Prompt
<1>6. SentSoFar' /\ PumpFits' /\ Found' /\ AnswersFit'
  BY DEF IInv, SentSoFar, PumpFits, Found, AnswersFit, Ask
<1>7. Dialogue'
  BY <1>1 DEF IInv, TypeOK, Dialogue, Behind, InStep, Ask
<1> QED
  BY <1>4, <1>5, <1>6, <1>7 DEF IInv

LEMMA ReadAnswerKeeps ==
  ASSUME IInv, ReadAnswer
  PROVE  IInv'
<1>1. /\ InStep /\ index = Len(got) + 1 /\ stdin = <<index>> /\ got \in Seq(Prompt)
      /\ index \in Prompt
      /\ \A s \in Streams : pump[s].at # "write"
  BY DEF IInv, TypeOK, Dialogue, Behind, InStep, ReadAnswer, Waiting, Prompt
<1>2. got' = Append(got, index) /\ stdin' = <<>>
  BY <1>1 DEF ReadAnswer
<1>3. got' \in Seq(Prompt) /\ Len(got') = Len(got) + 1 /\ Len(got) \in Nat
  BY <1>1, <1>2
<1>4. AnswersFit'
  BY <1>1, <1>2, <1>3 DEF IInv, AnswersFit
<1>5. TypeOK'
  BY <1>2, <1>3 DEF IInv, TypeOK, ReadAnswer
<1>6. Asked'
  BY <1>3 DEF IInv, TypeOK, Asked, ReadAnswer
<1>7. SentSoFar' /\ PumpFits' /\ Found'
  BY DEF IInv, SentSoFar, PumpFits, Found, ReadAnswer
<1>8. Dialogue'
  BY <1>1, <1>2, <1>3 DEF Dialogue, InStep, ReadAnswer
<1> QED
  BY <1>4, <1>5, <1>6, <1>7, <1>8 DEF IInv

LEMMA RetryKeeps ==
  ASSUME IInv, Retry
  PROVE  IInv'
<1>1. /\ command' = "running" /\ asked' = 0 /\ got' = <<>> /\ stdin' = <<>>
      /\ \A s \in Streams : pipe'[s] = <<>> /\ pump'[s] = Reading
      /\ index' = index /\ sent' = sent
  BY DEF Retry, Fresh
<1>2. TypeOK'
  BY <1>1, SessionAssumption DEF IInv, TypeOK, Retry, Fresh, Reading, Prompt
<1>3. SentSoFar' /\ PumpFits' /\ Found' /\ AnswersFit' /\ Asked'
  BY <1>1 DEF IInv, SentSoFar, PumpFits, Found, AnswersFit, Asked, Reading
<1>4. Dialogue'
  BY <1>1 DEF IInv, TypeOK, Dialogue, Behind, InStep, Reading
<1> QED
  BY <1>2, <1>3, <1>4 DEF IInv

LEMMA EndKeeps ==
  ASSUME IInv, NEW how \in {"passed", "failed"}, End(how)
  PROVE  IInv'
<1>1. command' = how /\ UNCHANGED <<attempt, asked, got, pipe, stdin, pump, index, sent>>
  BY DEF End
<1>2. TypeOK' /\ Dialogue'
  BY <1>1 DEF IInv, TypeOK, Dialogue
<1>3. SentSoFar' /\ PumpFits' /\ Found' /\ AnswersFit' /\ Asked'
  BY <1>1 DEF IInv, SentSoFar, PumpFits, Found, AnswersFit, Asked
<1> QED
  BY <1>2, <1>3 DEF IInv

-----------------------------------------------------------------------------
(* A pump.  Until it sends, what it does disturbs little.                   *)

Quiet == {"read", "current", "search", "dead"}

\* A pump that is not about to answer leaves the dialogue as it is.
LEMMA QuietKeepsDialogue ==
  ASSUME IInv, NEW s \in Streams, NEW p, Becomes(s, p), p.at \in Quiet,
         pump[s].at # "write", UNCHANGED <<command, asked, got, stdin, index>>
  PROVE  Dialogue'
<1>1. \A t \in Streams : pump'[t].at \in {"send", "write"} => t # s /\ pump'[t] = pump[t]
  BY OnePump DEF IInv, Quiet
<1> QED
  BY <1>1 DEF IInv, Dialogue, Behind, InStep

\* A line that is taken, whether or not its log can be written.
LEMMA TakeKeeps ==
  ASSUME IInv, NEW s \in Streams, Take(s) \/ LogFails(s)
  PROVE  IInv'
<1>1. pipe[s] \in Seq(Prompt) /\ pipe[s] # <<>> /\ asked \in Nat
  BY DEF IInv, TypeOK, Take, LogFails
<1>2. /\ Head(pipe[s]) \in Prompt /\ Head(pipe[s]) <= asked
      /\ Tail(pipe[s]) \in Seq(Prompt)
      /\ \A i \in DOMAIN Tail(pipe[s]) : Tail(pipe[s])[i] <= asked
  BY <1>1 DEF IInv, Asked
<1>3. pipe' \in [Streams -> Seq(Prompt)] /\ pipe'[s] = Tail(pipe[s])
      /\ \A t \in Streams : t # s => pipe'[t] = pipe[t]
  BY <1>2 DEF IInv, TypeOK, Take, LogFails
<1>4. PICK p \in {Reading, Dead, At("current", Head(pipe[s]), 0)} :
        Becomes(s, p) /\ UNCHANGED <<attempt, command, asked, got, stdin, index, sent>>
  BY DEF Take, LogFails, session
<1>5. p \in [at : {"read", "current", "dead"}, text : 0 .. Steps, step : 0 .. Steps]
      /\ p.at \in {"read", "current", "dead"} /\ p.text <= asked
  BY <1>1, <1>2, SessionAssumption DEF Reading, Dead, At, Prompt
<1>6. pump'[s] = p /\ \A t \in Streams : t # s => pump'[t] = pump[t]
  BY <1>4, OnePump DEF IInv
<1>7. TypeOK'
  BY <1>3, <1>4, <1>5 DEF IInv, TypeOK, Becomes
<1>8. Asked'
  BY <1>2, <1>3, <1>4, <1>5, <1>6 DEF IInv, Asked
<1>9. PumpFits' /\ Found'
  BY <1>4, <1>5, <1>6 DEF IInv, PumpFits, Found
<1>10. SentSoFar' /\ AnswersFit'
  BY <1>4 DEF IInv, SentSoFar, AnswersFit
<1>11. Dialogue'
  BY <1>4, <1>5, QuietKeepsDialogue DEF Quiet, Take, LogFails
<1> QED
  BY <1>7, <1>8, <1>9, <1>10, <1>11 DEF IInv

LEMMA CurrentKeeps ==
  ASSUME IInv, NEW s \in Streams, Current(s)
  PROVE  IInv'
<1> DEFINE p == IF index >= Steps THEN Dead
                ELSE IF s \in Listen[index + 1] THEN At("search", pump[s].text, index + 1)
                ELSE Reading
<1>1. /\ Becomes(s, p)
      /\ UNCHANGED <<attempt, command, asked, got, pipe, stdin, index, sent>>
  BY DEF Current, session
<1>2. index \in 0 .. Steps /\ Steps \in Nat /\ asked \in Nat /\ pump[s].text \in 0 .. Steps
      /\ pump[s].text <= asked
  BY SessionAssumption DEF IInv, TypeOK, Asked
<1>3. /\ p \in [at : {"read", "search", "dead"}, text : 0 .. Steps, step : 0 .. Steps]
      /\ p.text <= asked
      /\ p.at \in {"read", "search", "dead"}
      /\ p.at = "search" => /\ p.step = index + 1 /\ p.step \in Prompt
                            /\ s \in Listen[p.step]
  BY <1>2 DEF Reading, Dead, At, Prompt
<1> HIDE DEF p
<1>4. pump'[s] = p /\ \A t \in Streams : t # s => pump'[t] = pump[t]
  BY <1>1, OnePump DEF IInv
<1>5. TypeOK'
  BY <1>1, <1>3 DEF IInv, TypeOK, Becomes
<1>6. Asked'
  BY <1>1, <1>3, <1>4 DEF IInv, Asked
<1>7. PumpFits' /\ Found'
  BY <1>1, <1>3, <1>4 DEF IInv, PumpFits, Found
<1>8. SentSoFar' /\ AnswersFit'
  BY <1>1 DEF IInv, SentSoFar, AnswersFit
<1>9. Dialogue'
  BY <1>1, <1>3, QuietKeepsDialogue DEF Quiet, Current
<1> QED
  BY <1>5, <1>6, <1>7, <1>8, <1>9 DEF IInv

\* What was found was asked for: an attempt that is behind finds nothing, and one
\* that is in step has read the answers before.
LEMMA FoundIsNext ==
  ASSUME IInv, NEW s \in Streams, pump[s].at = "search", pump[s].text = pump[s].step,
         command = "running"
  PROVE  /\ ~Behind /\ index = Len(got) /\ stdin = <<>>
         /\ \A t \in Streams : pump[t].at # "write"
<1>1. pump[s].step = index + 1 /\ pump[s].text <= asked /\ asked <= Len(got) + 1
  BY DEF IInv, PumpFits, Asked
<1>2. index \in Nat /\ asked \in Nat /\ Len(got) \in Nat
  BY DEF IInv, TypeOK
<1>3. ~Behind
  BY <1>1, <1>2 DEF Behind
<1>4. index <= Len(got)
  BY <1>1, <1>2
<1> QED
  BY <1>2, <1>3, <1>4 DEF IInv, Dialogue, InStep

LEMMA SearchKeeps ==
  ASSUME IInv, NEW s \in Streams, Search(s)
  PROVE  IInv'
<1> DEFINE p == IF pump[s].text = pump[s].step
                THEN At("send", pump[s].text, pump[s].step) ELSE Reading
<1>1. /\ Becomes(s, p) /\ pump[s].at = "search"
      /\ UNCHANGED <<attempt, command, asked, got, pipe, stdin, index, sent>>
  BY DEF Search, session
<1>2. /\ pump[s].text \in 0 .. Steps /\ pump[s].step \in Prompt
      /\ pump[s].text <= asked /\ asked \in Nat /\ Steps \in Nat
      /\ pump[s].step = index + 1 /\ s \in Listen[pump[s].step]
  BY <1>1, SessionAssumption DEF IInv, TypeOK, Asked, PumpFits
<1>3. /\ p \in [at : {"read", "send"}, text : 0 .. Steps, step : 0 .. Steps]
      /\ p.text <= asked
      /\ p.at \in {"read", "send"}
      /\ p.at = "send" => /\ p.step = index + 1 /\ p.step \in Prompt
                          /\ p.text = p.step /\ pump[s].text = pump[s].step
                          /\ s \in Listen[p.step]
  BY <1>2 DEF Reading, At, Prompt
<1> HIDE DEF p
<1>4. pump'[s] = p /\ \A t \in Streams : t # s => pump'[t] = pump[t]
  BY <1>1, OnePump DEF IInv
<1>5. TypeOK'
  BY <1>1, <1>3 DEF IInv, TypeOK, Becomes
<1>6. Asked'
  BY <1>1, <1>3, <1>4 DEF IInv, Asked
<1>7. PumpFits' /\ Found'
  BY <1>1, <1>3, <1>4 DEF IInv, PumpFits, Found
<1>8. SentSoFar' /\ AnswersFit'
  BY <1>1 DEF IInv, SentSoFar, AnswersFit
<1>9. Dialogue'
  <2>1. CASE p.at = "read"
    BY <1>1, <2>1, QuietKeepsDialogue DEF Quiet
  <2>2. CASE p.at = "send" /\ command = "running"
    BY <1>1, <1>3, <1>4, <2>2, FoundIsNext DEF Dialogue, InStep
  <2>3. CASE command # "running"
    BY <1>1, <2>3 DEF Dialogue
  <2> QED
    BY <1>3, <2>1, <2>2, <2>3
<1> QED
  BY <1>5, <1>6, <1>7, <1>8, <1>9 DEF IInv

\* Nobody else looks for the step that is answered, and nobody for the next one yet;
\* the answer is in the hands of the pump, or lost with it.
LEMMA SendKeeps ==
  ASSUME OneListener, IInv, NEW s \in Streams, Send(s) \/ SendFails(s)
  PROVE  IInv'
<1>1. PICK p \in {Dead, At("write", 0, pump[s].step)} :
        /\ Becomes(s, p) /\ pump[s].at = "send"
        /\ sent' = Append(sent, pump[s].step) /\ index' = index + 1
        /\ UNCHANGED <<attempt, command, asked, got, pipe, stdin>>
  BY DEF Send, SendFails, session
<1>2. /\ pump[s].step \in Prompt /\ pump[s].step = index + 1 /\ asked \in Nat
      /\ Steps \in Nat /\ index \in Nat /\ pump[s].text = pump[s].step
      /\ s \in Listen[pump[s].step]
  BY <1>1, SessionAssumption DEF IInv, TypeOK, PumpFits, Found
<1>3. /\ p \in [at : {"write", "dead"}, text : 0 .. Steps, step : 0 .. Steps]
      /\ p.at \in {"write", "dead"} /\ p.text <= asked
      /\ p.at = "write" => p.step = index + 1 /\ p.step \in Prompt
  BY <1>2 DEF Dead, At, Prompt
<1>4. pump'[s] = p /\ \A t \in Streams : t # s => pump'[t] = pump[t]
  BY <1>1, OnePump DEF IInv
<1>5. SentSoFar' /\ sent' \in Seq(Prompt)
  BY <1>1, <1>2 DEF IInv, TypeOK, SentSoFar
<1>6. TypeOK'
  BY <1>1, <1>2, <1>3, <1>5 DEF IInv, TypeOK, Becomes, Prompt
<1>7. Asked'
  BY <1>1, <1>3, <1>4 DEF IInv, Asked
<1>8. \A t \in Streams : t # s => pump[t].at \notin {"search", "send"}
  BY <1>2 DEF OneListener, IInv, PumpFits
<1>9. PumpFits' /\ Found'
  BY <1>3, <1>4, <1>8 DEF IInv, PumpFits, Found
<1>10. AnswersFit'
  BY <1>1 DEF IInv, AnswersFit
<1>11. Dialogue'
  <2>1. CASE command # "running"
    BY <1>1, <2>1 DEF Dialogue
  <2>2. CASE command = "running"
    <3>1. ~Behind /\ InStep
      BY <1>1, <2>2 DEF IInv, Dialogue, Behind
    <3>2. Len(got) \in Nat /\ index + 1 <= asked /\ asked <= Len(got) + 1
      BY <1>2 DEF IInv, TypeOK, Asked
    <3>3. /\ index = Len(got) /\ stdin = <<>>
          /\ \A t \in Streams : pump[t].at # "write"
      BY <1>2, <3>1, <3>2 DEF InStep
    <3> QED
      BY <1>1, <1>3, <1>4, <3>3 DEF Dialogue, InStep
  <2> QED
    BY <2>1, <2>2
<1> QED
  BY <1>5, <1>6, <1>7, <1>9, <1>10, <1>11 DEF IInv

LEMMA WriteKeeps ==
  ASSUME IInv, NEW s \in Streams, Write(s)
  PROVE  IInv'
<1>1. /\ Becomes(s, Reading) /\ pump[s].at = "write"
      /\ UNCHANGED <<attempt, command, asked, got, pipe, index, sent>>
  BY DEF Write, session
<1>2. pump[s].step \in Prompt /\ stdin \in Seq(Prompt)
  BY <1>1 DEF IInv, TypeOK, Found
<1>3. stdin' = IF command = "running" THEN Append(stdin, pump[s].step) ELSE stdin
  BY DEF Write
<1>4. pump'[s] = Reading /\ \A t \in Streams : t # s => pump'[t] = pump[t]
  BY <1>1, OnePump DEF IInv
<1>5. stdin' \in Seq(Prompt)
  BY <1>2, <1>3
<1>6. TypeOK'
  BY <1>1, <1>5, SessionAssumption DEF IInv, TypeOK, Becomes, Reading
<1>7. Asked'
  <2>1. Reading.text <= asked
    BY DEF IInv, TypeOK, Reading
  <2> QED
    BY <1>1, <1>4, <2>1 DEF IInv, Asked
<1>8. PumpFits' /\ Found'
  BY <1>1, <1>4 DEF IInv, PumpFits, Found, Reading
<1>9. SentSoFar' /\ AnswersFit'
  BY <1>1 DEF IInv, SentSoFar, AnswersFit
<1>10. Dialogue'
  <2>1. CASE command # "running"
    BY <1>1, <2>1 DEF Dialogue
  <2>2. CASE command = "running"
    <3>1. /\ index = Len(got) + 1 /\ stdin = <<>> /\ pump[s].step = index
          /\ \A t \in Streams : pump[t].at = "write" => t = s
      BY <1>1, <2>2 DEF IInv, Dialogue, Behind, InStep
    <3>2. stdin' = <<index>>
      BY <1>3, <2>2, <3>1
    <3>3. \A t \in Streams : pump'[t].at # "write"
      BY <1>4, <3>1 DEF Reading
    <3> QED
      BY <1>1, <3>1, <3>2, <3>3 DEF Dialogue, InStep
  <2> QED
    BY <2>1, <2>2
<1> QED
  BY <1>6, <1>7, <1>8, <1>9, <1>10 DEF IInv

-----------------------------------------------------------------------------
LEMMA StutterKeeps ==
  ASSUME IInv, UNCHANGED vars
  PROVE  IInv'
  BY DEF IInv, TypeOK, SentSoFar, PumpFits, Found, Asked, Dialogue, Behind, InStep,
     AnswersFit, vars, session

LEMMA NextIInv ==
  ASSUME OneListener
  PROVE  IInv /\ [Next]_vars => IInv'
<1> SUFFICES ASSUME IInv, [Next]_vars PROVE IInv'
  OBVIOUS
<1>1. CASE Ask \/ ReadAnswer \/ Retry
  BY <1>1, AskKeeps, ReadAnswerKeeps, RetryKeeps
<1>2. ASSUME NEW how \in {"passed", "failed"}, End(how) PROVE IInv'
  BY <1>2, EndKeeps
<1>3. ASSUME NEW s \in Streams, Pump(s) PROVE IInv'
  BY <1>3, TakeKeeps, CurrentKeeps, SearchKeeps, SendKeeps, WriteKeeps DEF Pump
<1>4. CASE UNCHANGED vars
  BY <1>4, StutterKeeps
<1> QED
  BY <1>1, <1>2, <1>3, <1>4 DEF Next

LEMMA IInvHolds ==
  ASSUME OneListener
  PROVE  Spec => []IInv
<1>1. IInv /\ [Next]_vars => IInv'
  BY NextIInv
<1> HIDE DEF IInv, Init, Next, vars
<1> QED
  BY <1>1, InitIInv, PTL DEF Spec

\* Type correctness of a session whose steps listen to one stream each.
THEOREM TypeOKHolds ==
  ASSUME OneListener
  PROVE  Spec => []TypeOK
<1>1. IInv => TypeOK
  BY DEF IInv
<1>2. Spec => []IInv
  BY IInvHolds
<1> HIDE DEF IInv, TypeOK
<1> QED
  BY <1>1, <1>2, PTL

\* ExpectRuntime: over all attempts of the job and whichever pump gets there first,
\* the steps are sent in order, each of them once.
THEOREM EachStepOnceHolds ==
  ASSUME OneListener
  PROVE  Spec => []EachStepOnce
<1>1. IInv => EachStepOnce
  BY DEF IInv, SentSoFar, EachStepOnce
<1>2. Spec => []IInv
  BY IInvHolds
<1> HIDE DEF IInv, EachStepOnce
<1> QED
  BY <1>1, <1>2, PTL

\* ExpectRuntime and the pumps: the k-th answer that an attempt's command reads is
\* the answer to its k-th prompt, whatever earlier attempts were told.
THEOREM AnswersFitHolds ==
  ASSUME OneListener
  PROVE  Spec => []AnswersFit
<1>1. IInv => AnswersFit
  BY DEF IInv
<1>2. Spec => []IInv
  BY IInvHolds
<1> HIDE DEF IInv, AnswersFit
<1> QED
  BY <1>1, <1>2, PTL

-----------------------------------------------------------------------------
(* What becomes of a retry                                                  *)

\* The attempt is behind the dialogue, and its command has not passed.
Lost == Behind /\ command # "passed"

\* Nothing brings the dialogue back: the next step waits for a prompt that the
\* command prints only after the answer to its first.
LEMMA LostStays ==
  ASSUME IInv, Lost, [Next]_vars
  PROVE  Lost'
<1>1. /\ index > 0 /\ asked <= 1 /\ got = <<>> /\ stdin = <<>> /\ Len(got) = 0
      /\ index \in Nat /\ asked \in Nat /\ command # "passed"
      /\ \A s \in Streams : pump[s].at \notin {"send", "write"}
  BY DEF Lost, Behind, IInv, TypeOK
<1>2. CASE Ask
  BY <1>1, <1>2 DEF Ask, Lost, Behind
<1>3. CASE ReadAnswer
  BY <1>1, <1>3 DEF ReadAnswer
<1>4. CASE Retry
  BY <1>1, <1>4 DEF Retry, Fresh, Reading, Lost, Behind
<1>5. ASSUME NEW how \in {"passed", "failed"}, End(how) PROVE Lost'
  BY <1>1, <1>5, SessionAssumption DEF End, Lost, Behind
<1>6. ASSUME NEW s \in Streams, NEW p, Becomes(s, p), p.at \notin {"send", "write"},
             UNCHANGED <<command, asked, got, stdin, index>>
      PROVE  Lost'
  <2>1. \A t \in Streams : pump'[t].at \notin {"send", "write"}
    BY <1>1, <1>6, OnePump DEF IInv
  <2> QED
    BY <1>1, <1>6, <2>1 DEF Lost, Behind
<1>7. ASSUME NEW s \in Streams, Take(s) \/ LogFails(s) PROVE Lost'
  <2>1. PICK p \in {Reading, Dead, At("current", Head(pipe[s]), 0)} :
          Becomes(s, p) /\ UNCHANGED <<command, asked, got, stdin, index>>
    BY <1>7 DEF Take, LogFails, session
  <2>2. p.at \notin {"send", "write"}
    BY DEF Reading, Dead, At
  <2> QED
    BY <1>6, <2>1, <2>2
<1>8. ASSUME NEW s \in Streams, Current(s) PROVE Lost'
  <2> DEFINE p == IF index >= Steps THEN Dead
                  ELSE IF s \in Listen[index + 1] THEN At("search", pump[s].text, index + 1)
                  ELSE Reading
  <2>1. /\ Becomes(s, p) /\ p.at \notin {"send", "write"}
        /\ UNCHANGED <<command, asked, got, stdin, index>>
    BY <1>8 DEF Current, session, Reading, Dead, At
  <2> QED
    BY <1>6, <2>1
<1>9. ASSUME NEW s \in Streams, Search(s) PROVE Lost'
  <2>1. pump[s].step = index + 1 /\ pump[s].text <= asked /\ pump[s].text \in Nat
    BY <1>9 DEF Search, IInv, TypeOK, PumpFits, Asked
  <2>2. pump[s].text # pump[s].step
    BY <1>1, <2>1
  <2>3. Becomes(s, Reading) /\ UNCHANGED <<command, asked, got, stdin, index>>
    BY <1>9, <2>2 DEF Search, session
  <2> QED
    BY <1>6, <2>3 DEF Reading
<1>10. ASSUME NEW s \in Streams, Send(s) \/ SendFails(s) \/ Write(s) PROVE Lost'
  BY <1>1, <1>10 DEF Send, SendFails, Write
<1>11. CASE UNCHANGED vars
  BY <1>11 DEF vars, session, Lost, Behind
<1> QED
  BY <1>2, <1>3, <1>4, <1>5, <1>7, <1>8, <1>9, <1>10, <1>11 DEF Next, Pump

\* A retry after the first step was answered is lost as it starts.
RetryIsLost == [][Retry /\ index > 0 => Lost']_vars

\* ExpectRuntime._index outlives the attempt: a retry that starts after the first step
\* was answered is lost.
THEOREM RetryIsLostHolds == Spec => RetryIsLost
<1>1. [Next]_vars => [Retry /\ index > 0 => Lost']_vars
  BY DEF Retry, Fresh, Reading, Lost, Behind
<1> QED
  BY <1>1, PTL DEF Spec, RetryIsLost

\* What is lost stays lost: neither that attempt nor a later one of the job reads an
\* answer or passes, for any number of steps and retries.
THEOREM LostForGood ==
  ASSUME OneListener
  PROVE  Spec => [](Lost => [](got = <<>> /\ command # "passed"))
<1>1. IInv /\ Lost /\ [Next]_vars => Lost'
  BY LostStays
<1>2. Lost => got = <<>> /\ command # "passed"
  BY DEF Lost, Behind
<1>3. Spec => []IInv
  BY IInvHolds
<1> HIDE DEF IInv, Lost, Init, Next, vars
<1> QED
  BY <1>1, <1>2, <1>3, PTL DEF Spec
=============================================================================
