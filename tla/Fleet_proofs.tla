---------------------------- MODULE Fleet_proofs ----------------------------
(***************************************************************************)
(* No run is executed twice at a time, none is left running without a       *)
(* reason, one that was completed shows its outcome, and no worker is        *)
(* charged for a run that is over without a reason, for any number of runs,  *)
(* workers, lives and faults.                                               *)
(***************************************************************************)
EXTENDS Fleet, TLAPS, FiniteSetTheorems

RunRow == Store!RunRow
Final  == Store!Final

\* What a request carries, by its operation.
Carries(q) ==
  /\ q.op \in {"idle", "create", "register", "beat", "beat_register", "claim",
               "run_beat", "cancel", "complete"}
  /\ q.op = "idle" => q = Store!Idle
  /\ q.op \in {"create", "run_beat", "cancel", "complete"} => q.run \in Runs /\ q.read \in RunRow
  /\ q.op = "create" => /\ q.new \in RunRow /\ q.new.state = "queued"
                        /\ q.read.state = "absent"
  /\ q.op = "complete" => q.result \in Store!Results /\ q.read.state \notin Final
  /\ q.op = "claim" => q.worker \in Workers /\ q.labels = {} /\ q.policy = "fifo"

ServerOK ==
  /\ runs \in [Runs -> RunRow]
  /\ clock \in Nat
  /\ DOMAIN call = Callers /\ \A c \in Callers : Carries(call[c])

-----------------------------------------------------------------------------
(* The server.                                                              *)

\* A run goes from queued to running, if at all, by a claim, and never back.
Moves(before, after) ==
  \/ after = before
  \/ before = "absent" /\ after = "queued"
  \/ after \in Final

Begins(c) ==
  \/ \E r \in Runs : Store!BeginCreate(c, r, Plain) \/ Store!BeginCancel(c, r)
  \/ \E w \in Workers : \/ Store!BeginRegister(c, w, 1, "healthy")
                        \/ Store!BeginBeat(c, w, "healthy")
                        \/ Store!BeginClaim(c, w, {}, "fifo")
  \/ \E r \in Runs : \E w : Store!BeginRunBeat(c, r, w)
  \/ \E r \in Runs, res \in Store!Results : Store!BeginComplete(c, r, res)
  \/ Store!BeginBeatRegister(c)

LEMMA BeginServes ==
  ASSUME ServerOK, NEW c \in Callers, Begins(c)
  PROVE  /\ ServerOK' /\ UNCHANGED runs
         /\ \A d \in Callers : d # c => call'[d] = call[d]
<1>1. /\ UNCHANGED runs /\ clock' \in Nat
      /\ \E q : call' = [call EXCEPT ![c] = q]
  BY DEF ServerOK, Begins, Store!BeginCreate, Store!BeginCancel, Store!BeginRegister,
     Store!BeginBeat, Store!BeginClaim, Store!BeginRunBeat, Store!BeginComplete,
     Store!BeginBeatRegister, Store!Send
<1>2. Carries(call'[c])
  <2>1. CASE \E r \in Runs : Store!BeginCreate(c, r, Plain)
    <3>1. PICK r \in Runs : Store!BeginCreate(c, r, Plain)
      BY <2>1
    <3> DEFINE new == [state |-> "queued", status |-> "queued", claimed_by |-> NoWorker,
                       queued_at |-> clock + 1, request |-> Plain, result |-> "none"]
    <3>2. new \in RunRow /\ new.state = "queued"
      BY DEF ServerOK, RunRow, Store!RunRow, Store!RunState
    <3> HIDE DEF new
    <3>3. call'[c] = [op |-> "create", run |-> r, read |-> runs[r], new |-> new]
          /\ runs[r].state = "absent"
      BY <3>1 DEF ServerOK, Store!BeginCreate, Store!Send, Store!Create, new
    <3> QED
      BY <3>2, <3>3 DEF ServerOK, Carries
  <2>2. CASE \E r \in Runs : Store!BeginCancel(c, r)
    BY <2>2 DEF ServerOK, Carries, Store!BeginCancel, Store!Send, Store!Cancel
  <2>3. CASE \E w \in Workers : \/ Store!BeginRegister(c, w, 1, "healthy")
                                \/ Store!BeginBeat(c, w, "healthy")
                                \/ Store!BeginClaim(c, w, {}, "fifo")
    BY <2>3 DEF ServerOK, Carries, Store!BeginRegister, Store!BeginBeat, Store!BeginClaim,
       Store!Send, Store!Register, Store!Beat, Store!Claim
  <2>4. CASE \E r \in Runs : \E w : Store!BeginRunBeat(c, r, w)
    BY <2>4 DEF ServerOK, Carries, Store!BeginRunBeat, Store!Send, Store!RunBeat
  <2>5. CASE \E r \in Runs, res \in Store!Results : Store!BeginComplete(c, r, res)
    BY <2>5 DEF ServerOK, Carries, Store!BeginComplete, Store!Send, Store!Complete, Final
  <2>6. CASE Store!BeginBeatRegister(c)
    BY <2>6 DEF ServerOK, Carries, Store!BeginBeatRegister, Store!Send, Store!Register
  <2> QED
    BY <2>1, <2>2, <2>3, <2>4, <2>5, <2>6 DEF Begins
<1> QED
  BY <1>1, <1>2 DEF ServerOK

\* What an UPDATE leaves in the table is a row.
LEMMA WrittenRow ==
  ASSUME NEW current \in RunRow, NEW read \in RunRow, NEW new \in RunRow
  PROVE  /\ Store!Written(current, read, new) \in RunRow
         /\ Store!Written(current, read, new).state
              = IF new.state = read.state THEN current.state ELSE new.state
         /\ Store!Written(current, read, new).status = new.status
  BY DEF Store!Written, Store!Column, RunRow, Store!RunRow

\* A commit ends the request, but for the first half of a heartbeat.
LEMMA CommitAnswers ==
  ASSUME NEW c \in Callers, Store!Commit(c)
  PROVE  /\ \/ call' = [call EXCEPT ![c] = Store!Idle]
            \/ call' = [call EXCEPT ![c] = Store!BeatRegister(call[c].worker,
                                              call[c].read.capacity, call[c].health)]
         /\ UNCHANGED clock /\ call[c].op # "idle"
<1> USE DEF Store!Done, Store!Send
<1>1. CASE Store!CommitBeat(c)
  BY <1>1 DEF Store!CommitBeat
<1>2. CASE Store!CommitCreate(c)
  BY <1>2 DEF Store!CommitCreate
<1>3. CASE Store!CommitRegister(c) \/ Store!CommitClaim(c) \/ Store!CommitClaimNothing(c)
  BY <1>3 DEF Store!CommitRegister, Store!CommitClaim, Store!CommitClaimNothing
<1>4. CASE Store!CommitClaimAnon(c) \/ Store!CommitRunBeat(c) \/ Store!CommitCancel(c)
           \/ Store!CommitComplete(c)
  BY <1>4 DEF Store!CommitClaimAnon, Store!CommitRunBeat, Store!CommitCancel,
     Store!CommitComplete
<1> QED
  BY <1>1, <1>2, <1>3, <1>4 DEF Store!Commit

\* What the answer to a request leaves of it.
LEMMA AnswerServes ==
  ASSUME ServerOK, NEW c \in Callers, Store!Commit(c)
  PROVE  /\ DOMAIN call' = Callers /\ \A d \in Callers : Carries(call'[d])
         /\ \A d \in Callers : d # c => call'[d] = call[d]
         /\ call'[c].op \in {"idle", "beat_register"} /\ clock' \in Nat
<1>1. Carries(Store!Idle) /\ Store!Idle.op = "idle"
  BY DEF Carries, Store!Idle
<1>2. \A w, cap, h : LET q == Store!BeatRegister(w, cap, h)
                     IN Carries(q) /\ q.op = "beat_register"
  BY DEF Carries, Store!BeatRegister
<1>3. CASE call' = [call EXCEPT ![c] = Store!Idle]
  BY <1>1, <1>3, CommitAnswers DEF ServerOK
<1>4. CASE call' = [call EXCEPT ![c] = Store!BeatRegister(call[c].worker,
                                          call[c].read.capacity, call[c].health)]
  <2> DEFINE q == Store!BeatRegister(call[c].worker, call[c].read.capacity, call[c].health)
  <2>1. Carries(q) /\ q.op = "beat_register"
    BY <1>2
  <2>2. call' = [call EXCEPT ![c] = q]
    BY <1>4
  <2> HIDE DEF q
  <2>3. /\ DOMAIN call' = Callers /\ call'[c] = q
        /\ \A d \in Callers : d # c => call'[d] = call[d]
    BY <2>2 DEF ServerOK
  <2> QED
    BY <2>1, <2>3, CommitAnswers DEF ServerOK
<1> QED
  BY <1>3, <1>4, CommitAnswers

\* One row of the table of runs is written, or none.
OneRow(c, r, row) ==
  /\ r \in Runs /\ row \in RunRow
  /\ runs' = [runs EXCEPT ![r] = row]
  /\ Moves(runs[r].state, row.state)
  /\ call[c].op = "complete" => call[c].run = r /\ row.state \in Final
  /\ \/ call[c].op = "create" /\ row.state = "queued"
     \/ call[c].op = "run_beat" /\ row.state = runs[r].state
     \/ /\ call[c].op = "cancel" /\ row.status = "canceled"
        /\ row.state = "canceled" \/ (row.state = runs[r].state /\ call[c].read.state = "canceled")
     \/ call[c].op = "complete" /\ row.status = row.state

\* Every request but a claim writes one row or none.
LEMMA CommitWrites ==
  ASSUME ServerOK, NEW c \in Callers, Store!Commit(c), call[c].op # "claim"
  PROVE  \/ UNCHANGED runs /\ call[c].op # "complete"
         \/ \E row : OneRow(c, call[c].run, row)
<1>3. Carries(call[c])
  BY DEF ServerOK
<1>5. CASE Store!CommitCreate(c)
  <2>1. /\ call[c].op = "create" /\ call[c].run \in Runs /\ call[c].read \in RunRow
        /\ call[c].new \in RunRow /\ call[c].new.state = "queued" /\ call[c].read.state = "absent"
        /\ runs[call[c].run].state = "absent" /\ runs[call[c].run] \in RunRow
    BY <1>3, <1>5 DEF Carries, ServerOK, Store!CommitCreate
  <2> DEFINE row == Store!Written(runs[call[c].run], call[c].read, call[c].new)
  <2>2. row \in RunRow /\ row.state = "queued"
    BY <2>1, WrittenRow
  <2>3. PICK unwritten :
          runs' = [runs EXCEPT ![call[c].run] =
                     [row EXCEPT !.status = IF unwritten THEN runs[call[c].run].status ELSE @]]
    BY <1>5 DEF Store!CommitCreate
  <2> DEFINE status == IF unwritten THEN runs[call[c].run].status ELSE row.status
             after == [row EXCEPT !.status = status]
  <2>4. runs' = [runs EXCEPT ![call[c].run] = after]
    BY <2>3
  <2>5. status \in Store!RunState
    BY <2>1, <2>2 DEF RunRow, Store!RunRow
  <2> HIDE DEF row, status
  <2>6. after \in RunRow /\ after.state = "queued"
    BY <2>2, <2>5 DEF RunRow, Store!RunRow
  <2> HIDE DEF after
  <2>7. OneRow(c, call[c].run, after)
    BY <2>1, <2>4, <2>6 DEF OneRow, Moves
  <2> QED
    BY <2>7
<1>6. CASE Store!CommitRunBeat(c)
  <2>1. /\ call[c].op = "run_beat" /\ call[c].run \in Runs /\ call[c].read \in RunRow
        /\ runs[call[c].run] \in RunRow
    BY <1>3, <1>6 DEF Carries, ServerOK, Store!CommitRunBeat
  <2> DEFINE row == Store!Written(runs[call[c].run], call[c].read, call[c].read)
  <2>2. runs' = [runs EXCEPT ![call[c].run] = row]
    BY <1>6 DEF Store!CommitRunBeat
  <2>3. row \in RunRow /\ row.state = runs[call[c].run].state
    BY <2>1, WrittenRow
  <2> HIDE DEF row
  <2>4. OneRow(c, call[c].run, row)
    BY <2>1, <2>2, <2>3 DEF OneRow, Moves
  <2> QED
    BY <2>4
<1>7. CASE Store!CommitCancel(c)
  <2>1. /\ call[c].op = "cancel" /\ call[c].run \in Runs /\ call[c].read \in RunRow
        /\ runs[call[c].run] \in RunRow
    BY <1>3, <1>7 DEF Carries, ServerOK, Store!CommitCancel
  <2> DEFINE new == [call[c].read EXCEPT !.state = "canceled", !.status = "canceled"]
             row == Store!Written(runs[call[c].run], call[c].read, new)
  <2>2. new \in RunRow /\ new.state = "canceled" /\ new.status = "canceled"
    BY <2>1 DEF RunRow, Store!RunRow, Store!RunState, Store!Final
  <2>3. runs' = [runs EXCEPT ![call[c].run] = row]
    BY <1>7 DEF Store!CommitCancel
  <2> HIDE DEF new
  <2>4. row \in RunRow /\ row.state \in {"canceled", runs[call[c].run].state}
        /\ row.status = "canceled"
        /\ (row.state # "canceled" => call[c].read.state = "canceled")
    BY <2>1, <2>2, WrittenRow
  <2> HIDE DEF row
  <2>5. OneRow(c, call[c].run, row)
    BY <2>1, <2>3, <2>4 DEF OneRow, Moves, Final, Store!Final
  <2> QED
    BY <2>5
<1>8. CASE Store!CommitComplete(c)
  <2>1. /\ call[c].op = "complete" /\ call[c].run \in Runs /\ call[c].read \in RunRow
        /\ runs[call[c].run] \in RunRow /\ call[c].result \in Store!Results
        /\ call[c].result \in Final /\ call[c].read.state \notin Final
    BY <1>3, <1>8 DEF Carries, ServerOK, Store!CommitComplete, Final, Store!Final
  <2> DEFINE new == [call[c].read EXCEPT !.state = call[c].result, !.status = call[c].result]
             row == Store!Written(runs[call[c].run], call[c].read, new)
             after == [row EXCEPT !.result = call[c].result]
  <2>2. new \in RunRow /\ new.state = call[c].result /\ new.status = call[c].result
    BY <2>1 DEF RunRow, Store!RunRow, Store!RunState, Store!Final
  <2>3. runs' = [runs EXCEPT ![call[c].run] = after]
    BY <1>8 DEF Store!CommitComplete
  <2> HIDE DEF new
  <2>4. row \in RunRow /\ row.state = call[c].result /\ row.status = call[c].result
    BY <2>1, <2>2, WrittenRow
  <2> HIDE DEF row
  <2>5. after \in RunRow /\ after.state = call[c].result /\ after.status = call[c].result
    BY <2>1, <2>4 DEF RunRow, Store!RunRow
  <2> HIDE DEF after
  <2>6. OneRow(c, call[c].run, after)
    BY <2>1, <2>3, <2>5 DEF OneRow, Moves
  <2> QED
    BY <2>6
<1>9. CASE Store!CommitRegister(c) \/ Store!CommitBeat(c)
  BY <1>9 DEF Store!CommitRegister, Store!CommitBeat
<1>10. ~(Store!CommitClaim(c) \/ Store!CommitClaimNothing(c) \/ Store!CommitClaimAnon(c))
  BY <1>3 DEF Carries, Store!CommitClaim, Store!CommitClaimNothing, Store!CommitClaimAnon
<1> QED
  BY <1>5, <1>6, <1>7, <1>8, <1>9, <1>10 DEF Store!Commit

\* A request other than a claim moves no run to running, and a completion leaves
\* its run with an outcome.
LEMMA CommitServes ==
  ASSUME ServerOK, NEW c \in Callers, Store!Commit(c), call[c].op # "claim"
  PROVE  /\ ServerOK'
         /\ \A d \in Callers : d # c => call'[d] = call[d]
         /\ call'[c].op \in {"idle", "beat_register"}
         /\ \A r \in Runs : Moves(runs[r].state, runs'[r].state)
         /\ call[c].op = "complete" => runs'[call[c].run].state \in Final
<1>1. CASE UNCHANGED runs /\ call[c].op # "complete"
  BY <1>1, AnswerServes DEF ServerOK, Moves
<1>2. CASE \E row : OneRow(c, call[c].run, row)
  <2>1. PICK row : OneRow(c, call[c].run, row)
    BY <1>2
  <2>2. /\ runs' \in [Runs -> RunRow] /\ runs'[call[c].run] = row
        /\ \A s \in Runs \ {call[c].run} : runs'[s] = runs[s]
    BY <2>1 DEF OneRow, ServerOK
  <2>3. \A r \in Runs : Moves(runs[r].state, runs'[r].state)
    BY <2>1, <2>2 DEF OneRow, Moves
  <2> QED
    BY <2>1, <2>2, <2>3, AnswerServes DEF OneRow, ServerOK
<1> QED
  BY <1>1, <1>2, CommitWrites

\* A claim takes one run, a queued one.
LEMMA ClaimServes ==
  ASSUME ServerOK, NEW c \in Callers, Store!CommitClaim(c)
  PROVE  /\ ServerOK'
         /\ \A d \in Callers : d # c => call'[d] = call[d]
         /\ call[c].op = "claim" /\ call'[c].op = "idle"
         /\ \E r \in Runs :
              /\ Store!Selected({}, "fifo") = {r}
              /\ runs[r].state = "queued" /\ runs'[r].state = "running"
              /\ \A s \in Runs \ {r} : runs'[s] = runs[s]
<1>1. call[c].op = "claim" /\ call[c].worker \in Workers /\ call[c].labels = {} /\ call[c].policy = "fifo"
  BY DEF ServerOK, Carries, Store!CommitClaim
<1>2. PICK r \in Store!Selected({}, "fifo") :
        /\ runs' = [runs EXCEPT ![r] = [@ EXCEPT !.state = "running", !.status = "running",
                                                 !.claimed_by = call[c].worker]]
        /\ call' = [call EXCEPT ![c] = Store!Idle] /\ UNCHANGED clock
  BY <1>1 DEF Store!CommitClaim, Store!Done
<1>3. r \in Runs /\ runs[r] \in RunRow /\ runs[r].state = "queued"
  BY <1>2 DEF Store!Selected, Store!Eligible, ServerOK
<1>4. ASSUME NEW s \in Store!Selected({}, "fifo") PROVE s = r
  <2>1. s # r => runs[s].queued_at < runs[r].queued_at /\ runs[r].queued_at < runs[s].queued_at
    BY <1>2 DEF Store!Selected, Store!Ahead, Store!Older
  <2>2. s \in Runs /\ runs[s].queued_at \in Nat /\ runs[r].queued_at \in Nat
    BY <1>3 DEF Store!Selected, ServerOK, RunRow, Store!RunRow
  <2> QED
    BY <2>1, <2>2
<1> DEFINE row == [runs[r] EXCEPT !.state = "running", !.status = "running",
                                  !.claimed_by = call[c].worker]
<1>5. row \in RunRow /\ row.state = "running"
  BY <1>1, <1>3 DEF RunRow, Store!RunRow, Store!RunState
<1>6. runs' = [runs EXCEPT ![r] = row]
  BY <1>2
<1> HIDE DEF row
<1>7. /\ runs' \in [Runs -> RunRow] /\ runs'[r].state = "running"
      /\ \A s \in Runs \ {r} : runs'[s] = runs[s]
  BY <1>3, <1>5, <1>6 DEF ServerOK
<1>8. Carries(Store!Idle) /\ Store!Idle.op = "idle"
  BY DEF Carries, Store!Idle
<1>9. ServerOK'
  BY <1>2, <1>7, <1>8 DEF ServerOK
<1>10. Store!Selected({}, "fifo") = {r}
  BY <1>2, <1>4
<1> QED
  BY <1>1, <1>2, <1>3, <1>7, <1>8, <1>9, <1>10 DEF ServerOK

-----------------------------------------------------------------------------
(* The programs.                                                            *)

Typed ==
  /\ pc \in [Workers -> Places]
  /\ lease \in [Workers -> Runs \cup {NoRun}]
  /\ life \in [Workers -> 0..MaxLives]
  /\ \A w \in Workers : pc[w] # "off" => life[w] # 0

\* A run that was leased is no longer queued, and was leased to one program only.
Leased ==
  /\ \A w \in Workers : lease[w] # NoRun => runs[lease[w]].state \notin {"absent", "queued"}
  /\ \A v, w \in Workers : lease[v] = lease[w] /\ lease[v] # NoRun => v = w

\* Where a program stands tells whether it holds a lease, and a program that
\* reports an outcome waits for the server to write it.
InPlace(w) ==
  /\ pc[w] \in {"poll", "register", "beat"} => lease[w] = NoRun
  /\ pc[w] = "claim" /\ call[Main(w)].op = "claim" => lease[w] = NoRun
  /\ pc[w] \in Working \ {"claim"} => lease[w] # NoRun
  /\ pc[w] = "complete" =>
       \/ runs[lease[w]].state \in Final
       \/ (call[Main(w)].op = "complete" /\ call[Main(w)].run = lease[w])

IInv ==
  /\ ServerOK /\ Typed /\ Leased
  /\ \A w \in Workers : InPlace(w)
  /\ OrphanHasCause

\* A thread has requests of its own.
LEMMA OwnCaller ==
  ASSUME NEW v, NEW w, NEW m, NEW n, NEW r
  PROVE  /\ <<"main", v, m>> = <<"main", w, n>> => v = w /\ m = n
         /\ <<"main", v, m>> # Client /\ <<"main", v, m>> # Pulse(r)
<1>1. <<"main", v, m>>[1] = "main" /\ Client[1] = "client" /\ Pulse(r)[1] = "pulse"
  BY DEF Client, Pulse
<1>2. <<"main", v, m>> = <<"main", w, n>> => v = w /\ m = n
  OBVIOUS
<1>3. <<"main", v, m>> = Client \/ <<"main", v, m>> = Pulse(r) => FALSE
  BY <1>1
<1> QED
  BY <1>2, <1>3

\* A program that was started is a caller of the server.
LEMMA MainCalls ==
  ASSUME FleetAssumption, Typed
  PROVE  /\ \A w \in Workers : pc[w] # "off" => Main(w) \in Callers
         /\ \A w \in Workers : life[w] \in Nat /\ (pc[w] # "off" => life[w] \in 1..MaxLives)
         /\ Client \in Callers /\ \A r \in Runs : Pulse(r) \in Callers
<1>1. \A w \in Workers : life[w] \in Nat /\ (pc[w] # "off" => life[w] \in 1..MaxLives)
  BY DEF Typed, FleetAssumption
<1> QED
  BY <1>1 DEF Callers, Main, Pulse

\* A step of the server alone: no program moves.
LEMMA ServerStep ==
  ASSUME IInv, ServerOK', UNCHANGED <<pc, lease, life>>, abandoned \subseteq abandoned',
         \A r \in Runs : Moves(runs[r].state, runs'[r].state),
         \A w \in Workers : pc[w] \in {"claim", "complete"} =>
           \/ call'[Main(w)] = call[Main(w)]
           \/ /\ call'[Main(w)].op # "claim"
              /\ call[Main(w)].op = "complete" => runs'[call[Main(w)].run].state \in Final
  PROVE  IInv'
<1>1. Typed' /\ \A w \in Workers : Main(w)' = Main(w)
  BY DEF IInv, Typed, Main
<1>2. \A r \in Runs : /\ runs[r].state \in Final => runs'[r].state \in Final
                      /\ runs[r].state \notin {"absent", "queued"}
                           => runs'[r].state \notin {"absent", "queued"}
                      /\ runs'[r].state = "running" => runs[r].state = "running"
  BY DEF Moves, Final, Store!Final, Store!Results
<1>3. Leased'
  BY <1>2 DEF IInv, Leased, Typed
<1>4. \A w \in Workers : InPlace(w)'
  <2> SUFFICES ASSUME NEW w \in Workers PROVE InPlace(w)'
    OBVIOUS
  <2>1. InPlace(w) /\ lease[w] \in Runs \cup {NoRun} /\ (pc[w] = "complete" => lease[w] \in Runs)
    BY DEF IInv, InPlace, Typed, Working
  <2>2. Main(w)' = Main(w) /\ pc'[w] = pc[w] /\ lease'[w] = lease[w]
    BY <1>1
  <2>3. CASE pc[w] = "complete"
    BY <1>2, <2>1, <2>2, <2>3 DEF InPlace, Working
  <2>4. CASE pc[w] = "claim"
    BY <2>1, <2>2, <2>4 DEF InPlace, Working
  <2>5. CASE pc[w] \notin {"claim", "complete"}
    BY <2>1, <2>2, <2>5 DEF InPlace, Working
  <2> QED
    BY <2>3, <2>4, <2>5
<1>5. OrphanHasCause'
  BY <1>2 DEF IInv, OrphanHasCause, Served
<1> QED
  BY <1>1, <1>3, <1>4, <1>5 DEF IInv

\* A step of one program: it does not let go of a run that is running, other
\* than by going away.
LEMMA ProgramStep ==
  ASSUME FleetAssumption, IInv, NEW w \in Workers, NEW p \in Places, NEW l \in {lease[w], NoRun},
         pc' = [pc EXCEPT ![w] = p], lease' = [lease EXCEPT ![w] = l],
         life' \in [Workers -> 0..MaxLives], p # "off" => life'[w] # 0,
         \A v \in Workers \ {w} : life'[v] = life[v],
         ServerOK', UNCHANGED runs, \A d \in Callers : d # Main(w)' => call'[d] = call[d],
         InPlace(w)', abandoned \subseteq abandoned',
         pc[w] \in Working /\ lease[w] # NoRun =>
           \/ p \in Working /\ l = lease[w]
           \/ lease[w] \in abandoned'
           \/ runs[lease[w]].state # "running"
  PROVE  IInv'
<1>1. Typed'
  BY DEF IInv, Typed
<1>2. \A v \in Workers \ {w} : pc'[v] = pc[v] /\ lease'[v] = lease[v] /\ Main(v)' = Main(v)
  BY DEF IInv, Typed, Main
<1>3. pc'[w] = p /\ lease'[w] = l
  BY DEF IInv, Typed
<1>4. Leased'
  BY <1>2, <1>3 DEF IInv, Leased, Typed
<1>5. \A v \in Workers : InPlace(v)'
  <2> SUFFICES ASSUME NEW v \in Workers \ {w} PROVE InPlace(v)'
    OBVIOUS
  <2>1. pc[v] # "off" => Main(v) \in Callers
    BY MainCalls DEF IInv
  <2>2. Main(v) # Main(w)'
    BY OwnCaller DEF Main
  <2>3. InPlace(v)
    BY DEF IInv
  <2>4. pc[v] # "off" => call'[Main(v)] = call[Main(v)]
    BY <2>1, <2>2
  <2> QED
    BY <1>2, <2>3, <2>4 DEF InPlace
<1>6. OrphanHasCause'
  <2> SUFFICES ASSUME NEW r \in Runs, runs[r].state = "running"
               PROVE  (\E v \in Workers : pc'[v] \in Working /\ lease'[v] = r) \/ r \in abandoned'
    BY DEF OrphanHasCause, Served
  <2>1. CASE r \in abandoned
    BY <2>1
  <2>2. CASE \E v \in Workers : pc[v] \in Working /\ lease[v] = r
    <3>1. PICK v \in Workers : pc[v] \in Working /\ lease[v] = r
      BY <2>2
    <3>2. CASE v = w
      BY <1>3, <3>1, <3>2 DEF FleetAssumption
    <3>3. CASE v # w
      BY <1>2, <3>1, <3>3
    <3> QED
      BY <3>2, <3>3
  <2> QED
    BY <2>1, <2>2 DEF IInv, OrphanHasCause, Served
<1> QED
  BY <1>1, <1>4, <1>5, <1>6 DEF IInv

\* A step of one program that keeps its lease, and sends a request or none.
LEMMA ProgramGoes ==
  ASSUME FleetAssumption, IInv, NEW w \in Workers, NEW p \in Places \ {"off"},
         Go(w, p), pc[w] # "off", UNCHANGED <<lease, life>>,
         UNCHANGED server \/ Begins(Main(w)),
         InPlace(w)', abandoned \subseteq abandoned',
         pc[w] \in Working /\ lease[w] # NoRun => p \in Working \/ lease[w] \in abandoned'
  PROVE  IInv'
<1>1. Main(w) \in Callers /\ Main(w)' = Main(w) /\ ServerOK
  BY MainCalls DEF IInv, Main
<1>2. ServerOK' /\ UNCHANGED runs /\ \A d \in Callers : d # Main(w) => call'[d] = call[d]
  <2>1. CASE UNCHANGED server
    BY <1>1, <2>1 DEF server, ServerOK
  <2>2. CASE Begins(Main(w))
    BY <1>1, <2>2, BeginServes
  <2> QED
    BY <2>1, <2>2
<1>3. /\ pc' = [pc EXCEPT ![w] = p] /\ lease' = [lease EXCEPT ![w] = lease[w]]
      /\ life' \in [Workers -> 0..MaxLives] /\ life'[w] # 0
      /\ \A v \in Workers \ {w} : life'[v] = life[v]
  BY DEF IInv, Typed, Go
<1>4. p \in Places
  OBVIOUS
<1> QED
  BY <1>1, <1>2, <1>3, <1>4, ProgramStep

\* A step of a program keeps the invariant.
LEMMA ProgramKeeps ==
  ASSUME FleetAssumption, IInv, NEW w \in Workers, Program(w)
  PROVE  IInv'
<1>1. InPlace(w)
  BY DEF IInv
<1> USE DEF Places, Serving, Working, Gone
<1>2. CASE RegisterWorker(w)
  <2>1. /\ Go(w, "register") /\ pc[w] = "poll" /\ UNCHANGED <<lease, life, abandoned>>
        /\ Store!BeginRegister(Main(w), w, 1, "healthy")
    BY <1>2 DEF RegisterWorker
  <2>2. InPlace(w)' /\ lease[w] = NoRun
    BY <1>1, <2>1 DEF InPlace, Go, IInv, Typed
  <2> QED
    BY <2>1, <2>2, ProgramGoes DEF Begins
<1>3. CASE HeartbeatWorker(w)
  <2>1. /\ Go(w, "beat") /\ pc[w] = "register" /\ UNCHANGED <<lease, life, abandoned>>
        /\ Store!BeginBeat(Main(w), w, "healthy")
    BY <1>3 DEF HeartbeatWorker
  <2>2. InPlace(w)' /\ lease[w] = NoRun
    BY <1>1, <2>1 DEF InPlace, Go, IInv, Typed
  <2> QED
    BY <2>1, <2>2, ProgramGoes DEF Begins
<1>4. CASE ClaimNextRun(w)
  <2>1. /\ Go(w, "claim") /\ pc[w] \in {"poll", "beat"} /\ UNCHANGED <<lease, life, abandoned>>
        /\ Store!BeginClaim(Main(w), w, {}, "fifo")
    BY <1>4 DEF ClaimNextRun, ReadyToClaim
  <2>2. InPlace(w)' /\ lease[w] = NoRun
    BY <1>1, <2>1 DEF InPlace, Go, IInv, Typed
  <2> QED
    BY <2>1, <2>2, ProgramGoes DEF Begins
<1>5. CASE ClaimRefused(w)
  <2>1. /\ Go(w, "dead") /\ pc[w] \in {"poll", "beat"} /\ UNCHANGED <<lease, life, abandoned>>
        /\ UNCHANGED server
    BY <1>5 DEF ClaimRefused, ReadyToClaim
  <2>2. InPlace(w)'
    BY <1>1, <2>1 DEF InPlace, Go, IInv, Typed
  <2> QED
    BY <2>1, <2>2, ProgramGoes
<1>6. CASE FirstHeartbeat(w)
  <2>1. /\ Go(w, "first") /\ pc[w] = "claim" /\ UNCHANGED <<lease, life, abandoned>>
        /\ lease[w] # NoRun
        /\ UNCHANGED server \/ Store!BeginRunBeat(Main(w), lease[w], w)
    BY <1>6 DEF FirstHeartbeat
  <2>2. InPlace(w)' /\ lease[w] \in Runs
    BY <1>1, <2>1 DEF InPlace, Go, IInv, Typed
  <2>3. UNCHANGED server \/ Begins(Main(w))
    BY <2>1, <2>2 DEF Begins
  <2> QED
    BY <2>1, <2>2, <2>3, ProgramGoes
<1>7. CASE StartPulse(w) \/ ExecutorReturns(w) \/ ExecutorRaises(w)
  <2>1. \E p \in {"execute", "join", "unwind"} :
          /\ Go(w, p) /\ pc[w] \in {"first", "execute"} /\ UNCHANGED <<lease, life, abandoned>>
          /\ UNCHANGED server
    BY <1>7 DEF StartPulse, ExecutorReturns, ExecutorRaises
  <2>2. InPlace(w)'
    BY <1>1, <2>1 DEF InPlace, Go, IInv, Typed
  <2> QED
    BY <2>1, <2>2, ProgramGoes
<1>8. CASE Join(w) \/ JoinTimesOut(w)
  <2>1. \E p \in {"finished", "dead"} :
          /\ Go(w, p) /\ pc[w] \in {"join", "unwind"} /\ UNCHANGED <<lease, life>>
          /\ UNCHANGED server /\ abandoned \subseteq abandoned'
          /\ p = "finished" \/ lease[w] \in abandoned'
    BY <1>8 DEF Join, JoinTimesOut
  <2>2. InPlace(w)'
    BY <1>1, <2>1 DEF InPlace, Go, IInv, Typed
  <2> QED
    BY <2>1, <2>2, ProgramGoes
<1>9. CASE CompleteRun(w)
  <2>1. /\ Go(w, "complete") /\ pc[w] = "finished" /\ UNCHANGED <<lease, life, abandoned>>
        /\ \/ UNCHANGED server /\ runs[lease[w]].state \in Final
           \/ \E res \in Store!Results : Store!BeginComplete(Main(w), lease[w], res)
    BY <1>9 DEF CompleteRun, Final
  <2>2. lease[w] \in Runs /\ lease[w] # NoRun /\ Main(w) \in DOMAIN call /\ Main(w)' = Main(w)
    BY <1>1, <2>1, MainCalls DEF InPlace, IInv, Typed, ServerOK, Main
  <2>3. UNCHANGED server \/ Begins(Main(w))
    BY <2>1, <2>2 DEF Begins
  <2>4. \/ UNCHANGED runs /\ runs[lease[w]].state \in Final
        \/ call'[Main(w)].op = "complete" /\ call'[Main(w)].run = lease[w]
    BY <2>1, <2>2 DEF server, Store!BeginComplete, Store!Send, Store!Complete
  <2>5. InPlace(w)'
    BY <2>1, <2>2, <2>4 DEF InPlace, Go, IInv, Typed
  <2> QED
    BY <2>1, <2>3, <2>5, ProgramGoes
<1>10. CASE RunOver(w)
  <2>1. /\ pc' = [pc EXCEPT ![w] = "poll"] /\ lease' = [lease EXCEPT ![w] = NoRun]
        /\ pc[w] = "complete" /\ call[Main(w)] = Store!Idle
        /\ UNCHANGED <<server, life, abandoned>>
    BY <1>10 DEF RunOver, Go, Answered
  <2>2. runs[lease[w]].state \in Final
    BY <1>1, <2>1 DEF InPlace, Store!Idle
  <2>3. InPlace(w)'
    BY <2>1 DEF InPlace, IInv, Typed
  <2>4. /\ life' \in [Workers -> 0..MaxLives] /\ life'[w] # 0
        /\ \A v \in Workers \ {w} : life'[v] = life[v]
    BY <2>1 DEF IInv, Typed
  <2>5. ServerOK' /\ UNCHANGED <<runs, call>> /\ abandoned \subseteq abandoned'
    BY <2>1 DEF server, ServerOK, IInv
  <2>6. runs[lease[w]].state # "running"
    BY <2>2 DEF Final, Store!Final, Store!Results
  <2> QED
    BY <2>1, <2>3, <2>4, <2>5, <2>6, ProgramStep
<1> QED
  BY <1>2, <1>3, <1>4, <1>5, <1>6, <1>7, <1>8, <1>9, <1>10 DEF Program

\* Starting and stopping a program keeps the invariant.
LEMMA StartKeeps ==
  ASSUME FleetAssumption, IInv, NEW w \in Workers, Start(w) \/ StopServing(w)
  PROVE  IInv'
<1> USE DEF Places, Serving, Working, Gone
<1>1. CASE Start(w)
  <2>1. /\ pc' = [pc EXCEPT ![w] = "poll"] /\ lease' = [lease EXCEPT ![w] = NoRun]
        /\ life' = [life EXCEPT ![w] = life[w] + 1] /\ life[w] < MaxLives
        /\ pc[w] \in Gone /\ UNCHANGED <<server, abandoned>>
    BY <1>1 DEF Start, Go
  <2>2. life[w] \in 0..MaxLives /\ MaxLives \in Nat
    BY DEF IInv, Typed, FleetAssumption
  <2>3. life[w] + 1 \in 0..MaxLives /\ life[w] + 1 # 0
    BY <2>1, <2>2
  <2>4. /\ life' \in [Workers -> 0..MaxLives] /\ life'[w] # 0
        /\ \A v \in Workers \ {w} : life'[v] = life[v]
    BY <2>1, <2>3 DEF IInv, Typed
  <2>5. ServerOK' /\ UNCHANGED <<runs, call>> /\ abandoned \subseteq abandoned'
    BY <2>1 DEF server, ServerOK, IInv
  <2>6. InPlace(w)'
    BY <2>1 DEF InPlace, IInv, Typed
  <2> QED
    BY <2>1, <2>4, <2>5, <2>6, ProgramStep
<1>2. CASE StopServing(w)
  <2>1. /\ Go(w, "stopped") /\ pc[w] = "poll" /\ UNCHANGED <<lease, life, abandoned, server>>
    BY <1>2 DEF StopServing
  <2>2. InPlace(w)'
    BY <2>1 DEF InPlace, Go, IInv, Typed
  <2> QED
    BY <2>1, <2>2, ProgramGoes
<1> QED
  BY <1>1, <1>2

\* A request of a thread that is no program's own begins.
LEMMA BeginKeeps ==
  ASSUME FleetAssumption, IInv, NEW c \in {Client} \cup {Pulse(r) : r \in Runs},
         Begins(c), UNCHANGED <<pc, lease, life, abandoned>>
  PROVE  IInv'
<1>1. c \in Callers /\ \A w : Main(w) # c
  BY MainCalls, OwnCaller DEF IInv, Main
<1>2. /\ ServerOK' /\ UNCHANGED runs
      /\ \A d \in Callers : d # c => call'[d] = call[d]
  BY <1>1, BeginServes DEF IInv
<1>3. \A w \in Workers : pc[w] \in {"claim", "complete"} => call'[Main(w)] = call[Main(w)]
  BY <1>1, <1>2, MainCalls DEF IInv
<1> QED
  BY <1>2, <1>3, ServerStep DEF Moves

\* Nothing that the invariant is about changes.
LEMMA Unmoved ==
  ASSUME IInv, UNCHANGED <<runs, call, clock, pc, lease, life, abandoned>>
  PROVE  IInv'
<1>1. ServerOK'
  BY DEF ServerOK, IInv
<1> QED
  BY <1>1, ServerStep DEF Moves

\* Users and heartbeat threads keep the invariant.
LEMMA OthersKeep ==
  ASSUME FleetAssumption, IInv, NEW r \in Runs,
         Submit(r) \/ CancelRun(r) \/ PulseThread(r) \/ PulseTimesOut(r)
  PROVE  IInv'
<1>1. CASE Submit(r) \/ CancelRun(r)
  <2>1. Begins(Client) /\ UNCHANGED <<pc, lease, life, abandoned>>
    BY <1>1 DEF Submit, CancelRun, Begins, fleet
  <2> QED
    BY <2>1, BeginKeeps
<1>2. CASE PulseHeartbeat(r) \/ PulseHeartbeatWorker(r)
  <2>1. UNCHANGED <<pc, lease, life, abandoned>> /\ (Begins(Pulse(r)) \/ UNCHANGED server)
    BY <1>2 DEF PulseHeartbeat, PulseHeartbeatWorker, Begins, FleetAssumption
  <2> QED
    BY <2>1, BeginKeeps, Unmoved DEF server
<1>3. CASE PulseWaits(r) \/ PulseEnds(r) \/ PulseTimesOut(r)
  BY <1>3, Unmoved DEF PulseWaits, PulseEnds, PulseTimesOut, server
<1> QED
  BY <1>1, <1>2, <1>3 DEF PulseThread

\* An answer other than that to a claim keeps the invariant.
LEMMA ServeKeeps ==
  ASSUME FleetAssumption, IInv, NEW c \in Callers, Serve(c)
  PROVE  IInv'
<1>1. UNCHANGED <<pc, lease, life, abandoned>> /\ call[c].op # "claim" /\ ServerOK
  BY DEF Serve, IInv
<1>2. CASE Store!Commit(c)
  <2>1. /\ ServerOK'
        /\ \A d \in Callers : d # c => call'[d] = call[d]
        /\ call'[c].op \in {"idle", "beat_register"}
        /\ \A r \in Runs : Moves(runs[r].state, runs'[r].state)
        /\ call[c].op = "complete" => runs'[call[c].run].state \in Final
    BY <1>1, <1>2, CommitServes
  <2>2. \A w \in Workers : pc[w] \in {"claim", "complete"} =>
           \/ call'[Main(w)] = call[Main(w)]
           \/ /\ call'[Main(w)].op # "claim"
              /\ call[Main(w)].op = "complete" => runs'[call[Main(w)].run].state \in Final
    BY <2>1, MainCalls DEF IInv
  <2> QED
    BY <1>1, <2>1, <2>2, ServerStep
<1>3. CASE Store!BeginBeatRegister(c)
  <2>1. /\ ServerOK' /\ UNCHANGED runs
        /\ \A d \in Callers : d # c => call'[d] = call[d]
    BY <1>1, <1>3, BeginServes DEF Begins
  <2>2. call[c].op = "beat_register" /\ call'[c].op = "register"
    BY <1>1, <1>3 DEF Store!BeginBeatRegister, Store!Send, Store!Register, ServerOK
  <2>3. \A w \in Workers : pc[w] \in {"claim", "complete"} =>
           \/ call'[Main(w)] = call[Main(w)]
           \/ call'[Main(w)].op # "claim" /\ call[Main(w)].op # "complete"
    BY <2>1, <2>2, MainCalls DEF IInv
  <2> QED
    BY <1>1, <2>1, <2>3, ServerStep DEF Moves
<1> QED
  BY <1>2, <1>3 DEF Serve

\* A claim that is granted keeps the invariant: the run was queued, so no program
\* had it, and the program that waits for the claim had none.
LEMMA GrantKeeps ==
  ASSUME FleetAssumption, IInv, NEW w \in Workers, NEW n \in 1..MaxLives, GrantLease(w, n)
  PROVE  IInv'
<1> DEFINE c == <<"main", w, n>>
<1>1. c \in Callers /\ ServerOK /\ Store!CommitClaim(c)
  BY DEF Callers, IInv, GrantLease
<1>2. PICK r \in Runs :
        /\ Store!Selected({}, "fifo") = {r}
        /\ runs[r].state = "queued" /\ runs'[r].state = "running"
        /\ \A s \in Runs \ {r} : runs'[s] = runs[s]
  BY <1>1, ClaimServes
<1>3. /\ ServerOK' /\ call[c].op = "claim" /\ call'[c].op = "idle"
      /\ \A d \in Callers : d # c => call'[d] = call[d]
  BY <1>1, ClaimServes
<1>4. UNCHANGED <<pc, life>> /\ \A v : Main(v)' = Main(v)
  BY DEF GrantLease, Main
<1>5. \A v \in Workers : lease[v] # r /\ (lease[v] # NoRun => lease[v] \in Runs)
  BY <1>2 DEF IInv, Leased, Typed, FleetAssumption
<1>6. CASE pc[w] = "claim" /\ life[w] = n
  <2>1. lease' = [lease EXCEPT ![w] = r] /\ UNCHANGED abandoned
    BY <1>2, <1>6 DEF GrantLease
  <2>2. lease[w] = NoRun /\ c = Main(w)
    BY <1>3, <1>6 DEF IInv, InPlace, Main
  <2>3. lease'[w] = r /\ \A v \in Workers \ {w} : lease'[v] = lease[v]
    BY <2>1 DEF IInv, Typed
  <2>4. Typed'
    BY <1>4, <2>1 DEF IInv, Typed
  <2>5. Leased'
    BY <1>2, <1>5, <2>3 DEF IInv, Leased
  <2>6. \A v \in Workers : InPlace(v)'
    <3>1. InPlace(w)'
      BY <1>3, <1>4, <1>6, <2>2, <2>3, r # NoRun DEF InPlace, FleetAssumption
    <3>2. ASSUME NEW v \in Workers \ {w} PROVE InPlace(v)'
      <4>1. InPlace(v) /\ (pc[v] # "off" => Main(v) \in Callers)
        BY MainCalls DEF IInv
      <4>2. pc[v] # "off" => call'[Main(v)] = call[Main(v)]
        BY <1>3, <4>1, OwnCaller DEF Main
      <4>3. lease[v] # NoRun => runs'[lease[v]] = runs[lease[v]]
        BY <1>2, <1>5
      <4> QED
        BY <1>4, <2>3, <4>1, <4>2, <4>3 DEF InPlace, Working
    <3> QED
      BY <3>1, <3>2
  <2>7. OrphanHasCause'
    <3> SUFFICES ASSUME NEW s \in Runs, runs'[s].state = "running"
                 PROVE  (\E v \in Workers : pc'[v] \in Working /\ lease'[v] = s) \/ s \in abandoned'
      BY DEF OrphanHasCause, Served
    <3>1. CASE s = r
      BY <1>4, <1>6, <2>3, <3>1 DEF Working
    <3>2. CASE s # r
      BY <1>2, <1>4, <2>1, <2>2, <2>3, <3>2 DEF IInv, OrphanHasCause, Served, FleetAssumption
    <3> QED
      BY <3>1, <3>2
  <2> QED
    BY <1>3, <2>4, <2>5, <2>6, <2>7 DEF IInv
<1>7. CASE ~(pc[w] = "claim" /\ life[w] = n)
  <2>1. abandoned' = abandoned \cup {r} /\ UNCHANGED lease
    BY <1>2, <1>7 DEF GrantLease
  <2>2. Typed' /\ Leased'
    BY <1>2, <1>4, <1>5, <2>1 DEF IInv, Typed, Leased
  <2>3. \A v \in Workers : InPlace(v)'
    <3> SUFFICES ASSUME NEW v \in Workers PROVE InPlace(v)'
      OBVIOUS
    <3>1. InPlace(v) /\ (pc[v] # "off" => Main(v) \in Callers)
      BY MainCalls DEF IInv
    <3>2. pc[v] # "off" /\ Main(v) # c => call'[Main(v)] = call[Main(v)]
      BY <1>3, <3>1
    <3>3. lease[v] # NoRun => runs'[lease[v]] = runs[lease[v]]
      BY <1>2, <1>5
    <3>4. CASE Main(v) = c
      BY <1>3, <1>4, <2>1, <3>1, <3>3, <3>4 DEF InPlace, Working
    <3>5. CASE Main(v) # c
      BY <1>4, <2>1, <3>1, <3>2, <3>3, <3>5 DEF InPlace, Working
    <3> QED
      BY <3>4, <3>5
  <2>4. OrphanHasCause'
    BY <1>2, <1>4, <2>1 DEF IInv, OrphanHasCause, Served
  <2> QED
    BY <1>3, <2>2, <2>3, <2>4 DEF IInv
<1> QED
  BY <1>6, <1>7

\* A request that is taken away touches no run.
LEMMA Drops ==
  ASSUME ServerOK, NEW c \in Callers, UNCHANGED <<runs, clock>>, Store!Done(c)
  PROVE  /\ ServerOK' /\ call'[c].op = "idle"
         /\ \A d \in Callers : d # c => call'[d] = call[d]
<1>1. Carries(Store!Idle) /\ Store!Idle.op = "idle"
  BY DEF Carries, Store!Idle
<1> QED
  BY <1>1 DEF ServerOK, Store!Done

\* A claim that finds nothing keeps the invariant.
LEMMA NothingKeeps ==
  ASSUME FleetAssumption, IInv, NEW w \in Workers, NEW n \in 1..MaxLives, GrantNothing(w, n)
  PROVE  IInv'
<1> DEFINE c == <<"main", w, n>>
<1>1. c \in Callers /\ call[c].op = "claim" /\ UNCHANGED <<runs, clock, lease, life, abandoned>>
      /\ Store!Done(c)
  BY DEF Callers, GrantNothing, Store!CommitClaimNothing
<1>2. /\ ServerOK' /\ call'[c].op = "idle"
      /\ \A d \in Callers : d # c => call'[d] = call[d]
  BY <1>1, Drops DEF IInv
<1>3. CASE pc[w] = "claim" /\ life[w] = n
  <2>1. Go(w, "poll") /\ c = Main(w) /\ Main(w)' = Main(w)
    BY <1>1, <1>3 DEF GrantNothing, Main
  <2>2. lease[w] = NoRun
    BY <1>1, <1>3, <2>1 DEF IInv, InPlace
  <2>3. InPlace(w)'
    BY <1>1, <2>1, <2>2 DEF InPlace, Go, IInv, Typed, Working
  <2>4. /\ pc' = [pc EXCEPT ![w] = "poll"] /\ lease' = [lease EXCEPT ![w] = NoRun]
        /\ life' \in [Workers -> 0..MaxLives] /\ life'[w] # 0
        /\ \A v \in Workers \ {w} : life'[v] = life[v]
    BY <1>1, <1>3, <2>1, <2>2 DEF IInv, Typed, Go
  <2>5. "poll" \in Places
    BY DEF Places, Serving
  <2>6. \A d \in Callers : d # Main(w)' => call'[d] = call[d]
    BY <1>2, <2>1
  <2> QED
    BY <1>1, <1>2, <2>2, <2>3, <2>4, <2>5, <2>6, ProgramStep
<1>4. CASE ~(pc[w] = "claim" /\ life[w] = n)
  <2>1. UNCHANGED pc
    BY <1>4 DEF GrantNothing
  <2>2. \A v \in Workers : pc[v] \in {"claim", "complete"} =>
           \/ call'[Main(v)] = call[Main(v)]
           \/ call'[Main(v)].op # "claim" /\ call[Main(v)].op # "complete"
    BY <1>1, <1>2, MainCalls DEF IInv
  <2> QED
    BY <1>1, <1>2, <2>1, <2>2, ServerStep DEF Moves
<1> QED
  BY <1>3, <1>4

\* A program that dies leaves its run abandoned.
LEMMA DieKeeps ==
  ASSUME FleetAssumption, IInv, NEW w \in Workers, Die(w), pc[w] # "off",
         ServerOK', UNCHANGED <<runs, lease, life>>,
         \A d \in Callers : d # Main(w) => call'[d] = call[d]
  PROVE  IInv'
<1>1. /\ pc' = [pc EXCEPT ![w] = "dead"] /\ lease' = [lease EXCEPT ![w] = lease[w]]
      /\ life' \in [Workers -> 0..MaxLives] /\ life'[w] # 0
      /\ \A v \in Workers \ {w} : life'[v] = life[v]
      /\ Main(w)' = Main(w)
  BY DEF IInv, Typed, Die, Go, Main
<1>2. "dead" \in Places /\ abandoned \subseteq abandoned'
      /\ (lease[w] # NoRun => lease[w] \in abandoned')
  BY DEF Places, Gone, Die
<1>3. InPlace(w)'
  BY <1>1 DEF InPlace, IInv, Typed, Working
<1> QED
  BY <1>1, <1>2, <1>3, ProgramStep

\* A request that fails keeps the invariant.
LEMMA FailKeeps ==
  ASSUME FleetAssumption, IInv, NEW c \in Callers, RequestFails(c)
  PROVE  IInv'
<1>1. /\ ServerOK' /\ call'[c].op = "idle" /\ UNCHANGED <<runs, lease, life>>
      /\ \A d \in Callers : d # c => call'[d] = call[d]
  BY Drops DEF IInv, RequestFails, Store!Fail
<1>2. CASE \E w \in Workers : c = Main(w) /\ pc[w] \in Serving /\ Die(w)
  <2>1. PICK w \in Workers : c = Main(w) /\ pc[w] \in Serving /\ Die(w)
    BY <1>2
  <2>2. pc[w] # "off"
    BY <2>1 DEF Serving
  <2> QED
    BY <1>1, <2>1, <2>2, DieKeeps
<1>3. CASE /\ \A w \in Workers : c = Main(w) => pc[w] \notin Serving
           /\ UNCHANGED <<pc, abandoned>>
  <2>1. \A w \in Workers : pc[w] \in {"claim", "complete"} =>
           call'[Main(w)] = call[Main(w)]
    BY <1>1, <1>3, MainCalls DEF IInv, Serving
  <2> QED
    BY <1>1, <1>3, <2>1, ServerStep DEF Moves
<1> QED
  BY <1>2, <1>3 DEF RequestFails

\* A fault keeps the invariant.
LEMMA FaultKeeps ==
  ASSUME FleetAssumption, IInv, NEW w \in Workers,
         RequestTimesOut(w) \/ Killed(w) \/ GoStale(w)
  PROVE  IInv'
<1>1. CASE GoStale(w)
  BY <1>1, Unmoved DEF GoStale, Store!GoStale
<1>2. CASE RequestTimesOut(w) \/ Killed(w)
  <2>1. Die(w) /\ pc[w] \in Serving /\ UNCHANGED <<server, lease, life>>
    BY <1>2 DEF RequestTimesOut, Killed
  <2>2. ServerOK' /\ pc[w] # "off" /\ UNCHANGED <<runs, call>>
    BY <2>1 DEF IInv, server, ServerOK, Serving
  <2> QED
    BY <2>1, <2>2, DieKeeps
<1> QED
  BY <1>1, <1>2

LEMMA Inductive == FleetAssumption /\ IInv /\ [Next]_vars => IInv'
<1> SUFFICES ASSUME FleetAssumption, IInv, [Next]_vars PROVE IInv'
  OBVIOUS
<1>1. CASE \E r \in Runs : Submit(r) \/ CancelRun(r) \/ PulseThread(r) \/ PulseTimesOut(r)
  BY <1>1, OthersKeep
<1>2. CASE \E w \in Workers : Start(w) \/ StopServing(w) \/ Program(w)
  BY <1>2, StartKeeps, ProgramKeeps
<1>3. CASE \E c \in Callers : Answer(c)
  BY <1>3, ServeKeeps, GrantKeeps, NothingKeeps, FailKeeps DEF Answer
<1>4. CASE \E w \in Workers : RequestTimesOut(w) \/ Killed(w) \/ GoStale(w)
  BY <1>4, FaultKeeps
<1>5. CASE UNCHANGED vars
  BY <1>5, Unmoved DEF vars
<1> QED
  BY <1>1, <1>2, <1>3, <1>4, <1>5 DEF Next, Fault

LEMMA Initially == FleetAssumption /\ Init => IInv
<1> SUFFICES ASSUME FleetAssumption, Init PROVE IInv
  OBVIOUS
<1>1. /\ runs = [r \in Runs |-> Store!AbsentRun] /\ clock = 0
      /\ call = [c \in Callers |-> Store!Idle]
  BY DEF Init, Store!Init
<1>2. Store!AbsentRun \in RunRow /\ Store!AbsentRun.state = "absent"
  BY DEF RunRow, Store!RunRow, Store!RunState, Store!AbsentRun
<1>3. Carries(Store!Idle)
  BY DEF Carries, Store!Idle
<1>4. ServerOK
  BY <1>1, <1>2, <1>3 DEF ServerOK
<1>5. Typed
  BY DEF Init, Typed, Places, Gone, FleetAssumption
<1>6. Leased /\ \A w \in Workers : InPlace(w)
  BY DEF Init, Leased, InPlace, Working
<1>7. OrphanHasCause
  BY <1>1, <1>2 DEF OrphanHasCause
<1> QED
  BY <1>4, <1>5, <1>6, <1>7 DEF IInv

-----------------------------------------------------------------------------
(* The outcome of a run.                                                    *)

Asks(c, op, r) == call[c].op = op /\ call[c].run = r

Early   == {"claim", "first", "execute", "join", "unwind"}
Reports == {"finished", "complete"}
Beating == {"none", "waiting", "run_beat", "worker_beat", "ended"}

\* An outcome was reported; the program is through with the run.
Told(r)   == (\E c \in Callers : Asks(c, "complete", r)) \/ runs[r].state \in Store!Results
Sealed(r) == Told(r) \/ \E w \in Workers : pc[w] \in Reports /\ lease[w] = r

\* A heartbeat thread is that of a run that was leased, and that its program executes.
ThreadStarted ==
  \A r \in Runs : pulse[r] # "none" \/ call[Pulse(r)].op # "idle" =>
    /\ runs[r].state \notin {"absent", "queued"}
    /\ \A w \in Workers : lease[w] = r => pc[w] \notin {"claim", "first"}

\* Somebody waits for a heartbeat of a run, unless its sender was given up.
BeatPlaced ==
  \A c \in Callers, r \in Runs : Asks(c, "run_beat", r) =>
    \/ c = Pulse(r) /\ pulse[r] = "run_beat"
    \/ \E w \in Workers : c = Main(w) /\ pc[w] = "first" /\ lease[w] = r
    \/ r \in overdue \cup abandoned

\* No program works on a run that was left behind.
NotAbandoned ==
  /\ \A r \in abandoned : r \in Runs /\ runs[r].state \notin {"absent", "queued"}
  /\ \A w \in Workers : pc[w] \in Working => lease[w] \notin abandoned

\* Once a program is through with a run no other works on it, and there is no
\* heartbeat of it any more.
Apart ==
  \A r \in Runs : Sealed(r) =>
    /\ runs[r].state \notin {"absent", "queued"}
    /\ \A w \in Workers : lease[w] = r => pc[w] \notin Early

Quiet ==
  \A r \in Runs : Sealed(r) /\ r \notin overdue =>
    pulse[r] = "ended" /\ \A c \in Callers : ~Asks(c, "run_beat", r)

\* The status column of a run with an outcome is right, and no cancellation is in
\* flight that would write it alone.
ReadFinal ==
  \A c \in Callers : call[c].op = "cancel" /\ call[c].read.state \in Final =>
    runs[call[c].run].state \in Final

StatusTold ==
  \A r \in Runs : Told(r) /\ r \notin overdue =>
    /\ runs[r].state \in Final => runs[r].status = runs[r].state
    /\ \A c \in Callers : Asks(c, "cancel", r) => call[c].read.state # "canceled"

OInv ==
  /\ pulse \in [Runs -> Beating]
  /\ ThreadStarted /\ BeatPlaced /\ NotAbandoned /\ Apart /\ Quiet /\ ReadFinal /\ StatusTold

-----------------------------------------------------------------------------
\* A request that is new: the first or a later heartbeat of a run, the cancellation
\* of one that does not say it is canceled, or the completion of one that is not final.
Fresh(c) ==
  LET r == call'[c].run
  IN \/ /\ call'[c].op = "run_beat"
        /\ \/ r \in overdue'
           \/ /\ ~Sealed(r)
              /\ \/ c = Pulse(r) /\ pulse'[r] = "run_beat"
                 \/ \E w \in Workers : c = Main(w)' /\ pc'[w] = "first" /\ lease'[w] = r
     \/ call'[c].op = "cancel" /\ call'[c].read = runs[r] /\ runs[r].status # "canceled"
     \/ /\ call'[c].op = "complete" /\ runs[r].state \notin Final
        /\ \E w \in Workers : pc[w] \in Reports /\ lease[w] = r

\* How a program that works on a run went on with it.
GoesOn(w) ==
  /\ lease'[w] = lease[w]
  /\ \/ pc'[w] = pc[w]
     \/ pc[w] = "claim" /\ pc'[w] = "first"
     \/ pc[w] \in Early /\ pc'[w] \in Early \ {"claim", "first"}
     \/ pc[w] \in Reports /\ pc'[w] \in Reports

\* A step that writes no run, and after which no program is through with a run
\* that was not before.
LEMMA Goes ==
  ASSUME FleetAssumption, ServerOK, OInv, UNCHANGED runs, pulse' \in [Runs -> Beating],
         \A c \in Callers : \/ call'[c] = call[c]
                            \/ call'[c].op \notin {"run_beat", "cancel", "complete"}
                            \/ call'[c].run \in Runs /\ Fresh(c),
         overdue \subseteq overdue', abandoned \subseteq abandoned',
         \A w \in Workers : pc'[w] \in Working /\ lease'[w] # NoRun => GoesOn(w),
         \A r \in Runs : pulse'[r] # "none" \/ call'[Pulse(r)].op # "idle" =>
           \/ pulse[r] # "none" \/ call[Pulse(r)].op # "idle"
           \/ /\ runs[r].state \notin {"absent", "queued"}
              /\ \A w \in Workers : lease'[w] = r => pc'[w] \notin {"claim", "first"},
         \A r \in Runs : pulse[r] = "ended" => pulse'[r] = "ended",
         \A c \in Callers, r \in Runs :
           Asks(c, "run_beat", r) /\ call'[c] = call[c] /\ r \notin overdue' \cup abandoned' =>
             /\ c = Pulse(r) /\ pulse[r] = "run_beat" => pulse'[r] = "run_beat"
             /\ \A w \in Workers : c = Main(w) /\ pc[w] = "first" /\ lease[w] = r =>
                  c = Main(w)' /\ pc'[w] = "first" /\ lease'[w] = r,
         NotAbandoned'
  PROVE  OInv'
<1> USE DEF Early, Reports, Working
<1>1. \A c \in Callers, r \in Runs, op \in {"run_beat", "cancel", "complete"} :
        Asks(c, op, r)' => Asks(c, op, r) \/ (Fresh(c) /\ call'[c].op = op /\ call'[c].run = r)
  BY DEF Asks
<1>2. ASSUME NEW r \in Runs, NEW w \in Workers, lease'[w] = r
      PROVE  /\ pc'[w] \in {"claim", "first"} => pc[w] \in {"claim", "first"} /\ lease[w] = r
             /\ pc'[w] \in Early => pc[w] \in Early /\ lease[w] = r
             /\ pc'[w] \in Reports => pc[w] \in Reports /\ lease[w] = r
  BY <1>2 DEF GoesOn, FleetAssumption
<1>3. ASSUME NEW r \in Runs PROVE Sealed(r)' => Sealed(r)
  <2>1. ASSUME NEW c \in Callers, Asks(c, "complete", r)' PROVE Sealed(r)
    BY <1>1, <2>1 DEF Sealed, Told, Fresh
  <2>2. ASSUME NEW w \in Workers, pc'[w] \in Reports, lease'[w] = r PROVE Sealed(r)
    BY <1>2, <2>2 DEF Sealed
  <2> QED
    BY <2>1, <2>2 DEF Sealed, Told
<1>4. ThreadStarted'
  <2> SUFFICES ASSUME NEW r \in Runs, pulse'[r] # "none" \/ call'[Pulse(r)].op # "idle"
               PROVE  /\ runs[r].state \notin {"absent", "queued"}
                      /\ \A w \in Workers : lease'[w] = r => pc'[w] \notin {"claim", "first"}
    BY DEF ThreadStarted, Pulse
  <2> QED
    BY <1>2 DEF OInv, ThreadStarted
<1>5. BeatPlaced'
  <2> SUFFICES ASSUME NEW c \in Callers, NEW r \in Runs, Asks(c, "run_beat", r)',
                      r \notin overdue' \cup abandoned'
               PROVE  \/ c = Pulse(r) /\ pulse'[r] = "run_beat"
                      \/ \E w \in Workers : c = Main(w)' /\ pc'[w] = "first" /\ lease'[w] = r
    BY DEF BeatPlaced, Pulse
  <2>1. CASE call'[c] = call[c]
    <3>1. Asks(c, "run_beat", r) /\ r \notin overdue \cup abandoned
      BY <2>1 DEF Asks
    <3> QED
      BY <2>1, <3>1 DEF OInv, BeatPlaced
  <2>2. CASE call'[c] # call[c]
    BY <2>2 DEF Asks, Fresh
  <2> QED
    BY <2>1, <2>2
<1>6. Apart'
  BY <1>2, <1>3 DEF OInv, Apart
<1>7. Quiet'
  <2> SUFFICES ASSUME NEW r \in Runs, Sealed(r)', r \notin overdue'
               PROVE  pulse'[r] = "ended" /\ \A c \in Callers : ~Asks(c, "run_beat", r)'
    BY DEF Quiet
  <2>1. Sealed(r) /\ r \notin overdue
    BY <1>3
  <2> QED
    BY <1>1, <2>1 DEF OInv, Quiet, Fresh
<1>8. ReadFinal'
  <2> SUFFICES ASSUME NEW c \in Callers, call'[c].op = "cancel", call'[c].read.state \in Final
               PROVE  runs[call'[c].run].state \in Final
    BY DEF ReadFinal, Final
  <2> QED
    BY DEF OInv, ReadFinal, Fresh
<1>9. StatusTold'
  <2> SUFFICES ASSUME NEW r \in Runs, Told(r)', r \notin overdue'
               PROVE  /\ runs[r].state \in Final => runs[r].status = runs[r].state
                      /\ \A c \in Callers : Asks(c, "cancel", r)' => call'[c].read.state # "canceled"
    BY DEF StatusTold, Final
  <2>1. CASE Told(r)
    <3>1. /\ runs[r].state \in Final => runs[r].status = runs[r].state
          /\ \A c \in Callers : Asks(c, "cancel", r) => call[c].read.state # "canceled"
      BY <2>1 DEF OInv, StatusTold
    <3>2. ASSUME NEW c \in Callers, Asks(c, "cancel", r)' PROVE call'[c].read.state # "canceled"
      <4>1. CASE call'[c] = call[c]
        BY <3>1, <3>2, <4>1 DEF Asks
      <4>2. CASE call'[c] # call[c]
        <5>1. call'[c].read = runs[r] /\ runs[r].status # "canceled"
          BY <3>2, <4>2 DEF Asks, Fresh
        <5> QED
          BY <3>1, <5>1 DEF Final, Store!Final
      <4> QED
        BY <4>1, <4>2
    <3> QED
      BY <3>1, <3>2
  <2>2. CASE ~Told(r)
    <3>1. PICK d \in Callers : Asks(d, "complete", r)' /\ ~Asks(d, "complete", r)
      BY <2>2 DEF Told
    <3>2. runs[r].state \notin Final
      BY <1>1, <3>1 DEF Fresh
    <3>3. ASSUME NEW c \in Callers, Asks(c, "cancel", r)' PROVE call'[c].read.state # "canceled"
      <4>1. CASE call'[c] = call[c]
        BY <3>2, <3>3, <4>1 DEF Asks, OInv, ReadFinal, Final, Store!Final
      <4>2. CASE call'[c] # call[c]
        BY <3>2, <3>3, <4>2 DEF Asks, Fresh, Final, Store!Final
      <4> QED
        BY <4>1, <4>2
    <3> QED
      BY <3>2, <3>3
  <2> QED
    BY <2>1, <2>2
<1> QED
  BY <1>4, <1>5, <1>6, <1>7, <1>8, <1>9 DEF OInv

\* A step of one program that keeps its lease and its heartbeat thread.
LEMMA OneGoes ==
  ASSUME FleetAssumption, IInv, OInv, NEW w \in Workers, NEW p, Go(w, p), pc[w] # "off",
         UNCHANGED <<runs, lease, life, pulse, overdue, abandoned>>,
         \A c \in Callers : c # Main(w) => call'[c] = call[c],
         \/ call'[Main(w)] = call[Main(w)]
         \/ call'[Main(w)].op \notin {"run_beat", "cancel", "complete"}
         \/ call'[Main(w)].run \in Runs /\ Fresh(Main(w)),
         pc[w] = "first" => call[Main(w)].op # "run_beat",
         p \in Working /\ lease[w] # NoRun => GoesOn(w)
  PROVE  OInv'
<1>1. /\ pc'[w] = p /\ \A v \in Workers \ {w} : pc'[v] = pc[v]
      /\ \A v : Main(v)' = Main(v)
  BY DEF Go, IInv, Typed, Main
<1>2. \A r \in Runs : Pulse(r) \in Callers /\ call'[Pulse(r)] = call[Pulse(r)]
  BY MainCalls, OwnCaller DEF IInv, Main
<1>3. \A v \in Workers : pc'[v] \in Working /\ lease'[v] # NoRun => GoesOn(v)
  BY <1>1 DEF GoesOn
<1>4. NotAbandoned'
  <2>1. \A v \in Workers : pc'[v] \in Working /\ lease[v] # NoRun => pc[v] \in Working
    BY <1>3 DEF GoesOn, Early, Reports, Working
  <2> QED
    BY <2>1 DEF OInv, NotAbandoned, FleetAssumption
<1>5. ASSUME NEW c \in Callers, NEW r \in Runs, Asks(c, "run_beat", r)
      PROVE  \A v \in Workers : c = Main(v) /\ pc[v] = "first" /\ lease[v] = r =>
               c = Main(v)' /\ pc'[v] = "first" /\ lease'[v] = r
  BY <1>1, <1>5 DEF Asks
<1> QED
  BY <1>1, <1>2, <1>3, <1>4, <1>5, Goes DEF IInv, OInv

LEMMA ProgramTells ==
  ASSUME FleetAssumption, IInv, OInv, NEW w \in Workers,
         RegisterWorker(w) \/ HeartbeatWorker(w) \/ ClaimNextRun(w) \/ ClaimRefused(w)
         \/ FirstHeartbeat(w) \/ ExecutorReturns(w) \/ ExecutorRaises(w) \/ CompleteRun(w)
         \/ StopServing(w)
  PROVE  OInv'
<1> USE DEF Working, Early, Reports
<1>1. /\ Typed /\ InPlace(w) /\ DOMAIN call = Callers
      /\ \A p : Go(w, p) => pc'[w] = p
  BY DEF IInv, ServerOK, Typed, Go
<1>2. CASE RegisterWorker(w) \/ HeartbeatWorker(w) \/ ClaimNextRun(w) \/ ClaimRefused(w)
           \/ StopServing(w)
  <2>1. /\ UNCHANGED <<runs, lease, life, pulse, overdue, abandoned>>
        /\ pc[w] \in {"poll", "register", "beat"} /\ lease[w] = NoRun
        /\ \E p : Go(w, p)
    BY <1>1, <1>2 DEF RegisterWorker, HeartbeatWorker, ClaimNextRun, ClaimRefused, StopServing,
       ReadyToClaim, InPlace, server, Store!BeginRegister, Store!BeginBeat, Store!BeginClaim
  <2>2. UNCHANGED call \/ \E q : /\ call' = [call EXCEPT ![Main(w)] = q]
                                 /\ q.op \in {"register", "beat", "claim"}
    <3>1. CASE ClaimRefused(w) \/ StopServing(w)
      BY <3>1 DEF ClaimRefused, StopServing, server
    <3>2. CASE RegisterWorker(w)
      <4>1. call' = [call EXCEPT ![Main(w)] = Store!Register(w, workers[w], 1, "healthy")]
        BY <3>2 DEF RegisterWorker, Store!BeginRegister, Store!Send
      <4>2. Store!Register(w, workers[w], 1, "healthy").op = "register"
        BY DEF Store!Register
      <4> QED
        BY <4>1, <4>2
    <3>3. CASE HeartbeatWorker(w)
      <4>1. call' = [call EXCEPT ![Main(w)] = Store!Beat(w, workers[w], "healthy")]
        BY <3>3 DEF HeartbeatWorker, Store!BeginBeat, Store!Send
      <4>2. Store!Beat(w, workers[w], "healthy").op = "beat"
        BY DEF Store!Beat
      <4> QED
        BY <4>1, <4>2
    <3>4. CASE ClaimNextRun(w)
      <4>1. call' = [call EXCEPT ![Main(w)] = Store!Claim(w, workers[w], {}, "fifo")]
        BY <3>4 DEF ClaimNextRun, Store!BeginClaim, Store!Send
      <4>2. Store!Claim(w, workers[w], {}, "fifo").op = "claim"
        BY DEF Store!Claim
      <4> QED
        BY <4>1, <4>2
    <3> QED
      BY <1>2, <3>1, <3>2, <3>3, <3>4
  <2>3. Main(w) \in Callers
    BY <1>1, <2>1, MainCalls
  <2>4. /\ \A c \in Callers : c # Main(w) => call'[c] = call[c]
        /\ call'[Main(w)] = call[Main(w)] \/ call'[Main(w)].op \in {"register", "beat", "claim"}
    BY <1>1, <2>2, <2>3
  <2> QED
    BY <2>1, <2>4, OneGoes
<1>3. CASE ExecutorReturns(w) \/ ExecutorRaises(w)
  <2>1. /\ UNCHANGED <<runs, call, lease, life, pulse, overdue, abandoned>>
        /\ pc[w] = "execute" /\ \E p \in {"join", "unwind"} : Go(w, p)
    BY <1>3 DEF ExecutorReturns, ExecutorRaises, server
  <2>2. GoesOn(w)
    BY <1>1, <2>1 DEF GoesOn
  <2> QED
    BY <2>1, <2>2, OneGoes
<1>4. CASE FirstHeartbeat(w)
  <2>1. /\ UNCHANGED <<runs, lease, life, pulse, overdue, abandoned>>
        /\ pc[w] = "claim" /\ Go(w, "first") /\ lease[w] \in Runs
        /\ UNCHANGED call \/ call' = [call EXCEPT ![Main(w)] = Store!RunBeat(lease[w], runs[lease[w]], w)]
    BY <1>1, <1>4 DEF FirstHeartbeat, server, Typed, Store!BeginRunBeat, Store!Send
  <2>2. Main(w) \in Callers /\ Main(w)' = Main(w)
    BY <1>1, <2>1, MainCalls DEF Main
  <2>3. /\ \A c \in Callers : c # Main(w) => call'[c] = call[c]
        /\ \/ call'[Main(w)] = call[Main(w)]
           \/ call'[Main(w)].op = "run_beat" /\ call'[Main(w)].run = lease[w]
    BY <1>1, <2>1, <2>2 DEF Store!RunBeat
  <2>4. ~Sealed(lease[w])
    BY <2>1 DEF OInv, Apart
  <2>5. \/ call'[Main(w)] = call[Main(w)]
        \/ call'[Main(w)].run \in Runs /\ Fresh(Main(w))
    BY <1>1, <2>1, <2>2, <2>3, <2>4 DEF Fresh
  <2>6. GoesOn(w)
    BY <1>1, <2>1 DEF GoesOn
  <2> QED
    BY <2>1, <2>3, <2>5, <2>6, OneGoes
<1>5. CASE CompleteRun(w)
  <2>1. /\ UNCHANGED <<runs, lease, life, pulse, overdue, abandoned>>
        /\ pc[w] = "finished" /\ Go(w, "complete") /\ lease[w] \in Runs
        /\ \/ UNCHANGED call
           \/ /\ runs[lease[w]].state \notin Final
              /\ \E res : call' = [call EXCEPT ![Main(w)] =
                                     Store!Complete(lease[w], runs[lease[w]], res)]
    BY <1>1, <1>5 DEF CompleteRun, server, Typed, InPlace, Final, Store!BeginComplete, Store!Send
  <2>2. Main(w) \in Callers
    BY <1>1, <2>1, MainCalls
  <2>3. /\ \A c \in Callers : c # Main(w) => call'[c] = call[c]
        /\ \/ call'[Main(w)] = call[Main(w)]
           \/ /\ call'[Main(w)].op = "complete" /\ call'[Main(w)].run = lease[w]
              /\ runs[lease[w]].state \notin Final
    BY <1>1, <2>1, <2>2 DEF Store!Complete
  <2>4. \/ call'[Main(w)] = call[Main(w)]
        \/ call'[Main(w)].run \in Runs /\ Fresh(Main(w))
    BY <2>1, <2>3 DEF Fresh
  <2>5. GoesOn(w)
    BY <1>1, <2>1 DEF GoesOn
  <2> QED
    BY <2>1, <2>3, <2>4, <2>5, OneGoes
<1> QED
  BY <1>2, <1>3, <1>4, <1>5

\* The heartbeat thread starts when the first heartbeat was answered.
LEMMA StartPulseTells ==
  ASSUME FleetAssumption, IInv, OInv, NEW w \in Workers, StartPulse(w)
  PROVE  OInv'
<1>1. /\ UNCHANGED <<runs, call, lease, life, overdue, abandoned>>
      /\ pc[w] = "first" /\ call[Main(w)].op = "idle" /\ lease[w] \in Runs /\ lease[w] # NoRun
      /\ pulse' = [pulse EXCEPT ![lease[w]] = "waiting"]
      /\ pc' = [pc EXCEPT ![w] = "execute"]
  BY DEF StartPulse, server, Go, Answered, Store!Idle, IInv, Typed, InPlace, Working
<1>2. /\ pc'[w] = "execute" /\ \A v \in Workers \ {w} : pc'[v] = pc[v]
      /\ \A v : Main(v)' = Main(v)
      /\ pulse' \in [Runs -> Beating] /\ \A r \in Runs \ {lease[w]} : pulse'[r] = pulse[r]
  BY <1>1 DEF IInv, Typed, Main, OInv, Beating
<1>3. pulse[lease[w]] = "none" /\ call[Pulse(lease[w])].op = "idle"
  BY <1>1 DEF OInv, ThreadStarted
<1>4. /\ runs[lease[w]].state \notin {"absent", "queued"}
      /\ \A v \in Workers : lease[v] = lease[w] => v = w
  BY <1>1 DEF IInv, Leased
<1>5. \A v \in Workers : pc'[v] \in Working /\ lease'[v] # NoRun => GoesOn(v)
  BY <1>1, <1>2 DEF GoesOn, Early
<1>6. NotAbandoned'
  BY <1>1, <1>2 DEF OInv, NotAbandoned, Working
<1>7. \A r \in Runs : pulse'[r] # "none" \/ call'[Pulse(r)].op # "idle" =>
        \/ pulse[r] # "none" \/ call[Pulse(r)].op # "idle"
        \/ /\ runs[r].state \notin {"absent", "queued"}
           /\ \A v \in Workers : lease'[v] = r => pc'[v] \notin {"claim", "first"}
  BY <1>1, <1>2, <1>4
<1>8. \A c \in Callers, r \in Runs :
        Asks(c, "run_beat", r) /\ call'[c] = call[c] /\ r \notin overdue' \cup abandoned' =>
          /\ c = Pulse(r) /\ pulse[r] = "run_beat" => pulse'[r] = "run_beat"
          /\ \A v \in Workers : c = Main(v) /\ pc[v] = "first" /\ lease[v] = r =>
               c = Main(v)' /\ pc'[v] = "first" /\ lease'[v] = r
  BY <1>1, <1>2, <1>3 DEF Asks
<1>9. \A r \in Runs : pulse[r] = "ended" => pulse'[r] = "ended"
  BY <1>2, <1>3
<1> QED
  BY <1>1, <1>2, <1>5, <1>6, <1>7, <1>8, <1>9, Goes DEF IInv

\* The program goes on when the thread has ended, or is given up.
LEMMA JoinTells ==
  ASSUME FleetAssumption, IInv, OInv, NEW w \in Workers, Join(w) \/ JoinTimesOut(w)
  PROVE  OInv'
<1> USE DEF Working, Early, Reports
<1>1. /\ UNCHANGED <<runs, call, lease, life, pulse>> /\ overdue \subseteq overdue'
      /\ lease[w] \in Runs /\ lease[w] # NoRun /\ pc[w] \in {"join", "unwind"}
      /\ \A v : Main(v)' = Main(v)
  BY DEF Join, JoinTimesOut, server, IInv, Typed, InPlace, Main
<1>2. CASE Go(w, "dead") /\ abandoned' = abandoned \cup {lease[w]} /\ UNCHANGED overdue
  <2>1. pc'[w] = "dead" /\ \A v \in Workers \ {w} : pc'[v] = pc[v]
    BY <1>2 DEF Go, IInv, Typed
  <2>2. \A v \in Workers : pc'[v] \in Working /\ lease'[v] # NoRun => GoesOn(v)
    BY <1>1, <2>1 DEF GoesOn
  <2>3. NotAbandoned'
    BY <1>1, <1>2, <2>1 DEF OInv, NotAbandoned, IInv, Leased
  <2> QED
    BY <1>1, <1>2, <2>1, <2>2, <2>3, Goes DEF IInv, OInv
<1>3. CASE /\ Go(w, "finished") /\ pc[w] = "join" /\ UNCHANGED abandoned
           /\ pulse[lease[w]] = "ended" \/ lease[w] \in overdue'
  <2>1. pc'[w] = "finished" /\ \A v \in Workers \ {w} : pc'[v] = pc[v]
    BY <1>3 DEF Go, IInv, Typed
  <2>2. /\ runs[lease[w]].state \notin {"absent", "queued"}
        /\ \A v \in Workers : lease[v] = lease[w] => v = w
    BY <1>1 DEF IInv, Leased
  <2>3. \A r \in Runs : /\ Told(r)' = Told(r)
                        /\ Sealed(r)' => Sealed(r) \/ r = lease[w]
    BY <1>1, <2>1 DEF Sealed, Told, Asks
  <2>4. \A op : \A c \in Callers, r \in Runs : Asks(c, op, r)' = Asks(c, op, r)
    BY <1>1 DEF Asks
  <2>5. ThreadStarted'
    BY <1>1, <2>1 DEF OInv, ThreadStarted, Pulse
  <2>6. BeatPlaced'
    <3> SUFFICES ASSUME NEW c \in Callers, NEW r \in Runs, Asks(c, "run_beat", r),
                        r \notin overdue' \cup abandoned'
                 PROVE  \/ c = Pulse(r) /\ pulse[r] = "run_beat"
                        \/ \E v \in Workers : c = Main(v) /\ pc'[v] = "first" /\ lease[v] = r
      BY <1>1, <2>4 DEF BeatPlaced, Pulse
    <3>1. r \notin overdue \cup abandoned
      BY <1>1, <1>3
    <3> QED
      BY <1>3, <2>1, <3>1 DEF OInv, BeatPlaced
  <2>7. NotAbandoned'
    BY <1>1, <1>3, <2>1 DEF OInv, NotAbandoned
  <2>8. Apart'
    BY <1>1, <2>1, <2>2, <2>3 DEF OInv, Apart
  <2>9. Quiet'
    <3> SUFFICES ASSUME NEW r \in Runs, Sealed(r)', r \notin overdue'
                 PROVE  pulse[r] = "ended" /\ \A c \in Callers : ~Asks(c, "run_beat", r)
      BY <1>1, <2>4 DEF Quiet
    <3>1. CASE Sealed(r)
      BY <1>1, <3>1 DEF OInv, Quiet
    <3>2. CASE r = lease[w]
      <4>1. pulse[r] = "ended" /\ r \notin abandoned /\ r \notin overdue
        BY <1>1, <1>3, <3>2 DEF OInv, NotAbandoned
      <4>2. \A c \in Callers : Asks(c, "run_beat", r) =>
               \E v \in Workers : pc[v] = "first" /\ lease[v] = r
        BY <4>1 DEF OInv, BeatPlaced
      <4> QED
        BY <1>3, <2>2, <3>2, <4>1, <4>2
    <3> QED
      BY <2>3, <3>1, <3>2
  <2>10. ReadFinal'
    BY <1>1 DEF OInv, ReadFinal, Final
  <2>11. StatusTold'
    BY <1>1, <2>3, <2>4 DEF OInv, StatusTold, Final
  <2> QED
    BY <1>1, <2>5, <2>6, <2>7, <2>8, <2>9, <2>10, <2>11 DEF OInv
<1>4. CASE Join(w)
  BY <1>2, <1>3, <1>4 DEF Join
<1>5. CASE JoinTimesOut(w)
  BY <1>3, <1>5 DEF JoinTimesOut
<1> QED
  BY <1>4, <1>5

\* Nothing that a program works on changes when it gives back its lease or starts.
LEMMA LeaseGone ==
  ASSUME FleetAssumption, IInv, OInv, NEW w \in Workers, Start(w) \/ RunOver(w)
  PROVE  OInv'
<1>1. /\ UNCHANGED <<runs, call, pulse, overdue, abandoned>>
      /\ pc' = [pc EXCEPT ![w] = "poll"] /\ lease' = [lease EXCEPT ![w] = NoRun]
      /\ pc[w] \in Gone \cup {"complete"}
      /\ \A v \in Workers \ {w} : life'[v] = life[v]
  BY DEF Start, RunOver, Go, server, IInv, Typed
<1>2. /\ pc'[w] = "poll" /\ lease'[w] = NoRun
      /\ \A v \in Workers \ {w} : pc'[v] = pc[v] /\ lease'[v] = lease[v] /\ Main(v)' = Main(v)
  BY <1>1 DEF IInv, Typed, Main
<1>3. \A v \in Workers : pc'[v] \in Working /\ lease'[v] # NoRun => GoesOn(v)
  BY <1>2 DEF GoesOn
<1>4. NotAbandoned'
  BY <1>1, <1>2 DEF OInv, NotAbandoned, Working
<1>5. \A c \in Callers, r \in Runs :
        \A v \in Workers : c = Main(v) /\ pc[v] = "first" /\ lease[v] = r =>
          c = Main(v)' /\ pc'[v] = "first" /\ lease'[v] = r
  BY <1>1, <1>2 DEF Gone
<1> QED
  BY <1>1, <1>3, <1>4, <1>5, Goes DEF IInv, OInv

LEMMA ProgramKeepsOutcome ==
  ASSUME FleetAssumption, IInv, OInv, NEW w \in Workers,
         Start(w) \/ StopServing(w) \/ Program(w)
  PROVE  OInv'
  BY ProgramTells, StartPulseTells, JoinTells, LeaseGone DEF Program

\* A step in which no program moves, and no heartbeat thread but that of r.
LEMMA CallGoes ==
  ASSUME FleetAssumption, IInv, OInv, NEW c \in Callers, UNCHANGED <<runs, pc, lease, life, abandoned>>,
         \A d \in Callers : d # c => call'[d] = call[d],
         \/ call'[c] = call[c]
         \/ call'[c].op \notin {"run_beat", "cancel", "complete"}
         \/ call'[c].run \in Runs /\ Fresh(c),
         overdue \subseteq overdue', pulse' \in [Runs -> Beating],
         \A r \in Runs : pulse'[r] # "none" \/ call'[Pulse(r)].op # "idle" =>
                           pulse[r] # "none" \/ call[Pulse(r)].op # "idle",
         \A r \in Runs : /\ pulse[r] = "ended" => pulse'[r] = "ended"
                         /\ pulse[r] = "run_beat" =>
                              \/ pulse'[r] = "run_beat" \/ r \in overdue'
                              \/ ~Asks(Pulse(r), "run_beat", r)
                              \/ call'[Pulse(r)] # call[Pulse(r)]
  PROVE  OInv'
<1>1. \A v : Main(v)' = Main(v)
  BY DEF Main
<1>2. \A v \in Workers : pc'[v] \in Working /\ lease'[v] # NoRun => GoesOn(v)
  BY DEF GoesOn
<1>3. NotAbandoned'
  BY DEF OInv, NotAbandoned
<1> QED
  BY <1>1, <1>2, <1>3, Goes DEF IInv

\* Users and heartbeat threads.
LEMMA OthersTell ==
  ASSUME FleetAssumption, IInv, OInv, NEW r \in Runs,
         Submit(r) \/ CancelRun(r) \/ PulseThread(r) \/ PulseTimesOut(r)
  PROVE  OInv'
<1>1. /\ Client \in Callers /\ Pulse(r) \in Callers /\ DOMAIN call = Callers
      /\ pulse \in [Runs -> Beating]
      /\ \A s \in Runs : Pulse(s) \in Callers /\ Pulse(s) # Client /\ (s # r => Pulse(s) # Pulse(r))
  <2>1. \A s : Pulse(s)[1] = "pulse" /\ Client[1] = "client" /\ Pulse(s)[2] = s
    BY DEF Pulse, Client
  <2> QED
    BY <2>1, MainCalls DEF IInv, ServerOK, OInv
<1>2. CASE Submit(r)
  <2>1. /\ UNCHANGED <<runs, pc, lease, life, abandoned, overdue, pulse>>
        /\ \E q : call' = [call EXCEPT ![Client] = q] /\ q.op = "create"
    <3> DEFINE new == [state |-> "queued", status |-> "queued", claimed_by |-> NoWorker,
                       queued_at |-> clock + 1, request |-> Plain, result |-> "none"]
    <3>1. call' = [call EXCEPT ![Client] = Store!Create(r, runs[r], new)]
      BY <1>2 DEF Submit, Store!BeginCreate, Store!Send
    <3>2. Store!Create(r, runs[r], new).op = "create"
      BY DEF Store!Create
    <3>3. UNCHANGED <<runs, pc, lease, life, abandoned, overdue, pulse>>
      BY <1>2 DEF Submit, fleet, Store!BeginCreate
    <3> QED
      BY <3>1, <3>2, <3>3
  <2>2. /\ \A d \in Callers : d # Client => call'[d] = call[d]
        /\ call'[Client].op = "create"
    BY <1>1, <2>1
  <2> QED
    BY <1>1, <2>1, <2>2, CallGoes
<1>3. CASE CancelRun(r)
  <2>1. /\ UNCHANGED <<runs, pc, lease, life, abandoned, overdue, pulse>>
        /\ runs[r].status # "canceled"
        /\ call' = [call EXCEPT ![Client] = Store!Cancel(r, runs[r])]
    BY <1>3 DEF CancelRun, fleet, Store!BeginCancel, Store!Send
  <2>2. /\ \A d \in Callers : d # Client => call'[d] = call[d]
        /\ call'[Client].op = "cancel" /\ call'[Client].run = r /\ call'[Client].read = runs[r]
    BY <1>1, <2>1 DEF Store!Cancel
  <2>3. call'[Client].run \in Runs /\ Fresh(Client)
    BY <2>1, <2>2 DEF Fresh
  <2> QED
    BY <1>1, <2>1, <2>2, <2>3, CallGoes
<1>4. CASE PulseHeartbeat(r)
  <2>1. /\ UNCHANGED <<runs, pc, lease, life, abandoned, overdue>>
        /\ pulse[r] = "waiting" /\ pulse' = [pulse EXCEPT ![r] = "run_beat"]
        /\ \/ UNCHANGED call
           \/ call' = [call EXCEPT ![Pulse(r)] = Store!RunBeat(r, runs[r], runs[r].claimed_by)]
    BY <1>4 DEF PulseHeartbeat, server, Store!BeginRunBeat, Store!Send
  <2>2. /\ \A d \in Callers : d # Pulse(r) => call'[d] = call[d]
        /\ \/ call'[Pulse(r)] = call[Pulse(r)]
           \/ call'[Pulse(r)].op = "run_beat" /\ call'[Pulse(r)].run = r
    BY <1>1, <2>1 DEF Store!RunBeat
  <2>3. /\ pulse' \in [Runs -> Beating] /\ pulse'[r] = "run_beat"
        /\ \A s \in Runs \ {r} : pulse'[s] = pulse[s]
    BY <1>1, <2>1 DEF Beating
  <2>4. r \in overdue' \/ ~Sealed(r)
    BY <2>1 DEF OInv, Quiet
  <2>5. \/ call'[Pulse(r)] = call[Pulse(r)]
        \/ call'[Pulse(r)].run \in Runs /\ Fresh(Pulse(r))
    BY <2>2, <2>3, <2>4 DEF Fresh
  <2> QED
    BY <1>1, <2>1, <2>2, <2>3, <2>5, CallGoes
<1>5. CASE PulseHeartbeatWorker(r)
  <2>1. /\ UNCHANGED <<runs, pc, lease, life, abandoned, overdue>>
        /\ pulse[r] = "run_beat" /\ pulse' = [pulse EXCEPT ![r] = "worker_beat"]
        /\ call[Pulse(r)].op = "idle"
    BY <1>5 DEF PulseHeartbeatWorker, Answered, Store!Idle, Store!BeginBeat
  <2>2. /\ call' = [call EXCEPT ![Pulse(r)] = Store!Beat(runs[r].claimed_by,
                                               workers[runs[r].claimed_by], "healthy")]
        /\ Store!Beat(runs[r].claimed_by, workers[runs[r].claimed_by], "healthy").op = "beat"
    BY <1>5 DEF PulseHeartbeatWorker, Store!BeginBeat, Store!Send, Store!Beat
  <2>3. /\ \A d \in Callers : d # Pulse(r) => call'[d] = call[d]
        /\ call'[Pulse(r)].op = "beat"
    BY <1>1, <2>2
  <2>4. /\ pulse' \in [Runs -> Beating] /\ pulse'[r] = "worker_beat"
        /\ \A s \in Runs \ {r} : pulse'[s] = pulse[s]
    BY <1>1, <2>1 DEF Beating
  <2>5. ~Asks(Pulse(r), "run_beat", r)
    BY <2>1 DEF Asks
  <2> QED
    BY <1>1, <2>1, <2>3, <2>4, <2>5, CallGoes
<1>6. CASE PulseWaits(r) \/ PulseEnds(r) \/ PulseTimesOut(r)
  <2>1. /\ UNCHANGED <<runs, call, pc, lease, life, abandoned>> /\ overdue \subseteq overdue'
        /\ \E p \in {"waiting", "ended"} : pulse' = [pulse EXCEPT ![r] = p]
        /\ pulse[r] \in {"waiting", "run_beat", "worker_beat"}
    BY <1>6 DEF PulseWaits, PulseEnds, PulseTimesOut, server
  <2>2. /\ pulse' \in [Runs -> Beating]
        /\ \A s \in Runs \ {r} : pulse'[s] = pulse[s]
    BY <1>1, <2>1 DEF Beating
  <2>3. \/ call[Pulse(r)].op = "idle" \/ pulse[r] = "waiting" \/ r \in overdue'
    BY <1>6 DEF PulseWaits, PulseEnds, PulseTimesOut, Answered, Store!Idle
  <2>4. pulse[r] = "run_beat" => ~Asks(Pulse(r), "run_beat", r) \/ r \in overdue'
    BY <2>3 DEF Asks
  <2> QED
    BY <1>1, <2>1, <2>2, <2>4, CallGoes
<1> QED
  BY <1>2, <1>3, <1>4, <1>5, <1>6 DEF PulseThread

\* A commit that writes a run, other than that of a claim.
LEMMA RowTells ==
  ASSUME FleetAssumption, IInv, OInv, NEW c \in Callers, NEW row, OneRow(c, call[c].run, row),
         UNCHANGED <<pc, lease, life, pulse, abandoned, overdue>>,
         \A d \in Callers : d # c => call'[d] = call[d],
         call'[c].op \in {"idle", "beat_register"}, call[c].op # "idle"
  PROVE  OInv'
<1> DEFINE r == call[c].run
<1>1. /\ r \in Runs /\ runs'[r] = row /\ \A s \in Runs \ {r} : runs'[s] = runs[s]
      /\ \A v : Main(v)' = Main(v) /\ \A s \in Runs : Pulse(s) \in Callers
  BY MainCalls DEF OneRow, IInv, ServerOK, Main
<1>2. \A s \in Runs : /\ runs[s].state \in Final => runs'[s].state \in Final
                      /\ runs[s].state \notin {"absent", "queued"}
                           => runs'[s].state \notin {"absent", "queued"}
  BY <1>1 DEF OneRow, Moves, Final, Store!Final, Store!Results
<1>3. \A d \in Callers, s \in Runs, op \in {"run_beat", "cancel", "complete"} :
        Asks(d, op, s)' => Asks(d, op, s) /\ call'[d] = call[d]
  BY DEF Asks
<1>4. ASSUME NEW s \in Runs, Told(s)' PROVE Told(s)
  <2>1. CASE \E d \in Callers : Asks(d, "complete", s)'
    BY <1>3, <2>1 DEF Told
  <2>2. CASE runs'[s].state \in Store!Results /\ s # r
    BY <1>1, <2>2 DEF Told
  <2>3. CASE runs'[s].state \in Store!Results /\ s = r
    BY <1>1, <2>3 DEF Told, Asks, OneRow, Store!Results
  <2> QED
    BY <1>4, <2>1, <2>2, <2>3 DEF Told
<1>5. \A s \in Runs : Sealed(s)' => Sealed(s)
  BY <1>4 DEF Sealed
<1>6. ThreadStarted'
  <2>1. \A s \in Runs : call'[Pulse(s)].op # "idle" => call[Pulse(s)].op # "idle"
    BY <1>1
  <2> QED
    BY <1>2, <2>1 DEF OInv, ThreadStarted, Pulse
<1>7. BeatPlaced'
  BY <1>1, <1>3 DEF OInv, BeatPlaced, Pulse
<1>8. NotAbandoned'
  BY <1>2 DEF OInv, NotAbandoned
<1>9. Apart'
  BY <1>2, <1>5 DEF OInv, Apart
<1>10. Quiet'
  BY <1>3, <1>5 DEF OInv, Quiet
<1>11. ReadFinal'
  <2> SUFFICES ASSUME NEW d \in Callers, call'[d].op = "cancel", call'[d].read.state \in Final
               PROVE  runs'[call'[d].run].state \in Final
    BY DEF ReadFinal, Final
  <2>1. call'[d] = call[d]
    OBVIOUS
  <2>2. call[d].run \in Runs
    BY <2>1 DEF IInv, ServerOK, Carries
  <2> QED
    BY <1>2, <2>1, <2>2 DEF OInv, ReadFinal
<1>12. StatusTold'
  <2> SUFFICES ASSUME NEW s \in Runs, Told(s)', s \notin overdue
               PROVE  /\ runs'[s].state \in Final => runs'[s].status = runs'[s].state
                      /\ \A d \in Callers : Asks(d, "cancel", s)' => call'[d].read.state # "canceled"
    BY DEF StatusTold, Final
  <2>1. /\ Told(s) /\ Sealed(s)
        /\ runs[s].state \in Final => runs[s].status = runs[s].state
        /\ \A d \in Callers : Asks(d, "cancel", s) => call[d].read.state # "canceled"
    BY <1>4 DEF OInv, StatusTold, Sealed
  <2>2. \A d \in Callers : Asks(d, "cancel", s)' => call'[d].read.state # "canceled"
    BY <1>3, <2>1
  <2>3. CASE s # r
    BY <1>1, <2>1, <2>2, <2>3
  <2>4. CASE s = r
    <3>1. call[c].op # "run_beat"
      BY <2>1, <2>4 DEF OInv, Quiet, Asks
    <3>2. call[c].op = "cancel" => call[c].read.state # "canceled"
      BY <2>1, <2>4 DEF Asks
    <3>3. row.state = "queued" \/ row.status = row.state
      BY <3>1, <3>2 DEF OneRow
    <3> QED
      BY <1>1, <2>2, <2>4, <3>3 DEF Final, Store!Final, Store!Results
  <2> QED
    BY <2>3, <2>4
<1> QED
  BY <1>6, <1>7, <1>8, <1>9, <1>10, <1>11, <1>12 DEF OInv

\* An answer other than that to a claim.
LEMMA ServeTells ==
  ASSUME FleetAssumption, IInv, OInv, NEW c \in Callers, Serve(c)
  PROVE  OInv'
<1>1. /\ UNCHANGED <<pc, lease, life, pulse, abandoned, overdue>> /\ call[c].op # "claim"
      /\ pulse \in [Runs -> Beating]
      /\ \A r \in Runs : Pulse(r) \in Callers
  BY MainCalls DEF Serve, IInv, OInv
<1>2. CASE Store!Commit(c)
  <2>1. /\ \A d \in Callers : d # c => call'[d] = call[d]
        /\ call'[c].op \in {"idle", "beat_register"} /\ call[c].op # "idle"
    BY <1>2, AnswerServes, CommitAnswers DEF IInv
  <2>2. CASE UNCHANGED runs
    BY <1>1, <2>1, <2>2, CallGoes
  <2>3. CASE \E row : OneRow(c, call[c].run, row)
    BY <1>1, <2>1, <2>3, RowTells
  <2> QED
    BY <1>1, <1>2, <2>2, <2>3, CommitWrites DEF IInv
<1>3. CASE Store!BeginBeatRegister(c)
  <2>1. /\ UNCHANGED runs /\ call[c].op = "beat_register"
        /\ \A d \in Callers : d # c => call'[d] = call[d]
    BY <1>3, BeginServes DEF Begins, IInv, Store!BeginBeatRegister
  <2>2. call'[c].op = "register"
    BY <1>3 DEF Store!BeginBeatRegister, Store!Send, Store!Register, ServerOK, IInv
  <2>3. call'[c].op \notin {"run_beat", "cancel", "complete"}
    BY <2>2
  <2> QED
    BY <1>1, <2>1, <2>3, CallGoes
<1> QED
  BY <1>2, <1>3 DEF Serve

\* A claim that is granted: nobody knows its run yet.
LEMMA GrantTells ==
  ASSUME FleetAssumption, IInv, OInv, NEW w \in Workers, NEW n \in 1..MaxLives, GrantLease(w, n)
  PROVE  OInv'
<1> USE DEF Working, Early, Reports
<1> DEFINE c == <<"main", w, n>>
<1>1. c \in Callers /\ ServerOK /\ Store!CommitClaim(c)
  BY DEF Callers, IInv, GrantLease
<1>2. PICK r \in Runs :
        /\ Store!Selected({}, "fifo") = {r}
        /\ runs[r].state = "queued" /\ runs'[r].state = "running"
        /\ \A s \in Runs \ {r} : runs'[s] = runs[s]
  BY <1>1, ClaimServes
<1>3. /\ call[c].op = "claim" /\ call'[c].op = "idle"
      /\ \A d \in Callers : d # c => call'[d] = call[d]
  BY <1>1, ClaimServes
<1>4. /\ UNCHANGED <<pc, life, pulse, overdue>> /\ \A v : Main(v)' = Main(v)
      /\ \A s \in Runs : call'[Pulse(s)] = call[Pulse(s)]
  BY <1>3, MainCalls, OwnCaller DEF GrantLease, Main, IInv
<1>5. /\ \A v \in Workers : lease[v] # r
      /\ ~Sealed(r) /\ r \notin abandoned
      /\ pulse[r] = "none" /\ call[Pulse(r)].op = "idle"
  BY <1>2 DEF IInv, Leased, FleetAssumption, OInv, Apart, NotAbandoned, ThreadStarted
<1>6. \/ /\ pc[w] = "claim" /\ lease'[w] = r /\ \A v \in Workers \ {w} : lease'[v] = lease[v]
         /\ lease[w] = NoRun /\ UNCHANGED abandoned
      \/ UNCHANGED lease /\ abandoned' = abandoned \cup {r}
  <2>1. CASE pc[w] = "claim" /\ life[w] = n
    <3>1. lease' = [lease EXCEPT ![w] = r] /\ UNCHANGED abandoned
      BY <1>2, <2>1 DEF GrantLease
    <3>2. lease[w] = NoRun
      BY <1>3, <2>1 DEF IInv, InPlace, Main
    <3> QED
      BY <2>1, <3>1, <3>2 DEF IInv, Typed
  <2>2. CASE ~(pc[w] = "claim" /\ life[w] = n)
    BY <1>2, <2>2 DEF GrantLease
  <2> QED
    BY <2>1, <2>2
<1>7. \A d \in Callers, s \in Runs, op \in {"run_beat", "cancel", "complete"} :
        Asks(d, op, s)' => Asks(d, op, s) /\ call'[d] = call[d]
  BY <1>3 DEF Asks
<1>8. ASSUME NEW s \in Runs
      PROVE  /\ Told(s)' => Told(s) /\ s # r
             /\ Sealed(s)' => Sealed(s) /\ s # r
  <2>1. runs'[s].state \in Store!Results => s # r /\ runs[s].state \in Store!Results
    BY <1>2 DEF Store!Results
  <2>2. Told(s)' => Told(s)
    BY <1>7, <2>1 DEF Told
  <2>3. \A v \in Workers : pc'[v] \in Reports /\ lease'[v] = s => lease[v] = s /\ pc[v] \in Reports
    BY <1>4, <1>6
  <2>4. Sealed(s)' => Sealed(s)
    BY <2>2, <2>3 DEF Sealed
  <2> QED
    BY <1>5, <2>2, <2>4 DEF Sealed
<1>9. \A s \in Runs : runs[s].state \notin {"absent", "queued"}
                        => runs'[s] = runs[s]
  BY <1>2
<1>10. ThreadStarted'
  <2> SUFFICES ASSUME NEW s \in Runs, pulse[s] # "none" \/ call[Pulse(s)].op # "idle"
               PROVE  /\ runs'[s].state \notin {"absent", "queued"}
                      /\ \A v \in Workers : lease'[v] = s => pc[v] \notin {"claim", "first"}
    BY <1>4 DEF ThreadStarted, Pulse
  <2>1. /\ s # r /\ runs[s].state \notin {"absent", "queued"}
        /\ \A v \in Workers : lease[v] = s => pc[v] \notin {"claim", "first"}
    BY <1>5 DEF OInv, ThreadStarted
  <2> QED
    BY <1>6, <1>9, <2>1
<1>11. BeatPlaced'
  <2> SUFFICES ASSUME NEW d \in Callers, NEW s \in Runs, Asks(d, "run_beat", s),
                      s \notin overdue \cup abandoned'
               PROVE  \/ d = Pulse(s) /\ pulse[s] = "run_beat"
                      \/ \E v \in Workers : d = Main(v) /\ pc[v] = "first" /\ lease'[v] = s
    BY <1>4, <1>7 DEF BeatPlaced, Pulse
  <2>1. s \notin abandoned
    BY <1>6
  <2> QED
    BY <1>6, <2>1 DEF OInv, BeatPlaced
<1>12. NotAbandoned'
  <2>1. \A s \in abandoned' : s \in Runs /\ runs'[s].state \notin {"absent", "queued"}
    BY <1>2, <1>6, <1>9 DEF OInv, NotAbandoned
  <2>2. \A v \in Workers : pc[v] \in Working => lease'[v] \notin abandoned'
    BY <1>5, <1>6 DEF OInv, NotAbandoned
  <2> QED
    BY <1>4, <2>1, <2>2 DEF NotAbandoned
<1>13. Apart'
  <2> SUFFICES ASSUME NEW s \in Runs, Sealed(s)'
               PROVE  /\ runs'[s].state \notin {"absent", "queued"}
                      /\ \A v \in Workers : lease'[v] = s => pc[v] \notin Early
    BY <1>4 DEF Apart
  <2>1. s # r /\ Sealed(s)
    BY <1>8
  <2> QED
    BY <1>6, <1>9, <2>1 DEF OInv, Apart
<1>14. Quiet'
  BY <1>4, <1>7, <1>8 DEF OInv, Quiet
<1>15. ReadFinal'
  <2> SUFFICES ASSUME NEW d \in Callers, call'[d].op = "cancel", call'[d].read.state \in Final
               PROVE  runs'[call'[d].run].state \in Final
    BY DEF ReadFinal, Final
  <2>1. call'[d] = call[d] /\ call[d].run \in Runs
    BY <1>1, <1>3 DEF ServerOK, Carries
  <2>2. runs[call[d].run].state \in Final
    BY <2>1 DEF OInv, ReadFinal
  <2> QED
    BY <1>9, <2>1, <2>2 DEF Final, Store!Final, Store!Results
<1>16. StatusTold'
  <2> SUFFICES ASSUME NEW s \in Runs, Told(s)', s \notin overdue
               PROVE  /\ runs'[s].state \in Final => runs'[s].status = runs'[s].state
                      /\ \A d \in Callers : Asks(d, "cancel", s)' => call'[d].read.state # "canceled"
    BY <1>4 DEF StatusTold, Final
  <2>1. s # r /\ Told(s) /\ runs'[s] = runs[s]
    BY <1>2, <1>8
  <2> QED
    BY <1>7, <2>1 DEF OInv, StatusTold
<1> QED
  BY <1>4, <1>10, <1>11, <1>12, <1>13, <1>14, <1>15, <1>16 DEF OInv

\* Nothing that the invariant is about changes.
LEMMA UntouchedTells ==
  ASSUME FleetAssumption, IInv, OInv,
         UNCHANGED <<runs, call, pc, lease, life, pulse, abandoned, overdue>>
  PROVE  OInv'
<1>1. Client \in Callers /\ pulse \in [Runs -> Beating]
  BY MainCalls DEF IInv, OInv
<1> QED
  BY <1>1, CallGoes

\* A claim that finds nothing.
LEMMA NothingTells ==
  ASSUME FleetAssumption, IInv, OInv, NEW w \in Workers, NEW n \in 1..MaxLives, GrantNothing(w, n)
  PROVE  OInv'
<1> DEFINE c == <<"main", w, n>>
<1>1. /\ c \in Callers /\ call[c].op = "claim" /\ Store!Done(c)
      /\ UNCHANGED <<runs, clock, lease, life, pulse, abandoned, overdue>>
  BY DEF Callers, GrantNothing, Store!CommitClaimNothing
<1>2. /\ call'[c].op = "idle" /\ \A d \in Callers : d # c => call'[d] = call[d]
  BY <1>1, Drops DEF IInv
<1>3. CASE pc[w] = "claim" /\ life[w] = n
  <2>1. Go(w, "poll") /\ c = Main(w)
    BY <1>3 DEF GrantNothing, Main
  <2>2. "poll" \notin Working
    BY DEF Working
  <2>3. call'[Main(w)].op \notin {"run_beat", "cancel", "complete"}
    BY <1>2, <2>1
  <2> QED
    BY <1>1, <1>2, <1>3, <2>1, <2>2, <2>3, OneGoes
<1>4. CASE ~(pc[w] = "claim" /\ life[w] = n)
  <2>1. UNCHANGED pc /\ pulse \in [Runs -> Beating]
    BY <1>4 DEF GrantNothing, OInv
  <2>2. /\ call'[c].op \notin {"run_beat", "cancel", "complete"}
        /\ \A r \in Runs : Pulse(r) # c /\ Pulse(r) \in Callers
    BY <1>2, OwnCaller, MainCalls DEF IInv
  <2> QED
    BY <1>1, <1>2, <2>1, <2>2, CallGoes
<1> QED
  BY <1>3, <1>4

\* A program that goes away: its run is abandoned, and the thread ends or goes on.
LEMMA DieTells ==
  ASSUME FleetAssumption, IInv, OInv, NEW w \in Workers, Die(w), pc[w] # "off",
         UNCHANGED <<runs, lease, life, overdue>>,
         \A c \in Callers : call'[c] = call[c] \/ call'[c].op = "idle",
         \/ UNCHANGED pulse
         \/ pulse' = [r \in Runs |-> IF r = lease[w] THEN "ended" ELSE pulse[r]]
  PROVE  OInv'
<1>1. /\ pc'[w] = "dead" /\ \A v \in Workers \ {w} : pc'[v] = pc[v]
      /\ \A v : Main(v)' = Main(v)
      /\ abandoned' = abandoned \cup ({lease[w]} \ {NoRun})
      /\ lease[w] \in Runs \cup {NoRun}
  BY DEF Die, Go, IInv, Typed, Main
<1>2. \A v \in Workers : pc'[v] \in Working /\ lease'[v] # NoRun => GoesOn(v)
  BY <1>1 DEF GoesOn, Working
<1>3. NotAbandoned'
  BY <1>1 DEF OInv, NotAbandoned, IInv, Leased, Working
<1>4. /\ pulse' \in [Runs -> Beating]
      /\ \A r \in Runs : \/ pulse'[r] = pulse[r]
                         \/ pulse'[r] = "ended" /\ r = lease[w] /\ r \in abandoned'
  BY <1>1 DEF OInv, Beating, FleetAssumption
<1>5. \A r \in Runs : Pulse(r) \in Callers
  BY MainCalls DEF IInv
<1>6. \A r \in Runs : pulse'[r] # "none" \/ call'[Pulse(r)].op # "idle" =>
        \/ pulse[r] # "none" \/ call[Pulse(r)].op # "idle"
        \/ /\ runs[r].state \notin {"absent", "queued"}
           /\ \A v \in Workers : lease'[v] = r => pc'[v] \notin {"claim", "first"}
  <2> SUFFICES ASSUME NEW r \in Runs, pulse'[r] = "ended", r = lease[w]
               PROVE  /\ runs[r].state \notin {"absent", "queued"}
                      /\ \A v \in Workers : lease'[v] = r => pc'[v] \notin {"claim", "first"}
    BY <1>4, <1>5
  <2>1. runs[r].state \notin {"absent", "queued"} /\ \A v \in Workers : lease[v] = r => v = w
    BY DEF IInv, Leased, FleetAssumption
  <2> QED
    BY <1>1, <2>1
<1>7. ASSUME NEW c \in Callers, NEW r \in Runs, r \notin overdue' \cup abandoned'
      PROVE  /\ c = Pulse(r) /\ pulse[r] = "run_beat" => pulse'[r] = "run_beat"
             /\ \A v \in Workers : c = Main(v) /\ pc[v] = "first" /\ lease[v] = r =>
                  c = Main(v)' /\ pc'[v] = "first" /\ lease'[v] = r
  <2>1. r # lease[w]
    BY <1>1, <1>7 DEF FleetAssumption
  <2> QED
    BY <1>1, <1>4, <2>1
<1>8. \A r \in Runs : pulse[r] = "ended" => pulse'[r] = "ended"
  BY <1>4
<1>9. \A c \in Callers : call'[c] = call[c] \/ call'[c].op \notin {"run_beat", "cancel", "complete"}
  OBVIOUS
<1> QED
  BY <1>1, <1>2, <1>3, <1>4, <1>6, <1>7, <1>8, <1>9, Goes DEF IInv

\* A request that fails.
LEMMA FailTells ==
  ASSUME FleetAssumption, IInv, OInv, NEW c \in Callers, RequestFails(c)
  PROVE  OInv'
<1>1. /\ call[c].op # "idle" /\ call'[c].op = "idle" /\ UNCHANGED <<runs, lease, life, overdue>>
      /\ \A d \in Callers : d # c => call'[d] = call[d]
  <2>1. call[c] # Store!Idle /\ Carries(call[c])
    BY DEF RequestFails, Store!Fail, IInv, ServerOK
  <2>2. call[c].op # "idle"
    BY <2>1 DEF Carries
  <2>3. /\ call'[c].op = "idle" /\ UNCHANGED <<runs, lease, life, overdue>>
        /\ \A d \in Callers : d # c => call'[d] = call[d]
    BY Drops DEF IInv, RequestFails, Store!Fail
  <2> QED
    BY <2>2, <2>3
<1>2. CASE \E w \in Workers : pc[w] \in Serving /\ Die(w) /\ UNCHANGED pulse
  <2>1. PICK w \in Workers : pc[w] \in Serving /\ Die(w) /\ UNCHANGED pulse
    BY <1>2
  <2>2. pc[w] # "off" /\ \A d \in Callers : call'[d] = call[d] \/ call'[d].op = "idle"
    BY <1>1, <2>1 DEF Serving
  <2> QED
    BY <1>1, <2>1, <2>2, DieTells
<1>3. CASE /\ pulse' = [r \in Runs |-> IF c = Pulse(r) THEN "ended" ELSE pulse[r]]
           /\ UNCHANGED <<pc, abandoned>>
  <2>1. /\ pulse' \in [Runs -> Beating]
        /\ \A r \in Runs : pulse'[r] = IF c = Pulse(r) THEN "ended" ELSE pulse[r]
    BY <1>3 DEF OInv, Beating
  <2>2. \A r \in Runs : Pulse(r) \in Callers
    BY MainCalls DEF IInv
  <2>3. \A r \in Runs : pulse'[r] # "none" \/ call'[Pulse(r)].op # "idle" =>
                          pulse[r] # "none" \/ call[Pulse(r)].op # "idle"
    BY <1>1, <2>1, <2>2
  <2>4. \A r \in Runs : c = Pulse(r) => ~(call'[Pulse(r)] = call[Pulse(r)])
    BY <1>1
  <2>5. call'[c].op \notin {"run_beat", "cancel", "complete"}
    BY <1>1
  <2> QED
    BY <1>1, <1>3, <2>1, <2>3, <2>4, <2>5, CallGoes
<1> QED
  BY <1>2, <1>3 DEF RequestFails

\* A fault of a program.
LEMMA FaultTells ==
  ASSUME FleetAssumption, IInv, OInv, NEW w \in Workers,
         RequestTimesOut(w) \/ Killed(w) \/ GoStale(w)
  PROVE  OInv'
<1>1. CASE GoStale(w)
  <2>1. UNCHANGED <<runs, call, pc, lease, life, pulse, abandoned, overdue>>
    BY <1>1 DEF GoStale, Store!GoStale
  <2> QED
    BY <2>1, UntouchedTells
<1>2. CASE RequestTimesOut(w) \/ Killed(w)
  <2>1. /\ Die(w) /\ pc[w] # "off" /\ UNCHANGED <<runs, call, lease, life, overdue>>
        /\ \/ UNCHANGED pulse
           \/ pulse' = [r \in Runs |-> IF r = lease[w] THEN "ended" ELSE pulse[r]]
    BY <1>2 DEF RequestTimesOut, Killed, server, Serving
  <2> QED
    BY <2>1, DieTells
<1> QED
  BY <1>1, <1>2

LEMMA OutcomeKept == FleetAssumption /\ IInv /\ OInv /\ [Next]_vars => OInv'
<1> SUFFICES ASSUME FleetAssumption, IInv, OInv, [Next]_vars PROVE OInv'
  OBVIOUS
<1>1. CASE \E r \in Runs : Submit(r) \/ CancelRun(r) \/ PulseThread(r) \/ PulseTimesOut(r)
  BY <1>1, OthersTell
<1>2. CASE \E w \in Workers : Start(w) \/ StopServing(w) \/ Program(w)
  BY <1>2, ProgramKeepsOutcome
<1>3. CASE \E c \in Callers : Answer(c)
  BY <1>3, ServeTells, GrantTells, NothingTells, FailTells DEF Answer
<1>4. CASE \E w \in Workers : RequestTimesOut(w) \/ Killed(w) \/ GoStale(w)
  BY <1>4, FaultTells
<1>5. CASE UNCHANGED vars
  BY <1>5, UntouchedTells DEF vars
<1> QED
  BY <1>1, <1>2, <1>3, <1>4, <1>5 DEF Next, Fault

LEMMA OutcomeInitially == FleetAssumption /\ Init => OInv
<1> SUFFICES ASSUME FleetAssumption, Init PROVE OInv
  OBVIOUS
<1>1. /\ runs = [r \in Runs |-> Store!AbsentRun] /\ Store!AbsentRun.state = "absent"
      /\ call = [c \in Callers |-> Store!Idle] /\ Store!Idle.op = "idle"
      /\ pulse = [r \in Runs |-> "none"] /\ pc = [w \in Workers |-> "off"]
      /\ abandoned = {} /\ overdue = {}
  BY DEF Init, Store!Init, Store!AbsentRun, Store!Idle
<1>2. \A r \in Runs : Pulse(r) \in Callers
  BY DEF Callers, Pulse
<1>3. \A r \in Runs : ~Sealed(r) /\ ~Told(r)
  BY <1>1 DEF Sealed, Told, Asks, Reports, Store!Results
<1>4. ThreadStarted /\ BeatPlaced /\ NotAbandoned
  BY <1>1, <1>2 DEF ThreadStarted, BeatPlaced, NotAbandoned, Asks, Working
<1>5. Apart /\ Quiet /\ ReadFinal /\ StatusTold
  BY <1>1, <1>3 DEF Apart, Quiet, ReadFinal, StatusTold
<1> QED
  BY <1>1, <1>4, <1>5 DEF OInv, Beating

-----------------------------------------------------------------------------
\* A run is executed by one program at a time: a claim takes a queued run, and
\* neither a late heartbeat, nor a cancellation, nor a worker that comes back
\* makes a run queued again.
THEOREM OneExecutorHolds == Spec => []OneExecutor
<1>1. IInv => OneExecutor
  <2> SUFFICES ASSUME IInv, NEW r \in Runs PROVE Cardinality(Served(r)) <= 1
    BY DEF OneExecutor
  <2>1. \A v, w \in Served(r) : v = w
    BY FleetAssumption DEF Served, IInv, Leased, FleetAssumption
  <2>2. CASE Served(r) = {}
    BY <2>2, FS_EmptySet
  <2>3. CASE Served(r) # {}
    <3>1. PICK w : Served(r) = {w}
      BY <2>1, <2>3
    <3> QED
      BY <3>1, FS_Singleton
  <2> QED
    BY <2>2, <2>3
<1> QED
  BY <1>1, Initially, Inductive, FleetAssumption, PTL DEF Spec

\* A run that says it is running is in the hands of a program that has the lease,
\* unless that program went away with it.
THEOREM OrphanHasCauseHolds == Spec => []OrphanHasCause
<1>1. IInv => OrphanHasCause
  BY DEF IInv
<1> QED
  BY <1>1, Initially, Inductive, FleetAssumption, PTL DEF Spec

\* Whoever asks for a run that was completed is told its outcome, unless a heartbeat
\* of the run was in flight when its thread was given up: the program sends the
\* completion when there is none left, and no cancellation writes the status alone.
THEOREM OutcomeShowsHolds == Spec => []OutcomeShows
<1>1. OInv => OutcomeShows
  BY DEF OInv, StatusTold, OutcomeShows, Told, Final, Store!Final, Store!Results
<1>2. Init => IInv /\ OInv
  BY Initially, OutcomeInitially, FleetAssumption
<1>3. IInv /\ OInv /\ [Next]_vars => (IInv /\ OInv)'
  BY Inductive, OutcomeKept, FleetAssumption
<1> QED
  BY <1>1, <1>2, <1>3, PTL DEF Spec

-----------------------------------------------------------------------------
(* What a worker is charged for.                                            *)

\* Workers register one place each, and claim while it is free.
SingleRow ==
  [known: BOOLEAN, capacity: {1}, active_leases: {0, 1}, health: {"healthy"},
   fresh: BOOLEAN]

Offered(q) ==
  /\ q.op \in {"register", "beat_register"} =>
       q.worker \in Workers /\ q.capacity = 1 /\ q.health = "healthy"
  /\ q.op = "beat" => q.worker \in Workers /\ q.read.capacity = 1 /\ q.health = "healthy"
  /\ q.op = "claim" => q.read.active_leases = 0
  /\ q.op = "create" => q.new.claimed_by = NoWorker

\* A run is nobody's before its claim; a completion knows whose it is.
Unclaimed ==
  \A r \in Runs : runs[r].state \in {"absent", "queued"} => runs[r].claimed_by = NoWorker

Named == \A c \in Callers : call[c].op = "complete" =>
           call[c].read.claimed_by = runs[call[c].run].claimed_by

\* The lease that a worker is charged for is that of a run that is running, or
\* that was canceled by a request that did not know of the claim.
Cause(w) ==
  \E r \in Runs : runs[r].claimed_by = w /\ (runs[r].state = "running" \/ r \in overtaken)

Caused == \A w \in Workers : workers[w].active_leases = 0 \/ (workers[w].known /\ Cause(w))

CInv ==
  /\ workers \in [Workers -> SingleRow]
  /\ \A c \in Callers : Offered(call[c])
  /\ Unclaimed /\ Named /\ Caused

\* A step that writes no row: a request that begins is one of a worker with one
\* place, and a completion knows whose run it completes.
LEMMA CauseStays ==
  ASSUME CInv, UNCHANGED <<runs, workers>>, overtaken \subseteq overtaken',
         \A c \in Callers :
           \/ call'[c] = call[c]
           \/ /\ Offered(call'[c])
              /\ call'[c].op = "complete" => call'[c].read = runs[call'[c].run]
  PROVE  CInv'
<1>1. \A c \in Callers : Offered(call'[c])
  BY DEF CInv
<1>2. Unclaimed' /\ Named'
  BY DEF CInv, Unclaimed, Named
<1>3. Caused'
  BY DEF CInv, Caused, Cause
<1>4. (\A c \in Callers : Offered(call[c]))'
  BY <1>1 DEF Offered
<1> QED
  BY <1>2, <1>3, <1>4 DEF CInv

\* A request that begins.
LEMMA BeginOffers ==
  ASSUME ServerOK, CInv, NEW c \in Callers, Begins(c), overtaken' = overtaken
  PROVE  CInv'
<1> USE DEF Store!Send
<1>0. /\ DOMAIN call = Callers /\ \A d \in Callers : Offered(call[d])
      /\ workers \in [Workers -> SingleRow]
  BY DEF ServerOK, CInv
<1>1. UNCHANGED <<runs, workers>>
  BY DEF Begins, Store!BeginCreate, Store!BeginCancel, Store!BeginRegister, Store!BeginBeat,
     Store!BeginClaim, Store!BeginRunBeat, Store!BeginComplete, Store!BeginBeatRegister
<1>2. /\ Offered(call'[c])
      /\ call'[c].op = "complete" => call'[c].read = runs[call'[c].run]
  <2>1. CASE \E r \in Runs : Store!BeginCreate(c, r, Plain)
    <3>1. PICK r \in Runs : Store!BeginCreate(c, r, Plain)
      BY <2>1
    <3> DEFINE new == [state |-> "queued", status |-> "queued", claimed_by |-> NoWorker,
                       queued_at |-> clock + 1, request |-> Plain, result |-> "none"]
    <3>2. new.claimed_by = NoWorker
      OBVIOUS
    <3> HIDE DEF new
    <3>3. call'[c] = [op |-> "create", run |-> r, read |-> runs[r], new |-> new]
      BY <1>0, <3>1 DEF Store!BeginCreate, Store!Create, new
    <3> QED
      BY <3>2, <3>3 DEF Offered
  <2>2. CASE \E r \in Runs : Store!BeginCancel(c, r)
    BY <1>0, <2>2 DEF Offered, Store!BeginCancel, Store!Cancel
  <2>3. CASE \E w \in Workers : Store!BeginRegister(c, w, 1, "healthy")
    BY <1>0, <2>3 DEF Offered, Store!BeginRegister, Store!Register
  <2>4. CASE \E w \in Workers : Store!BeginBeat(c, w, "healthy")
    BY <1>0, <2>4 DEF Offered, Store!BeginBeat, Store!Beat, SingleRow
  <2>5. CASE \E w \in Workers : Store!BeginClaim(c, w, {}, "fifo")
    BY <1>0, <2>5 DEF Offered, Store!BeginClaim, Store!Claim, Store!Available, SingleRow
  <2>6. CASE \E r \in Runs : \E w : Store!BeginRunBeat(c, r, w)
    BY <1>0, <2>6 DEF Offered, Store!BeginRunBeat, Store!RunBeat
  <2>7. CASE \E r \in Runs, res \in Store!Results : Store!BeginComplete(c, r, res)
    BY <1>0, <2>7 DEF Offered, Store!BeginComplete, Store!Complete
  <2>8. CASE Store!BeginBeatRegister(c)
    BY <1>0, <2>8 DEF Offered, Store!BeginBeatRegister, Store!Register
  <2> QED
    BY <2>1, <2>2, <2>3, <2>4, <2>5, <2>6, <2>7, <2>8 DEF Begins
<1>3. \A d \in Callers : d # c => call'[d] = call[d]
  BY BeginServes
<1> QED
  BY <1>1, <1>2, <1>3, CauseStays

\* No request but a claim changes whose run it is.
LEMMA OwnerKept ==
  ASSUME ServerOK, CInv, NEW c \in Callers, Store!Commit(c), call[c].op # "claim", NEW r \in Runs
  PROVE  runs'[r].claimed_by = runs[r].claimed_by
<1>0. /\ Carries(call[c]) /\ Offered(call[c]) /\ runs \in [Runs -> RunRow]
      /\ \A s \in Runs : runs[s].state = "absent" => runs[s].claimed_by = NoWorker
  BY DEF ServerOK, CInv, Unclaimed
<1> DEFINE Owned(row) == runs' = [runs EXCEPT ![call[c].run] = row]
                         /\ row.claimed_by = runs[call[c].run].claimed_by
<1>1. ASSUME call[c].run \in Runs, NEW row, Owned(row)
      PROVE  runs'[r].claimed_by = runs[r].claimed_by
  BY <1>0, <1>1
<1>2. CASE Store!CommitCreate(c)
  <2> DEFINE row == Store!Written(runs[call[c].run], call[c].read, call[c].new)
  <2>1. /\ call[c].run \in Runs /\ call[c].read.state = "absent" /\ call[c].new \in RunRow
        /\ call[c].new.claimed_by = NoWorker
        /\ call[c].read \in RunRow /\ runs[call[c].run].state = "absent"
    BY <1>0, <1>2 DEF Carries, Offered, Store!CommitCreate
  <2>2. row \in RunRow /\ row.claimed_by = runs[call[c].run].claimed_by
    <3>1. row \in RunRow
      BY <1>0, <2>1, WrittenRow
    <3> QED
      BY <1>0, <2>1, <3>1 DEF Store!Written, Store!Column
  <2>3. PICK st : runs' = [runs EXCEPT ![call[c].run] = [row EXCEPT !.status = st]]
    BY <1>2 DEF Store!CommitCreate
  <2>4. [row EXCEPT !.status = st].claimed_by = row.claimed_by
    BY <2>2 DEF RunRow, Store!RunRow
  <2> HIDE DEF row
  <2> QED
    BY <1>1, <2>1, <2>2, <2>3, <2>4
<1>3. CASE Store!CommitRunBeat(c)
  BY <1>0, <1>1, <1>3 DEF Carries, Store!CommitRunBeat, Store!Written, Store!Column
<1>4. CASE Store!CommitCancel(c)
  BY <1>0, <1>1, <1>4 DEF Carries, Store!CommitCancel, Store!Written, Store!Column, RunRow,
     Store!RunRow
<1>5. CASE Store!CommitComplete(c)
  <2> DEFINE row == Store!Written(runs[call[c].run], call[c].read,
                                  [call[c].read EXCEPT !.state = call[c].result,
                                                       !.status = call[c].result])
  <2>1. call[c].run \in Runs /\ call[c].read \in RunRow
    BY <1>0, <1>5 DEF Carries, Store!CommitComplete
  <2>2. row.claimed_by = runs[call[c].run].claimed_by
    BY <2>1 DEF Store!Written, Store!Column, RunRow, Store!RunRow
  <2>3. PICK res : runs' = [runs EXCEPT ![call[c].run] = [row EXCEPT !.result = res]]
    BY <1>5 DEF Store!CommitComplete
  <2>4. [row EXCEPT !.result = res].claimed_by = row.claimed_by
    BY DEF Store!Written
  <2> HIDE DEF row
  <2> QED
    BY <1>1, <2>1, <2>2, <2>3, <2>4
<1>6. CASE Store!CommitRegister(c) \/ Store!CommitBeat(c)
  BY <1>6 DEF Store!CommitRegister, Store!CommitBeat
<1>7. ~Store!CommitClaim(c) /\ ~Store!CommitClaimNothing(c) /\ ~Store!CommitClaimAnon(c)
  BY <1>0 DEF Carries, Store!CommitClaim, Store!CommitClaimNothing, Store!CommitClaimAnon
<1> QED
  BY <1>2, <1>3, <1>4, <1>5, <1>6, <1>7 DEF Store!Commit

\* No request but a claim charges a worker, and the end of a run takes the
\* charge from the worker whose run it was when it was read.
LEMMA ChargeDrops ==
  ASSUME ServerOK, CInv, NEW c \in Callers, Store!Commit(c), call[c].op # "claim"
  PROVE  /\ workers' \in [Workers -> SingleRow]
         /\ \A w \in Workers :
              /\ workers[w].known => workers'[w].known
              /\ workers'[w].active_leases \in {0, workers[w].active_leases}
              /\ /\ call[c].op \in {"cancel", "complete"} /\ call[c].read.claimed_by = w
                 /\ workers[w].known
                 => workers'[w].active_leases = 0
<1>0. Carries(call[c]) /\ Offered(call[c]) /\ workers \in [Workers -> SingleRow]
  BY DEF ServerOK, CInv
<1>1. CASE UNCHANGED workers /\ call[c].op \notin {"cancel", "complete"}
  BY <1>0, <1>1
<1>2. CASE Store!CommitCreate(c)
  BY <1>1, <1>2 DEF Store!CommitCreate
<1>3. CASE Store!CommitRegister(c)
  <2> DEFINE w == call[c].worker
  <2>1. /\ w \in Workers /\ call[c].capacity = 1 /\ call[c].health = "healthy"
        /\ call[c].op = "register"
    BY <1>0, <1>3 DEF Offered, Store!CommitRegister
  <2>2. /\ Store!Column(workers[w].capacity, call[c].read.capacity, call[c].capacity) = 1
        /\ Store!Column(workers[w].health, call[c].read.health, call[c].health) = "healthy"
    BY <1>0, <2>1 DEF Store!Column, SingleRow
  <2>3. workers' = [workers EXCEPT ![w] =
                      [@ EXCEPT !.known = TRUE, !.capacity = 1, !.health = "healthy"]]
    BY <1>3, <2>2 DEF Store!CommitRegister
  <2>4. /\ [workers[w] EXCEPT !.known = TRUE, !.capacity = 1, !.health = "healthy"] \in SingleRow
        /\ [workers[w] EXCEPT !.known = TRUE, !.capacity = 1, !.health = "healthy"].known
        /\ [workers[w] EXCEPT !.known = TRUE, !.capacity = 1, !.health = "healthy"].active_leases
             = workers[w].active_leases
    BY <1>0, <2>1 DEF SingleRow
  <2> QED
    BY <1>0, <2>1, <2>3, <2>4
<1>4. ASSUME NEW v \in Workers, call[c].op \notin {"cancel", "complete"},
             workers' = [workers EXCEPT ![v].fresh = TRUE]
      PROVE  /\ workers' \in [Workers -> SingleRow]
             /\ \A w \in Workers : /\ workers[w].known => workers'[w].known
                                   /\ workers'[w].active_leases = workers[w].active_leases
  BY <1>0, <1>4 DEF SingleRow
<1>5. CASE Store!CommitBeat(c)
  <2>1. /\ call[c].worker \in Workers /\ call[c].op = "beat"
        /\ workers' = [workers EXCEPT ![call[c].worker].fresh = TRUE]
    BY <1>0, <1>5 DEF Offered, Store!CommitBeat
  <2> QED
    BY <1>4, <2>1
<1>6. CASE Store!CommitRunBeat(c)
  <2>1. /\ call[c].op = "run_beat"
        /\ \/ UNCHANGED workers
           \/ /\ call[c].worker \in Workers
              /\ workers' = [workers EXCEPT ![call[c].worker].fresh = TRUE]
    BY <1>6 DEF Store!CommitRunBeat
  <2> QED
    BY <1>1, <1>4, <2>1
<1>7. ASSUME Store!Release(call[c].read.claimed_by)
      PROVE  /\ workers' \in [Workers -> SingleRow]
             /\ \A w \in Workers :
                  /\ workers'[w].known = workers[w].known
                  /\ workers'[w].active_leases \in {0, workers[w].active_leases}
                  /\ call[c].read.claimed_by = w /\ workers[w].known =>
                       workers'[w].active_leases = 0
  <2> DEFINE w == call[c].read.claimed_by
  <2>1. CASE w \in Workers /\ workers[w].known
    <3>1. (IF workers[w].active_leases > 0 THEN workers[w].active_leases - 1 ELSE 0) = 0
      BY <1>0, <2>1 DEF SingleRow
    <3>2. workers' = [workers EXCEPT ![w] = [@ EXCEPT !.active_leases = 0]]
      BY <1>7, <2>1, <3>1 DEF Store!Release
    <3>3. /\ [workers[w] EXCEPT !.active_leases = 0] \in SingleRow
          /\ [workers[w] EXCEPT !.active_leases = 0].known = workers[w].known
          /\ [workers[w] EXCEPT !.active_leases = 0].active_leases = 0
      BY <1>0, <2>1 DEF SingleRow
    <3> QED
      BY <1>0, <2>1, <3>2, <3>3
  <2>2. CASE ~(w \in Workers /\ workers[w].known)
    <3>1. UNCHANGED workers
      BY <1>7, <2>2 DEF Store!Release
    <3> QED
      BY <1>0, <2>2, <3>1
  <2> QED
    BY <2>1, <2>2
<1>8. CASE Store!CommitCancel(c) \/ Store!CommitComplete(c)
  <2>1. Store!Release(call[c].read.claimed_by)
    BY <1>8 DEF Store!CommitCancel, Store!CommitComplete
  <2> QED
    BY <1>7, <2>1
<1>9. ~Store!CommitClaim(c) /\ ~Store!CommitClaimNothing(c) /\ ~Store!CommitClaimAnon(c)
  BY <1>0 DEF Carries, Store!CommitClaim, Store!CommitClaimNothing, Store!CommitClaimAnon
<1> QED
  BY <1>2, <1>3, <1>5, <1>6, <1>8, <1>9 DEF Store!Commit

\* An answer other than that to a claim: a run that ends takes the charge with
\* it, unless its cancellation was overtaken by the claim.
LEMMA ServeCauses ==
  ASSUME ServerOK, CInv, NEW c \in Callers, Serve(c)
  PROVE  CInv'
<1>1. call[c].op # "claim" /\ overtaken \subseteq overtaken'
  BY DEF Serve
<1>2. CASE Store!BeginBeatRegister(c)
  <2>1. overtaken' = overtaken
    BY <1>2 DEF Serve, Store!BeginBeatRegister
  <2> QED
    BY <1>2, <2>1, BeginOffers DEF Begins
<1>3. CASE Store!Commit(c)
  <2>0. /\ Carries(call[c]) /\ Offered(call[c]) /\ DOMAIN call = Callers
        /\ runs \in [Runs -> RunRow]
        /\ \A d \in Callers : Offered(call[d]) /\ Carries(call[d])
    BY DEF ServerOK, CInv
  <2>1. /\ \A d \in Callers : d # c => call'[d] = call[d]
        /\ call'[c].op \in {"idle", "beat_register"}
        /\ \A r \in Runs : Moves(runs[r].state, runs'[r].state)
    BY <1>1, <1>3, CommitServes
  <2>2. \A r \in Runs : runs'[r].claimed_by = runs[r].claimed_by
    BY <1>1, <1>3, OwnerKept
  <2>3. /\ workers' \in [Workers -> SingleRow]
        /\ \A w \in Workers :
              /\ workers[w].known => workers'[w].known
              /\ workers'[w].active_leases \in {0, workers[w].active_leases}
              /\ /\ call[c].op \in {"cancel", "complete"} /\ call[c].read.claimed_by = w
                 /\ workers[w].known
                 => workers'[w].active_leases = 0
    BY <1>1, <1>3, ChargeDrops
  <2>4. Offered(call'[c])
    <3>1. CASE call' = [call EXCEPT ![c] = Store!Idle]
      BY <2>0, <3>1 DEF Offered, Store!Idle
    <3>2. CASE Store!CommitBeat(c)
      <4>1. call[c].op = "beat"
        BY <3>2 DEF Store!CommitBeat
      <4>2. call[c].worker \in Workers /\ call[c].read.capacity = 1 /\ call[c].health = "healthy"
        BY <2>0, <4>1 DEF Offered
      <4>3. call'[c] = Store!BeatRegister(call[c].worker, call[c].read.capacity, call[c].health)
        BY <2>0, <3>2, <4>2 DEF Store!CommitBeat, Store!Send
      <4> QED
        BY <4>2, <4>3 DEF Offered, Store!BeatRegister
    <3>3. \/ Store!CommitBeat(c)
          \/ call' = [call EXCEPT ![c] = Store!Idle]
      BY <1>3 DEF Store!Commit, Store!Done, Store!CommitCreate, Store!CommitRegister,
         Store!CommitClaim, Store!CommitClaimNothing, Store!CommitClaimAnon,
         Store!CommitRunBeat, Store!CommitCancel, Store!CommitComplete
    <3> QED
      BY <3>1, <3>2, <3>3
  <2>5. (\A d \in Callers : Offered(call[d]))'
    <3>1. \A d \in Callers : Offered(call'[d])
      BY <2>0, <2>1, <2>4
    <3> QED
      BY <3>1 DEF Offered
  <2>6. Unclaimed'
    <3>1. \A r \in Runs : runs'[r].state \in {"absent", "queued"} =>
                            runs[r].state \in {"absent", "queued"}
      BY <2>1 DEF Moves, Final, Store!Final, Store!Results
    <3> QED
      BY <2>2, <3>1 DEF CInv, Unclaimed
  <2>7. Named'
    <3>1. \A d \in Callers : call[d].op = "complete" => call[d].run \in Runs
      BY <2>0 DEF Carries
    <3> QED
      BY <2>1, <2>2, <3>1 DEF CInv, Named
  <2>8. Caused'
    <3> SUFFICES ASSUME NEW w \in Workers, workers'[w].active_leases # 0
                 PROVE  workers'[w].known /\ Cause(w)'
      BY DEF Caused
    <3>1. workers[w].active_leases # 0 /\ workers[w].known /\ Cause(w)
      BY <2>3 DEF CInv, Caused
    <3>2. PICK r \in Runs : /\ runs[r].claimed_by = w
                            /\ (runs[r].state = "running" \/ r \in overtaken)
      BY <3>1 DEF Cause
    <3>3. ASSUME runs[r].state = "running" PROVE runs'[r].state = "running" \/ r \in overtaken'
      <4>1. runs'[r].state = "running" \/ runs'[r].state \in Final
        BY <2>1, <3>3 DEF Moves
      <4>2. CASE UNCHANGED runs
        BY <3>3, <4>2
      <4>3. ASSUME NEW row, OneRow(c, call[c].run, row)
            PROVE  runs'[r].state = "running" \/ r \in overtaken'
        <5>1. /\ call[c].run \in Runs /\ runs' = [runs EXCEPT ![call[c].run] = row]
          BY <4>3 DEF OneRow
        <5>2. CASE r # call[c].run
          BY <2>0, <3>3, <5>1, <5>2
        <5>3. CASE r = call[c].run
          <6>0. runs'[r] = row
            BY <2>0, <5>1, <5>3
          <6>1. CASE call[c].op = "complete"
            <7>1. call[c].read.claimed_by = w
              BY <3>2, <5>3, <6>1 DEF CInv, Named
            <7> QED
              BY <2>3, <3>1, <6>1, <7>1
          <6>2. CASE call[c].op = "cancel"
            <7>1. call[c].read.claimed_by # w
              BY <2>3, <3>1, <6>2
            <7> QED
              BY <3>2, <5>3, <6>2, <7>1 DEF Serve
          <6>3. CASE call[c].op \notin {"complete", "cancel"}
            <7>1. row.state = "queued" \/ row.state = runs[r].state
              BY <4>3, <5>3, <6>3 DEF OneRow
            <7> QED
              BY <3>3, <4>1, <6>0, <7>1 DEF Final, Store!Final, Store!Results
          <6> QED
            BY <6>1, <6>2, <6>3
        <5> QED
          BY <5>2, <5>3
      <4> QED
        BY <1>1, <1>3, <4>2, <4>3, CommitWrites
    <3> QED
      BY <1>1, <2>2, <2>3, <3>1, <3>2, <3>3 DEF Cause
  <2> QED
    BY <2>3, <2>5, <2>6, <2>7, <2>8 DEF CInv
<1> QED
  BY <1>2, <1>3 DEF Serve

\* A claim charges its worker, for the run that it takes.
LEMMA GrantCauses ==
  ASSUME FleetAssumption, ServerOK, OInv, CInv, NEW w \in Workers, NEW n \in 1..MaxLives,
         GrantLease(w, n)
  PROVE  CInv'
<1> DEFINE c == <<"main", w, n>>
<1>0. /\ c \in Callers /\ Store!CommitClaim(c) /\ overtaken' = overtaken
      /\ runs \in [Runs -> RunRow] /\ workers \in [Workers -> SingleRow]
      /\ DOMAIN call = Callers
      /\ \A d \in Callers : Offered(call[d]) /\ Carries(call[d])
  BY DEF Callers, GrantLease, ServerOK, CInv
<1> HIDE DEF c
<1>1. /\ call[c].op = "claim" /\ call[c].worker \in Workers
      /\ call[c].read.active_leases + 1 = 1
  BY <1>0 DEF Store!CommitClaim, Carries, Offered
<1> DEFINE v == call[c].worker
<1>2. PICK r \in Runs :
        /\ runs[r].state = "queued"
        /\ runs' = [runs EXCEPT ![r] =
             [@ EXCEPT !.state = "running", !.status = "running", !.claimed_by = v]]
        /\ workers' = [workers EXCEPT ![v] =
             [@ EXCEPT !.known = TRUE, !.fresh = TRUE, !.active_leases = 1]]
  BY <1>0, <1>1 DEF Store!CommitClaim, Store!Selected, Store!Eligible
<1>3. call' = [call EXCEPT ![c] = Store!Idle]
  BY <1>0 DEF Store!CommitClaim, Store!Done
<1>4. /\ v \in Workers /\ v # NoWorker /\ NoWorker \notin Workers
  BY <1>1 DEF FleetAssumption
<1> HIDE DEF v
<1>5. /\ runs'[r].state = "running" /\ runs'[r].claimed_by = v
      /\ \A s \in Runs \ {r} : runs'[s] = runs[s]
  BY <1>0, <1>2 DEF RunRow, Store!RunRow
<1>6. /\ workers' \in [Workers -> SingleRow] /\ workers'[v].known
      /\ \A u \in Workers \ {v} : workers'[u] = workers[u]
  <2> DEFINE row == [workers[v] EXCEPT !.known = TRUE, !.fresh = TRUE, !.active_leases = 1]
  <2>1. workers' = [workers EXCEPT ![v] = row]
    BY <1>2
  <2>2. row \in SingleRow /\ row.known
    <3>1. workers[v] \in SingleRow
      BY <1>0, <1>4
    <3>2. ASSUME NEW old \in SingleRow
          PROVE  /\ [old EXCEPT !.known = TRUE, !.fresh = TRUE, !.active_leases = 1] \in SingleRow
                 /\ [old EXCEPT !.known = TRUE, !.fresh = TRUE, !.active_leases = 1].known
      BY DEF SingleRow
    <3> QED
      BY <3>1, <3>2
  <2> HIDE DEF row
  <2> QED
    BY <1>0, <1>4, <2>1, <2>2
<1>7. (\A d \in Callers : Offered(call[d]))'
  <2>1. Offered(Store!Idle)
    BY DEF Offered, Store!Idle
  <2>2. \A d \in Callers : Offered(call'[d])
    BY <1>0, <1>3, <2>1
  <2> QED
    BY <2>2 DEF Offered
<1>8. Unclaimed'
  BY <1>5 DEF CInv, Unclaimed
<1>9. Named'
  <2> SUFFICES ASSUME NEW d \in Callers, call'[d].op = "complete"
               PROVE  call'[d].read.claimed_by = runs'[call'[d].run].claimed_by
    BY DEF Named
  <2>1. d # c /\ call'[d] = call[d]
    BY <1>0, <1>3 DEF Store!Idle
  <2>2. call[d].run \in Runs
    BY <1>0, <2>1 DEF Carries
  <2>3. runs[call[d].run].state # "queued"
    BY <2>1, <2>2 DEF OInv, Apart, Sealed, Told, Asks
  <2> QED
    BY <1>2, <1>5, <2>1, <2>2, <2>3 DEF CInv, Named
<1>10. Caused'
  <2> SUFFICES ASSUME NEW u \in Workers, workers'[u].active_leases # 0
               PROVE  workers'[u].known /\ Cause(u)'
    BY DEF Caused
  <2>1. CASE u = v
    BY <1>5, <1>6, <2>1 DEF Cause
  <2>2. CASE u # v
    <3>1. workers[u].known /\ Cause(u) /\ workers'[u] = workers[u]
      BY <1>6, <2>2 DEF CInv, Caused
    <3>2. PICK s \in Runs : runs[s].claimed_by = u /\ (runs[s].state = "running" \/ s \in overtaken)
      BY <3>1 DEF Cause
    <3>3. s # r
      BY <1>2, <1>4, <3>2 DEF CInv, Unclaimed
    <3> QED
      BY <1>0, <1>5, <3>1, <3>2, <3>3 DEF Cause
  <2> QED
    BY <2>1, <2>2
<1> QED
  BY <1>6, <1>7, <1>8, <1>9, <1>10 DEF CInv

\* A request that is dropped, and a step that touches no row and no request.
LEMMA DropCauses ==
  ASSUME ServerOK, CInv, UNCHANGED <<runs, workers, overtaken>>,
         UNCHANGED call \/ \E c \in Callers : call' = [call EXCEPT ![c] = Store!Idle]
  PROVE  CInv'
<1>1. Offered(Store!Idle) /\ Store!Idle.op # "complete"
  BY DEF Offered, Store!Idle
<1>2. \A c \in Callers : call'[c] = call[c] \/ call'[c] = Store!Idle
  BY DEF ServerOK
<1> QED
  BY <1>1, <1>2, CauseStays

\* What a program, a user or a heartbeat thread does to the server is to begin a
\* request, if anything.
LEMMA ProgramAsks ==
  ASSUME FleetAssumption, IInv, NEW w \in Workers, Start(w) \/ StopServing(w) \/ Program(w)
  PROVE  /\ overtaken' = overtaken
         /\ UNCHANGED server \/ (Main(w) \in Callers /\ Begins(Main(w)))
<1>1. pc[w] # "off" => Main(w) \in Callers
  BY MainCalls DEF IInv
<1>2. CASE RegisterWorker(w) \/ HeartbeatWorker(w) \/ ClaimNextRun(w)
  BY <1>1, <1>2 DEF RegisterWorker, HeartbeatWorker, ClaimNextRun, ReadyToClaim, Begins
<1>3. CASE FirstHeartbeat(w)
  <2>1. lease[w] \in Runs
    BY <1>3 DEF FirstHeartbeat, IInv, Typed
  <2> QED
    BY <1>1, <1>3, <2>1 DEF FirstHeartbeat, Begins
<1>4. CASE CompleteRun(w)
  <2>1. lease[w] \in Runs
    BY <1>4 DEF CompleteRun, IInv, Typed, InPlace, Working
  <2> QED
    BY <1>1, <1>4, <2>1 DEF CompleteRun, Begins
<1>5. CASE Start(w) \/ StopServing(w) \/ ClaimRefused(w) \/ StartPulse(w) \/ ExecutorReturns(w)
           \/ ExecutorRaises(w) \/ Join(w) \/ JoinTimesOut(w) \/ RunOver(w)
  BY <1>5 DEF Start, StopServing, ClaimRefused, StartPulse, ExecutorReturns, ExecutorRaises,
     Join, JoinTimesOut, RunOver
<1> QED
  BY <1>2, <1>3, <1>4, <1>5 DEF Program

\* The same of users and heartbeat threads.
LEMMA OthersAsk ==
  ASSUME FleetAssumption, IInv, NEW r \in Runs,
         Submit(r) \/ CancelRun(r) \/ PulseThread(r) \/ PulseTimesOut(r)
  PROVE  /\ overtaken' = overtaken
         /\ UNCHANGED server \/ \E c \in Callers : Begins(c)
<1>1. Client \in Callers /\ Pulse(r) \in Callers
  BY DEF Callers, Client, Pulse
<1>2. CASE Submit(r) \/ CancelRun(r)
  BY <1>1, <1>2 DEF Submit, CancelRun, fleet, Begins
<1>3. CASE PulseHeartbeat(r) \/ PulseHeartbeatWorker(r)
  BY <1>1, <1>3 DEF PulseHeartbeat, PulseHeartbeatWorker, Begins, FleetAssumption
<1>4. CASE PulseWaits(r) \/ PulseEnds(r) \/ PulseTimesOut(r)
  BY <1>4 DEF PulseWaits, PulseEnds, PulseTimesOut
<1> QED
  BY <1>2, <1>3, <1>4 DEF PulseThread

\* Every step keeps a cause for every charge.
LEMMA CauseKept == FleetAssumption /\ IInv /\ OInv /\ CInv /\ [Next]_vars => CInv'
<1> SUFFICES ASSUME FleetAssumption, IInv, OInv, CInv, [Next]_vars PROVE CInv'
  OBVIOUS
<1>0. ServerOK
  BY DEF IInv
<1>1. CASE \E r \in Runs : Submit(r) \/ CancelRun(r) \/ PulseThread(r) \/ PulseTimesOut(r)
  BY <1>0, <1>1, OthersAsk, BeginOffers, DropCauses DEF server
<1>2. CASE \E w \in Workers : Start(w) \/ StopServing(w) \/ Program(w)
  BY <1>0, <1>2, ProgramAsks, BeginOffers, DropCauses DEF server
<1>3. ASSUME NEW c \in Callers, Answer(c) PROVE CInv'
  <2>1. CASE Serve(c)
    BY <1>0, <2>1, ServeCauses
  <2>2. CASE RequestFails(c)
    BY <1>0, <2>2, DropCauses DEF RequestFails, Store!Fail, Store!Done
  <2>3. ASSUME NEW w \in Workers, NEW n \in 1..MaxLives, c = <<"main", w, n>>,
               GrantLease(w, n) \/ GrantNothing(w, n)
        PROVE  CInv'
    BY <1>0, <2>3, GrantCauses, DropCauses DEF GrantNothing, Store!CommitClaimNothing, Store!Done
  <2> QED
    BY <1>3, <2>1, <2>2, <2>3 DEF Answer
<1>4. ASSUME NEW w \in Workers, RequestTimesOut(w) \/ Killed(w) PROVE CInv'
  BY <1>0, <1>4, DropCauses DEF RequestTimesOut, Killed, server
<1>5. ASSUME NEW w \in Workers, GoStale(w) PROVE CInv'
  <2> DEFINE row == [workers[w] EXCEPT !.fresh = FALSE]
  <2>0. /\ row \in SingleRow /\ row.known = workers[w].known
        /\ row.active_leases = workers[w].active_leases
    BY DEF CInv, SingleRow
  <2>1. /\ workers' = [workers EXCEPT ![w] = row]
        /\ UNCHANGED <<runs, call, overtaken>>
    BY <1>5 DEF GoStale, Store!GoStale
  <2> HIDE DEF row
  <2>2. /\ workers' \in [Workers -> SingleRow]
        /\ \A v \in Workers : /\ workers'[v].known = workers[v].known
                              /\ workers'[v].active_leases = workers[v].active_leases
    BY <2>0, <2>1 DEF CInv
  <2>3. Caused'
    BY <2>1, <2>2 DEF CInv, Caused, Cause
  <2>4. (\A c \in Callers : Offered(call[c]))' /\ Unclaimed' /\ Named'
    BY <2>1 DEF CInv, Offered, Unclaimed, Named
  <2> QED
    BY <2>2, <2>3, <2>4 DEF CInv
<1>6. CASE UNCHANGED vars
  BY <1>0, <1>6, DropCauses DEF vars
<1> QED
  BY <1>1, <1>2, <1>3, <1>4, <1>5, <1>6 DEF Next, Fault

\* No worker is charged at first.
LEMMA CauseInitially == FleetAssumption /\ Init => CInv
<1> SUFFICES ASSUME FleetAssumption, Init PROVE CInv
  OBVIOUS
<1>1. /\ runs = [r \in Runs |-> Store!AbsentRun] /\ call = [c \in Callers |-> Store!Idle]
      /\ workers = [w \in Workers |-> Store!UnknownWorker]
  BY DEF Init, Store!Init
<1>2. /\ Store!AbsentRun.claimed_by = NoWorker /\ Store!Idle.op = "idle"
      /\ Store!UnknownWorker \in SingleRow /\ Store!UnknownWorker.active_leases = 0
  BY DEF Store!AbsentRun, Store!Idle, Store!UnknownWorker, SingleRow
<1>3. \A c \in Callers : Offered(call[c])
  BY <1>1, <1>2 DEF Offered
<1>4. Unclaimed /\ Named /\ Caused
  BY <1>1, <1>2 DEF Unclaimed, Named, Caused
<1> QED
  BY <1>1, <1>2, <1>3, <1>4 DEF CInv

\* No worker is charged for more than the running runs that name it, but for a
\* run whose cancellation was overtaken by its claim: a lease is given back by
\* whichever request ends the run, with any number of late and repeated requests.
THEOREM ChargeHasCauseHolds == Spec => []ChargeHasCause
<1>1. CInv => ChargeHasCause
  <2> SUFFICES ASSUME CInv, NEW w \in Workers
               PROVE  workers[w].active_leases <=
                        Cardinality({r \in Runs :
                          /\ runs[r].claimed_by = w
                          /\ (runs[r].state = "running" \/ r \in overtaken)})
    BY DEF ChargeHasCause
  <2> DEFINE S == {r \in Runs : /\ runs[r].claimed_by = w
                                /\ (runs[r].state = "running" \/ r \in overtaken)}
  <2>1. IsFiniteSet(S) /\ Cardinality(S) \in Nat
    BY FleetAssumption, FS_Subset, FS_CardinalityType DEF FleetAssumption
  <2>2. workers[w].active_leases \in {0, 1}
    BY DEF CInv, SingleRow
  <2>3. workers[w].active_leases = 1 => S # {}
    BY DEF CInv, Caused, Cause
  <2> HIDE DEF S
  <2>4. S # {} => Cardinality(S) # 0
    BY <2>1, FS_EmptySet
  <2>5. workers[w].active_leases <= Cardinality(S)
    BY <2>1, <2>2, <2>3, <2>4
  <2> QED
    BY <2>5 DEF S
<1>2. Init => IInv /\ OInv /\ CInv
  BY Initially, OutcomeInitially, CauseInitially, FleetAssumption
<1>3. IInv /\ OInv /\ CInv /\ [Next]_vars => (IInv /\ OInv /\ CInv)'
  BY Inductive, OutcomeKept, CauseKept, FleetAssumption
<1> QED
  BY <1>1, <1>2, <1>3, PTL DEF Spec

-----------------------------------------------------------------------------
(* The fleet uses the server as RunStore describes it                       *)

\* What a program, its heartbeat thread or the user begins is a request that the
\* server takes.
LEMMA BeginsStore ==
  ASSUME NEW c \in Callers
  PROVE  /\ \A r \in Runs : /\ Store!BeginCreate(c, r, Plain) => Store!Next
                            /\ Store!BeginCancel(c, r) => Store!Next
                            /\ \A w \in Workers \cup {NoWorker} :
                                 Store!BeginRunBeat(c, r, w) => Store!Next
                            /\ \A res \in Store!Results :
                                 Store!BeginComplete(c, r, res) => Store!Next
         /\ \A w \in Workers : /\ Store!BeginRegister(c, w, 1, "healthy") => Store!Next
                               /\ Store!BeginBeat(c, w, "healthy") => Store!Next
                               /\ Store!BeginClaim(c, w, {}, "fifo") => Store!Next
         /\ Store!BeginBeatRegister(c) => Store!Next
<1>1. Store!Begin(c) => Store!Next
  BY DEF Store!Next
<1>2. Plain \in {Plain} /\ 1 \in {1} /\ "healthy" \in {"healthy"} /\ {} \in {{}} /\ "fifo" \in {"fifo"}
  OBVIOUS
<1>3. \A r \in Runs : /\ Store!BeginCreate(c, r, Plain) => Store!Begin(c)
                      /\ Store!BeginCancel(c, r) => Store!Begin(c)
                      /\ \A w \in Workers \cup {NoWorker} :
                           Store!BeginRunBeat(c, r, w) => Store!Begin(c)
                      /\ \A res \in Store!Results :
                           Store!BeginComplete(c, r, res) => Store!Begin(c)
  BY <1>2, Zenon DEF Store!Begin
<1>4. \A w \in Workers : /\ Store!BeginRegister(c, w, 1, "healthy") => Store!Begin(c)
                         /\ Store!BeginBeat(c, w, "healthy") => Store!Begin(c)
                         /\ Store!BeginClaim(c, w, {}, "fifo") => Store!Begin(c)
  BY <1>2, Zenon DEF Store!Begin
<1>5. Store!BeginBeatRegister(c) => Store!Begin(c)
  BY Zenon DEF Store!Begin
<1> QED
  BY <1>1, <1>3, <1>4, <1>5, Zenon

\* The program of a worker id that is not off sends its requests as a caller of its own.
LEMMA ProgramStore ==
  ASSUME FleetAssumption, IInv, NEW w \in Workers, Program(w)
  PROVE  Store!Next \/ UNCHANGED Store!vars
<1>1. CASE UNCHANGED server
  BY <1>1 DEF server, Store!vars
<1>2. pc[w] # "off" => Main(w) \in Callers
  BY MainCalls DEF IInv
<1>3. ASSUME RegisterWorker(w) \/ HeartbeatWorker(w) \/ ClaimNextRun(w) PROVE Store!Next
  <2>1. Main(w) \in Callers
    BY <1>2, <1>3 DEF RegisterWorker, HeartbeatWorker, ClaimNextRun, ReadyToClaim
  <2>2. \/ Store!BeginRegister(Main(w), w, 1, "healthy")
        \/ Store!BeginBeat(Main(w), w, "healthy")
        \/ Store!BeginClaim(Main(w), w, {}, "fifo")
    BY <1>3 DEF RegisterWorker, HeartbeatWorker, ClaimNextRun
  <2> QED
    BY <2>1, <2>2, BeginsStore
<1>4. ASSUME FirstHeartbeat(w) \/ CompleteRun(w), ~UNCHANGED server PROVE Store!Next
  <2>1. Main(w) \in Callers /\ lease[w] \in Runs
    BY <1>2, <1>4 DEF FirstHeartbeat, CompleteRun, IInv, Typed, InPlace, Working
  <2>2. \/ Store!BeginRunBeat(Main(w), lease[w], w)
        \/ \E res \in Store!Results : Store!BeginComplete(Main(w), lease[w], res)
    BY <1>4 DEF FirstHeartbeat, CompleteRun
  <2> QED
    BY <2>1, <2>2, BeginsStore
<1>5. ASSUME \/ ClaimRefused(w) \/ StartPulse(w) \/ ExecutorReturns(w) \/ ExecutorRaises(w)
             \/ Join(w) \/ JoinTimesOut(w) \/ RunOver(w)
      PROVE  UNCHANGED server
  BY <1>5 DEF ClaimRefused, StartPulse, ExecutorReturns, ExecutorRaises, Join, JoinTimesOut,
              RunOver
<1> QED
  BY <1>1, <1>3, <1>4, <1>5 DEF Program

\* So do the user and the heartbeat threads.
LEMMA OthersStore ==
  ASSUME FleetAssumption, IInv, NEW r \in Runs, Submit(r) \/ CancelRun(r) \/ PulseThread(r)
  PROVE  Store!Next \/ UNCHANGED Store!vars
<1>1. Client \in Callers /\ Pulse(r) \in Callers
  BY MainCalls DEF IInv
<1>2. runs[r].claimed_by \in Workers \cup {NoWorker}
  BY DEF IInv, ServerOK, RunRow, Store!RunRow
<1>3. CASE UNCHANGED server
  BY <1>3 DEF server, Store!vars
<1>4. CASE Submit(r) \/ CancelRun(r)
  BY <1>1, <1>4, BeginsStore DEF Submit, CancelRun
<1>5. CASE PulseHeartbeat(r) \/ PulseHeartbeatWorker(r)
  <2>1. \/ UNCHANGED server
        \/ Store!BeginRunBeat(Pulse(r), r, runs[r].claimed_by)
        \/ /\ runs[r].claimed_by \in Workers
           /\ Store!BeginBeat(Pulse(r), runs[r].claimed_by, "healthy")
    BY <1>5 DEF PulseHeartbeat, PulseHeartbeatWorker, FleetAssumption
  <2> QED
    BY <1>1, <1>2, <1>3, <2>1, BeginsStore
<1>6. CASE PulseWaits(r) \/ PulseEnds(r)
  BY <1>3, <1>6 DEF PulseWaits, PulseEnds
<1> QED
  BY <1>4, <1>5, <1>6 DEF PulseThread

\* An answer is a commit of the server, or its failure.
LEMMA AnswerStore ==
  ASSUME NEW c \in Callers, Answer(c)
  PROVE  Store!Next
<1>1. Store!Commit(c) \/ Store!Fail(c) => Store!Next
  BY DEF Store!Next
<1>2. CASE Serve(c)
  BY <1>1, <1>2, BeginsStore DEF Serve
<1>3. ASSUME NEW w \in Workers, NEW n \in 1..MaxLives, c = <<"main", w, n>>,
             GrantLease(w, n) \/ GrantNothing(w, n)
      PROVE  Store!Next
  <2>1. Store!CommitClaim(c) \/ Store!CommitClaimNothing(c)
    BY <1>3 DEF GrantLease, GrantNothing
  <2> QED
    BY <1>1, <2>1 DEF Store!Commit
<1>4. CASE RequestFails(c)
  BY <1>1, <1>4 DEF RequestFails
<1> QED
  BY <1>2, <1>3, <1>4 DEF Answer

\* Every step of the fleet is a step of the server, or leaves it alone.
LEMMA StepStore ==
  ASSUME FleetAssumption, IInv, [Next]_vars
  PROVE  [Store!Next]_(Store!vars)
<1>1. CASE \E r \in Runs : Submit(r) \/ CancelRun(r) \/ PulseThread(r)
  BY <1>1, OthersStore
<1>2. CASE \E w \in Workers : Program(w)
  BY <1>2, ProgramStore
<1>3. CASE \E w \in Workers : Start(w) \/ StopServing(w) \/ RequestTimesOut(w) \/ Killed(w)
  BY <1>3 DEF Start, StopServing, RequestTimesOut, Killed, server, Store!vars
<1>4. CASE \E c \in Callers : Answer(c)
  BY <1>4, AnswerStore
<1>5. CASE \E w \in Workers : GoStale(w)
  BY <1>5 DEF GoStale, Store!Next
<1>6. CASE \E r \in Runs : PulseTimesOut(r)
  BY <1>6 DEF PulseTimesOut, server, Store!vars
<1>7. CASE UNCHANGED vars
  BY <1>7 DEF vars, Store!vars
<1> QED
  BY <1>1, <1>2, <1>3, <1>4, <1>5, <1>6, <1>7 DEF Next, Fault

\* The programs, their heartbeat threads, the user and every fault use the server as
\* RunStore describes it, with requests that overlap, ids that are not reused and
\* claims that name their worker: what is proved of such a server holds in a fleet.
THEOREM FleetImplementsStore == Spec => Store!Spec
<1>1. Init => Store!Init
  BY DEF Init
<1>2. FleetAssumption /\ IInv /\ [Next]_vars => [Store!Next]_(Store!vars)
  BY StepStore
<1> QED
  BY <1>1, <1>2, Initially, Inductive, FleetAssumption, PTL DEF Spec, Store!Spec

=============================================================================
