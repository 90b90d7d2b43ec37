-------------------------- MODULE RunStore_proofs --------------------------
(***************************************************************************)
(* Proofs about the run queue, for any set of runs, workers and concurrent  *)
(* callers.                                                                 *)
(***************************************************************************)
EXTENDS RunStore, TLAPS, FiniteSetTheorems

\* What a request in flight carries, by its operation.
LEMMA RequestFields ==
  ASSUME NEW q \in Request
  PROVE  /\ q.op = "create" => q.run \in Runs /\ q.read \in RunRow /\ q.new \in RunRow
         /\ q.op = "register" => /\ q.worker \in Workers /\ q.read \in WorkerRow
                                 /\ q.capacity \in Nat \ {0} /\ q.health \in Health
         /\ q.op = "beat" => /\ q.worker \in Workers /\ q.read \in WorkerRow
                             /\ q.health \in Health \cup {"unreported"}
         /\ q.op = "beat_register" => /\ q.worker \in Workers
                                      /\ q.capacity \in Nat \ {0} /\ q.health \in Health
         /\ q.op = "claim" => q.worker \in Workers /\ q.read \in WorkerRow
         /\ q.op = "claim_anon" => q.run \in Runs /\ q.read \in RunRow
         /\ q.op = "run_beat" => q.run \in Runs /\ q.read \in RunRow
         /\ q.op = "cancel" => q.run \in Runs /\ q.read \in RunRow
         /\ q.op = "complete" => q.run \in Runs /\ q.read \in RunRow /\ q.result \in Results
  BY DEF Request

\* What an UPDATE leaves in the table is a row.
LEMMA WrittenType ==
  ASSUME NEW current \in RunRow, NEW read \in RunRow, NEW new \in RunRow
  PROVE  Written(current, read, new) \in RunRow
  BY DEF Written, Column, RunRow

\* Setting a column to a value of its type leaves a row.
LEMMA RunColumns ==
  ASSUME NEW row \in RunRow, NEW state \in RunState, NEW status \in RunState,
         NEW owner \in Workers \cup {NoWorker}, NEW result \in Results
  PROVE  /\ [row EXCEPT !.status = status] \in RunRow
         /\ [row EXCEPT !.state = state, !.status = status] \in RunRow
         /\ [row EXCEPT !.state = state, !.status = status, !.claimed_by = owner] \in RunRow
         /\ [row EXCEPT !.result = result] \in RunRow
  BY DEF RunRow

\* Setting the columns a registration or a claim sets leaves a worker row.
LEMMA WorkerColumns ==
  ASSUME NEW row \in WorkerRow, NEW cap \in Nat \ {0}, NEW n \in Nat, NEW h \in Health
  PROVE  /\ [row EXCEPT !.fresh = TRUE] \in WorkerRow
         /\ [row EXCEPT !.fresh = FALSE] \in WorkerRow
         /\ [row EXCEPT !.active_leases = n] \in WorkerRow
         /\ [row EXCEPT !.known = TRUE, !.fresh = TRUE, !.active_leases = n] \in WorkerRow
         /\ [row EXCEPT !.known = TRUE, !.capacity = cap, !.health = h] \in WorkerRow
  BY DEF WorkerRow

\* Every request a handler can put in flight is well formed.
LEMMA RequestTypes ==
  /\ Idle \in Request
  /\ \A r \in Runs, read, new \in RunRow : Create(r, read, new) \in Request
  /\ \A w \in Workers, read \in WorkerRow, cap \in Nat \ {0}, h \in Health :
        Register(w, read, cap, h) \in Request
  /\ \A w \in Workers, read \in WorkerRow, h \in Health \cup {"unreported"} :
        Beat(w, read, h) \in Request
  /\ \A w \in Workers, cap \in Nat \ {0}, h \in Health : BeatRegister(w, cap, h) \in Request
  /\ \A w \in Workers, read \in WorkerRow, ls \in LabelSets, p \in Policies :
        Claim(w, read, ls, p) \in Request
  /\ \A r \in Runs, read \in RunRow : ClaimAnon(r, read) \in Request
  /\ \A r \in Runs, read \in RunRow, w \in Workers \cup {NoWorker} :
        RunBeat(r, read, w) \in Request
  /\ \A r \in Runs, read \in RunRow : Cancel(r, read) \in Request
  /\ \A r \in Runs, read \in RunRow, res \in Results : Complete(r, read, res) \in Request
  BY DEF Request, Idle, Create, Register, Beat, BeatRegister, Claim, ClaimAnon, RunBeat,
         Cancel, Complete

-----------------------------------------------------------------------------
(* Type correctness                                                         *)

\* The empty database and idle callers have their types.
LEMMA InitType == Init => TypeOK
  BY RequestTypes DEF Init, TypeOK, RunRow, WorkerRow, AbsentRun, UnknownWorker, RunState,
                      Health

\* A request that begins carries rows of the tables, and changes none.
LEMMA BeginType ==
  ASSUME TypeOK, NEW c \in Callers, Begin(c)
  PROVE  TypeOK'
<1> USE StoreAssumption, RequestTypes DEF TypeOK, Send
<1>1. CASE \E r \in Runs, q \in Requests : BeginCreate(c, r, q)
  BY <1>1 DEF BeginCreate, RunRow, RunState
<1>2. CASE \E source, r \in Runs : BeginReplay(c, source, r)
  BY <1>2 DEF BeginReplay, BeginCreate, RunRow, RunState
<1>3. CASE \E w \in Workers, cap \in Capacities, h \in Reported : BeginRegister(c, w, cap, h)
  BY <1>3 DEF BeginRegister, Health
<1>4. CASE \E w \in Workers, h \in Reported \cup {"unreported"} : BeginBeat(c, w, h)
  BY <1>4 DEF BeginBeat, Health
<1>5. CASE BeginBeatRegister(c)
  BY <1>5, RequestFields DEF BeginBeatRegister
<1>6. CASE \E w \in Workers, ls \in LabelSets, p \in Policies : BeginClaim(c, w, ls, p)
  BY <1>6 DEF BeginClaim
<1>7. CASE \E ls \in LabelSets, p \in Policies : BeginClaimAnon(c, ls, p)
  BY <1>7 DEF BeginClaimAnon, Selected
<1>8. CASE \E r \in Runs, w \in Workers \cup {NoWorker} : BeginRunBeat(c, r, w)
  BY <1>8 DEF BeginRunBeat
<1>9. CASE \E r \in Runs : BeginCancel(c, r)
  BY <1>9 DEF BeginCancel
<1>10. CASE \E r \in Runs, res \in Results : BeginComplete(c, r, res)
  BY <1>10 DEF BeginComplete
<1> QED
  BY <1>1, <1>2, <1>3, <1>4, <1>5, <1>6, <1>7, <1>8, <1>9, <1>10 DEF Begin

\* Releasing a lease leaves worker rows: active_leases never becomes negative.
LEMMA ReleaseType ==
  ASSUME TypeOK, NEW w, Release(w)
  PROVE  workers' \in [Workers -> WorkerRow]
  BY DEF TypeOK, Release, WorkerRow

\* What a request writes when it commits are rows again.
LEMMA CommitType ==
  ASSUME TypeOK, NEW c \in Callers, Commit(c)
  PROVE  TypeOK'
<1> USE RequestTypes DEF TypeOK, Done
<1>0. call[c] \in Request
  OBVIOUS
<1>1. CASE CommitCreate(c)
  <2> DEFINE r == call[c].run
             row == Written(runs[r], call[c].read, call[c].new)
  <2>1. r \in Runs /\ row \in RunRow
    BY <1>0, <1>1, RequestFields, WrittenType DEF CommitCreate
  <2>2. row.status \in RunState /\ runs[r].status \in RunState
    BY <2>1 DEF RunRow
  <2>3. PICK unwritten :
          runs' = [runs EXCEPT ![r] =
                     [row EXCEPT !.status = IF unwritten THEN runs[r].status ELSE @]]
    BY <1>1 DEF CommitCreate
  <2>4. [row EXCEPT !.status = IF unwritten THEN runs[r].status ELSE @] \in RunRow
    BY <2>1, <2>2, Zenon, RunColumns DEF Results
  <2>5. runs' \in [Runs -> RunRow]
    BY <2>1, <2>3, <2>4
  <2>6. grants' \in [Runs -> Nat] /\ call' \in [Callers -> Request] /\ UNCHANGED <<workers, clock>>
    BY <1>1 DEF CommitCreate
  <2> QED
    BY <2>5, <2>6
<1>2. CASE CommitRegister(c)
  <2>1. call[c].worker \in Workers /\ call[c].read \in WorkerRow
        /\ call[c].capacity \in Nat \ {0} /\ call[c].health \in Health
    BY <1>0, <1>2, RequestFields DEF CommitRegister
  <2> DEFINE w == call[c].worker
             cap == Column(workers[w].capacity, call[c].read.capacity, call[c].capacity)
             h == Column(workers[w].health, call[c].read.health, call[c].health)
  <2>2. cap \in Nat \ {0} /\ h \in Health
    BY <2>1 DEF Column, WorkerRow
  <2>3. [workers[w] EXCEPT !.known = TRUE, !.capacity = cap, !.health = h] \in WorkerRow
    BY <2>1, <2>2, WorkerColumns
  <2>4. workers' = [workers EXCEPT ![w] =
                      [@ EXCEPT !.known = TRUE, !.capacity = cap, !.health = h]]
    BY <1>2 DEF CommitRegister
  <2> QED
    BY <1>2, <2>1, <2>3, <2>4 DEF CommitRegister
<1>3. CASE CommitBeat(c)
  <2>1. /\ call[c].worker \in Workers /\ call[c].read.capacity \in Nat \ {0}
        /\ call[c].health \in Health \cup {"unreported"}
    BY <1>0, <1>3, RequestFields DEF CommitBeat, WorkerRow
  <2>2. workers' \in [Workers -> WorkerRow]
    BY <1>3, <2>1 DEF CommitBeat, WorkerRow
  <2> QED
    BY <1>3, <2>1, <2>2 DEF CommitBeat, Send
<1>4. CASE CommitClaim(c)
  <2>1. call[c].worker \in Workers /\ call[c].read.active_leases + 1 \in Nat
    BY <1>0, <1>4, RequestFields DEF CommitClaim, WorkerRow
  <2> DEFINE w == call[c].worker
             n == call[c].read.active_leases + 1
  <2>2. PICK r \in Runs :
          /\ runs' = [runs EXCEPT ![r] =
               [@ EXCEPT !.state = "running", !.status = "running", !.claimed_by = w]]
          /\ workers' = [workers EXCEPT ![w] =
               [@ EXCEPT !.known = TRUE, !.fresh = TRUE, !.active_leases = n]]
          /\ grants' = [grants EXCEPT ![r] = @ + 1]
    BY <1>4 DEF CommitClaim, Selected
  <2>3. [runs[r] EXCEPT !.state = "running", !.status = "running", !.claimed_by = w] \in RunRow
    BY <2>1 DEF RunRow, RunState
  <2>4. [workers[w] EXCEPT !.known = TRUE, !.fresh = TRUE, !.active_leases = n] \in WorkerRow
    BY <2>1 DEF WorkerRow
  <2> QED
    <3>1. runs' \in [Runs -> RunRow]
      BY <2>2, <2>3
    <3>2. workers' \in [Workers -> WorkerRow]
      BY <2>2, <2>4
    <3> QED
      BY <1>4, <2>2, <3>1, <3>2 DEF CommitClaim
<1>5. CASE CommitClaimNothing(c)
  BY <1>5 DEF CommitClaimNothing
<1>6. CASE CommitClaimAnon(c)
  <2>1. call[c].run \in Runs /\ call[c].read \in RunRow
    BY <1>0, <1>6, RequestFields DEF CommitClaimAnon
  <2>2. [call[c].read EXCEPT !.state = "running", !.status = "running",
                             !.claimed_by = NoWorker] \in RunRow
    BY <2>1 DEF RunRow, RunState
  <2> QED
    BY <1>6, <2>1, <2>2, WrittenType DEF CommitClaimAnon
<1>7. CASE CommitRunBeat(c)
  <2>1. call[c].run \in Runs /\ call[c].read \in RunRow
    BY <1>0, <1>7, RequestFields DEF CommitRunBeat
  <2>2. workers' \in [Workers -> WorkerRow]
    BY <1>7 DEF CommitRunBeat, WorkerRow
  <2> QED
    BY <1>7, <2>1, <2>2, WrittenType DEF CommitRunBeat
<1>8. CASE CommitCancel(c)
  <2>1. call[c].run \in Runs /\ call[c].read \in RunRow
    BY <1>0, <1>8, RequestFields DEF CommitCancel
  <2>2. [call[c].read EXCEPT !.state = "canceled", !.status = "canceled"] \in RunRow
    BY <2>1 DEF RunRow, RunState, Final
  <2>3. workers' \in [Workers -> WorkerRow]
    BY <1>8, ReleaseType DEF CommitCancel
  <2> QED
    BY <1>8, <2>1, <2>2, <2>3, WrittenType DEF CommitCancel
<1>9. CASE CommitComplete(c)
  <2>1. call[c].run \in Runs /\ call[c].read \in RunRow /\ call[c].result \in Results
    BY <1>0, <1>9, RequestFields DEF CommitComplete
  <2> DEFINE new == [call[c].read EXCEPT !.state = call[c].result, !.status = call[c].result]
             row == Written(runs[call[c].run], call[c].read, new)
  <2>2. new \in RunRow
    BY <2>1 DEF RunRow, RunState, Final
  <2>3. row \in RunRow
    BY <2>1, <2>2, WrittenType
  <2>4. [row EXCEPT !.result = call[c].result] \in RunRow
    BY <2>1, <2>3 DEF RunRow
  <2>5. workers' \in [Workers -> WorkerRow]
    BY <1>9, ReleaseType DEF CommitComplete
  <2>6. runs' = [runs EXCEPT ![call[c].run] = [row EXCEPT !.result = call[c].result]]
    BY <1>9 DEF CommitComplete
  <2> HIDE DEF row
  <2> QED
    BY <1>9, <2>1, <2>4, <2>5, <2>6 DEF CommitComplete
<1> QED
  BY <1>1, <1>2, <1>3, <1>4, <1>5, <1>6, <1>7, <1>8, <1>9 DEF Commit

\* Every step keeps the types.
LEMMA NextType == TypeOK /\ [Next]_vars => TypeOK'
<1> SUFFICES ASSUME TypeOK, [Next]_vars PROVE TypeOK'
  OBVIOUS
<1>1. CASE \E c \in Callers : Begin(c)
  BY <1>1, BeginType
<1>2. CASE \E c \in Callers : Commit(c)
  BY <1>2, CommitType
<1>3. CASE \E c \in Callers : Fail(c)
  BY <1>3, RequestTypes DEF Fail, Done, TypeOK
<1>4. CASE \E w \in Workers : GoStale(w)
  <2>1. PICK w \in Workers : GoStale(w)
    BY <1>4
  <2>2. [workers[w] EXCEPT !.fresh = FALSE] \in WorkerRow
    BY DEF TypeOK, WorkerRow
  <2>3. workers' \in [Workers -> WorkerRow]
    BY <2>1, <2>2 DEF GoStale, TypeOK
  <2> QED
    BY <2>1, <2>3 DEF GoStale, TypeOK
<1>5. CASE UNCHANGED vars
  BY <1>5 DEF vars, TypeOK
<1> QED
  BY <1>1, <1>2, <1>3, <1>4, <1>5 DEF Next

\* Every row of the two tables, and every request in flight, has its type.
THEOREM TypeCorrect == Spec => []TypeOK
<1>1. Init => TypeOK
  BY InitType
<1>2. TypeOK /\ [Next]_vars => TypeOK'
  BY NextType
<1> QED
  BY <1>1, <1>2, PTL DEF Spec

-----------------------------------------------------------------------------
(* What a request in flight will do is settled when it begins.              *)

\* A submission in flight is for a queued run; without reuse of ids its id was
\* free; a completion in flight found the run without an outcome; a claim names
\* its worker.
Settled(q) ==
  /\ q.op = "create" => /\ q.new.state = "queued" /\ q.new.status = "queued"
                        /\ q.new.result = "none"
                        /\ ReuseIds \/ q.read.state = "absent"
  /\ q.op = "complete" => q.read.state \notin Final
  /\ q.op = "claim_anon" => AnonymousClaims

\* What a request in flight will write is known from what it read.
CallInv == \A c \in Callers : Settled(call[c])

\* Beginning or failing a request and the passing of time touch no run.
LEMMA QuietStep ==
  ASSUME TypeOK, NEW c \in Callers, Begin(c) \/ Fail(c)
  PROVE  /\ UNCHANGED <<runs, workers, grants>>
         /\ \E q : call' = [call EXCEPT ![c] = q]
  BY DEF Begin, Fail, Done, Send, BeginCreate, BeginReplay, BeginRegister, BeginBeat,
         BeginBeatRegister, BeginClaim, BeginClaimAnon, BeginRunBeat, BeginCancel, BeginComplete

\* A commit ends the request it commits, but for the first half of a heartbeat.
LEMMA CommitDone ==
  ASSUME NEW c \in Callers, Commit(c)
  PROVE  \/ call' = [call EXCEPT ![c] = Idle]
         \/ /\ call' = [call EXCEPT ![c] =
                           BeatRegister(call[c].worker, call[c].read.capacity, call[c].health)]
            /\ UNCHANGED <<runs, grants>>
  BY DEF Commit, Done, Send, CommitCreate, CommitRegister, CommitBeat, CommitClaim,
         CommitClaimNothing, CommitClaimAnon, CommitRunBeat, CommitCancel, CommitComplete

\* A request in flight keeps what its handler checked when it began.
LEMMA CallInvInductive == TypeOK /\ CallInv /\ [Next]_vars => CallInv'
<1> SUFFICES ASSUME TypeOK, CallInv, [Next]_vars PROVE CallInv'
  OBVIOUS
<1> USE DEF CallInv, Settled, TypeOK
<1>1. ASSUME NEW c \in Callers, Begin(c) PROVE CallInv'
  <2>1. CASE \E r \in Runs, q \in Requests : BeginCreate(c, r, q)
    BY <2>1 DEF BeginCreate, Send, Create
  <2>2. CASE \E source, r \in Runs : BeginReplay(c, source, r)
    BY <2>2 DEF BeginReplay, BeginCreate, Send, Create
  <2>3. CASE \E ls \in LabelSets, p \in Policies : BeginClaimAnon(c, ls, p)
    BY <2>3 DEF BeginClaimAnon, Send, ClaimAnon
  <2>4. CASE \E r \in Runs, res \in Results : BeginComplete(c, r, res)
    BY <2>4 DEF BeginComplete, Send, Complete
  <2>5. CASE \/ \E w \in Workers, cap \in Capacities, h \in Reported : BeginRegister(c, w, cap, h)
             \/ \E w \in Workers, h \in Reported \cup {"unreported"} : BeginBeat(c, w, h)
             \/ BeginBeatRegister(c)
             \/ \E w \in Workers, ls \in LabelSets, p \in Policies : BeginClaim(c, w, ls, p)
             \/ \E r \in Runs, w \in Workers \cup {NoWorker} : BeginRunBeat(c, r, w)
             \/ \E r \in Runs : BeginCancel(c, r)
    BY <2>5 DEF BeginRegister, BeginBeat, BeginBeatRegister, BeginClaim, BeginRunBeat,
                BeginCancel, Send, Register, Beat, Claim, RunBeat, Cancel
  <2> QED
    BY <1>1, <2>1, <2>2, <2>3, <2>4, <2>5 DEF Begin
<1>2. ASSUME NEW c \in Callers, Commit(c) PROVE CallInv'
  BY <1>2, CommitDone DEF Idle, BeatRegister
<1>3. ASSUME NEW c \in Callers, Fail(c) PROVE CallInv'
  BY <1>3 DEF Fail, Done, Idle
<1>4. ASSUME NEW w \in Workers, GoStale(w) PROVE CallInv'
  BY <1>4 DEF GoStale
<1>5. CASE UNCHANGED vars
  BY <1>5 DEF vars
<1> QED
  BY <1>1, <1>2, <1>3, <1>4, <1>5 DEF Next

\* Types, and what requests in flight carry, hold throughout.
LEMMA CallCorrect == Spec => [](TypeOK /\ CallInv)
<1>1. Init => CallInv
  BY DEF Init, CallInv, Settled, Idle
<1> QED
  BY <1>1, CallInvInductive, TypeCorrect, PTL DEF Spec

-----------------------------------------------------------------------------
(* How a commit changes the state column                                    *)

\* What a commit does to a run: nothing, queue it again, lease it from the queue,
\* or give it an outcome; anonymous claims are left open.
LEMMA CommitState ==
  ASSUME TypeOK, CallInv, NEW c \in Callers, Commit(c), NEW r \in Runs
  PROVE  \/ runs'[r].state = runs[r].state /\ grants'[r] = grants[r]
         \/ runs'[r].state = "queued" /\ grants'[r] = 0
            /\ (ReuseIds \/ runs[r].state = "absent")
         \/ runs[r].state = "queued" /\ runs'[r].state = "running" /\ grants'[r] = grants[r] + 1
         \/ AnonymousClaims
         \/ runs'[r].state \in Final /\ grants'[r] = grants[r]
<1> USE DEF TypeOK, CallInv, Settled
<1>0. call[c] \in Request
  OBVIOUS
<1>1. CASE CommitCreate(c)
  <2>1. /\ call[c].run \in Runs /\ call[c].read \in RunRow
        /\ call[c].new.state = "queued"
        /\ ReuseIds \/ runs[call[c].run].state = "absent"
    BY <1>0, <1>1, RequestFields DEF CommitCreate
  <2> DEFINE row == Written(runs[call[c].run], call[c].read, call[c].new)
  <2>2. row.state \in {"queued", runs[call[c].run].state}
    BY <2>1 DEF Written, Column
  <2>3. \E st : runs' = [runs EXCEPT ![call[c].run] = [row EXCEPT !.status = st]]
    BY <1>1 DEF CommitCreate
  <2>4. grants' = [grants EXCEPT ![call[c].run] = IF row.state = "queued" THEN 0 ELSE @]
    BY <1>1 DEF CommitCreate
  <2>5. runs'[call[c].run].state = row.state
    BY <2>1, <2>3 DEF Written
  <2> HIDE DEF row
  <2> QED
    BY <2>1, <2>2, <2>3, <2>4, <2>5
<1>2. CASE CommitClaim(c)
  BY <1>2 DEF CommitClaim, Selected, Eligible, RunRow
<1>3. CASE CommitClaimAnon(c)
  BY <1>3 DEF CommitClaimAnon
<1>4. CASE CommitRunBeat(c)
  BY <1>0, <1>4, RequestFields DEF CommitRunBeat, Written, Column
<1>5. CASE CommitCancel(c)
  BY <1>0, <1>5, RequestFields DEF CommitCancel, Written, Column, RunRow, Final
<1>6. CASE CommitComplete(c)
  BY <1>0, <1>6, RequestFields DEF CommitComplete, Written, Column, RunRow, Final
<1>7. CASE CommitRegister(c) \/ CommitBeat(c) \/ CommitClaimNothing(c)
  BY <1>7 DEF CommitRegister, CommitBeat, CommitClaimNothing
<1> QED
  BY <1>1, <1>2, <1>3, <1>4, <1>5, <1>6, <1>7 DEF Commit

-----------------------------------------------------------------------------
(* A submission is leased at most once                                      *)

\* Before its claim a submission has no lease, after it one at most.
GrantInv ==
  \A r \in Runs : /\ grants[r] \in {0, 1}
                  /\ runs[r].state \in {"absent", "queued"} => grants[r] = 0

\* Only a claim grants a lease, and only of a queued run.
LEMMA GrantInvInductive ==
  ASSUME ~AnonymousClaims, TypeOK, CallInv, GrantInv, [Next]_vars
  PROVE  GrantInv'
<1>1. ASSUME NEW c \in Callers, Commit(c) PROVE GrantInv'
  <2> SUFFICES ASSUME NEW r \in Runs
               PROVE  /\ grants'[r] \in {0, 1}
                      /\ runs'[r].state \in {"absent", "queued"} => grants'[r] = 0
    BY DEF GrantInv
  <2> QED
    BY <1>1, CommitState DEF GrantInv, Final, Results
<1>2. ASSUME NEW c \in Callers, Begin(c) \/ Fail(c) PROVE GrantInv'
  BY <1>2, QuietStep DEF GrantInv
<1>3. CASE (\E w \in Workers : GoStale(w)) \/ UNCHANGED vars
  BY <1>3 DEF GoStale, vars, GrantInv
<1> QED
  BY <1>1, <1>2, <1>3 DEF Next

\* Claims that name their worker never lease a submission twice, whatever
\* requests overlap them and whether or not run ids are reused.
THEOREM ExclusiveLeaseHolds ==
  ASSUME ~AnonymousClaims
  PROVE  Spec => []ExclusiveLease
<1>1. Init => GrantInv
  BY DEF Init, GrantInv
<1>2. TypeOK /\ CallInv /\ GrantInv /\ [Next]_vars => GrantInv'
  BY GrantInvInductive
<1>3. GrantInv => ExclusiveLease
  BY DEF GrantInv, ExclusiveLease
<1> QED
  BY <1>1, <1>2, <1>3, CallCorrect, PTL DEF Spec

-----------------------------------------------------------------------------
(* A run never goes back                                                    *)

\* A step moves the state of a run forward or not at all.
LEMMA StepAdvances ==
  ASSUME ~AnonymousClaims, ~ReuseIds, TypeOK, CallInv, [Next]_vars, NEW r \in Runs
  PROVE  Rank(runs[r].state) <= Rank(runs'[r].state)
<1>1. CASE \E c \in Callers : Commit(c)
  BY <1>1, CommitState DEF Rank, Final, Results, TypeOK, RunRow, RunState
<1>2. CASE \E c \in Callers : Begin(c) \/ Fail(c)
  BY <1>2, QuietStep DEF Rank
<1>3. CASE (\E w \in Workers : GoStale(w)) \/ UNCHANGED vars
  BY <1>3 DEF GoStale, vars, Rank
<1> QED
  BY <1>1, <1>2, <1>3 DEF Next

\* When claims name their worker and run ids are not reused, no request,
\* however late, moves a run back: a finished run is never set to work again.
THEOREM OnlyAdvanceHolds ==
  ASSUME ~AnonymousClaims, ~ReuseIds
  PROVE  Spec => OnlyAdvance
<1>1. TypeOK /\ CallInv /\ [Next]_vars
        => [\A r \in Runs : Rank(runs[r].state) <= Rank(runs'[r].state)]_vars
  BY StepAdvances
<1> QED
  BY <1>1, CallCorrect, PTL DEF Spec, OnlyAdvance

-----------------------------------------------------------------------------
(* The store is a RunQueue                                                  *)

\* Only rows without a run lack a status, a run without a lease names no worker,
\* and a request in flight has read such a row, or a run that stays in the table.
ClaimInv ==
  /\ \A r \in Runs :
       /\ runs[r].state = "absent" <=> runs[r].status = "absent"
       /\ runs[r].state \in {"absent", "queued"} => runs[r].claimed_by = NoWorker
  /\ \A c \in Callers :
       /\ call[c].op = "create" => /\ call[c].read.status = "absent"
                                   /\ call[c].read.claimed_by = NoWorker
                                   /\ call[c].new.claimed_by = NoWorker
       /\ call[c].op = "run_beat" => call[c].read.status # "absent"
       /\ call[c].op \in {"run_beat", "cancel", "complete"} =>
            runs[call[c].run].state # "absent"

\* The row of run r goes through one step of RunQueue, or one that RunQueue
\* does not see; from here on the run is in the table, with a status.
RowStep(r) ==
  /\ \A s \in Runs \ {r} : runs'[s] = runs[s]
  /\ runs'[r].state # "absent" /\ runs'[r].status # "absent"
  /\ \/ /\ runs[r].state = "queued" /\ runs'[r].state = "running"
        /\ runs'[r].claimed_by \in Workers
     \/ /\ runs'[r].claimed_by = runs[r].claimed_by
        /\ \/ runs'[r].state = runs[r].state
           \/ runs[r].state = "absent" /\ runs'[r].state = "queued"
           \/ runs[r].state # "absent" /\ runs'[r].state \in Final

\* A commit writes the row of one run, as RowStep says, or of none.
LEMMA CommitRow ==
  ASSUME ~AnonymousClaims, ~ReuseIds, TypeOK, CallInv, ClaimInv, NEW c \in Callers, Commit(c)
  PROVE  UNCHANGED runs \/ \E r \in Runs : RowStep(r)
<1> USE DEF TypeOK
<1>0. call[c] \in Request
  OBVIOUS
<1>1. CASE CommitCreate(c)
  <2> DEFINE r == call[c].run
             row == Written(runs[r], call[c].read, call[c].new)
  <2>1. /\ r \in Runs /\ runs[r] \in RunRow /\ call[c].read \in RunRow /\ call[c].new \in RunRow
        /\ runs[r].state = "absent" /\ call[c].read.state = "absent"
        /\ call[c].new.state = "queued" /\ call[c].new.status = "queued"
    BY <1>0, <1>1, RequestFields DEF CommitCreate, CallInv, Settled
  <2>2. /\ call[c].read.status = "absent"
        /\ call[c].read.claimed_by = NoWorker /\ call[c].new.claimed_by = NoWorker
    BY <1>1 DEF CommitCreate, ClaimInv
  <2>3. row \in RunRow /\ row.state = "queued" /\ row.status = "queued"
        /\ row.claimed_by = runs[r].claimed_by
    BY <2>1, <2>2, WrittenType DEF Written, Column
  <2>4. runs' = [runs EXCEPT ![r] = [row EXCEPT !.status = @]]
    BY <1>1, <2>2 DEF CommitCreate
  <2> HIDE DEF row
  <2>5. [row EXCEPT !.status = @] = row
    BY <2>3 DEF RunRow
  <2>6. runs' = [runs EXCEPT ![r] = row]
    BY <2>4, <2>5
  <2> HIDE DEF r
  <2>7. runs'[r] = row /\ \A s \in Runs \ {r} : runs'[s] = runs[s]
    BY <2>1, <2>6
  <2>8. RowStep(r)
    BY <2>1, <2>3, <2>7 DEF RowStep
  <2> QED
    BY <2>1, <2>8
<1>2. CASE CommitClaim(c)
  <2>1. call[c].worker \in Workers
    BY <1>0, <1>2, RequestFields DEF CommitClaim
  <2>2. PICK r \in Runs :
          /\ runs[r].state = "queued"
          /\ runs' = [runs EXCEPT ![r] = [@ EXCEPT !.state = "running", !.status = "running",
                                                   !.claimed_by = call[c].worker]]
    BY <1>2 DEF CommitClaim, Selected, Eligible
  <2>3. RowStep(r)
    BY <2>1, <2>2 DEF RowStep, RunRow
  <2> QED
    BY <2>3
<1>3. CASE CommitClaimAnon(c)
  BY <1>3 DEF CommitClaimAnon, CallInv, Settled
<1>4. CASE CommitRunBeat(c)
  <2>1. call[c].run \in Runs /\ call[c].read.status # "absent" /\ runs[call[c].run].state # "absent"
    BY <1>0, <1>4, RequestFields DEF CommitRunBeat, ClaimInv
  <2>2. RowStep(call[c].run)
    BY <1>4, <2>1 DEF CommitRunBeat, RowStep, Written, Column
  <2> QED
    BY <2>1, <2>2
<1>5. CASE CommitCancel(c)
  <2>1. /\ call[c].run \in Runs /\ call[c].read \in RunRow
        /\ runs[call[c].run].state # "absent"
    BY <1>0, <1>5, RequestFields DEF CommitCancel, ClaimInv
  <2>2. RowStep(call[c].run)
    BY <1>5, <2>1 DEF CommitCancel, RowStep, Written, Column, RunRow, Final
  <2> QED
    BY <2>1, <2>2
<1>6. CASE CommitComplete(c)
  <2>1. /\ call[c].run \in Runs /\ call[c].read \in RunRow /\ call[c].result \in Results
        /\ runs[call[c].run].state # "absent"
    BY <1>0, <1>6, RequestFields DEF CommitComplete, ClaimInv
  <2>2. RowStep(call[c].run)
    BY <1>6, <2>1 DEF CommitComplete, RowStep, Written, Column, RunRow, Final, Results
  <2> QED
    BY <2>1, <2>2
<1>7. CASE CommitRegister(c) \/ CommitBeat(c) \/ CommitClaimNothing(c)
  BY <1>7 DEF CommitRegister, CommitBeat, CommitClaimNothing
<1> QED
  BY <1>1, <1>2, <1>3, <1>4, <1>5, <1>6, <1>7 DEF Commit

\* A request that begins read a row of the table as it is.
LEMMA ClaimBegin ==
  ASSUME ~ReuseIds, TypeOK, CallInv, ClaimInv, NEW c \in Callers, Begin(c)
  PROVE  ClaimInv'
<1> USE DEF TypeOK
<1>1. UNCHANGED runs /\ \E q : call' = [call EXCEPT ![c] = q]
  BY QuietStep
<1>2. /\ call'[c].op = "create" => /\ call'[c].read.status = "absent"
                                   /\ call'[c].read.claimed_by = NoWorker
                                   /\ call'[c].new.claimed_by = NoWorker
      /\ call'[c].op = "run_beat" => call'[c].read.status # "absent"
      /\ call'[c].op \in {"run_beat", "cancel", "complete"} => runs[call'[c].run].state # "absent"
  <2> USE DEF ClaimInv
  <2>1. CASE \E r \in Runs, q \in Requests : BeginCreate(c, r, q)
    BY <2>1 DEF BeginCreate, Send, Create
  <2>2. CASE \E source, r \in Runs : BeginReplay(c, source, r)
    BY <2>2 DEF BeginReplay, BeginCreate, Send, Create
  <2>3. CASE \E r \in Runs, w \in Workers \cup {NoWorker} : BeginRunBeat(c, r, w)
    BY <2>3 DEF BeginRunBeat, Send, RunBeat
  <2>4. CASE \E r \in Runs : BeginCancel(c, r)
    BY <2>4 DEF BeginCancel, Send, Cancel
  <2>5. CASE \E r \in Runs, res \in Results : BeginComplete(c, r, res)
    BY <2>5 DEF BeginComplete, Send, Complete, Final
  <2>6. CASE \/ \E w \in Workers, cap \in Capacities, h \in Reported : BeginRegister(c, w, cap, h)
             \/ \E w \in Workers, h \in Reported \cup {"unreported"} : BeginBeat(c, w, h)
             \/ BeginBeatRegister(c)
             \/ \E w \in Workers, ls \in LabelSets, p \in Policies : BeginClaim(c, w, ls, p)
             \/ \E ls \in LabelSets, p \in Policies : BeginClaimAnon(c, ls, p)
    BY <2>6 DEF BeginRegister, BeginBeat, BeginBeatRegister, BeginClaim, BeginClaimAnon, Send,
                Register, Beat, Claim, ClaimAnon
  <2> QED
    BY <2>1, <2>2, <2>3, <2>4, <2>5, <2>6 DEF Begin
<1>3. \A d \in Callers \ {c} : call'[d] = call[d]
  BY <1>1
<1> QED
  BY <1>1, <1>2, <1>3 DEF ClaimInv

\* A commit leaves rows that say so, and no row leaves the table.
LEMMA ClaimCommit ==
  ASSUME ~AnonymousClaims, ~ReuseIds, TypeOK, CallInv, ClaimInv, NEW c \in Callers, Commit(c)
  PROVE  ClaimInv'
<1> USE DEF TypeOK
<1>1. UNCHANGED runs \/ \E r \in Runs : RowStep(r)
  BY CommitRow
<1>2. \A r \in Runs :
        /\ runs'[r].state = "absent" <=> runs'[r].status = "absent"
        /\ runs'[r].state \in {"absent", "queued"} => runs'[r].claimed_by = NoWorker
        /\ runs[r].state # "absent" => runs'[r].state # "absent"
  BY <1>1 DEF ClaimInv, RowStep, Final, Results
<1>3. /\ call'[c].op \in {"idle", "beat_register"}
      /\ \A d \in Callers \ {c} : call'[d] = call[d]
  BY CommitDone DEF Idle, BeatRegister
<1>4. \A d \in Callers : call[d] \in Request
  OBVIOUS
<1>5. \A d \in Callers : call[d].op \in {"run_beat", "cancel", "complete"} => call[d].run \in Runs
  BY <1>4, RequestFields
<1>6. ASSUME NEW d \in Callers
      PROVE  /\ call'[d].op = "create" => /\ call'[d].read.status = "absent"
                                          /\ call'[d].read.claimed_by = NoWorker
                                          /\ call'[d].new.claimed_by = NoWorker
             /\ call'[d].op = "run_beat" => call'[d].read.status # "absent"
             /\ call'[d].op \in {"run_beat", "cancel", "complete"} =>
                  runs'[call'[d].run].state # "absent"
  <2>1. CASE d = c
    BY <1>3, <2>1
  <2>2. CASE d # c
    BY <1>2, <1>3, <1>5, <2>2 DEF ClaimInv
  <2> QED
    BY <2>1, <2>2
<1> QED
  BY <1>2, <1>6 DEF ClaimInv

\* Every step keeps the invariant.
LEMMA ClaimInductive ==
  ASSUME ~AnonymousClaims, ~ReuseIds, TypeOK, CallInv, ClaimInv, [Next]_vars
  PROVE  ClaimInv'
<1>1. ASSUME NEW c \in Callers, Fail(c) PROVE ClaimInv'
  BY <1>1 DEF Fail, Done, TypeOK, ClaimInv, Idle
<1>2. CASE (\E w \in Workers : GoStale(w)) \/ UNCHANGED vars
  BY <1>2 DEF GoStale, vars, ClaimInv
<1> QED
  BY <1>1, <1>2, ClaimBegin, ClaimCommit DEF Next

\* Steps that write no run are not seen by RunQueue.
LEMMA RunsTell == UNCHANGED runs => UNCHANGED Queue!promise
  BY DEF Queue!promise, Phase, Holder, Outcome

\* A row that is written as RowStep says is a step of RunQueue.
LEMMA RowQueues ==
  ASSUME TypeOK, ClaimInv, NEW r \in Runs, RowStep(r)
  PROVE  [Queue!Next]_(Queue!promise)
<1>1. /\ \A s \in Runs \ {r} : /\ Phase'[s] = Phase[s]
                               /\ Holder'[s] = Holder[s] /\ Outcome'[s] = Outcome[s]
      /\ Phase = [s \in Runs |-> Phase[s]] /\ Phase' = [s \in Runs |-> Phase'[s]]
      /\ Holder = [s \in Runs |-> Holder[s]] /\ Holder' = [s \in Runs |-> Holder'[s]]
      /\ Outcome = [s \in Runs |-> Outcome[s]] /\ Outcome' = [s \in Runs |-> Outcome'[s]]
  BY DEF RowStep, Phase, Holder, Outcome
<1>2. runs[r].state \in RunState
  BY DEF TypeOK, RunRow
<1>3. CASE runs'[r].claimed_by = runs[r].claimed_by /\ runs'[r].state = runs[r].state
  <2>1. Phase'[r] = Phase[r] /\ Holder'[r] = Holder[r] /\ Outcome'[r] = Outcome[r]
    BY <1>3 DEF Phase, Holder, Outcome
  <2>2. Phase' = Phase /\ Holder' = Holder /\ Outcome' = Outcome
    BY <1>1, <2>1
  <2> QED
    BY <2>2 DEF Queue!promise
<1>4. CASE runs[r].state = "queued" /\ runs'[r].state = "running" /\ runs'[r].claimed_by \in Workers
  <2> DEFINE w == runs'[r].claimed_by
  <2>1. /\ Phase[r] = "queued" /\ Phase'[r] = "leased"
        /\ Holder[r] = NoWorker /\ Holder'[r] = w
        /\ Outcome'[r] = Outcome[r]
    BY <1>4 DEF Phase, Holder, Outcome, ClaimInv, Final, Results
  <2>2. /\ Phase' = [Phase EXCEPT ![r] = "leased"]
        /\ Holder' = [Holder EXCEPT ![r] = w]
        /\ Outcome' = Outcome
    BY <1>1, <2>1
  <2>3. Queue!Lease(r, w)
    BY <2>1, <2>2 DEF Queue!Lease
  <2> QED
    BY <1>4, <2>3 DEF Queue!Next
<1>5. CASE /\ runs'[r].claimed_by = runs[r].claimed_by
           /\ runs[r].state = "absent" /\ runs'[r].state = "queued"
  <2>1. /\ Phase[r] = "free" /\ Phase'[r] = "queued"
        /\ Holder'[r] = Holder[r] /\ Outcome'[r] = Outcome[r]
    BY <1>5 DEF Phase, Holder, Outcome, Final, Results
  <2>2. Phase' = [Phase EXCEPT ![r] = "queued"] /\ Holder' = Holder /\ Outcome' = Outcome
    BY <1>1, <2>1
  <2>3. Queue!Submit(r)
    BY <2>1, <2>2 DEF Queue!Submit
  <2> QED
    BY <2>3 DEF Queue!Next
<1>6. CASE /\ runs'[r].claimed_by = runs[r].claimed_by
           /\ runs[r].state # "absent" /\ runs'[r].state \in Final
  <2> DEFINE o == runs'[r].state
  <2>1. /\ Phase[r] # "free" /\ Phase'[r] = "over"
        /\ Holder'[r] = Holder[r] /\ Outcome'[r] = o /\ o \in Queue!Outcomes
    BY <1>6 DEF Phase, Holder, Outcome, Final, Results, Queue!Outcomes
  <2>2. /\ Phase' = [Phase EXCEPT ![r] = "over"] /\ Holder' = Holder
        /\ Outcome' = [Outcome EXCEPT ![r] = o]
    BY <1>1, <2>1
  <2>3. Queue!Settle(r, o)
    BY <2>1, <2>2 DEF Queue!Settle
  <2> QED
    BY <2>1, <2>3 DEF Queue!Next
<1> QED
  BY <1>3, <1>4, <1>5, <1>6 DEF RowStep

\* Every step of the store is a step of RunQueue or one it does not see.
LEMMA StepQueues ==
  ASSUME ~AnonymousClaims, ~ReuseIds, TypeOK, CallInv, ClaimInv, [Next]_vars
  PROVE  [Queue!Next]_(Queue!promise)
<1>1. ASSUME NEW c \in Callers, Commit(c) PROVE [Queue!Next]_(Queue!promise)
  BY <1>1, CommitRow, RowQueues, RunsTell
<1>2. ASSUME NEW c \in Callers, Begin(c) \/ Fail(c) PROVE [Queue!Next]_(Queue!promise)
  BY <1>2, QuietStep, RunsTell
<1>3. CASE (\E w \in Workers : GoStale(w)) \/ UNCHANGED vars
  BY <1>3, RunsTell DEF GoStale, vars
<1> QED
  BY <1>1, <1>2, <1>3 DEF Next

\* When claims name their worker and run ids are not reused, the store implements
\* RunQueue for any runs, workers, callers and overlaps of their requests.
THEOREM KeepsQueueHolds ==
  ASSUME ~AnonymousClaims, ~ReuseIds
  PROVE  Spec => KeepsQueue
<1>1. Init => ClaimInv /\ Queue!Init
  BY DEF Init, ClaimInv, Idle, AbsentRun, Queue!Init, Phase, Holder, Outcome, Final, Results
<1>2. TypeOK /\ CallInv /\ ClaimInv /\ [Next]_vars => ClaimInv'
  BY ClaimInductive
<1>3. TypeOK /\ CallInv /\ ClaimInv /\ [Next]_vars => [Queue!Next]_(Queue!promise)
  BY StepQueues
<1> QED
  BY <1>1, <1>2, <1>3, CallCorrect, PTL DEF Spec, KeepsQueue, Queue!Spec

\* A run that a worker has is never given to another, and its outcome is never
\* taken back: what RunQueue allows, read in the rows of the store.
NeverReassigned ==
  [][\A r \in Runs :
       /\ runs[r].claimed_by # NoWorker => runs'[r].claimed_by = runs[r].claimed_by
       /\ runs[r].state \in Final => runs'[r].state \in Final]_vars

\* A step of RunQueue reassigns no run and takes no outcome back.
LEMMA QueueKeeps ==
  ASSUME TypeOK, TypeOK', [Queue!Next]_(Queue!promise), NEW r \in Runs
  PROVE  /\ runs[r].claimed_by # NoWorker => runs'[r].claimed_by = runs[r].claimed_by
         /\ runs[r].state \in Final => runs'[r].state \in Final
<1>1. /\ Holder[r] # NoWorker => Holder'[r] = Holder[r]
      /\ Outcome[r] # "none" => Outcome'[r] # "none"
  BY DEF Queue!Next, Queue!promise, Queue!Submit, Queue!Lease, Queue!Settle, Queue!Outcomes,
         Holder, Outcome, Phase
<1> QED
  BY <1>1 DEF Holder, Outcome, Final, Results

\* When claims name their worker and run ids are not reused, no overlap of requests
\* gives a leased run to another worker or sets a finished one to work again.
THEOREM NeverReassignedHolds ==
  ASSUME ~AnonymousClaims, ~ReuseIds
  PROVE  Spec => NeverReassigned
<1>1. Init => ClaimInv
  BY DEF Init, ClaimInv, Idle, AbsentRun
<1>2. TypeOK /\ CallInv /\ ClaimInv /\ [Next]_vars => ClaimInv'
  BY ClaimInductive
<1>3. TypeOK /\ TypeOK' /\ CallInv /\ ClaimInv /\ [Next]_vars
        => [\A r \in Runs :
              /\ runs[r].claimed_by # NoWorker => runs'[r].claimed_by = runs[r].claimed_by
              /\ runs[r].state \in Final => runs'[r].state \in Final]_vars
  BY StepQueues, QueueKeeps
<1> QED
  BY <1>1, <1>2, <1>3, CallCorrect, PTL DEF Spec, NeverReassigned

-----------------------------------------------------------------------------
(* An outcome keeps the result reported with it                             *)

\* An outcome is written together with its result, and by completions only.
LEMMA ResultInductive ==
  ASSUME ~ReuseIds, TypeOK, CallInv, ResultMatchesState, [Next]_vars
  PROVE  ResultMatchesState'
<1> USE DEF ResultMatchesState, TypeOK, CallInv, Settled
<1>1. ASSUME NEW c \in Callers, Commit(c) PROVE ResultMatchesState'
  <2>0. call[c] \in Request
    OBVIOUS
  <2>1. CASE CommitCreate(c)
    <3>1. /\ call[c].run \in Runs
          /\ call[c].new.state = "queued"
          /\ call[c].read.state = "absent"
          /\ runs[call[c].run].state = "absent"
      BY <2>0, <2>1, RequestFields DEF CommitCreate
    <3> DEFINE row == Written(runs[call[c].run], call[c].read, call[c].new)
    <3>2. row.state = "queued"
      BY <3>1 DEF Written, Column
    <3>3. \E st : runs' = [runs EXCEPT ![call[c].run] = [row EXCEPT !.status = st]]
      BY <2>1 DEF CommitCreate
    <3>4. runs'[call[c].run].state = "queued"
      BY <3>1, <3>2, <3>3 DEF Written
    <3> HIDE DEF row
    <3> QED
      BY <3>1, <3>3, <3>4 DEF Results
  <2>2. CASE CommitClaim(c)
    BY <2>2 DEF CommitClaim, Selected, Results
  <2>3. CASE CommitClaimAnon(c)
    BY <2>0, <2>3, RequestFields DEF CommitClaimAnon, Written, Column, Results
  <2>4. CASE CommitRunBeat(c)
    BY <2>0, <2>4, RequestFields DEF CommitRunBeat, Written, Column
  <2>5. CASE CommitCancel(c)
    BY <2>0, <2>5, RequestFields DEF CommitCancel, Written, Column, RunRow, Results
  <2>6. CASE CommitComplete(c)
    BY <2>0, <2>6, RequestFields DEF CommitComplete, Written, Column, RunRow, Final
  <2>7. CASE CommitRegister(c) \/ CommitBeat(c) \/ CommitClaimNothing(c)
    BY <2>7 DEF CommitRegister, CommitBeat, CommitClaimNothing
  <2> QED
    BY <1>1, <2>1, <2>2, <2>3, <2>4, <2>5, <2>6, <2>7 DEF Commit
<1>2. ASSUME NEW c \in Callers, Begin(c) \/ Fail(c) PROVE ResultMatchesState'
  BY <1>2, QuietStep
<1>3. CASE (\E w \in Workers : GoStale(w)) \/ UNCHANGED vars
  BY <1>3 DEF GoStale, vars
<1> QED
  BY <1>1, <1>2, <1>3 DEF Next

\* When run ids are not reused, racing completions and cancellations never
\* leave an outcome beside the result of another.
THEOREM ResultMatchesStateHolds ==
  ASSUME ~ReuseIds
  PROVE  Spec => []ResultMatchesState
<1>1. Init => ResultMatchesState
  BY DEF Init, ResultMatchesState, AbsentRun, Results
<1>2. TypeOK /\ CallInv /\ ResultMatchesState /\ [Next]_vars => ResultMatchesState'
  BY ResultInductive
<1> QED
  BY <1>1, <1>2, CallCorrect, PTL DEF Spec

-----------------------------------------------------------------------------
(* The two places a state is stored part for a reason                       *)

\* A row that is what was read becomes what was meant.
LEMMA WrittenAlone ==
  ASSUME NEW read \in RunRow, NEW new \in RunRow
  PROVE  Written(read, read, new) = new
  BY DEF Written, Column, RunRow

\* A commit that finds the row it read leaves its two states alike.
LEMMA CommitAgrees ==
  ASSUME TypeOK, CallInv, NEW c \in Callers, Commit(c), NEW r \in Runs,
         runs[r].status = runs[r].state, runs'[r].status # runs'[r].state
  PROVE  Ends(c) /\ Outdated(c) /\ call[c].run = r
<1> USE DEF TypeOK, CallInv, Settled
<1>0. call[c] \in Request
  OBVIOUS
<1> DEFINE read == call[c].read
<1>1. CASE CommitCreate(c)
  <2>1. call[c].op = "create" /\ Done(c)
    BY <1>1 DEF CommitCreate
  <2>2. /\ call[c].run \in Runs /\ read \in RunRow /\ call[c].new \in RunRow
        /\ call[c].new.state = "queued" /\ call[c].new.status = "queued"
    BY <1>0, <2>1, RequestFields
  <2>3. PICK unwritten \in {FALSE, read.status = "queued" /\ read.request = call[c].new.request} :
          runs' = [runs EXCEPT ![call[c].run] =
                     [Written(runs[call[c].run], read, call[c].new) EXCEPT
                        !.status = IF unwritten THEN runs[call[c].run].status ELSE @]]
    BY <1>1 DEF CommitCreate
  <2>4. call[c].run = r
    BY <2>2, <2>3
  <2>5. ASSUME read = runs[r] PROVE FALSE
    <3>1. Written(runs[r], read, call[c].new) = call[c].new
      BY <2>2, <2>5, WrittenAlone
    <3>2. runs'[r] = [call[c].new EXCEPT !.status = IF unwritten THEN runs[r].status ELSE @]
      BY <2>3, <2>4, <3>1
    <3>3. (IF unwritten THEN runs[r].status ELSE call[c].new.status) = "queued"
      BY <2>2, <2>3, <2>5
    <3> QED
      BY <2>2, <3>2, <3>3 DEF RunRow
  <2> QED
    BY <2>1, <2>4, <2>5 DEF Ends, Outdated, RowOps, Done, Idle
<1>2. CASE CommitClaim(c)
  BY <1>2 DEF CommitClaim, Selected, RunRow
<1>3. CASE CommitClaimAnon(c)
  <2>1. call[c].op = "claim_anon" /\ Done(c)
    BY <1>3 DEF CommitClaimAnon
  <2>2. call[c].run = r /\ read # runs[r]
    BY <1>0, <1>3, RequestFields DEF CommitClaimAnon, Written, Column, RunRow
  <2> QED
    BY <2>1, <2>2 DEF Ends, Outdated, RowOps, Done, Idle
<1>4. CASE CommitRunBeat(c)
  <2>1. call[c].op = "run_beat" /\ Done(c)
    BY <1>4 DEF CommitRunBeat
  <2>2. call[c].run = r /\ read # runs[r]
    BY <1>0, <1>4, RequestFields DEF CommitRunBeat, Written, Column, RunRow
  <2> QED
    BY <2>1, <2>2 DEF Ends, Outdated, RowOps, Done, Idle
<1>5. CASE CommitCancel(c)
  <2>1. call[c].op = "cancel" /\ Done(c)
    BY <1>5 DEF CommitCancel
  <2>2. call[c].run = r /\ read # runs[r]
    BY <1>0, <1>5, RequestFields DEF CommitCancel, Written, Column, RunRow
  <2> QED
    BY <2>1, <2>2 DEF Ends, Outdated, RowOps, Done, Idle
<1>6. CASE CommitComplete(c)
  <2>1. call[c].op = "complete" /\ Done(c)
    BY <1>6 DEF CommitComplete
  <2>2. call[c].run = r /\ read # runs[r]
    BY <1>0, <1>6, RequestFields DEF CommitComplete, Written, Column, RunRow
  <2> QED
    BY <2>1, <2>2 DEF Ends, Outdated, RowOps, Done, Idle
<1>7. CASE CommitRegister(c) \/ CommitBeat(c) \/ CommitClaimNothing(c)
  BY <1>7 DEF CommitRegister, CommitBeat, CommitClaimNothing
<1> QED
  BY <1>1, <1>2, <1>3, <1>4, <1>5, <1>6, <1>7 DEF Commit

\* The state column and the state inside status_json part only where a request
\* writes over a row that changed since it was read, for any overlap of requests,
\* reuse of ids and claims without a worker.
THEOREM StatusHasCauseHolds == Spec => StatusHasCause
<1>1. TypeOK /\ CallInv /\ [Next]_vars =>
        [\A r \in Runs :
           runs[r].status = runs[r].state /\ runs'[r].status # runs'[r].state =>
             \E c \in Callers : Ends(c) /\ Outdated(c) /\ call[c].run = r]_vars
  <2> SUFFICES ASSUME TypeOK, CallInv, [Next]_vars, NEW r \in Runs,
                      runs[r].status = runs[r].state, runs'[r].status # runs'[r].state
               PROVE  \E c \in Callers : Ends(c) /\ Outdated(c) /\ call[c].run = r
    OBVIOUS
  <2>1. CASE \E c \in Callers : Commit(c)
    BY <2>1, CommitAgrees
  <2>2. CASE \E c \in Callers : Begin(c) \/ Fail(c)
    BY <2>2, QuietStep
  <2>3. CASE (\E w \in Workers : GoStale(w)) \/ UNCHANGED vars
    BY <2>3 DEF GoStale, vars
  <2> QED
    BY <2>1, <2>2, <2>3 DEF Next
<1> QED
  BY <1>1, CallCorrect, PTL DEF Spec, StatusHasCause

-----------------------------------------------------------------------------
(* GET /runs/<id> is never ahead of the queue                               *)

\* What a heartbeat will write back, and what a cancellation read, is no further
\* than the run has come.
ReadBehind ==
  \A c \in Callers :
    /\ call[c].op = "run_beat" => Rank(call[c].read.status) <= Rank(runs[call[c].run].state)
    /\ call[c].op = "cancel" => Rank(call[c].read.state) <= Rank(runs[call[c].run].state)

\* States are ordered by numbers.
LEMMA RankType == \A state : Rank(state) \in 0..3
  BY DEF Rank

\* What a request reads when it begins is a row of the table.
LEMMA ReadBehindBegin ==
  ASSUME TypeOK, StatusNotAhead, ReadBehind, NEW c \in Callers, Begin(c)
  PROVE  ReadBehind'
<1> USE RankType DEF TypeOK, StatusNotAhead, ReadBehind
<1>1. UNCHANGED runs /\ \A d \in Callers \ {c} : call'[d] = call[d]
  BY QuietStep
<1>2. /\ call'[c].op = "run_beat" => Rank(call'[c].read.status) <= Rank(runs[call'[c].run].state)
      /\ call'[c].op = "cancel" => Rank(call'[c].read.state) <= Rank(runs[call'[c].run].state)
  <2>1. CASE \E r \in Runs, w \in Workers \cup {NoWorker} : BeginRunBeat(c, r, w)
    BY <2>1 DEF BeginRunBeat, Send, RunBeat
  <2>2. CASE \E r \in Runs : BeginCancel(c, r)
    BY <2>2 DEF BeginCancel, Send, Cancel
  <2>3. CASE \/ \E r \in Runs, q \in Requests : BeginCreate(c, r, q)
             \/ \E source, r \in Runs : BeginReplay(c, source, r)
             \/ \E w \in Workers, cap \in Capacities, h \in Reported : BeginRegister(c, w, cap, h)
             \/ \E w \in Workers, h \in Reported \cup {"unreported"} : BeginBeat(c, w, h)
             \/ BeginBeatRegister(c)
             \/ \E w \in Workers, ls \in LabelSets, p \in Policies : BeginClaim(c, w, ls, p)
             \/ \E ls \in LabelSets, p \in Policies : BeginClaimAnon(c, ls, p)
             \/ \E r \in Runs, res \in Results : BeginComplete(c, r, res)
    BY <2>3 DEF BeginCreate, BeginReplay, BeginRegister, BeginBeat, BeginBeatRegister, BeginClaim,
                BeginClaimAnon, BeginComplete, Send, Create, Register, Beat, Claim, ClaimAnon,
                Complete
  <2> QED
    BY <2>1, <2>2, <2>3 DEF Begin
<1> QED
  BY <1>1, <1>2

\* A commit writes a status no further than the state it leaves.
LEMMA NotAheadCommit ==
  ASSUME ~AnonymousClaims, ~ReuseIds, TypeOK, CallInv, ClaimInv, StatusNotAhead, ReadBehind,
         NEW c \in Callers, Commit(c)
  PROVE  StatusNotAhead'
<1> USE RankType DEF TypeOK, CallInv, Settled, StatusNotAhead
<1>0. call[c] \in Request
  OBVIOUS
<1>1. CASE CommitCreate(c)
  <2> DEFINE r == call[c].run
             row == Written(runs[r], call[c].read, call[c].new)
  <2>1. /\ r \in Runs /\ call[c].read \in RunRow /\ call[c].new \in RunRow
        /\ call[c].read.status = "absent" /\ call[c].new.status = "queued"
        /\ call[c].read.state = "absent" /\ call[c].new.state = "queued"
    BY <1>0, <1>1, RequestFields DEF CommitCreate, ClaimInv
  <2>2. row \in RunRow /\ row.state = "queued" /\ row.status = "queued"
    BY <1>1, <2>1, WrittenType DEF CommitCreate, Written, Column
  <2>3. runs' = [runs EXCEPT ![r] = [row EXCEPT !.status = @]]
    BY <1>1, <2>1 DEF CommitCreate
  <2> HIDE DEF row
  <2> QED
    BY <2>1, <2>2, <2>3 DEF RunRow
<1>2. CASE CommitClaim(c)
  BY <1>2 DEF CommitClaim, Selected, RunRow
<1>3. CASE CommitClaimAnon(c)
  BY <1>3 DEF CommitClaimAnon
<1>4. CASE CommitRunBeat(c)
  <2>1. /\ call[c].run \in Runs /\ call[c].read \in RunRow
        /\ Rank(call[c].read.status) <= Rank(runs[call[c].run].state)
    BY <1>0, <1>4, RequestFields DEF CommitRunBeat, ReadBehind
  <2> QED
    BY <1>4, <2>1 DEF CommitRunBeat, Written, Column
<1>5. CASE CommitCancel(c)
  <2>1. /\ call[c].run \in Runs /\ call[c].read \in RunRow
        /\ Rank(call[c].read.state) <= Rank(runs[call[c].run].state)
    BY <1>0, <1>5, RequestFields DEF CommitCancel, ReadBehind
  <2>2. /\ runs'[call[c].run].state \in {"canceled", runs[call[c].run].state}
        /\ runs'[call[c].run].state # "canceled" => call[c].read.state = "canceled"
        /\ \A r \in Runs \ {call[c].run} : runs'[r] = runs[r]
    BY <1>5, <2>1 DEF CommitCancel, Written, Column, RunRow
  <2>3. Rank(runs'[call[c].run].state) = 3
    BY <2>1, <2>2 DEF Rank
  <2> QED
    BY <2>2, <2>3
<1>6. CASE CommitComplete(c)
  <2>1. /\ call[c].run \in Runs /\ call[c].read \in RunRow /\ call[c].result \in Results
        /\ call[c].read.state \notin Final
    BY <1>0, <1>6, RequestFields DEF CommitComplete
  <2>2. /\ runs'[call[c].run].state = call[c].result
        /\ \A r \in Runs \ {call[c].run} : runs'[r] = runs[r]
    BY <1>6, <2>1 DEF CommitComplete, Written, Column, RunRow, Final
  <2>3. Rank(runs'[call[c].run].state) = 3
    BY <2>1, <2>2 DEF Rank, Results
  <2> QED
    BY <2>2, <2>3
<1>7. CASE CommitRegister(c) \/ CommitBeat(c) \/ CommitClaimNothing(c)
  BY <1>7 DEF CommitRegister, CommitBeat, CommitClaimNothing
<1> QED
  BY <1>1, <1>2, <1>3, <1>4, <1>5, <1>6, <1>7 DEF Commit

\* Runs only advance, so what was read stays behind them.
LEMMA ReadBehindCommit ==
  ASSUME ~AnonymousClaims, ~ReuseIds, TypeOK, CallInv, ReadBehind, NEW c \in Callers, Commit(c)
  PROVE  ReadBehind'
<1>1. \A r \in Runs : Rank(runs[r].state) <= Rank(runs'[r].state)
  BY StepAdvances DEF Next
<1>2. /\ call'[c].op \in {"idle", "beat_register"}
      /\ \A d \in Callers \ {c} : call'[d] = call[d]
  BY CommitDone DEF Idle, BeatRegister, TypeOK
<1>3. \A d \in Callers : call[d].op \in {"run_beat", "cancel"} => call[d].run \in Runs
  BY RequestFields DEF TypeOK
<1> QED
  BY <1>1, <1>2, <1>3, RankType DEF ReadBehind

\* When claims name their worker and run ids are not reused, GET /runs/<id> may lag
\* behind the queue, whatever heartbeats overlap an outcome, and never runs ahead of it.
THEOREM StatusNotAheadHolds ==
  ASSUME ~AnonymousClaims, ~ReuseIds
  PROVE  Spec => []StatusNotAhead
<1>1. Init => ClaimInv /\ StatusNotAhead /\ ReadBehind
  BY RankType DEF Init, ClaimInv, StatusNotAhead, ReadBehind, Idle, AbsentRun
<1>2. TypeOK /\ CallInv /\ ClaimInv /\ StatusNotAhead /\ ReadBehind /\ [Next]_vars
        => (ClaimInv /\ StatusNotAhead /\ ReadBehind)'
  <2> SUFFICES ASSUME TypeOK, CallInv, ClaimInv, StatusNotAhead, ReadBehind, [Next]_vars
               PROVE  (ClaimInv /\ StatusNotAhead /\ ReadBehind)'
    OBVIOUS
  <2>1. ClaimInv'
    BY ClaimInductive
  <2>2. CASE \E c \in Callers : Begin(c)
    BY <2>1, <2>2, QuietStep, ReadBehindBegin DEF StatusNotAhead
  <2>3. CASE \E c \in Callers : Commit(c)
    BY <2>1, <2>3, NotAheadCommit, ReadBehindCommit
  <2>4. CASE \E c \in Callers : Fail(c)
    BY <2>1, <2>4 DEF Fail, Done, TypeOK, StatusNotAhead, ReadBehind, Idle
  <2>5. CASE (\E w \in Workers : GoStale(w)) \/ UNCHANGED vars
    BY <2>1, <2>5 DEF GoStale, vars, StatusNotAhead, ReadBehind
  <2> QED
    BY <2>2, <2>3, <2>4, <2>5 DEF Next
<1> QED
  BY <1>1, <1>2, CallCorrect, PTL DEF Spec

-----------------------------------------------------------------------------
(* A lease is leaked for a reason                                           *)

\* Only workers in the table are charged, and a claim without a worker has read a
\* queued run.
Charged ==
  /\ \A w \in Workers : ~workers[w].known => workers[w].active_leases = 0
  /\ \A c \in Callers : call[c].op = "claim_anon" => call[c].read.state = "queued"

\* What a step does to the leases of a worker, as the rows of the runs tell it.
LEMMA HeldChanges ==
  ASSUME IsFiniteSet(Runs), NEW w \in Workers, NEW r \in Runs,
         \A s \in Runs \ {r} : runs'[s] = runs[s]
  PROVE  /\ Cardinality(Held(w)) \in Nat /\ Cardinality(Held(w)') \in Nat
         /\ (r \in Held(w) <=> r \in Held(w)') => Held(w)' = Held(w)
         /\ r \notin Held(w) /\ r \in Held(w)' => Cardinality(Held(w)') = Cardinality(Held(w)) + 1
         /\ r \in Held(w) /\ r \notin Held(w)' => Cardinality(Held(w)') = Cardinality(Held(w)) - 1
<1>1. IsFiniteSet(Held(w)) /\ IsFiniteSet(Held(w)')
  BY FS_Subset DEF Held
<1>2. /\ (r \in Held(w) <=> r \in Held(w)') => Held(w)' = Held(w)
      /\ r \notin Held(w) /\ r \in Held(w)' => Held(w)' = Held(w) \cup {r}
      /\ r \in Held(w) /\ r \notin Held(w)' => Held(w)' = Held(w) \ {r}
  BY DEF Held
<1> QED
  BY <1>1, <1>2, FS_CardinalityType, FS_AddElement, FS_RemoveElement

\* Who releases a lease takes nothing from the others, and nothing from workers the
\* table lacks.
LEMMA Releases ==
  ASSUME TypeOK, Charged, NEW owner, Release(owner), NEW w \in Workers
  PROVE  /\ workers[w].active_leases \in Nat /\ workers'[w].active_leases \in Nat
         /\ workers'[w].known = workers[w].known
         /\ workers'[w].active_leases <= workers[w].active_leases
         /\ owner = w /\ workers[w].active_leases > 0 =>
              workers'[w].active_leases = workers[w].active_leases - 1
  BY DEF TypeOK, WorkerRow, Charged, Release

\* Neither a lower charge nor more leases held makes a leak, and a lease that is
\* given back with its run makes none.
LEMMA NoLeak ==
  ASSUME NEW a \in Nat, NEW b \in Nat, NEW h \in Nat, NEW k \in Nat,
         \/ b <= a /\ h <= k
         \/ k = h - 1 /\ (a > 0 => b = a - 1) /\ b <= a
         \/ k = h + 1 /\ b <= a + 1
  PROVE  ~((IF b > k THEN b - k ELSE 0) > (IF a > h THEN a - h ELSE 0))
  OBVIOUS

\* A request that ends a run releases the lease, unless the run it read was not the
\* worker's.
LEMMA EndLeaks ==
  ASSUME IsFiniteSet(Runs), TypeOK, Charged, NEW r \in Runs, NEW read \in RunRow,
         \A s \in Runs \ {r} : runs'[s] = runs[s],
         runs'[r].claimed_by = runs[r].claimed_by,
         runs'[r].state \in Final \cup {runs[r].state},
         read.state = "running" => runs'[r].state # "running",
         Release(read.claimed_by), NEW w \in Workers, Leaked(w)' > Leaked(w)
  PROVE  r \in Held(w) /\ (read.state # "running" \/ read.claimed_by # w)
<1> DEFINE a == workers[w].active_leases
           b == workers'[w].active_leases
           h == Cardinality(Held(w))
           k == Cardinality(Held(w)')
<1>1. /\ a \in Nat /\ b \in Nat /\ b <= a
      /\ read.claimed_by = w /\ a > 0 => b = a - 1
  BY Releases
<1>2. h \in Nat /\ k \in Nat
  BY HeldChanges
<1>3. r \in Held(w)' => r \in Held(w)
  BY DEF Held, Final, Results
<1>4. ASSUME r \notin Held(w) PROVE FALSE
  <2>1. Held(w)' = Held(w)
    BY <1>3, <1>4, HeldChanges
  <2>2. b <= a /\ h <= k
    BY <1>1, <1>2, <2>1
  <2> HIDE DEF a, b, h, k
  <2>3. ~((IF b > k THEN b - k ELSE 0) > (IF a > h THEN a - h ELSE 0))
    BY <1>1, <1>2, <2>2, NoLeak
  <2> QED
    BY <2>3 DEF Leaked, a, b, h, k
<1>5. ASSUME r \in Held(w), read.state = "running", read.claimed_by = w PROVE FALSE
  <2>1. k = h - 1
    BY <1>5, HeldChanges DEF Held
  <2> HIDE DEF a, b, h, k
  <2>2. ~((IF b > k THEN b - k ELSE 0) > (IF a > h THEN a - h ELSE 0))
    BY <1>1, <1>2, <1>5, <2>1, NoLeak
  <2> QED
    BY <2>2 DEF Leaked, a, b, h, k
<1> QED
  BY <1>4, <1>5

\* The causes of a leak, for the request of one caller.
LeakCause(c, w) ==
  /\ Ends(c)
  /\ \/ /\ call[c].op = "claim" /\ call[c].worker = w
        /\ call[c].read.active_leases > workers[w].active_leases
     \/ /\ call[c].op = "create" /\ call[c].run \in Held(w)
     \/ /\ Outdated(c) /\ call[c].run \in Held(w)
        /\ \/ call[c].read.state # "running"
           \/ call[c].read.claimed_by # w

\* A commit leaks a lease for one of the causes only.
LEMMA CommitLeaks ==
  ASSUME IsFiniteSet(Runs), TypeOK, CallInv, Charged, NEW c \in Callers, Commit(c),
         NEW w \in Workers, Leaked(w)' > Leaked(w)
  PROVE  LeakCause(c, w)
<1> USE DEF TypeOK
<1> DEFINE a == workers[w].active_leases
           b == workers'[w].active_leases
           h == Cardinality(Held(w))
           k == Cardinality(Held(w)')
<1>0. call[c] \in Request /\ a \in Nat
  BY DEF WorkerRow
<1>1. ASSUME NEW r \in Runs, \A s \in Runs \ {r} : runs'[s] = runs[s],
             UNCHANGED workers, r \in Held(w) => r \in Held(w)'
      PROVE  FALSE
  <2>1. h \in Nat /\ k \in Nat /\ h <= k /\ a = b
    BY <1>1, HeldChanges
  <2> HIDE DEF a, b, h, k
  <2>2. ~((IF b > k THEN b - k ELSE 0) > (IF a > h THEN a - h ELSE 0))
    BY <1>0, <2>1, NoLeak
  <2> QED
    BY <2>2 DEF Leaked, a, b, h, k
<1>2. CASE CommitCreate(c)
  <2>1. call[c].op = "create" /\ Done(c) /\ UNCHANGED workers
    BY <1>2 DEF CommitCreate
  <2>2. call[c].run \in Runs /\ \A s \in Runs \ {call[c].run} : runs'[s] = runs[s]
    BY <1>0, <1>2, RequestFields DEF CommitCreate
  <2>3. call[c].run \in Held(w)
    BY <1>1, <2>1, <2>2
  <2> QED
    BY <2>1, <2>3 DEF LeakCause, Ends, Done, Idle
<1>3. CASE CommitClaim(c)
  <2>1. call[c].worker \in Workers /\ call[c].read.active_leases \in Nat /\ call[c].op = "claim"
        /\ Done(c)
    BY <1>0, <1>3, RequestFields DEF CommitClaim, WorkerRow
  <2>2. PICK r \in Runs :
          /\ runs[r].state = "queued"
          /\ runs' = [runs EXCEPT ![r] = [@ EXCEPT !.state = "running", !.status = "running",
                                                   !.claimed_by = call[c].worker]]
          /\ workers' = [workers EXCEPT ![call[c].worker] =
               [@ EXCEPT !.known = TRUE, !.fresh = TRUE,
                         !.active_leases = call[c].read.active_leases + 1]]
    BY <1>3 DEF CommitClaim, Selected, Eligible
  <2>3. /\ r \notin Held(w) /\ (r \in Held(w)' <=> call[c].worker = w)
        /\ \A s \in Runs \ {r} : runs'[s] = runs[s]
    BY <2>2 DEF Held, RunRow
  <2>4. call[c].worker = w
    <3> SUFFICES ASSUME call[c].worker # w PROVE FALSE
      OBVIOUS
    <3>1. Held(w)' = Held(w) /\ workers'[w] = workers[w]
      BY <2>2, <2>3, HeldChanges
    <3> QED
      BY <1>0, <2>3, <3>1, HeldChanges DEF Leaked
  <2>5. b = call[c].read.active_leases + 1 /\ k = h + 1 /\ h \in Nat /\ k \in Nat
    BY <2>1, <2>2, <2>3, <2>4, HeldChanges DEF WorkerRow
  <2>6. call[c].read.active_leases > a
    <3> SUFFICES ASSUME ~(call[c].read.active_leases > a) PROVE FALSE
      OBVIOUS
    <3>1. b \in Nat /\ b <= a + 1
      BY <1>0, <2>1, <2>5
    <3> HIDE DEF a, b, h, k
    <3>2. ~((IF b > k THEN b - k ELSE 0) > (IF a > h THEN a - h ELSE 0))
      BY <1>0, <2>5, <3>1, NoLeak
    <3> QED
      BY <3>2 DEF Leaked, a, b, h, k
  <2> QED
    BY <2>1, <2>4, <2>6 DEF LeakCause, Ends, Done, Idle
<1>4. CASE CommitClaimAnon(c)
  <2>1. call[c].op = "claim_anon" /\ Done(c) /\ UNCHANGED workers
        /\ call[c].read.state = "queued"
    BY <1>4 DEF CommitClaimAnon, Charged
  <2>2. call[c].run \in Runs /\ \A s \in Runs \ {call[c].run} : runs'[s] = runs[s]
    BY <1>0, <1>4, RequestFields DEF CommitClaimAnon
  <2>3. call[c].run \in Held(w)
    BY <1>1, <2>1, <2>2
  <2>4. Outdated(c)
    BY <2>1, <2>3 DEF Outdated, RowOps, Held
  <2> QED
    BY <2>1, <2>3, <2>4 DEF LeakCause, Ends, Done, Idle
<1>5. CASE CommitRunBeat(c)
  <2>1. call[c].run \in Runs /\ \A s \in Runs \ {call[c].run} : runs'[s] = runs[s]
    BY <1>0, <1>5, RequestFields DEF CommitRunBeat
  <2>2. /\ runs'[call[c].run].state = runs[call[c].run].state
        /\ runs'[call[c].run].claimed_by = runs[call[c].run].claimed_by
        /\ b = a
    BY <1>5, <2>1 DEF CommitRunBeat, Written, Column, WorkerRow
  <2>3. Held(w)' = Held(w) /\ h \in Nat
    BY <2>1, <2>2, HeldChanges DEF Held
  <2> QED
    BY <1>0, <2>2, <2>3 DEF Leaked
<1>6. CASE CommitCancel(c)
  <2>1. call[c].op = "cancel" /\ Done(c) /\ Release(call[c].read.claimed_by)
    BY <1>6 DEF CommitCancel
  <2>2. call[c].run \in Runs /\ call[c].read \in RunRow
        /\ \A s \in Runs \ {call[c].run} : runs'[s] = runs[s]
    BY <1>0, <1>6, RequestFields DEF CommitCancel
  <2>3. /\ runs'[call[c].run].claimed_by = runs[call[c].run].claimed_by
        /\ runs'[call[c].run].state \in Final \cup {runs[call[c].run].state}
        /\ call[c].read.state = "running" => runs'[call[c].run].state # "running"
    BY <1>6, <2>2 DEF CommitCancel, Written, Column, Final, RunRow
  <2>4. call[c].run \in Held(w) /\ (call[c].read.state # "running" \/ call[c].read.claimed_by # w)
    BY <2>1, <2>2, <2>3, EndLeaks
  <2>5. Outdated(c)
    BY <2>1, <2>4 DEF Outdated, RowOps, Held
  <2> QED
    BY <2>1, <2>4, <2>5 DEF LeakCause, Ends, Done, Idle
<1>7. CASE CommitComplete(c)
  <2>1. call[c].op = "complete" /\ Done(c) /\ Release(call[c].read.claimed_by)
    BY <1>7 DEF CommitComplete
  <2>2. call[c].run \in Runs /\ call[c].read \in RunRow /\ call[c].result \in Results
        /\ \A s \in Runs \ {call[c].run} : runs'[s] = runs[s]
    BY <1>0, <1>7, RequestFields DEF CommitComplete
  <2>3. /\ runs'[call[c].run].claimed_by = runs[call[c].run].claimed_by
        /\ runs'[call[c].run].state \in Final \cup {runs[call[c].run].state}
        /\ call[c].read.state = "running" => runs'[call[c].run].state # "running"
    BY <1>7, <2>2 DEF CommitComplete, Written, Column, Final, Results, RunRow
  <2>4. call[c].run \in Held(w) /\ (call[c].read.state # "running" \/ call[c].read.claimed_by # w)
    BY <2>1, <2>2, <2>3, EndLeaks
  <2>5. Outdated(c)
    BY <2>1, <2>4 DEF Outdated, RowOps, Held
  <2> QED
    BY <2>1, <2>4, <2>5 DEF LeakCause, Ends, Done, Idle
<1>8. CASE CommitRegister(c) \/ CommitBeat(c) \/ CommitClaimNothing(c)
  <2>1. UNCHANGED runs /\ b = a
    BY <1>0, <1>8, RequestFields DEF CommitRegister, CommitBeat, CommitClaimNothing, WorkerRow
  <2>2. h \in Nat
    BY FS_Subset, FS_CardinalityType DEF Held
  <2> QED
    BY <1>0, <2>1, <2>2 DEF Leaked, Held
<1> QED
  BY <1>2, <1>3, <1>4, <1>5, <1>6, <1>7, <1>8 DEF Commit

\* Charges follow the table of workers.
LEMMA ChargedInductive ==
  ASSUME TypeOK, Charged, [Next]_vars
  PROVE  Charged'
<1> USE DEF TypeOK, Charged
<1>1. ASSUME NEW c \in Callers, Begin(c) PROVE Charged'
  <2>1. UNCHANGED workers /\ \A d \in Callers \ {c} : call'[d] = call[d]
    BY <1>1, QuietStep
  <2>2. call'[c].op = "claim_anon" => call'[c].read.state = "queued"
    BY <1>1 DEF Begin, BeginCreate, BeginReplay, BeginRegister, BeginBeat, BeginBeatRegister,
                BeginClaim, BeginClaimAnon, BeginRunBeat, BeginCancel, BeginComplete, Send,
                Create, Register, Beat, Claim, ClaimAnon, RunBeat, Cancel, Complete,
                Selected, Eligible
  <2> QED
    BY <2>1, <2>2
<1>2. ASSUME NEW c \in Callers, Commit(c) PROVE Charged'
  <2>1. /\ call'[c].op \in {"idle", "beat_register"}
        /\ \A d \in Callers \ {c} : call'[d] = call[d]
    BY <1>2, CommitDone DEF Idle, BeatRegister
  <2>2. \A w \in Workers : ~workers'[w].known => workers'[w].active_leases = 0
    <3>1. CASE CommitCancel(c) \/ CommitComplete(c)
      BY <3>1 DEF CommitCancel, CommitComplete, Release, WorkerRow
    <3>2. CASE CommitClaim(c)
      BY <3>2 DEF CommitClaim, WorkerRow
    <3>3. CASE \/ CommitCreate(c) \/ CommitRegister(c) \/ CommitBeat(c) \/ CommitClaimNothing(c)
               \/ CommitClaimAnon(c) \/ CommitRunBeat(c)
      BY <3>3 DEF CommitCreate, CommitRegister, CommitBeat, CommitClaimNothing, CommitClaimAnon,
                  CommitRunBeat, WorkerRow
    <3> QED
      BY <1>2, <3>1, <3>2, <3>3 DEF Commit
  <2> QED
    BY <2>1, <2>2
<1>3. ASSUME NEW c \in Callers, Fail(c) PROVE Charged'
  BY <1>3 DEF Fail, Done, Idle
<1>4. CASE (\E w \in Workers : GoStale(w)) \/ UNCHANGED vars
  BY <1>4 DEF GoStale, vars, WorkerRow
<1> QED
  BY <1>1, <1>2, <1>3, <1>4 DEF Next

\* A worker is charged for more than it holds for the causes LeakHasCause names only,
\* whatever requests overlap, ids are reused and claims leave out their worker.
THEOREM LeakHasCauseHolds ==
  ASSUME IsFiniteSet(Runs)
  PROVE  Spec => LeakHasCause
<1>1. Init => Charged
  BY DEF Init, Charged, UnknownWorker, Idle
<1>2. TypeOK /\ Charged /\ [Next]_vars => Charged'
  BY ChargedInductive
<1>3. TypeOK /\ CallInv /\ Charged /\ [Next]_vars =>
        [\A w \in Workers : Leaked(w)' > Leaked(w) =>
           \E c \in Callers :
             /\ Ends(c)
             /\ \/ /\ call[c].op = "claim" /\ call[c].worker = w
                   /\ call[c].read.active_leases > workers[w].active_leases
                \/ /\ call[c].op = "create" /\ call[c].run \in Held(w)
                \/ /\ Outdated(c) /\ call[c].run \in Held(w)
                   /\ \/ call[c].read.state # "running"
                      \/ call[c].read.claimed_by # w]_vars
  <2> SUFFICES ASSUME TypeOK, CallInv, Charged, [Next]_vars, NEW w \in Workers,
                      Leaked(w)' > Leaked(w)
               PROVE  \E c \in Callers : LeakCause(c, w)
    BY DEF LeakCause
  <2>1. CASE \E c \in Callers : Commit(c)
    BY <2>1, CommitLeaks
  <2>2. ASSUME UNCHANGED runs, workers'[w].active_leases = workers[w].active_leases PROVE FALSE
    <3>1. Cardinality(Held(w)) \in Nat /\ workers[w].active_leases \in Nat
      BY FS_Subset, FS_CardinalityType DEF Held, TypeOK, WorkerRow
    <3> QED
      BY <2>2, <3>1 DEF Leaked, Held
  <2>3. CASE \E c \in Callers : Begin(c) \/ Fail(c)
    BY <2>2, <2>3, QuietStep
  <2>4. CASE (\E v \in Workers : GoStale(v)) \/ UNCHANGED vars
    BY <2>2, <2>4 DEF GoStale, vars, TypeOK, WorkerRow
  <2> QED
    BY <2>1, <2>3, <2>4 DEF Next
<1> QED
  BY <1>1, <1>2, <1>3, CallCorrect, PTL DEF Spec, LeakHasCause
=============================================================================
