-------------------------- MODULE AgentTasks_proofs --------------------------
(***************************************************************************)
(* What holds of AgentTasks for any number of administrators, workers and  *)
(* tasks.                                                                  *)
(***************************************************************************)
EXTENDS AgentTasks, TLAPS

-----------------------------------------------------------------------------
(***************************************************************************)
(* The inductive invariant: the copy a submit will save belongs to a row   *)
(* that exists, and a pending task is in no agent's hands.                 *)
(***************************************************************************)
CopyOK(j) ==
    /\ j.pc = "save" => j.id \in DOMAIN tasks /\ j.row \in Task /\ j.status \in SubmitStatuses
    /\ j.pc # "idle" => j.user \in Users

IInv ==
    /\ TypeOK /\ HandedOnce
    /\ \A w \in Workers : CopyOK(job[w])
    /\ \A i \in DOMAIN tasks : tasks[i].status = "pending" => handed[i] = 0

LEMMA IdleTyped == Idle \in Job
BY DEF Idle, Job, NoTask

LEMMA InitInv == Init => IInv
<1> SUFFICES ASSUME Init PROVE IInv
    OBVIOUS
<1>1. TypeOK
    BY IdleTyped DEF Init, TypeOK, Never
<1>2. \A w \in Workers : CopyOK(job[w])
    BY DEF Init, CopyOK, Idle
<1> QED BY <1>1, <1>2 DEF Init, IInv, HandedOnce

\* What a step that writes no table must show.
LEMMA JobStep ==
    ASSUME IInv, NEW w \in Workers, NEW j \in Job, job' = [job EXCEPT ![w] = j], CopyOK(j),
           UNCHANGED <<tasks, handed, now>>, failures' \in Nat,
           heartbeat' \in [Users -> Nat \cup {Never}]
    PROVE  IInv'
<1>1. job \in [Workers -> Job]
    BY DEF IInv, TypeOK
<1>2. job' \in [Workers -> Job] /\ \A v \in Workers : job'[v] = IF v = w THEN j ELSE job[v]
    BY <1>1
<1>3. TypeOK'
    BY <1>2 DEF IInv, TypeOK
<1>4. \A v \in Workers : CopyOK(job[v])'
    BY <1>2 DEF IInv, CopyOK
<1> QED BY <1>3, <1>4 DEF IInv, HandedOnce

\* What a step that writes rows, and goes on or ends, must show.
LEMMA TableStep ==
    ASSUME IInv, NEW w \in Workers, NEW j \in Job, job' = [job EXCEPT ![w] = j],
           j.pc # "save" /\ (j.pc # "idle" => j.user \in Users),
           UNCHANGED <<heartbeat, now, failures>>,
           tasks' \in Seq(Task), handed' \in Seq(Nat), Len(handed') = Len(tasks'),
           DOMAIN tasks \subseteq DOMAIN tasks',
           \A i \in DOMAIN tasks' : /\ handed'[i] <= 1
                                    /\ tasks'[i].status = "pending" => handed'[i] = 0
    PROVE  IInv'
<1>1. job \in [Workers -> Job]
    BY DEF IInv, TypeOK
<1>2. job' \in [Workers -> Job] /\ \A v \in Workers : job'[v] = IF v = w THEN j ELSE job[v]
    BY <1>1
<1>3. TypeOK'
    BY <1>2 DEF IInv, TypeOK
<1>4. \A v \in Workers : CopyOK(job[v])'
    BY <1>2 DEF IInv, CopyOK
<1>5. DOMAIN handed' = DOMAIN tasks'
    OBVIOUS
<1> QED BY <1>3, <1>4, <1>5 DEF IInv, HandedOnce

LEMMA Facts ==
    ASSUME IInv
    PROVE  /\ tasks \in Seq(Task) /\ DOMAIN tasks = 1..Len(tasks) /\ Len(tasks) \in Nat
           /\ handed \in Seq(Nat) /\ DOMAIN handed = DOMAIN tasks
           /\ \A i \in DOMAIN tasks : tasks[i] \in Task /\ handed[i] \in Nat /\ handed[i] <= 1
           /\ \A i \in DOMAIN tasks : tasks[i].status = "pending" => handed[i] = 0
           /\ \A w \in Workers : job[w] \in Job /\ CopyOK(job[w])
           /\ now \in Nat /\ failures \in Nat /\ heartbeat \in [Users -> Nat \cup {Never}]
<1>1. /\ tasks \in Seq(Task) /\ handed \in Seq(Nat) /\ Len(handed) = Len(tasks)
      /\ now \in Nat /\ failures \in Nat /\ heartbeat \in [Users -> Nat \cup {Never}]
      /\ job \in [Workers -> Job]
    BY DEF IInv, TypeOK
<1>2. DOMAIN tasks = 1..Len(tasks) /\ DOMAIN handed = 1..Len(handed) /\ Len(tasks) \in Nat
    BY <1>1
<1>3. \A i \in DOMAIN tasks : tasks[i] \in Task /\ handed[i] \in Nat
    BY <1>1, <1>2
<1> QED BY <1>1, <1>2, <1>3 DEF IInv, HandedOnce

-----------------------------------------------------------------------------
LEMMA RequestInv ==
    ASSUME IInv, NEW w \in Workers, NEW u \in Users,
           \/ CreateFind(w, u) \/ PollBeat(w, u)
           \/ \E i \in DOMAIN tasks, status \in SubmitStatuses : SubmitFind(w, u, i, status)
    PROVE  IInv'
<1>1. CASE CreateFind(w, u)
    <2> DEFINE j == [Idle EXCEPT !.op = "create", !.pc = "insert", !.user = u, !.t = now]
    <2>1. j \in Job /\ CopyOK(j)
        BY Facts DEF Idle, Job, NoTask, CopyOK
    <2> QED BY <1>1, <2>1, JobStep, Facts DEF CreateFind, Begin
<1>2. CASE PollBeat(w, u)
    <2> DEFINE j == [Idle EXCEPT !.op = "poll", !.pc = "expire", !.user = u]
    <2>1. j \in Job /\ CopyOK(j)
        BY DEF Idle, Job, NoTask, CopyOK
    <2>2. heartbeat' \in [Users -> Nat \cup {Never}]
        BY <1>2, Facts DEF PollBeat
    <2> QED BY <1>2, <2>1, <2>2, JobStep, Facts DEF PollBeat, Begin
<1>3. ASSUME NEW i \in DOMAIN tasks, NEW status \in SubmitStatuses, SubmitFind(w, u, i, status)
      PROVE  IInv'
    <2> DEFINE row == tasks[i]
    <2> DEFINE j == [Idle EXCEPT !.op = "submit", !.pc = "save", !.user = u, !.id = i,
                                 !.row = row, !.status = status]
    <2>1. row \in Task /\ i \in Nat /\ i \in DOMAIN tasks
        BY Facts
    <2>2. job' = [job EXCEPT ![w] = j]
        BY <1>3 DEF SubmitFind, Begin
    <2> HIDE DEF row
    <2>3. j \in Job
        BY <2>1 DEF Idle, Job
    <2>4. CopyOK(j)
        BY <2>1 DEF CopyOK, Idle
    <2> HIDE DEF j
    <2> QED BY <1>3, <2>2, <2>3, <2>4, JobStep, Facts DEF SubmitFind
<1> QED BY <1>1, <1>2, <1>3

LEMMA CreateInsertInv ==
    ASSUME IInv, NEW w \in Workers, CreateInsert(w)
    PROVE  IInv'
<1> DEFINE row == [user |-> job[w].user, status |-> "pending", claimed |-> FALSE,
                   expires |-> job[w].t + TaskTTL]
<1>1. row \in Task
    BY Facts, TaskAssumption DEF CreateInsert, CopyOK, Job, Task, LiveStatuses
<1>2. tasks' = Append(tasks, row) /\ handed' = Append(handed, 0)
    BY DEF CreateInsert
<1> HIDE DEF row
<1>3. /\ tasks' \in Seq(Task) /\ handed' \in Seq(Nat) /\ Len(handed') = Len(tasks')
      /\ DOMAIN tasks' = 1..(Len(tasks) + 1)
      /\ \A i \in DOMAIN tasks' : i \in DOMAIN tasks \/ i = Len(tasks) + 1
      /\ \A i \in DOMAIN tasks : tasks'[i] = tasks[i] /\ handed'[i] = handed[i]
      /\ handed'[Len(tasks) + 1] = 0
    BY <1>1, <1>2, Facts
<1>4. \A i \in DOMAIN tasks' : handed'[i] <= 1 /\ (tasks'[i].status = "pending" => handed'[i] = 0)
    BY <1>3, Facts
<1>5. DOMAIN tasks \subseteq DOMAIN tasks'
    BY <1>3, Facts
<1> QED BY <1>3, <1>4, <1>5, IdleTyped, TableStep DEF CreateInsert, End, Idle

LEMMA PollExpireInv ==
    ASSUME IInv, NEW w \in Workers, PollExpire(w)
    PROVE  IInv'
<1> DEFINE over == Overdue(job[w].user, now)
<1> DEFINE j == [job[w] EXCEPT !.pc = "claim", !.t = now]
<1>1. j \in Job /\ j.pc = "claim" /\ j.user \in Users
    BY Facts DEF Job, PollExpire, CopyOK
<1>2. job' = [job EXCEPT ![w] = j]
    BY Facts DEF PollExpire, IInv, TypeOK
<1>3. /\ DOMAIN tasks' = DOMAIN tasks /\ Len(tasks') = Len(tasks) /\ tasks' \in Seq(Task)
      /\ \A i \in DOMAIN tasks : tasks'[i].status \in {"expired", tasks[i].status}
    <2>1. tasks' = [i \in DOMAIN tasks |->
                      IF i \in over THEN [tasks[i] EXCEPT !.status = "expired"] ELSE tasks[i]]
        BY DEF PollExpire
    <2>2. \A i \in DOMAIN tasks : [tasks[i] EXCEPT !.status = "expired"] \in Task
        BY Facts DEF Task, Decided
    <2> HIDE DEF over
    <2>3. tasks' \in [1..Len(tasks) -> Task]
        BY <2>1, <2>2, Facts
    <2>4. tasks' \in Seq(Task) /\ Len(tasks') = Len(tasks) /\ DOMAIN tasks' = DOMAIN tasks
        BY <2>3, Facts
    <2>5. ASSUME NEW i \in DOMAIN tasks PROVE tasks'[i].status \in {"expired", tasks[i].status}
        BY <2>1, Facts DEF Task
    <2> QED BY <2>4, <2>5
<1>4. \A i \in DOMAIN tasks' : handed'[i] <= 1 /\ (tasks'[i].status = "pending" => handed'[i] = 0)
    BY <1>3, Facts DEF PollExpire
<1> HIDE DEF j
<1> QED BY <1>1, <1>2, <1>3, <1>4, Facts, TableStep DEF PollExpire, IInv, TypeOK

LEMMA PollClaimInv ==
    ASSUME IInv, NEW w \in Workers, PollClaim(w)
    PROVE  IInv'
<1>1. PICK i \in Claimable(job[w].user, job[w].t) :
        /\ tasks' = [tasks EXCEPT ![i].status = "running", ![i].claimed = TRUE]
        /\ handed' = [handed EXCEPT ![i] = @ + 1]
    BY DEF PollClaim
<1>2. i \in DOMAIN tasks /\ tasks[i].status = "pending" /\ handed[i] = 0
    BY Facts DEF Claimable
<1> DEFINE row == [tasks[i] EXCEPT !.status = "running", !.claimed = TRUE]
<1>3. row \in Task /\ row.status = "running"
    BY <1>2, Facts DEF Task, LiveStatuses
<1>4. tasks' = [tasks EXCEPT ![i] = row]
    BY <1>1, <1>2
<1> HIDE DEF row
<1>5. /\ tasks' \in Seq(Task) /\ handed' \in Seq(Nat)
      /\ Len(tasks') = Len(tasks) /\ Len(handed') = Len(tasks') /\ DOMAIN tasks' = DOMAIN tasks
    <2>1. tasks \in Seq(Task) /\ handed \in Seq(Nat) /\ i \in 1..Len(tasks) /\ i \in 1..Len(handed)
        BY <1>2, Facts
    <2>2. handed' = [handed EXCEPT ![i] = 1]
        BY <1>1, <1>2
    <2>3. tasks' \in Seq(Task) /\ Len(tasks') = Len(tasks) /\ DOMAIN tasks' = DOMAIN tasks
        BY <1>3, <1>4, <2>1
    <2>4. handed' \in Seq(Nat) /\ Len(handed') = Len(handed)
        BY <2>1, <2>2
    <2> QED BY <2>3, <2>4 DEF IInv, TypeOK
<1>6. \A k \in DOMAIN tasks' :
        /\ tasks'[k] = IF k = i THEN row ELSE tasks[k]
        /\ handed'[k] = IF k = i THEN 1 ELSE handed[k]
    BY <1>1, <1>2, <1>4, <1>5, Facts
<1>7. \A k \in DOMAIN tasks' : handed'[k] <= 1 /\ (tasks'[k].status = "pending" => handed'[k] = 0)
    BY <1>3, <1>5, <1>6, Facts
<1> QED BY <1>5, <1>7, IdleTyped, TableStep DEF PollClaim, End, Idle

LEMMA SubmitSaveInv ==
    ASSUME IInv, NEW w \in Workers, SubmitSave(w)
    PROVE  IInv'
<1> DEFINE i == job[w].id
<1> DEFINE row == [job[w].row EXCEPT !.status = job[w].status]
<1>1. i \in DOMAIN tasks /\ row \in Task /\ row.status # "pending"
    BY Facts DEF SubmitSave, CopyOK, Task, SubmitStatuses, Decided
<1>2. tasks' = [tasks EXCEPT ![i] = row] /\ handed' = handed
    BY DEF SubmitSave
<1> HIDE DEF row, i
<1>3. /\ tasks' \in Seq(Task) /\ Len(tasks') = Len(tasks) /\ DOMAIN tasks' = DOMAIN tasks
      /\ \A k \in DOMAIN tasks : tasks'[k] = IF k = i THEN row ELSE tasks[k]
    BY <1>1, <1>2, Facts
<1>4. \A k \in DOMAIN tasks' : handed'[k] <= 1 /\ (tasks'[k].status = "pending" => handed'[k] = 0)
    BY <1>1, <1>2, <1>3, Facts
<1>5. handed' \in Seq(Nat) /\ Len(handed') = Len(tasks')
    BY <1>2, <1>3, Facts DEF IInv, TypeOK
<1> QED BY <1>3, <1>4, <1>5, IdleTyped, TableStep DEF SubmitSave, End, Idle

LEMMA NextInv == IInv /\ [Next]_vars => IInv'
<1> SUFFICES ASSUME IInv, [Next]_vars PROVE IInv'
    OBVIOUS
<1>1. CASE UNCHANGED vars
    BY <1>1 DEF vars, IInv, TypeOK, HandedOnce, CopyOK
<1>2. ASSUME NEW w \in Workers, Step(w) PROVE IInv'
    <2>1. CASE PollNothing(w)
        BY <2>1, IdleTyped, JobStep, Facts DEF PollNothing, End, CopyOK, Idle
    <2> QED BY <1>2, <2>1, CreateInsertInv, PollExpireInv, PollClaimInv, SubmitSaveInv DEF Step
<1>3. ASSUME NEW w \in Workers, Fail(w) PROVE IInv'
    <2>1. failures' \in Nat
        BY <1>3, Facts DEF Fail
    <2> QED BY <1>3, <2>1, IdleTyped, JobStep, Facts DEF Fail, End, CopyOK, Idle
<1>4. CASE Tick
    BY <1>4, Facts DEF Tick, IInv, TypeOK, HandedOnce, CopyOK
<1> QED BY <1>1, <1>2, <1>3, <1>4, RequestInv DEF Next

\* Every reachable state satisfies the invariant.
THEOREM Invariance == Spec => []IInv
BY InitInv, NextInv, PTL DEF Spec

\* No task is ever handed to two polls, for any number of administrators,
\* agents, tasks and requests at a time (the locked claim of Poll).
THEOREM TasksHandedOnce == Spec => []HandedOnce
<1>1. IInv => HandedOnce
    BY DEF IInv
<1> QED BY <1>1, Invariance, PTL

\* Every table and copy keeps its type.
THEOREM TasksTyped == Spec => []TypeOK
<1>1. IInv => TypeOK
    BY DEF IInv
<1> QED BY <1>1, Invariance, PTL

-----------------------------------------------------------------------------
(***************************************************************************)
(* How a step changes a row that is already there                          *)
(***************************************************************************)
LEMMA RowStep ==
    ASSUME IInv, [Next]_vars, NEW i \in DOMAIN tasks
    PROVE  /\ i \in DOMAIN tasks'
           /\ tasks'[i].user = tasks[i].user \/ \E w \in Workers : SubmitSave(w)
           /\ \/ tasks'[i] = tasks[i]
              \/ /\ tasks'[i] = [tasks[i] EXCEPT !.status = "expired"]
                 /\ tasks[i].status \in LiveStatuses
              \/ /\ tasks'[i] = [tasks[i] EXCEPT !.status = "running", !.claimed = TRUE]
                 /\ tasks[i].status = "pending"
              \/ \E w \in Workers :
                    /\ SubmitSave(w) /\ i = job[w].id
                    /\ tasks'[i] = [job[w].row EXCEPT !.status = job[w].status]
<1>1. CASE UNCHANGED tasks
    BY <1>1
<1>2. ASSUME NEW w \in Workers, CreateInsert(w) PROVE i \in DOMAIN tasks' /\ tasks'[i] = tasks[i]
    BY <1>2, Facts DEF CreateInsert
<1>3. ASSUME NEW w \in Workers, PollExpire(w)
      PROVE  /\ i \in DOMAIN tasks'
             /\ \/ tasks'[i] = tasks[i]
                \/ /\ tasks'[i] = [tasks[i] EXCEPT !.status = "expired"]
                   /\ tasks[i].status \in LiveStatuses
    BY <1>3 DEF PollExpire, Overdue
<1>4. ASSUME NEW w \in Workers, PollClaim(w)
      PROVE  /\ i \in DOMAIN tasks'
             /\ \/ tasks'[i] = tasks[i]
                \/ /\ tasks'[i] = [tasks[i] EXCEPT !.status = "running", !.claimed = TRUE]
                   /\ tasks[i].status = "pending"
    BY <1>4, Facts DEF PollClaim, Claimable
<1>5. ASSUME NEW w \in Workers, SubmitSave(w)
      PROVE  /\ i \in DOMAIN tasks'
             /\ \/ tasks'[i] = tasks[i]
                \/ i = job[w].id /\ tasks'[i] = [job[w].row EXCEPT !.status = job[w].status]
    BY <1>5, Facts DEF SubmitSave
<1>6. \/ UNCHANGED tasks
      \/ \E w \in Workers : CreateInsert(w) \/ PollExpire(w) \/ PollClaim(w) \/ SubmitSave(w)
    BY DEF Next, vars, CreateFind, PollBeat, SubmitFind, Step, PollNothing, Fail, Tick
<1>7. \A t \in Task : /\ [t EXCEPT !.status = "expired"].user = t.user
                      /\ [t EXCEPT !.status = "running", !.claimed = TRUE].user = t.user
    BY DEF Task
<1> QED BY <1>1, <1>2, <1>3, <1>4, <1>5, <1>6, <1>7, Facts

\* A decided task stays decided and a submitted result stays a result, for
\* any number of polls and submits that overlap or come late.
THEOREM ResultsAreKept == Spec => ResultsStay
<1>1. IInv /\ [Next]_vars =>
        [\A i \in DOMAIN tasks :
            /\ tasks[i].status \in Decided => tasks'[i].status \in Decided
            /\ tasks[i].status \in SubmitStatuses => tasks'[i].status \in SubmitStatuses]_vars
    <2> SUFFICES ASSUME IInv, [Next]_vars, NEW i \in DOMAIN tasks, tasks[i].status \in Decided
                 PROVE  \/ tasks'[i].status = tasks[i].status
                        \/ tasks'[i].status \in SubmitStatuses
        BY DEF Decided, SubmitStatuses
    <2>1. tasks[i].status \notin LiveStatuses
        BY DEF Decided, LiveStatuses
    <2>2. CASE tasks'[i] = tasks[i]
        BY <2>2
    <2>3. ASSUME NEW w \in Workers, SubmitSave(w),
                 tasks'[i] = [job[w].row EXCEPT !.status = job[w].status]
          PROVE  tasks'[i].status \in SubmitStatuses
        BY <2>3, Facts DEF SubmitSave, CopyOK, Task
    <2> QED BY <2>1, <2>2, <2>3, RowStep DEF LiveStatuses
<1> QED BY <1>1, Invariance, PTL DEF Spec, ResultsStay

-----------------------------------------------------------------------------
(***************************************************************************)
(* The refinement.  Two more facts about copies are inductive: no worker   *)
(* uses a clock reading that lies ahead, and a submit saves a copy that    *)
(* has its row's owner and deadline.                                       *)
(***************************************************************************)
SameKey(r, q) == r.user = q.user /\ r.expires = q.expires

BInv ==
    \A w \in Workers :
        /\ job[w].t <= now
        /\ job[w].pc = "save" => SameKey(job[w].row, tasks[job[w].id])

KeysKept == \A i \in DOMAIN tasks : i \in DOMAIN tasks' /\ SameKey(tasks'[i], tasks[i])

\* No step changes the owner or the deadline of a row.
LEMMA KeyStep == IInv /\ BInv /\ [Next]_vars => KeysKept
<1> SUFFICES ASSUME IInv, BInv, [Next]_vars, NEW i \in DOMAIN tasks
             PROVE  i \in DOMAIN tasks' /\ SameKey(tasks'[i], tasks[i])
    BY DEF KeysKept
<1>1. \A t \in Task : /\ SameKey([t EXCEPT !.status = "expired"], t)
                      /\ SameKey([t EXCEPT !.status = "running", !.claimed = TRUE], t)
                      /\ SameKey(t, t)
    BY DEF Task, SameKey
<1>2. tasks[i] \in Task
    BY Facts
<1>3. ASSUME NEW w \in Workers, SubmitSave(w), i = job[w].id,
             tasks'[i] = [job[w].row EXCEPT !.status = job[w].status]
      PROVE  SameKey(tasks'[i], tasks[i])
    <2>1. job[w].row \in Task /\ SameKey(job[w].row, tasks[i])
        BY <1>3, Facts DEF SubmitSave, CopyOK, BInv
    <2>2. \A t \in Task : \A s : [t EXCEPT !.status = s].user = t.user
                                /\ [t EXCEPT !.status = s].expires = t.expires
        BY DEF Task
    <2> QED BY <1>3, <2>1, <2>2 DEF SameKey
<1> QED BY <1>1, <1>2, <1>3, RowStep

LEMMA InitBInv == Init => BInv
BY DEF Init, BInv, Idle

\* What a step must show of the one job it changes.
JobKept(j) ==
    /\ j.t <= now
    /\ j.pc = "save" => j.id \in DOMAIN tasks /\ SameKey(j.row, tasks[j.id])

LEMMA BJobStep ==
    ASSUME IInv, BInv, KeysKept, NEW w \in Workers, NEW j,
           job' = [job EXCEPT ![w] = j], JobKept(j), now' = now
    PROVE  BInv'
<1> USE DEF JobKept
<1>1. \A v \in Workers : job'[v] = IF v = w THEN j ELSE job[v]
    BY Facts DEF IInv, TypeOK
<1>2. ASSUME NEW v \in Workers PROVE job'[v].t <= now'
    BY <1>1 DEF BInv
<1>3. ASSUME NEW v \in Workers, job'[v].pc = "save"
      PROVE  SameKey(job'[v].row, tasks'[job'[v].id])
    <2>1. job'[v].id \in DOMAIN tasks /\ SameKey(job'[v].row, tasks[job'[v].id])
        BY <1>1, <1>3, Facts DEF BInv, CopyOK
    <2> QED BY <2>1 DEF KeysKept, SameKey
<1> QED BY <1>2, <1>3 DEF BInv

LEMMA NextBInv == IInv /\ BInv /\ [Next]_vars => BInv'
<1> SUFFICES ASSUME IInv, BInv, [Next]_vars PROVE BInv'
    OBVIOUS
<1>k. KeysKept
    BY KeyStep
<1>0. now \in Nat /\ Idle \in Job /\ Idle.t = 0 /\ Idle.pc = "idle"
    BY Facts, IdleTyped DEF Idle
<1>1. CASE UNCHANGED vars
    BY <1>1 DEF vars, BInv
<1>2. ASSUME NEW w \in Workers, End(w), UNCHANGED now PROVE BInv'
    <2>1. job' = [job EXCEPT ![w] = Idle]
        BY <1>2 DEF End
    <2>2. JobKept(Idle)
        BY <1>0 DEF JobKept
    <2> QED BY <1>2, <1>k, <2>1, <2>2, BJobStep
<1>3. ASSUME NEW w \in Workers, NEW u \in Users, CreateFind(w, u) PROVE BInv'
    <2> DEFINE j == [Idle EXCEPT !.op = "create", !.pc = "insert", !.user = u, !.t = now]
    <2>1. j \in Job /\ j.t = now /\ j.pc = "insert"
        BY <1>0 DEF Idle, Job, NoTask
    <2>2. job' = [job EXCEPT ![w] = j] /\ now' = now
        BY <1>3 DEF CreateFind, Begin
    <2> HIDE DEF j
    <2>3. JobKept(j)
        BY <1>0, <2>1 DEF JobKept
    <2> QED BY <1>k, <2>2, <2>3, BJobStep
<1>4. ASSUME NEW w \in Workers, NEW u \in Users, PollBeat(w, u) PROVE BInv'
    <2> DEFINE j == [Idle EXCEPT !.op = "poll", !.pc = "expire", !.user = u]
    <2>1. j \in Job /\ j.t = 0 /\ j.pc = "expire"
        BY DEF Idle, Job, NoTask
    <2>2. job' = [job EXCEPT ![w] = j] /\ now' = now
        BY <1>4 DEF PollBeat, Begin
    <2> HIDE DEF j
    <2>3. JobKept(j)
        BY <1>0, <2>1 DEF JobKept
    <2> QED BY <1>k, <2>2, <2>3, BJobStep
<1>5. ASSUME NEW w \in Workers, NEW u \in Users, NEW i \in DOMAIN tasks,
             NEW status \in SubmitStatuses, SubmitFind(w, u, i, status)
      PROVE  BInv'
    <2> DEFINE row == tasks[i]
    <2> DEFINE j == [Idle EXCEPT !.op = "submit", !.pc = "save", !.user = u, !.id = i,
                                 !.row = row, !.status = status]
    <2>1. row \in Task /\ i \in Nat /\ job' = [job EXCEPT ![w] = j] /\ now' = now
        BY <1>5, Facts DEF SubmitFind, Begin
    <2>2. SameKey(row, tasks[i])
        BY DEF SameKey
    <2> HIDE DEF row
    <2>3. j \in Job /\ j.t = 0 /\ j.id = i /\ j.row = row
        BY <2>1 DEF Idle, Job
    <2> HIDE DEF j
    <2>4. JobKept(j)
        BY <1>0, <2>2, <2>3 DEF JobKept
    <2> QED BY <1>k, <2>1, <2>4, BJobStep
<1>6. ASSUME NEW w \in Workers, PollExpire(w) PROVE BInv'
    <2> DEFINE j == [job[w] EXCEPT !.pc = "claim", !.t = now]
    <2>1. j \in Job /\ j.t = now /\ j.pc = "claim"
        BY <1>0, Facts DEF Job
    <2>2. job' = [job EXCEPT ![w] = j] /\ now' = now
        BY <1>6, Facts DEF PollExpire, IInv, TypeOK
    <2> HIDE DEF j
    <2>3. JobKept(j)
        BY <1>0, <2>1 DEF JobKept
    <2> QED BY <1>k, <2>2, <2>3, BJobStep
<1>7. CASE Tick
    <2>1. \A w \in Workers : job[w].t \in Nat
        BY Facts DEF Job
    <2> QED BY <1>0, <1>7, <2>1 DEF Tick, BInv
<1> QED BY <1>1, <1>2, <1>3, <1>4, <1>5, <1>6, <1>7
        DEF Next, Step, CreateInsert, PollClaim, PollNothing, SubmitSave, Fail

-----------------------------------------------------------------------------
\* The board as AgentTasks shows it.
Entries == [i \in DOMAIN tasks |-> BoardEntry(tasks[i])]

LEMMA EntriesFacts ==
    ASSUME IInv
    PROVE  /\ DOMAIN Entries = DOMAIN tasks /\ Len(Entries) = Len(tasks)
           /\ \A i \in DOMAIN tasks :
                /\ Entries[i] = BoardEntry(tasks[i])
                /\ BoardEntry(tasks[i]).owner = tasks[i].user
                /\ BoardEntry(tasks[i]).deadline = tasks[i].expires
                /\ BoardEntry(tasks[i]).state = EntryState(tasks[i].status)
BY Facts DEF Entries, BoardEntry

\* A row whose key stays shows only a change of state.
LEMMA EntryKept ==
    ASSUME NEW r, NEW q, SameKey(r, q)
    PROVE  BoardEntry(r) = [BoardEntry(q) EXCEPT !.state = EntryState(r.status)]
BY DEF BoardEntry, SameKey

LEMMA StateOf ==
    /\ EntryState("pending") = "queued" /\ EntryState("running") = "handed"
    /\ EntryState("expired") = "dropped"
    /\ \A s \in SubmitStatuses : EntryState(s) = "reported"
    /\ \A s \in LiveStatuses : EntryState(s) \in {"queued", "handed"}
    /\ \A s \in LiveStatuses \cup Decided : EntryState(s) = "queued" => s = "pending"
BY DEF EntryState, SubmitStatuses, LiveStatuses, Decided

\* One row changes its state and keeps its key.
LEMMA EntryStep ==
    ASSUME IInv, NEW i \in DOMAIN tasks, NEW row, SameKey(row, tasks[i]),
           tasks' = [tasks EXCEPT ![i] = row]
    PROVE  Entries' = [Entries EXCEPT ![i].state = EntryState(row.status)]
<1>1. BoardEntry(row) = [BoardEntry(tasks[i]) EXCEPT !.state = EntryState(row.status)]
    BY EntryKept
<1>2. DOMAIN tasks' = DOMAIN tasks
      /\ \A k \in DOMAIN tasks : tasks'[k] = IF k = i THEN row ELSE tasks[k]
    BY Facts
<1>3. Entries' = [k \in DOMAIN tasks |-> IF k = i THEN BoardEntry(row) ELSE BoardEntry(tasks[k])]
    BY <1>2 DEF Entries
<1>4. Entries[i] = BoardEntry(tasks[i])
    BY DEF Entries
<1> QED BY <1>1, <1>3, <1>4 DEF Entries

LEMMA InsertIsQueue ==
    ASSUME IInv, BInv, NEW w \in Workers, CreateInsert(w)
    PROVE  Board!Queue
<1> DEFINE row == [user |-> job[w].user, status |-> "pending", claimed |-> FALSE,
                   expires |-> job[w].t + TaskTTL]
<1>1. tasks' = Append(tasks, row) /\ now' = now
    BY DEF CreateInsert
<1>2. BoardEntry(row) \in [owner : Users, state : {"queued"}, deadline : Nat]
    BY Facts, StateOf, TaskAssumption DEF CreateInsert, CopyOK, Job, BoardEntry
<1> HIDE DEF row
<1>3. /\ Len(tasks') = Len(tasks) + 1 /\ DOMAIN tasks' = 1..(Len(tasks) + 1)
      /\ \A i \in DOMAIN tasks : tasks'[i] = tasks[i]
      /\ tasks'[Len(tasks) + 1] = row
    BY <1>1, Facts
<1>4. /\ DOMAIN Entries = 1..Len(tasks) /\ DOMAIN Entries' = 1..(Len(tasks) + 1)
      /\ \A i \in 1..Len(tasks) : Entries'[i] = Entries[i]
      /\ Entries'[Len(tasks) + 1] = BoardEntry(row)
    BY <1>3, Facts DEF Entries
<1>5. Entries' = Append(Entries, BoardEntry(row))
    <2>1. Entries = [i \in 1..Len(tasks) |-> BoardEntry(tasks[i])]
        BY Facts DEF Entries
    <2>2. Entries' = [i \in 1..(Len(tasks) + 1) |-> Entries'[i]]
        BY <1>4 DEF Entries
    <2>3. Len(Entries) = Len(tasks)
        BY EntriesFacts
    <2> QED BY <1>4, <2>1, <2>2, <2>3, Facts
<1>6. Len(Entries') = Len(Entries) + 1 /\ Len(Entries') = Len(tasks) + 1
    BY <1>4, EntriesFacts, Facts
<1> QED BY <1>1, <1>2, <1>4, <1>5, <1>6 DEF Board!Queue, Entries

LEMMA ExpireIsDrop ==
    ASSUME IInv, BInv, NEW w \in Workers, PollExpire(w)
    PROVE  \E I \in SUBSET DOMAIN Entries : Board!Drop(I)
<1> DEFINE over == Overdue(job[w].user, now)
<1>1. /\ tasks' = [i \in DOMAIN tasks |->
                     IF i \in over THEN [tasks[i] EXCEPT !.status = "expired"] ELSE tasks[i]]
      /\ now' = now
    BY DEF PollExpire
<1>2. over \in SUBSET DOMAIN Entries
    BY DEF Overdue, Entries
<1>3. ASSUME NEW i \in over
      PROVE  Entries[i].state \in {"queued", "handed"} /\ Entries[i].deadline <= now
    BY <1>3, StateOf, EntriesFacts DEF Overdue
<1>4. ASSUME NEW i \in DOMAIN tasks
      PROVE  Entries'[i] = IF i \in over THEN [Entries[i] EXCEPT !.state = "dropped"] ELSE Entries[i]
    <2>1. Entries'[i] = BoardEntry(tasks'[i]) /\ Entries[i] = BoardEntry(tasks[i])
        BY <1>1 DEF Entries
    <2>2. CASE i \notin over
        BY <1>1, <2>1, <2>2
    <2>3. CASE i \in over
        <3> DEFINE row == [tasks[i] EXCEPT !.status = "expired"]
        <3>1. tasks'[i] = row
            BY <1>1, <2>3
        <3>2. row.status = "expired" /\ SameKey(row, tasks[i])
            BY Facts DEF Task, SameKey
        <3> HIDE DEF row
        <3>3. BoardEntry(row) = [BoardEntry(tasks[i]) EXCEPT !.state = "dropped"]
            BY <3>2, EntryKept, StateOf
        <3> QED BY <2>1, <2>3, <3>1, <3>3
    <2> QED BY <2>2, <2>3
<1>5. DOMAIN tasks' = DOMAIN tasks
    BY <1>1
<1> HIDE DEF over
<1>6. Entries' = [i \in DOMAIN Entries |->
                    IF i \in over THEN [Entries[i] EXCEPT !.state = "dropped"] ELSE Entries[i]]
    BY <1>4, <1>5 DEF Entries
<1>7. Board!Drop(over)
    BY <1>1, <1>3, <1>6 DEF Board!Drop, Entries
<1> QED BY <1>2, <1>7

LEMMA ClaimIsHand ==
    ASSUME IInv, BInv, NEW w \in Workers, PollClaim(w)
    PROVE  \E i \in DOMAIN Entries : Board!Hand(i)
<1> DEFINE u == job[w].user
           t == job[w].t
<1>1. PICK i \in Claimable(u, t) :
        /\ \A k \in Claimable(u, t) : i <= k
        /\ tasks' = [tasks EXCEPT ![i].status = "running", ![i].claimed = TRUE]
    BY DEF PollClaim
<1>2. /\ i \in DOMAIN tasks /\ tasks[i].status = "pending" /\ tasks[i].user = u
      /\ tasks[i] \in Task /\ now' = now
    BY Facts DEF Claimable, PollClaim
<1> DEFINE row == [tasks[i] EXCEPT !.status = "running", !.claimed = TRUE]
<1>3. row.status = "running" /\ SameKey(row, tasks[i])
    BY <1>2 DEF Task, SameKey
<1>4. tasks' = [tasks EXCEPT ![i] = row]
    BY <1>1, <1>2
<1> HIDE DEF row
<1>5. Entries' = [Entries EXCEPT ![i].state = "handed"]
    <2>1. Entries' = [Entries EXCEPT ![i].state = EntryState(row.status)]
        BY <1>2, <1>3, <1>4, EntryStep
    <2>2. EntryState(row.status) = "handed"
        BY <1>3, StateOf
    <2> QED BY <2>1, <2>2
<1>6. ASSUME NEW k \in 1..(i - 1), Entries[k].owner = Entries[i].owner,
             Entries[k].state = "queued"
      PROVE  Entries[k].deadline <= now
    <2>1. k \in DOMAIN tasks /\ k < i /\ k \in Nat
        BY <1>2, Facts
    <2>2. tasks[k] \in Task /\ Entries[k].deadline = tasks[k].expires
          /\ tasks[k].user = u /\ EntryState(tasks[k].status) = "queued"
        BY <1>2, <1>6, <2>1, Facts, EntriesFacts
    <2>3. tasks[k].status = "pending"
        BY <2>2, StateOf DEF Task
    <2>4. ~(tasks[k].expires > t)
        BY <1>1, <1>2, <2>1, <2>2, <2>3, Facts DEF Claimable
    <2>5. t <= now /\ t \in Nat /\ now \in Nat /\ tasks[k].expires \in Nat
        BY <2>2, Facts DEF BInv, Job, Task
    <2> HIDE DEF t
    <2> QED BY <2>2, <2>4, <2>5
<1>7. Entries[i].state = "queued" /\ i \in DOMAIN Entries
    BY <1>2, EntriesFacts, StateOf
<1>8. Board!Hand(i)
    BY <1>2, <1>5, <1>6, <1>7 DEF Board!Hand, Entries
<1> QED BY <1>7, <1>8

LEMMA SaveIsReport ==
    ASSUME IInv, BInv, NEW w \in Workers, SubmitSave(w)
    PROVE  \E i \in DOMAIN Entries : Board!Report(i)
<1> DEFINE i == job[w].id
<1> DEFINE row == [job[w].row EXCEPT !.status = job[w].status]
<1>1. tasks' = [tasks EXCEPT ![i] = row] /\ now' = now
    BY DEF SubmitSave
<1>2. i \in DOMAIN tasks /\ job[w].row \in Task /\ SameKey(job[w].row, tasks[i])
      /\ job[w].status \in SubmitStatuses
    BY Facts DEF SubmitSave, CopyOK, BInv
<1>3. row.status = job[w].status /\ row.user = job[w].row.user /\ row.expires = job[w].row.expires
    BY <1>2 DEF Task
<1> HIDE DEF row, i
<1>4. SameKey(row, tasks[i]) /\ EntryState(row.status) = "reported"
    BY <1>2, <1>3, StateOf DEF SameKey
<1>5. Entries' = [Entries EXCEPT ![i].state = "reported"]
    BY <1>1, <1>2, <1>4, EntryStep
<1>6. i \in DOMAIN Entries
    BY <1>2 DEF Entries
<1>7. Board!Report(i)
    BY <1>1, <1>5 DEF Board!Report, Entries
<1> QED BY <1>6, <1>7

\* Every step is a step of the board, or one the board does not see.
LEMMA StepIsBoardStep == IInv /\ BInv /\ [Next]_vars => [Board!BoardNext]_(Board!boardVars)
<1> SUFFICES ASSUME IInv, BInv, [Next]_vars
             PROVE  Board!BoardNext \/ UNCHANGED <<Entries, now>>
    BY DEF Board!boardVars, Entries
<1>1. \/ UNCHANGED <<tasks, now>>
      \/ Tick
      \/ \E w \in Workers : CreateInsert(w) \/ PollExpire(w) \/ PollClaim(w) \/ SubmitSave(w)
    BY DEF Next, vars, CreateFind, PollBeat, SubmitFind, Step, PollNothing, Fail
<1>2. CASE UNCHANGED <<tasks, now>>
    BY <1>2 DEF Entries
<1>3. CASE Tick
    <2>1. Board!Advance
        BY <1>3 DEF Tick, Board!Advance
    <2> QED BY <2>1 DEF Board!BoardNext
<1>4. ASSUME NEW w \in Workers, CreateInsert(w) PROVE Board!BoardNext
    BY <1>4, InsertIsQueue DEF Board!BoardNext
<1>5. ASSUME NEW w \in Workers, PollExpire(w) PROVE Board!BoardNext
    BY <1>5, ExpireIsDrop DEF Board!BoardNext, Entries
<1>6. ASSUME NEW w \in Workers, PollClaim(w) PROVE Board!BoardNext
    BY <1>6, ClaimIsHand DEF Board!BoardNext, Entries
<1>7. ASSUME NEW w \in Workers, SubmitSave(w) PROVE Board!BoardNext
    BY <1>7, SaveIsReport DEF Board!BoardNext, Entries
<1> QED BY <1>1, <1>2, <1>3, <1>4, <1>5, <1>6, <1>7

\* The rows of agent_tasks behave like the board, whatever requests overlap,
\* fail or come late: a poll hands out the oldest task whose time is not over
\* and none twice, nothing is dropped early or after its result.
THEOREM Refinement == Spec => ImplementsTaskBoard
<1>1. Init => Board!BoardInit
    BY DEF Init, Board!BoardInit
<1> QED BY <1>1, InitBInv, NextBInv, StepIsBoardStep, Invariance, PTL
        DEF Spec, ImplementsTaskBoard, Board!BoardSpec

-----------------------------------------------------------------------------
(***************************************************************************)
(* One live task.  CreateCheckSharedPoolTask looks for a live task and     *)
(* inserts one in two statements: as long as no two creates of one         *)
(* administrator stand between them, what the first found stays true.      *)
(***************************************************************************)
CreatesApart ==
    \A v, w \in Workers :
        job[v].pc = "insert" /\ job[w].pc = "insert" /\ job[v].user = job[w].user => v = w

Over(i) == tasks[i].status \in Decided \/ tasks[i].expires <= now

\* A create that will insert has found no live task, and there still is none.
CInv ==
    /\ OneLiveTask
    /\ \A w \in Workers : job[w].pc = "insert" =>
         \A i \in DOMAIN tasks : tasks[i].user = job[w].user => Over(i)

LEMMA OverOrLive ==
    ASSUME IInv, NEW i \in DOMAIN tasks
    PROVE  Over(i) <=> ~ (tasks[i].status \in LiveStatuses /\ tasks[i].expires > now)
<1>1. tasks[i] \in Task /\ now \in Nat
    BY Facts
<1> QED BY <1>1 DEF Over, Task, Decided, LiveStatuses

\* No step brings a task back to life.
LEMMA OverStays ==
    ASSUME IInv, BInv, [Next]_vars, NEW i \in DOMAIN tasks, Over(i)
    PROVE  Over(i)'
<1>1. /\ i \in DOMAIN tasks' /\ tasks'[i].expires = tasks[i].expires
      /\ tasks[i] \in Task /\ tasks[i].expires \in Nat
    BY KeyStep, Facts DEF KeysKept, SameKey, Task
<1>2. now' \in Nat /\ now <= now'
    <2>1. now' = now \/ now' = now + 1
        BY DEF Next, vars, CreateFind, PollBeat, SubmitFind, Step, CreateInsert, PollExpire,
               PollClaim, PollNothing, SubmitSave, Fail, Tick
    <2> QED BY <2>1, Facts
<1>3. CASE tasks[i].expires <= now
    BY <1>1, <1>2, <1>3, Facts DEF Over
<1>4. CASE tasks[i].status \in Decided
    <2>1. tasks[i].status \notin LiveStatuses
        BY <1>4 DEF Decided, LiveStatuses
    <2>2. CASE tasks'[i] = tasks[i]
        BY <1>4, <2>2 DEF Over
    <2>3. ASSUME NEW w \in Workers, SubmitSave(w),
                 tasks'[i] = [job[w].row EXCEPT !.status = job[w].status]
          PROVE  tasks'[i].status \in SubmitStatuses
        BY <2>3, Facts DEF SubmitSave, CopyOK, Task
    <2> QED BY <2>1, <2>2, <2>3, RowStep DEF LiveStatuses, Over, Decided, SubmitStatuses
<1> QED BY <1>3, <1>4 DEF Over

\* A request comes to its insert by finding no live task only.
LEMMA InsertStep ==
    ASSUME IInv, [Next]_vars, NEW w \in Workers, job'[w].pc = "insert"
    PROVE  \/ job'[w] = job[w]
           \/ /\ tasks' = tasks /\ now' = now
              /\ LiveTasks(job'[w].user, now) = {}
<1> USE DEF Idle
<1>1. job \in [Workers -> Job]
    BY DEF IInv, TypeOK
<1>2. ASSUME NEW v \in Workers, NEW u \in Users, CreateFind(v, u)
      PROVE  \/ job'[w] = job[w]
             \/ tasks' = tasks /\ now' = now /\ LiveTasks(job'[w].user, now) = {}
    BY <1>1, <1>2 DEF CreateFind, Begin
<1>3. ASSUME NEW v \in Workers, NEW u \in Users, PollBeat(v, u) PROVE job'[w] = job[w]
    BY <1>1, <1>3 DEF PollBeat, Begin
<1>4. ASSUME NEW v \in Workers, NEW u \in Users, NEW i, NEW status, SubmitFind(v, u, i, status)
      PROVE  job'[w] = job[w]
    BY <1>1, <1>4 DEF SubmitFind, Begin
<1>5. ASSUME NEW v \in Workers, Step(v) \/ Fail(v) PROVE job'[w] = job[w]
    <2>1. CASE PollExpire(v)
        BY <1>1, <2>1 DEF PollExpire, Job
    <2> QED BY <1>1, <1>5, <2>1 DEF Step, CreateInsert, PollClaim, PollNothing, SubmitSave, Fail, End
<1>6. CASE Tick \/ UNCHANGED vars
    BY <1>6 DEF Tick, vars
<1> QED BY <1>2, <1>3, <1>4, <1>5, <1>6 DEF Next

\* Only an insert adds a row, its own at the end.
LEMMA RowsStep ==
    ASSUME IInv, [Next]_vars
    PROVE  \/ DOMAIN tasks' = DOMAIN tasks
           \/ \E w \in Workers :
                /\ job[w].pc = "insert" /\ job'[w] = Idle
                /\ DOMAIN tasks' = DOMAIN tasks \cup {Len(tasks) + 1}
                /\ \A i \in DOMAIN tasks : tasks'[i] = tasks[i]
                /\ tasks'[Len(tasks) + 1].user = job[w].user
                /\ now' = now
<1>1. ASSUME NEW w \in Workers, CreateInsert(w)
      PROVE  /\ job[w].pc = "insert" /\ job'[w] = Idle
             /\ DOMAIN tasks' = DOMAIN tasks \cup {Len(tasks) + 1}
             /\ \A i \in DOMAIN tasks : tasks'[i] = tasks[i]
             /\ tasks'[Len(tasks) + 1].user = job[w].user
             /\ now' = now
    <2> DEFINE row == [user |-> job[w].user, status |-> "pending", claimed |-> FALSE,
                       expires |-> job[w].t + TaskTTL]
    <2>1. tasks' = Append(tasks, row) /\ row.user = job[w].user
        BY <1>1 DEF CreateInsert
    <2>2. job[w].pc = "insert" /\ job'[w] = Idle /\ now' = now
        BY <1>1 DEF CreateInsert, End, IInv, TypeOK
    <2> HIDE DEF row
    <2> QED BY <2>1, <2>2, Facts
<1>2. ASSUME NEW w \in Workers, Step(w), ~ CreateInsert(w) PROVE DOMAIN tasks' = DOMAIN tasks
    BY <1>2, Facts DEF Step, PollExpire, PollClaim, PollNothing, SubmitSave
<1>3. ASSUME UNCHANGED tasks PROVE DOMAIN tasks' = DOMAIN tasks
    BY <1>3
<1>4. \/ UNCHANGED tasks \/ \E w \in Workers : Step(w)
    BY DEF Next, vars, CreateFind, PollBeat, SubmitFind, Fail, Tick
<1> QED BY <1>1, <1>2, <1>3, <1>4

LEMMA OneLiveStep == IInv /\ BInv /\ CInv /\ CreatesApart /\ [Next]_vars => CInv'
<1> SUFFICES ASSUME IInv, BInv, CInv, CreatesApart, [Next]_vars PROVE CInv'
    OBVIOUS
<1>1. IInv'
    BY NextInv
<1>2. \A i \in DOMAIN tasks : Over(i) => Over(i)'
    BY OverStays
<1>3. \A i \in DOMAIN tasks : i \in DOMAIN tasks' /\ tasks'[i].user = tasks[i].user
    BY KeyStep DEF KeysKept, SameKey
<1>4. \A i \in DOMAIN tasks' :
          Over(i)' <=> ~ (tasks'[i].status \in LiveStatuses /\ tasks'[i].expires > now')
    <2>1. \A i \in DOMAIN tasks' : tasks'[i] \in Task /\ now' \in Nat
        BY <1>1 DEF IInv, TypeOK
    <2> QED BY <2>1 DEF Over, Task, Decided, LiveStatuses
<1>5. \A i, k \in DOMAIN tasks : ~ Over(i) /\ ~ Over(k) /\ tasks[i].user = tasks[k].user => i = k
    BY OverOrLive DEF CInv, OneLiveTask
<1>6. ASSUME NEW w \in Workers, job'[w].pc = "insert",
             NEW i \in DOMAIN tasks, tasks[i].user = job'[w].user
      PROVE  Over(i)'
    <2>1. CASE job'[w] = job[w]
        BY <1>2, <1>6, <2>1 DEF CInv
    <2>2. CASE LiveTasks(job'[w].user, now) = {}
        BY <1>2, <1>6, <2>2, OverOrLive DEF LiveTasks
    <2> QED BY <1>6, <2>1, <2>2, InsertStep
<1>7. CASE DOMAIN tasks' = DOMAIN tasks
    <2>1. OneLiveTask'
        <3> SUFFICES ASSUME NEW i \in DOMAIN tasks', NEW k \in DOMAIN tasks',
                            ~ Over(i)', ~ Over(k)', tasks'[i].user = tasks'[k].user
                     PROVE  i = k
            BY <1>4 DEF OneLiveTask
        <3> QED BY <1>2, <1>3, <1>5, <1>7
    <2>2. \A w \in Workers : job'[w].pc = "insert" =>
            \A i \in DOMAIN tasks' : tasks'[i].user = job'[w].user => Over(i)'
        BY <1>3, <1>6, <1>7
    <2> QED BY <2>1, <2>2 DEF CInv
<1>8. ASSUME NEW w \in Workers, job[w].pc = "insert", job'[w] = Idle,
             DOMAIN tasks' = DOMAIN tasks \cup {Len(tasks) + 1},
             \A i \in DOMAIN tasks : tasks'[i] = tasks[i],
             tasks'[Len(tasks) + 1].user = job[w].user, now' = now
      PROVE  CInv'
    <2> DEFINE n == Len(tasks) + 1
    <2>1. \A i \in DOMAIN tasks : tasks[i].user = job[w].user => Over(i)'
        BY <1>2, <1>8 DEF CInv
    <2> HIDE DEF n
    <2>2. OneLiveTask'
        <3> SUFFICES ASSUME NEW i \in DOMAIN tasks', NEW k \in DOMAIN tasks',
                            ~ Over(i)', ~ Over(k)', tasks'[i].user = tasks'[k].user
                     PROVE  i = k
            BY <1>4 DEF OneLiveTask
        <3>1. CASE i \in DOMAIN tasks /\ k \in DOMAIN tasks
            BY <1>2, <1>3, <1>5, <3>1
        <3>2. ASSUME NEW m \in DOMAIN tasks', m \notin DOMAIN tasks
              PROVE  m = n /\ tasks'[m].user = job[w].user
            BY <1>8, <3>2 DEF n
        <3> QED BY <1>3, <2>1, <3>1, <3>2
    <2>3. ASSUME NEW v \in Workers, job'[v].pc = "insert",
                 NEW i \in DOMAIN tasks', tasks'[i].user = job'[v].user
          PROVE  Over(i)'
        <3>1. v # w /\ job'[v].pc = "insert"
            BY <1>8, <2>3 DEF Idle
        <3>2. CASE i \in DOMAIN tasks
            BY <1>3, <1>6, <2>3, <3>2
        <3>3. CASE i \notin DOMAIN tasks
            <4>1. tasks'[i].user = job[w].user
                BY <1>8, <3>3
            <4>2. job'[v] = job[v] \/ tasks' = tasks
                BY <3>1, InsertStep
            <4>3. job[v].pc = "insert" /\ job[v].user = job[w].user
                BY <2>3, <3>1, <3>3, <4>1, <4>2
            <4> QED BY <1>8, <3>1, <4>3 DEF CreatesApart
        <3> QED BY <3>2, <3>3
    <2> QED BY <2>2, <2>3 DEF CInv
<1> QED BY <1>7, <1>8, RowsStep

\* An administrator has one live task at most, whatever polls, submits,
\* failures and creates of other administrators come between the search and
\* the insert of CreateCheckSharedPoolTask, if no second create of the same
\* administrator does.
THEOREM LiveTaskIsOne == Spec /\ []CreatesApart => []OneLiveTask
<1>1. Init => CInv
    BY DEF Init, CInv, OneLiveTask, Idle
<1>2. CInv => OneLiveTask
    BY DEF CInv
<1> QED BY <1>1, <1>2, OneLiveStep, InitBInv, NextBInv, Invariance, PTL DEF Spec

=============================================================================
