----------------------------- MODULE AgentTasks -----------------------------
(***************************************************************************)
(* Tasks an administrator queues for a desktop agent:                      *)
(* internal/services/agent_task_service.go and its handlers.  The agent    *)
(* polls (a heartbeat, an update that expires overdue tasks, a claim of    *)
(* the oldest pending one), works on the task and submits a result.        *)
(*                                                                         *)
(* Each request is a worker; each database statement or transaction it     *)
(* runs is one action.  A task row's index is its id.                      *)
(***************************************************************************)
EXTENDS Integers, Sequences, FiniteSets

CONSTANTS
    Users,          \* administrators; each runs one agent
    Workers,        \* goroutines that serve requests at the same time
    Creators,       \* those of them that may serve a create request
    TaskTTL,        \* the ten minutes a task lives, in ticks
    MaxTime,        \* bound: the last instant of the clock
    MaxTasks,       \* bound: task rows
    MaxFailures     \* bound: failed requests

ASSUME CreatorsAssumption == Creators \subseteq Workers
ASSUME TaskAssumption ==
    /\ TaskTTL \in Nat \ {0} /\ MaxTime \in Nat /\ MaxTasks \in Nat /\ MaxFailures \in Nat

VARIABLES
    tasks,      \* agent_tasks
    heartbeat,  \* agent_heartbeats: last_poll_at of each user, or Never
    job,        \* what each worker is doing, and its copy of what it read
    handed,     \* history: the number of poll answers that carried each task
    now,        \* the clock
    failures

vars == <<tasks, heartbeat, job, handed, now, failures>>

Never == -1
LiveStatuses    == {"pending", "running"}
SubmitStatuses0 == {"completed", "failed", "cancelled"}     \* mutant: unchecked input
SubmitStatuses  == {"completed", "failed"}
Decided == {"completed", "failed", "expired"}

\* An agent_tasks row; "claimed" is claimed_at # nil.
Task == [user : Users, status : LiveStatuses \cup Decided, claimed : BOOLEAN, expires : Nat]
NoTask == [user |-> "nobody", status |-> "none", claimed |-> FALSE, expires |-> 0]

\* A request: op and pc say where it is, t is the clock it read, id and row
\* the task it read, status the one it will save.
Job == [op : {"none", "create", "poll", "submit"},
        pc : {"idle", "insert", "expire", "claim", "save"},
        user : Users \cup {"nobody"}, t : Nat, id : Nat,
        row : Task \cup {NoTask}, status : SubmitStatuses \cup {"none"}]

Idle == [op |-> "none", pc |-> "idle", user |-> "nobody", t |-> 0, id |-> 0,
         row |-> NoTask, status |-> "none"]

Begin(w, j) == job[w] = Idle /\ job' = [job EXCEPT ![w] = j]
End(w) == job' = [job EXCEPT ![w] = Idle]

\* The rows the WHERE clauses of the service select.
LiveTasks0(u, t) == {i \in DOMAIN tasks :               \* mutant: forgets running ones
    tasks[i].user = u /\ tasks[i].status = "pending" /\ tasks[i].expires > t}
LiveTasks(u, t) == {i \in DOMAIN tasks :
    tasks[i].user = u /\ tasks[i].status \in LiveStatuses /\ tasks[i].expires > t}

OverduePending(u, t) == {i \in DOMAIN tasks :           \* mutant: forgets running ones
    tasks[i].user = u /\ tasks[i].status = "pending" /\ tasks[i].expires <= t}
OverdueEarly(u, t) == {i \in DOMAIN tasks :             \* mutant: expires too early
    tasks[i].user = u /\ tasks[i].status \in LiveStatuses /\ tasks[i].expires <= t + 1}
Overdue(u, t) == {i \in DOMAIN tasks :
    tasks[i].user = u /\ tasks[i].status \in LiveStatuses /\ tasks[i].expires <= t}

Claimable0(u, t) == LiveTasks(u, t)                     \* mutant: claims running ones too
Claimable(u, t) == {i \in DOMAIN tasks :
    tasks[i].user = u /\ tasks[i].status = "pending" /\ tasks[i].expires > t}

\* Room for one more task per worker that is creating one.
Room == Len(tasks) + Cardinality({w \in Workers : job[w].op = "create"}) < MaxTasks

Init ==
    /\ tasks = <<>>
    /\ heartbeat = [u \in Users |-> Never]
    /\ job = [w \in Workers |-> Idle]
    /\ handed = <<>>
    /\ now = 0 /\ failures = 0

-----------------------------------------------------------------------------
\* CreateCheckSharedPoolTask: answer with a live task, or insert a new one.
\* (The first case changes nothing and is not a step.)
CreateFind(w, u) ==
    /\ w \in Creators /\ Room /\ now + TaskTTL <= MaxTime
    /\ LiveTasks(u, now) = {}
    /\ Begin(w, [Idle EXCEPT !.op = "create", !.pc = "insert", !.user = u, !.t = now])
    /\ UNCHANGED <<tasks, heartbeat, handed, now, failures>>

CreateInsert(w) ==
    /\ job[w].pc = "insert"
    /\ tasks' = Append(tasks, [user |-> job[w].user, status |-> "pending", claimed |-> FALSE,
                               expires |-> job[w].t + TaskTTL])
    /\ handed' = Append(handed, 0)
    /\ End(w)
    /\ UNCHANGED <<heartbeat, now, failures>>

\* Poll: the heartbeat ...
PollBeat(w, u) ==
    /\ Begin(w, [Idle EXCEPT !.op = "poll", !.pc = "expire", !.user = u])
    /\ heartbeat' = [heartbeat EXCEPT ![u] = now]
    /\ UNCHANGED <<tasks, handed, now, failures>>

\* ... then overdue tasks expire, by a clock that the claim uses again ...
PollExpire(w) ==
    LET over == Overdue(job[w].user, now)
    IN /\ job[w].pc = "expire"
       /\ tasks' = [i \in DOMAIN tasks |->
                      IF i \in over THEN [tasks[i] EXCEPT !.status = "expired"] ELSE tasks[i]]
       /\ job' = [job EXCEPT ![w].pc = "claim", ![w].t = now]
       /\ UNCHANGED <<heartbeat, handed, now, failures>>

\* ... and one transaction, under row locks, claims the oldest pending task
\* and answers with it, or with none.
PollClaim(w) ==
    /\ job[w].pc = "claim"
    /\ \E i \in Claimable(job[w].user, job[w].t) :
        /\ \A k \in Claimable(job[w].user, job[w].t) : i <= k
        /\ tasks' = [tasks EXCEPT ![i].status = "running", ![i].claimed = TRUE]
        /\ handed' = [handed EXCEPT ![i] = @ + 1]
    /\ End(w)
    /\ UNCHANGED <<heartbeat, now, failures>>

PollNothing(w) ==
    /\ job[w].pc = "claim" /\ Claimable(job[w].user, job[w].t) = {}
    /\ End(w)
    /\ UNCHANGED <<tasks, heartbeat, handed, now, failures>>

\* SubmitResult: any task of the user, whatever its status, is read and then
\* saved as a whole row.
SubmitFind(w, u, i, status) ==
    /\ i \in DOMAIN tasks /\ tasks[i].user = u
    /\ Begin(w, [Idle EXCEPT !.op = "submit", !.pc = "save", !.user = u, !.id = i,
                             !.row = tasks[i], !.status = status])
    /\ UNCHANGED <<tasks, heartbeat, handed, now, failures>>

SubmitSave(w) ==
    /\ job[w].pc = "save"
    /\ tasks' = [tasks EXCEPT ![job[w].id] = [job[w].row EXCEPT !.status = job[w].status]]
    /\ End(w)
    /\ UNCHANGED <<heartbeat, handed, now, failures>>

-----------------------------------------------------------------------------
\* A request ends where it stands: a database error, or a crash.
Fail(w) ==
    /\ job[w] # Idle /\ failures < MaxFailures
    /\ End(w) /\ failures' = failures + 1
    /\ UNCHANGED <<tasks, heartbeat, handed, now>>

Tick ==
    /\ now < MaxTime /\ now' = now + 1
    /\ UNCHANGED <<tasks, heartbeat, job, handed, failures>>

Step(w) ==
    CreateInsert(w) \/ PollExpire(w) \/ PollClaim(w) \/ PollNothing(w) \/ SubmitSave(w)

Next ==
    \/ \E w \in Workers :
        \/ \E u \in Users :
            \/ CreateFind(w, u) \/ PollBeat(w, u)
            \/ \E i \in DOMAIN tasks, status \in SubmitStatuses : SubmitFind(w, u, i, status)
        \/ Step(w) \/ Fail(w)
    \/ Tick

Spec == Init /\ [][Next]_vars

\* Handlers run to their end, the clock runs, each agent keeps polling; no
\* agent is assumed to finish, or even to survive, the work it was handed.
FairSpec ==
    /\ Spec /\ WF_vars(Tick)
    /\ \A w \in Workers : WF_vars(Step(w))
    /\ \A u \in Users : SF_vars(\E w \in Workers : PollBeat(w, u))

-----------------------------------------------------------------------------
\* Every variable has its type: only statuses of the models package are stored.
TypeOK ==
    /\ tasks \in Seq(Task)
    /\ heartbeat \in [Users -> Nat \cup {Never}]
    /\ job \in [Workers -> Job]
    /\ handed \in Seq(Nat) /\ Len(handed) = Len(tasks)
    /\ now \in Nat /\ failures \in Nat

\* A task is handed to at most one poll, however many agents, retries and
\* devices poll at once (the locked claim in Poll).
HandedOnce == \A i \in DOMAIN handed : handed[i] <= 1

\* A decided task stays decided, and a result an agent submitted is never
\* turned into an expiry or handed out again by a poll that comes later (the
\* board has no step that does it: ImplementsTaskBoard is the stronger claim).
ResultsStay ==
    [][\A i \in DOMAIN tasks :
        /\ tasks[i].status \in Decided => tasks'[i].status \in Decided
        /\ tasks[i].status \in SubmitStatuses => tasks'[i].status \in SubmitStatuses]_vars

\* CreateCheckSharedPoolTask never leaves an administrator with two live
\* tasks, as long as their create requests do not overlap.
OneLiveTask ==
    \A i, k \in {n \in DOMAIN tasks : tasks[n].status \in LiveStatuses /\ tasks[n].expires > now} :
        tasks[i].user = tasks[k].user => i = k

\* The board the rows stand for.
EntryState(status) == CASE status = "pending" -> "queued"
                        [] status = "running" -> "handed"
                        [] status = "expired" -> "dropped"
                        [] OTHER -> "reported"

BoardEntry(row) ==
    [owner |-> row.user, state |-> EntryState(row.status), deadline |-> row.expires]

Board == INSTANCE TaskBoard WITH
            board <- [i \in DOMAIN tasks |-> BoardEntry(tasks[i])], clock <- now

\* Whatever requests overlap, fail or come late, the rows behave like the
\* board: a poll hands out the oldest task whose time is not over, never one
\* that was handed out before, nothing expires early or after its result, and
\* no task changes its owner or its deadline.
ImplementsTaskBoard == Board!BoardSpec

\* A task is decided in the end even if the agent dies with it: a later poll
\* expires it.
TasksAreDecided ==
    \A i \in 1..MaxTasks :
        i \in DOMAIN tasks ~> i \in DOMAIN tasks /\ tasks[i].status \in Decided

=============================================================================
