----------------------------- MODULE TaskBoard ------------------------------
(***************************************************************************)
(* What the agent tasks promise, without requests, copies or statements:   *)
(* a board of entries, each of which is queued for one administrator,      *)
(* handed out at most once and in the order of the queue, dropped only     *)
(* when its time is over, and closed for good by a report.  AgentTasks     *)
(* implements it (Board in that module).                                   *)
(***************************************************************************)
EXTENDS Integers, Sequences

CONSTANT Users

VARIABLES board, clock

boardVars == <<board, clock>>

BoardInit == board = <<>> /\ clock = 0

\* One entry is added at the end: its owner and its deadline are free.
Queue ==
    /\ Len(board') = Len(board) + 1
    /\ board'[Len(board')] \in [owner : Users, state : {"queued"}, deadline : Nat]
    /\ board' = Append(board, board'[Len(board')])
    /\ UNCHANGED clock

\* Entries that are queued before entry i for the same owner may be passed
\* over only when their time is over.
Hand(i) ==
    /\ board[i].state = "queued"
    /\ \A k \in 1..(i - 1) :
        board[k].owner = board[i].owner /\ board[k].state = "queued" => board[k].deadline <= clock
    /\ board' = [board EXCEPT ![i].state = "handed"]
    /\ UNCHANGED clock

\* One sweep drops any number of entries nobody reported on.
Drop(I) ==
    /\ \A i \in I : board[i].state \in {"queued", "handed"} /\ board[i].deadline <= clock
    /\ board' = [i \in DOMAIN board |->
                    IF i \in I THEN [board[i] EXCEPT !.state = "dropped"] ELSE board[i]]
    /\ UNCHANGED clock

\* A report closes an entry whatever became of it, even one nobody was handed.
Report(i) ==
    /\ board' = [board EXCEPT ![i].state = "reported"]
    /\ UNCHANGED clock

Advance == clock' = clock + 1 /\ UNCHANGED board

BoardNext ==
    \/ Queue
    \/ \E i \in DOMAIN board : Hand(i) \/ Report(i)
    \/ \E I \in SUBSET DOMAIN board : Drop(I)
    \/ Advance

BoardSpec == BoardInit /\ [][BoardNext]_boardVars

=============================================================================
