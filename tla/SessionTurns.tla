---------------------------- MODULE SessionTurns ----------------------------
(***************************************************************************)
(* How a session starts, interrupts, finishes and chains turns             *)
(* (core/src/codex: session.rs, streaming.rs, compact.rs).                 *)
(*                                                                         *)
(* Three kinds of process share the session state behind its mutex:        *)
(*   Loop   submission_loop, which handles one Op at a time;               *)
(*   Wake   the forwarder of agent status updates, which may start a turn; *)
(*   Tasks  the tokio tasks of the turns: run_agent (regular, pending-only *)
(*          and review turns) and run_compact_task.                        *)
(* A finished run_agent goes on to start the follow-up turn itself.  Each  *)
(* action is a stretch of code between two points where another thread can *)
(* take the mutex or the scheduler can switch.                             *)
(*                                                                         *)
(* An input (user or developer message, compaction prompt) is the number   *)
(* of the submission that brought it.                                      *)
(***************************************************************************)
EXTENDS Integers, Sequences, FiniteSets, SequencesExt

CONSTANTS Tasks,       \* identities of AgentTasks: their sub_ids
          Loop, Wake,  \* the two other processes
          None,        \* no task
          OpKinds,     \* the Ops that the clients submit
          Hooks,       \* does the project configure prompt-submit hooks?
          MaxOps,      \* bound on submissions and agent wake-ups
          MaxRounds,   \* bound on the extra model requests of one turn
          MaxPendingManualCompacts

AllOps == {"UserInput", "QueueUserInput", "Interrupt", "ApprovalAbort",
           "Developer", "PostTurn", "Compact", "Review", "Shutdown", "Wake"}

ASSUME SessionAssumption ==
    /\ Loop \notin Tasks /\ Wake \notin Tasks /\ Loop # Wake
    /\ None \notin Tasks
    /\ OpKinds \subseteq AllOps
    /\ Hooks \in BOOLEAN
    /\ MaxOps \in Nat /\ MaxRounds \in Nat
    /\ MaxPendingManualCompacts \in Nat \ {0}

VARIABLES
    \* the session's State, guarded by its mutex
    current,                   \* current_task
    pending_input, pending_post_turn_input, pending_user_input,
    pending_manual_compacts,   \* length of the queue
    \* the processes
    pc,
    arg,       \* the turn a process is about to start: its kind and its input
    new,       \* the task a process spawned and has not yet given to set_task
    \* the turns
    kind, item,  \* what AgentTask::spawn was given
    first,       \* first_iteration of run_agent's loop
    held,        \* pending input drained for the request being made
    rounds,      \* extra model requests made so far
    aborted,     \* AgentTask::abort was called on the unfinished task
    taken,       \* <<n, t>>: the abort of submission n took task t out of
                 \* current_task and has not cancelled it yet
    \* the outside
    ops,         \* the Ops (and wake-ups) received so far
    interrupts,  \* spawned Interrupt or Shutdown aborts that have not run yet
    notices,     \* aborted tasks whose TurnAborted event is not sent yet
    completed,   \* tasks that sent TaskComplete
    turn_aborted,\* tasks whose TurnAborted was sent
    exited,      \* review tasks for which ExitedReviewMode was sent
    entered,     \* reviews (their submissions) for which EnteredReviewMode was sent
    logged       \* how often each input was recorded in the history (2: more than once)

queues == <<pending_input, pending_post_turn_input, pending_user_input,
            pending_manual_compacts>>
starts == <<arg, new>>
turns  == <<kind, item, first, held, rounds>>
events == <<completed, turn_aborted, exited, entered>>
aborts == <<aborted, notices, taken>>
vars   == <<current, queues, pc, starts, turns, aborts, ops, interrupts,
            events, logged>>

-----------------------------------------------------------------------------
Procs  == Tasks \cup {Loop, Wake}
Inputs == 1 .. MaxOps
ToolOutput == 0              \* output of a tool call, queued for the next request
NoInput    == -1             \* initial input of a pending-only turn
Items  == Inputs \cup {ToolOutput, NoInput}
Kinds  == {"user", "pending", "post", "review", "compact"}

LoopPc == {"recv", "queue", "compact_queue", "post_idle", "stopped"}
StartPc == {"idle_check", "hooks", "spawn", "set", "entered"}
BusyPc == {"start", "drain", "record", "model", "asking", "finish", "remove"}
TaskPc == BusyPc \cup {"unborn", "complete", "followup", "done", "returned", "dead"}

TypeOK ==
    /\ current \in Tasks \cup {None}
    /\ pending_input \in Seq(Items)
    /\ pending_post_turn_input \in Seq(Items)
    /\ pending_user_input \in Seq(Items)
    /\ pending_manual_compacts \in 0 .. MaxPendingManualCompacts
    /\ pc \in [Procs -> LoopPc \cup StartPc \cup TaskPc]
    /\ arg \in [Procs -> [kind : Kinds, item : Items]]
    /\ new \in [Procs -> Tasks \cup {None}]
    /\ kind \in [Tasks -> Kinds]
    /\ item \in [Tasks -> Items]
    /\ first \in [Tasks -> BOOLEAN]
    /\ held \in [Tasks -> Seq(Items)]
    /\ rounds \in [Tasks -> 0 .. MaxRounds]
    /\ aborted \in [Tasks -> BOOLEAN]
    /\ ops \in Seq(AllOps) /\ Len(ops) <= MaxOps
    /\ interrupts \subseteq Inputs
    /\ notices \subseteq Tasks /\ completed \subseteq Tasks
    /\ turn_aborted \subseteq Tasks /\ exited \subseteq Tasks
    /\ taken \subseteq Inputs \X Tasks /\ entered \subseteq Items
    /\ logged \in [Inputs -> 0 .. 2]

NoTurn == [kind |-> "user", item |-> NoInput]

Init ==
    /\ current = None
    /\ pending_input = <<>> /\ pending_post_turn_input = <<>>
    /\ pending_user_input = <<>> /\ pending_manual_compacts = 0
    /\ pc = [p \in Procs |-> IF p \in Tasks THEN "unborn" ELSE "recv"]
    /\ arg = [p \in Procs |-> NoTurn]
    /\ new = [p \in Procs |-> None]
    /\ kind = [t \in Tasks |-> "user"]
    /\ item = [t \in Tasks |-> NoInput]
    /\ first = [t \in Tasks |-> TRUE]
    /\ held = [t \in Tasks |-> <<>>]
    /\ rounds = [t \in Tasks |-> 0]
    /\ aborted = [t \in Tasks |-> FALSE]
    /\ ops = <<>>
    /\ interrupts = {} /\ notices = {} /\ taken = {}
    /\ completed = {} /\ turn_aborted = {} /\ exited = {} /\ entered = {}
    /\ logged = [i \in Inputs |-> 0]

-----------------------------------------------------------------------------
(* Shared pieces. *)
Goto(p, from, to) == pc[p] = from /\ pc' = [pc EXCEPT ![p] = to]

(* Where a process rests once it has started (or decided not to start) a turn. *)
Rest(p) == IF p \in Tasks THEN "done" ELSE "recv"

Finished(t) == pc[t] \in {"done", "returned", "dead"}


(* AgentTask::abort on a task that current_task held: nothing if there was none
   or it has finished; else the task is cancelled and a detached tokio task will
   report it. *)
AbortTask(t) ==
    IF t = None \/ (t \in Tasks /\ Finished(t))
    THEN UNCHANGED <<aborted, notices>>
    ELSE /\ aborted' = [aborted EXCEPT ![t] = TRUE]
         /\ notices' = notices \cup {t}

(* Session::abort, called for submission n, up to the unlock: it takes the
   current task out; the queued inputs stay. *)
TakeCurrent(n) ==
    /\ current' = None
    /\ taken' = taken \cup {<<n, t>> : t \in {current} \ {None}}
    /\ UNCHANGED <<aborted, notices>>

(* Session::abort after the unlock: it cancels the task that it took out. *)
CancelTaken(n, t) ==
    /\ <<n, t>> \in taken
    /\ taken' = taken \ {<<n, t>>}
    /\ AbortTask(t)
    /\ UNCHANGED <<current, queues, pc, starts, turns, ops, interrupts, events, logged>>

(* Process p is not inside an abort of its own: only the loop ever is, as those
   of Interrupt and Shutdown run in tasks of their own. *)
Free(p) == p = Loop => \A v \in taken : ops[v[1]] \in {"Interrupt", "Shutdown"}

(* One more record of every input in S in the conversation history. *)
Record(S) ==
    logged' = [i \in Inputs |-> IF i \in S /\ logged[i] < 2
                                THEN logged[i] + 1 ELSE logged[i]]

-----------------------------------------------------------------------------
(* submission_loop: one action per Op, up to its first switching point. *)

(* An Op with number n arrives while the loop waits in recv(). *)
Receive(op, n) ==
    /\ op \in OpKinds
    /\ n = Len(ops) + 1 /\ n \in Inputs
    /\ ops' = Append(ops, op)

(* Op::UserInput: synchronous abort, then spawn_user_turn.  Here and below the
   loop goes on when its abort has cancelled what it took (Free). *)
UserInput(n) ==
    /\ Receive("UserInput", n)
    /\ Goto(Loop, "recv", "hooks")
    /\ TakeCurrent(n)
    /\ arg' = [arg EXCEPT ![Loop] = [kind |-> "user", item |-> n]]
    /\ UNCHANGED <<queues, new, turns, interrupts, events, logged>>

(* Op::QueueUserInput: has_running_task decides whether to queue or to start. *)
QueueUserInput(n) ==
    /\ Receive("QueueUserInput", n)
    /\ Goto(Loop, "recv", IF current # None THEN "queue" ELSE "hooks")
    /\ arg' = [arg EXCEPT ![Loop] = [kind |-> "user", item |-> n]]
    /\ UNCHANGED <<current, queues, new, turns, aborts, interrupts, events, logged>>

(* Op::QueueUserInput, continued: queue_user_input takes the mutex again. *)
QueuePush ==
    /\ Goto(Loop, "queue", "recv")
    /\ pending_user_input' = Append(pending_user_input, arg[Loop].item)
    /\ UNCHANGED <<current, pending_input, pending_post_turn_input,
                   pending_manual_compacts, starts, turns, aborts, ops,
                   interrupts, events, logged>>

(* Op::Interrupt: the abort runs in a task of its own. *)
Interrupt(n) ==
    /\ Receive("Interrupt", n)
    /\ pc[Loop] = "recv"
    /\ interrupts' = interrupts \cup {n}
    /\ UNCHANGED <<current, queues, pc, starts, turns, aborts, events, logged>>

(* Op::Shutdown: likewise, and the loop ends. *)
Shutdown(n) ==
    /\ Receive("Shutdown", n)
    /\ Goto(Loop, "recv", "stopped")
    /\ interrupts' = interrupts \cup {n}
    /\ UNCHANGED <<current, queues, starts, turns, aborts, events, logged>>

(* The spawned abort of an Interrupt or Shutdown. *)
RunInterrupt(n) ==
    /\ n \in interrupts
    /\ interrupts' = interrupts \ {n}
    /\ TakeCurrent(n)
    /\ UNCHANGED <<queues, pc, starts, turns, ops, events, logged>>

(* Op::ExecApproval and Op::PatchApproval with the decision Abort. *)
ApprovalAbort(n) ==
    /\ Receive("ApprovalAbort", n)
    /\ pc[Loop] = "recv"
    /\ TakeCurrent(n)
    /\ UNCHANGED <<queues, pc, starts, turns, interrupts, events, logged>>

(* enqueue_out_of_turn_item, and the decision to start a pending-only turn. *)
OutOfTurn(p, n) ==
    /\ Goto(p, "recv", IF current = None THEN "spawn" ELSE "recv")
    /\ pending_input' = Append(pending_input, n)
    /\ arg' = [arg EXCEPT ![p] = [kind |-> "pending", item |-> NoInput]]
    /\ UNCHANGED <<current, pending_post_turn_input, pending_user_input,
                   pending_manual_compacts, new, turns, aborts, interrupts,
                   events, logged>>

(* Op::AddPendingInputDeveloper, and enqueue_agent_completion_wake run by the
   forwarder of agent status updates. *)
Developer(n) == Receive("Developer", n) /\ OutOfTurn(Loop, n)
AgentWake(n) == Receive("Wake", n) /\ OutOfTurn(Wake, n)

(* Op::AddPostTurnDeveloperInput: enqueue_post_turn_item. *)
PostTurn(n) ==
    /\ Receive("PostTurn", n)
    /\ Goto(Loop, "recv", IF current = None THEN "post_idle" ELSE "recv")
    /\ pending_post_turn_input' = Append(pending_post_turn_input, n)
    /\ UNCHANGED <<current, pending_input, pending_user_input,
                   pending_manual_compacts, starts, turns, aborts, interrupts,
                   events, logged>>

(* start_post_turn_pending_only_turn_if_idle: the check and the move. *)
PostIdle ==
    /\ pc[Loop] = "post_idle"
    /\ IF current # None \/ pending_post_turn_input = <<>>
       THEN /\ pc' = [pc EXCEPT ![Loop] = "recv"]
            /\ UNCHANGED <<queues, arg>>
       ELSE /\ pc' = [pc EXCEPT ![Loop] = "idle_check"]
            /\ pending_input' = pending_input \o pending_post_turn_input
            /\ pending_post_turn_input' = <<>>
            /\ arg' = [arg EXCEPT ![Loop] = [kind |-> "post", item |-> NoInput]]
            /\ UNCHANGED <<pending_user_input, pending_manual_compacts>>
    /\ UNCHANGED <<current, new, turns, aborts, ops, interrupts, events, logged>>

(* Op::Compact: inject_input offers the prompt to the running task; without one
   a compaction task starts at once. *)
Compact(n) ==
    /\ Receive("Compact", n)
    /\ IF current # None
       THEN /\ Goto(Loop, "recv", "compact_queue")
            /\ pending_input' = Append(pending_input, n)
            /\ UNCHANGED arg
       ELSE /\ Goto(Loop, "recv", "spawn")
            /\ arg' = [arg EXCEPT ![Loop] = [kind |-> "compact", item |-> n]]
            /\ UNCHANGED pending_input
    /\ UNCHANGED <<current, pending_post_turn_input, pending_user_input,
                   pending_manual_compacts, new, turns, aborts, interrupts,
                   events, logged>>

(* Mutation of CompactQueue: the queue has no limit. *)
CompactQueue_NoCap ==
    /\ Goto(Loop, "compact_queue", "recv")
    /\ pending_manual_compacts' = pending_manual_compacts + 1
    /\ UNCHANGED <<current, pending_input, pending_post_turn_input,
                   pending_user_input, starts, turns, aborts, ops, interrupts,
                   events, logged>>

(* Op::Compact, continued: enqueue_manual_compact, which drops the oldest
   request when the queue is full. *)
CompactQueue ==
    /\ Goto(Loop, "compact_queue", "recv")
    /\ pending_manual_compacts' =
          IF pending_manual_compacts < MaxPendingManualCompacts
          THEN pending_manual_compacts + 1 ELSE pending_manual_compacts
    /\ UNCHANGED <<current, pending_input, pending_post_turn_input,
                   pending_user_input, starts, turns, aborts, ops, interrupts,
                   events, logged>>

(* Op::Review: spawn_review_thread aborts, spawns the review task, gives it to
   set_task and sends EnteredReviewMode (AnnounceReview).  active_review, which
   it sets on the way and exit_review_mode takes, is read by nobody. *)
Review(n) ==
    /\ Receive("Review", n)
    /\ Goto(Loop, "recv", "spawn")
    /\ TakeCurrent(n)
    /\ arg' = [arg EXCEPT ![Loop] = [kind |-> "review", item |-> n]]
    /\ UNCHANGED <<queues, new, turns, interrupts, events, logged>>

-----------------------------------------------------------------------------
(* Starting a turn: by the loop, the forwarder, or a finished task. *)

(* start_internal_pending_only_turn: only when no task is current. *)
IdleCheck(p) ==
    /\ Goto(p, "idle_check", IF current = None THEN "spawn" ELSE Rest(p))
    /\ UNCHANGED <<current, queues, starts, turns, aborts, ops, interrupts,
                   events, logged>>

(* spawn_user_turn: the prompt-submit hooks let the input through... *)
HooksPass(p) ==
    /\ Free(p)
    /\ Goto(p, "hooks", "spawn")
    /\ UNCHANGED <<current, queues, starts, turns, aborts, ops, interrupts,
                   events, logged>>

(* ... or block it; a task then looks for another follow-up. *)
HooksBlock(p) ==
    /\ Free(p)
    /\ Hooks
    /\ Goto(p, "hooks", IF p \in Tasks THEN "followup" ELSE "recv")
    /\ UNCHANGED <<current, queues, starts, turns, aborts, ops, interrupts,
                   events, logged>>

(* AgentTask::spawn, compact or review: the tokio task exists and may run
   before set_task has seen it. *)
Spawn(p) ==
    /\ Free(p)
    /\ pc[p] = "spawn"
    /\ \E t \in Tasks :
          /\ pc[t] = "unborn"
          /\ pc' = [pc EXCEPT ![p] = "set", ![t] = "start"]
          /\ kind' = [kind EXCEPT ![t] = arg[p].kind]
          /\ item' = [item EXCEPT ![t] = arg[p].item]
          /\ new' = [new EXCEPT ![p] = t]
    /\ UNCHANGED <<current, queues, arg, first, held, rounds, aborts, ops,
                   interrupts, events, logged>>

(* Who started a review still has to announce it. *)
AfterSet(p) == IF arg[p].kind = "review" THEN "entered" ELSE Rest(p)

(* Mutation of SetTask: the previous task is overwritten, not aborted. *)
SetTask_NoAbort(p) ==
    /\ Goto(p, "set", AfterSet(p))
    /\ current' = new[p]
    /\ new' = [new EXCEPT ![p] = None]
    /\ UNCHANGED <<queues, arg, turns, aborts, ops, interrupts, events, logged>>

(* Session::set_task: replace the current task and abort the old one. *)
SetTask(p) ==
    /\ Goto(p, "set", AfterSet(p))
    /\ current' = new[p]
    /\ new' = [new EXCEPT ![p] = None]
    /\ AbortTask(current)
    /\ UNCHANGED <<queues, arg, turns, taken, ops, interrupts, events, logged>>

(* The end of spawn_review_thread: EnteredReviewMode.  The review runs already,
   and may have ended, and told so, before. *)
AnnounceReview(p) ==
    /\ Goto(p, "entered", Rest(p))
    /\ entered' = entered \cup {arg[p].item}
    /\ UNCHANGED <<current, queues, starts, turns, aborts, ops, interrupts,
                   completed, turn_aborted, exited, logged>>

-----------------------------------------------------------------------------
(* run_agent: the life of a turn. *)

Agent(t) == kind[t] # "compact"
PendingOnly(t) == kind[t] \in {"pending", "post"}

(* TaskStarted, and the initial input goes to the history (a review keeps a
   history of its own). *)
Start(t) ==
    /\ Agent(t)
    /\ Goto(t, "start", "drain")
    /\ Record(IF kind[t] = "user" THEN {item[t]} ELSE {})
    /\ UNCHANGED <<current, queues, starts, turns, aborts, ops, interrupts, events>>

(* run_agent returns before TaskStarted: the message has no items, or the client
   no longer receives events.  Nobody is told and the task stays current. *)
StartReturns(t) ==
    /\ Agent(t)
    /\ Goto(t, "start", "returned")
    /\ UNCHANGED <<current, queues, starts, turns, aborts, ops, interrupts,
                   events, logged>>

(* Mutation of Drain: the drained inputs stay queued. *)
Drain_Keeps(t) ==
    /\ Goto(t, "drain", "record")
    /\ held' = [held EXCEPT ![t] = pending_input \o pending_user_input]
    /\ UNCHANGED <<current, queues, starts, kind, item, first, rounds,
                   aborts, ops, interrupts, events, logged>>

(* get_pending_input_filtered: a review or post-turn turn takes pending_input
   and a copy of the queued user inputs; any other turn takes both, unless
   pending_input is empty, and then neither. *)
Drain(t) ==
    /\ Goto(t, "drain", "record")
    /\ IF kind[t] \in {"review", "post"}
       THEN /\ held' = [held EXCEPT ![t] = pending_input \o pending_user_input]
            /\ UNCHANGED pending_user_input
       ELSE IF pending_input = <<>>
       THEN UNCHANGED <<held, pending_user_input>>
       ELSE /\ held' = [held EXCEPT ![t] = pending_input \o pending_user_input]
            /\ pending_user_input' = <<>>
    /\ pending_input' = <<>>
    /\ UNCHANGED <<current, pending_post_turn_input, pending_manual_compacts,
                   starts, kind, item, first, rounds, aborts, ops, interrupts,
                   events, logged>>

(* The inputs of this iteration that go to the history: the first one of a
   pending-only turn, nothing else on the first iteration, everything later. *)
ToRecord(t) ==
    IF ~first[t] THEN ToSet(held[t])
    ELSE IF PendingOnly(t) THEN {held[t][1]} ELSE {}

(* run_agent between the drain and the request; a pending-only turn that found
   no input ends here. *)
RecordPending(t) ==
    /\ IF first[t] /\ PendingOnly(t) /\ held[t] = <<>>
       THEN Goto(t, "record", "finish") /\ UNCHANGED <<first, logged>>
       ELSE /\ Goto(t, "record", "model")
            /\ Record(ToRecord(t))
            /\ first' = [first EXCEPT ![t] = FALSE]
    /\ UNCHANGED <<current, queues, starts, kind, item, held, rounds, aborts,
                   ops, interrupts, events>>

(* A tool call of run_turn asks the client: for an approval, for the user's input
   or to run a dynamic tool. *)
Ask(t) ==
    /\ Agent(t)
    /\ rounds[t] < MaxRounds
    /\ Goto(t, "model", "asking")
    /\ rounds' = [rounds EXCEPT ![t] = @ + 1]
    /\ UNCHANGED <<current, queues, starts, kind, item, first, held, aborts, ops,
                   interrupts, events, logged>>

(* The client answers, or an abort has dropped the sender that it would use. *)
Answered(t) ==
    /\ Goto(t, "asking", "model")
    /\ UNCHANGED <<current, queues, starts, turns, aborts, ops, interrupts,
                   events, logged>>

(* run_turn returned tool calls with their outputs: they are queued for the
   next iteration, except in a review. *)
ModelTools(t) ==
    /\ Agent(t)
    /\ rounds[t] < MaxRounds
    /\ Goto(t, "model", "drain")
    /\ rounds' = [rounds EXCEPT ![t] = @ + 1]
    /\ held' = [held EXCEPT ![t] = <<>>]
    /\ pending_input' = IF kind[t] = "review" THEN pending_input
                        ELSE Append(pending_input, ToolOutput)
    /\ UNCHANGED <<current, pending_post_turn_input, pending_user_input,
                   pending_manual_compacts, starts, kind, item, first, aborts,
                   ops, interrupts, events, logged>>

(* run_turn returned no tool call, and the loop continues: token limit reached
   and compacted, or a stop hook asks for a continuation. *)
ModelContinue(t) ==
    /\ Agent(t) /\ kind[t] # "review"
    /\ rounds[t] < MaxRounds
    /\ Goto(t, "model", "drain")
    /\ rounds' = [rounds EXCEPT ![t] = @ + 1]
    /\ held' = [held EXCEPT ![t] = <<>>]
    /\ UNCHANGED <<current, queues, starts, kind, item, first, aborts, ops,
                   interrupts, events, logged>>

(* run_turn returned the final message, failed or was interrupted.  The locals of
   the loop are gone. *)
ModelEnd(t) ==
    /\ Agent(t)
    /\ Goto(t, "model", "finish")
    /\ held' = [held EXCEPT ![t] = <<>>]
    /\ rounds' = [rounds EXCEPT ![t] = 0]
    /\ UNCHANGED <<current, queues, starts, kind, item, first, aborts, ops,
                   interrupts, events, logged>>

(* After the loop: exit_review_mode for a review. *)
Finish(t) ==
    /\ Goto(t, "finish", "remove")
    /\ exited' = IF kind[t] = "review" THEN exited \cup {t} ELSE exited
    /\ UNCHANGED <<current, queues, starts, turns, aborts, ops, interrupts,
                   completed, turn_aborted, entered, logged>>

(* Mutation of RemoveTask: whatever task is current is removed. *)
RemoveTask_Any(t) ==
    /\ Goto(t, "remove", "complete")
    /\ current' = None
    /\ UNCHANGED <<queues, starts, turns, aborts, ops, interrupts, events, logged>>

(* Session::remove_task: only if the current task is this one. *)
RemoveTask(t) ==
    /\ Goto(t, "remove", "complete")
    /\ current' = IF current = t THEN None ELSE current
    /\ UNCHANGED <<queues, starts, turns, aborts, ops, interrupts, events, logged>>

(* TaskComplete is sent; run_agent goes on to its follow-up, run_compact_task
   returns. *)
Complete(t) ==
    /\ Goto(t, "complete", IF Agent(t) THEN "followup" ELSE "done")
    /\ completed' = completed \cup {t}
    /\ UNCHANGED <<current, queues, starts, turns, aborts, ops, interrupts,
                   turn_aborted, exited, entered, logged>>

(* Mutation of FollowUp: the queued input is copied, not removed. *)
FollowUp_Copies(t) ==
    /\ pc[t] = "followup"
    /\ pending_user_input # <<>>
    /\ pc' = [pc EXCEPT ![t] = "hooks"]
    /\ arg' = [arg EXCEPT ![t] = [kind |-> "user", item |-> Head(pending_user_input)]]
    /\ UNCHANGED <<current, queues, new, turns, aborts, ops, interrupts,
                   events, logged>>

(* take_follow_up_turn_action and the dispatch of handle_follow_up_action: post-
   turn input first, then a manual compaction, pending input, queued user input. *)
FollowUp(t) ==
    /\ pc[t] = "followup"
    /\ \/ /\ pending_post_turn_input # <<>>
          /\ pending_input' = pending_input \o pending_post_turn_input
          /\ pending_post_turn_input' = <<>>
          /\ pc' = [pc EXCEPT ![t] = "idle_check"]
          /\ arg' = [arg EXCEPT ![t] = [kind |-> "post", item |-> NoInput]]
          /\ UNCHANGED <<pending_user_input, pending_manual_compacts>>
       \/ /\ pending_post_turn_input = <<>>
          /\ pending_manual_compacts > 0
          /\ pending_manual_compacts' = pending_manual_compacts - 1
          /\ pc' = [pc EXCEPT ![t] = "spawn"]
          /\ arg' = [arg EXCEPT ![t] = [kind |-> "compact", item |-> NoInput]]
          /\ UNCHANGED <<pending_input, pending_post_turn_input, pending_user_input>>
       \/ /\ pending_post_turn_input = <<>> /\ pending_manual_compacts = 0
          /\ pending_input # <<>>
          /\ pc' = [pc EXCEPT ![t] = "idle_check"]
          /\ arg' = [arg EXCEPT ![t] = [kind |-> "pending", item |-> NoInput]]
          /\ UNCHANGED queues
       \/ /\ pending_post_turn_input = <<>> /\ pending_manual_compacts = 0
          /\ pending_input = <<>> /\ pending_user_input # <<>>
          /\ pending_user_input' = Tail(pending_user_input)
          /\ pc' = [pc EXCEPT ![t] = "hooks"]
          /\ arg' = [arg EXCEPT ![t] =
                       [kind |-> "user", item |-> Head(pending_user_input)]]
          /\ UNCHANGED <<pending_input, pending_post_turn_input,
                         pending_manual_compacts>>
       \/ /\ pending_post_turn_input = <<>> /\ pending_manual_compacts = 0
          /\ pending_input = <<>> /\ pending_user_input = <<>>
          /\ pc' = [pc EXCEPT ![t] = "done"]
          /\ UNCHANGED <<queues, arg>>
    /\ UNCHANGED <<current, new, turns, aborts, ops, interrupts, events, logged>>

-----------------------------------------------------------------------------
(* run_compact_task: one compaction, remote or local. *)
CompactStart(t) ==
    /\ ~Agent(t)
    /\ Goto(t, "start", "model")
    /\ UNCHANGED <<current, queues, starts, turns, aborts, ops, interrupts,
                   events, logged>>

CompactOk(t) ==
    /\ ~Agent(t)
    /\ Goto(t, "model", "remove")
    /\ UNCHANGED <<current, queues, starts, turns, aborts, ops, interrupts,
                   events, logged>>

(* perform_compaction returned an error before it reached remove_task. *)
CompactFail(t) ==
    /\ ~Agent(t)
    /\ Goto(t, "model", "complete")
    /\ UNCHANGED <<current, queues, starts, turns, aborts, ops, interrupts,
                   events, logged>>

-----------------------------------------------------------------------------
(* tokio cancels an aborted task at the next await where it would block; a
   stretch of code that does not block still runs. *)
Die(t) ==
    /\ aborted[t]
    /\ pc[t] \in {"start", "drain", "record", "model", "asking", "finish", "hooks"}
    /\ pc' = [pc EXCEPT ![t] = "dead"]
    /\ UNCHANGED <<current, queues, starts, turns, aborts, ops, interrupts,
                   events, logged>>


(* The detached half of AgentTask::abort: exit_review_mode for a review, then
   TurnAborted. *)
Notify(t) ==
    /\ t \in notices
    /\ notices' = notices \ {t}
    /\ turn_aborted' = turn_aborted \cup {t}
    /\ exited' = IF kind[t] = "review" THEN exited \cup {t} ELSE exited
    /\ UNCHANGED <<current, queues, pc, starts, turns, aborted, taken, ops,
                   interrupts, completed, entered, logged>>

-----------------------------------------------------------------------------
Submit(n) ==
    \/ /\ Free(Loop)
       /\ \/ UserInput(n) \/ QueueUserInput(n) \/ Interrupt(n) \/ Shutdown(n)
          \/ ApprovalAbort(n) \/ Developer(n) \/ PostTurn(n)
          \/ Compact(n) \/ Review(n)
    \/ AgentWake(n)

StartTurn(p) ==
    \/ IdleCheck(p) \/ HooksPass(p) \/ HooksBlock(p)
    \/ Spawn(p) \/ SetTask(p) \/ AnnounceReview(p)

LoopStep == QueuePush \/ PostIdle \/ CompactQueue \/ StartTurn(Loop)

AbortStep(n) == RunInterrupt(n) \/ \E t \in Tasks : CancelTaken(n, t)

TaskStep(t) ==
    \/ Start(t) \/ StartReturns(t) \/ Drain(t) \/ RecordPending(t) \/ Ask(t)
    \/ ModelTools(t) \/ ModelContinue(t) \/ ModelEnd(t)
    \/ Finish(t) \/ RemoveTask(t) \/ Complete(t) \/ FollowUp(t)
    \/ CompactStart(t) \/ CompactOk(t) \/ CompactFail(t)
    \/ StartTurn(t) \/ Die(t)

Next ==
    \/ \E n \in Inputs : Submit(n) \/ AbortStep(n)
    \/ LoopStep \/ StartTurn(Wake)
    \/ \E t \in Tasks : TaskStep(t) \/ Answered(t) \/ Notify(t)

(* tokio polls every task that is ready; model requests, commands and hooks end,
   because the provider client, exec and the hook runner have timeouts.  Nothing
   is assumed of the clients: a question may stay unanswered for ever. *)
Fairness ==
    /\ \A n \in Inputs : WF_vars(AbortStep(n))
    /\ WF_vars(LoopStep) /\ WF_vars(StartTurn(Wake))
    /\ \A t \in Tasks : WF_vars(TaskStep(t)) /\ WF_vars(Notify(t))

Spec == Init /\ [][Next]_vars /\ Fairness

-----------------------------------------------------------------------------
(* Every turn that is running and was not cancelled is the session's current
   task, is about to be made so, or was taken out of current_task by an abort
   that is about to cancel it: no turn runs on that nobody can or will stop.
   set_task aborts what it replaces, abort cancels what it took, and remove_task
   compares the sub_id. *)
ActiveTurnIsCurrent ==
    \A t \in Tasks :
        pc[t] \in BusyPc /\ ~aborted[t] =>
            \/ t = current
            \/ \E p \in Procs : pc[p] = "set" /\ new[p] = t
            \/ \E n \in Inputs : <<n, t>> \in taken

(* The session implements TurnSlot: its slot is current_task, a turn is offered
   from AgentTask::spawn to set_task, evicted from the moment abort takes it to
   the moment it is cancelled, and works until it is cancelled or its own
   remove_task is done. *)
Slot == INSTANCE TurnSlot WITH
            Turns   <- Tasks,
            spawned <- {t \in Tasks : pc[t] # "unborn"},
            offered <- {t \in Tasks : \E p \in Procs : pc[p] = "set" /\ new[p] = t},
            slot    <- current,
            evicted <- {t \in Tasks : \E n \in Inputs : <<n, t>> \in taken},
            active  <- {t \in Tasks : pc[t] \in BusyPc /\ ~aborted[t]}

(* Whoever starts, interrupts, replaces or ends turns, and whichever of them
   overtake each other, all see one slot: a turn works only before it is
   installed, in the slot, or between being taken out and cancelled, and nobody
   takes out or brings back another's turn. *)
TurnsShareOneSlot == Slot!Spec

(* A message starts at most one turn, although the loop and every finished task
   start turns from the same queue. *)
OneTurnPerInput ==
    \A t, u \in Tasks :
        /\ pc[t] # "unborn" /\ pc[u] # "unborn"
        /\ kind[t] = "user" /\ kind[u] = "user" /\ item[t] = item[u]
        => t = u

(* "The rollout file ... should only record the new items that originated in
   this turn so that it represents an append-only log without duplicates": with
   messages, queued messages and compactions in any order no input is recorded
   in the history more than once, whoever aborts the turn that took it.  Reviews are outside its scope:
   they are given copies of the queued messages. *)
NoDuplicateRecords == \A i \in Inputs : logged[i] < 2



(* Op::UserInput aborts synchronously "to avoid a race that can kill the newly
   spawned agent if the async abort runs after set_task": the abort of an
   earlier Interrupt never cancels the turn of a later message. *)
InterruptSparesLaterTurns ==
    [][\A n \in Inputs, t \in Tasks :
          /\ <<n, t>> \in taken \ taken' /\ ops[n] = "Interrupt"
          /\ aborted'[t] /\ kind[t] = "user"
          => item[t] < n]_vars
=============================================================================
