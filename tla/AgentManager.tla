---------------------------- MODULE AgentManager ----------------------------
(***************************************************************************)
(* Sub-agents: the AgentManager behind the global lock AGENT_MANAGER       *)
(* (core/src/agent_tool.rs), the task of each agent (execute_agent), and   *)
(* the session that starts and cancels agents and is woken when a batch    *)
(* has ended (core/src/codex/streaming.rs).                                *)
(*                                                                         *)
(* Whatever happens under one hold of the manager's write lock is one      *)
(* action.  JoinHandle::abort only marks a task: one that is suspended is  *)
(* dropped, one that the runtime happens to be polling runs on to its next *)
(* suspension and may take the lock once more.  So an aborted task is      *)
(* dropped, or takes the one step that it was about to take.               *)
(*                                                                         *)
(* A status update carries the visible agents; the session only asks which *)
(* batches it shows as ended, so an update is that set, and one that shows *)
(* none changes nothing and is not kept.  Agents of auto review, whose     *)
(* batch never wakes the session, are left out.  What an earlier session   *)
(* still receives from its own channel is left out too.                    *)
(***************************************************************************)
EXTENDS Naturals, Sequences, FiniteSets, SequencesExt

CONSTANTS
    MaxTracked,   \* MAX_TRACKED_TERMINAL_AGENTS
    MaxVisible,   \* MAX_STATUS_TERMINAL_AGENTS
    MaxWoken,     \* MAX_AGENT_COMPLETION_WAKE_BATCHES
    MaxAgents,    \* bound: agents created; agents and batches are numbered by creation
    MaxUpdates,   \* bound: updates in the channel when a child reports progress
    MaxFaults     \* bound: cancel calls, watchdog sweeps and new sessions

ASSUME AgentManagerAssumption ==
    /\ {MaxTracked, MaxVisible, MaxWoken, MaxAgents} \subseteq Nat \ {0}
    /\ {MaxUpdates, MaxFaults} \subseteq Nat
    /\ 2 * MaxVisible <= MaxWoken /\ MaxVisible <= MaxTracked

VARIABLES
    batch_id,  \* the batch of each agent, 0 before it is created
    status,    \* Agent.status; "none" where the manager has no such agent
    place,     \* "live" in `agents`, "archived" in archived_terminal_agents
    ended,     \* the live agents that have a completed_at, oldest first
    handles,   \* agents with an entry in `handles`
    aborted,   \* tasks that were told to abort
    pc,        \* where the task of each agent is
    updates,   \* the channel of the current session
    woken,     \* agent_completion_wake_order, whose elements are the wake batches
    faults,    \* how much of MaxFaults is used up
    told,      \* history: how often this session was woken for a batch, up to 2
    due        \* history: batches whose last agent ended by itself in it

mgrVars == <<batch_id, status, place, ended, handles>>
taskVars == <<aborted, pc>>
wakeVars == <<woken, told>>
vars == <<batch_id, status, place, ended, handles, aborted, pc, updates, woken, faults,
          told, due>>

Active == {"pending", "running"}
Terminal == {"completed", "failed", "cancelled"}
Over == {"reading", "gone"}
Stages == {"unborn", "new", "working", "late"} \cup Over

Agents == 1..MaxAgents
Batches == 1..MaxAgents
Created == {a \in Agents : batch_id[a] # 0}
Members(b) == {a \in Agents : batch_id[a] = b}
Live == {a \in Agents : place[a] = "live"}
Running == {a \in Live : status[a] \in Active}
LastOf(s, n) == IF Len(s) <= n THEN s ELSE SubSeq(s, Len(s) - n + 1, Len(s))
UpTo2(n) == IF n < 2 THEN n + 1 ELSE n

Fault == faults < MaxFaults /\ faults' = faults + 1

----------------------------------------------------------------------------
(* The manager. *)

\* The sequence s without the elements of S.
Without(s, S) ==
    LET kept[i \in 0..Len(s)] ==
            IF i = 0 THEN <<>>
            ELSE IF s[i] \in S THEN kept[i - 1] ELSE Append(kept[i - 1], s[i])
    IN  kept[Len(s)]

\* Of the elements of T in the sequence s, the last n.
MostRecent(s, T, n) ==
    {s[i] : i \in {i \in DOMAIN s :
        s[i] \in T /\ Cardinality({j \in DOMAIN s : j > i /\ s[j] \in T}) < n}}

TerminalIn(st) == {a \in Agents : st[a] \in Terminal}

\* Mutant: the tail that is cut off is the recent one.
ShowsOldest ==
    LET shown == {ended[i] : i \in {i \in DOMAIN ended :
                     /\ ended[i] \in TerminalIn(status)
                     /\ Cardinality({j \in DOMAIN ended : j < i /\ ended[j] \in TerminalIn(status)}) < MaxVisible}}
    IN  {b \in Batches : /\ \E a \in shown : batch_id[a] = b
                         /\ \A a \in Running : batch_id[a] # b}

\* What an update shows as ended: visible are all active agents and the
\* MaxVisible terminal ones that completed last.
EndedBatches ==
    LET shown == MostRecent(ended, TerminalIn(status), MaxVisible)
    IN  {b \in Batches : /\ \E a \in shown : batch_id[a] = b
                         /\ \A a \in Running : batch_id[a] # b}

\* It is computed after the change it reports, hence the primes.
send_agent_status_update ==
    updates' = IF EndedBatches' = {} THEN updates ELSE Append(updates, EndedBatches')

\* Mutant: the task handle of an ended agent stays.
KeepsHandle(S, to) ==
    \E order \in SetToSeqs(S) :
        LET st == [a \in Agents |-> IF a \in S THEN to ELSE status[a]]
            all == Without(ended, S) \o order
            pruned == (Range(all) \cap TerminalIn(st)) \ MostRecent(all, TerminalIn(st), MaxTracked)
        IN  /\ UNCHANGED batch_id
            /\ status' = st
            /\ ended' = Without(all, pruned)
            /\ place' = [a \in Agents |-> IF a \in pruned THEN "archived" ELSE place[a]]
            /\ handles' = handles \ pruned

\* Give the live agents S a terminal status and finalize_terminal_agent each, in
\* any order: their handles go, they complete last, and of the terminal agents
\* beyond MaxTracked the oldest are archived.
finalize_terminal_agents(S, to) ==
    \E order \in SetToSeqs(S) :
        LET st == [a \in Agents |-> IF a \in S THEN to ELSE status[a]]
            all == Without(ended, S) \o order
            pruned == (Range(all) \cap TerminalIn(st)) \ MostRecent(all, TerminalIn(st), MaxTracked)
        IN  /\ UNCHANGED batch_id
            /\ status' = st
            /\ ended' = Without(all, pruned)
            /\ place' = [a \in Agents |-> IF a \in pruned THEN "archived" ELSE place[a]]
            /\ handles' = handles \ (S \cup pruned)

\* Create the agents S in batch b.
Create(b, S) ==
    /\ batch_id' = [a \in Agents |-> IF a \in S THEN b ELSE batch_id[a]]
    /\ status' = [a \in Agents |-> IF a \in S THEN "pending" ELSE status[a]]
    /\ place' = [a \in Agents |-> IF a \in S THEN "live" ELSE place[a]]
    /\ handles' = handles \cup S
    /\ pc' = [a \in Agents |-> IF a \in S THEN "new" ELSE pc[a]]
    /\ UNCHANGED <<ended, aborted, wakeVars, faults, due>>
    /\ send_agent_status_update

NextBatch == 1 + Cardinality({batch_id[a] : a \in Created})
NextAgents(n) == {Cardinality(Created) + i : i \in 1..n}

\* Mutant: the lock is released between two agents of a batch.
OneByOne(n) ==
    /\ NextAgents(1) \subseteq Agents
    /\ \E b \in (Batches \cap {NextBatch - 1, NextBatch}) : Create(b, NextAgents(1))

\* handle_run_agent: create_agent for each of n models, as one batch and under one
\* lock.  The updates sent in between show what the last one shows.
RunAgents(n) ==
    /\ NextAgents(n) \subseteq Agents
    /\ Create(NextBatch, NextAgents(n))

\* cancel_agent for agents and batches, from Op::CancelAgents or the agent tool:
\* only an agent that has a handle is cancelled, and no update is sent.
CancelAgents(S) ==
    /\ S # {} /\ S \subseteq handles
    /\ Fault
    /\ finalize_terminal_agents(S, "cancelled")
    /\ aborted' = aborted \cup S
    /\ UNCHANGED <<pc, updates, wakeVars, due>>

\* Mutant: the watchdog looks at the last activity alone.
SweepsEnded(S) ==
    /\ S # {} /\ S \subseteq Live
    /\ Fault
    /\ finalize_terminal_agents(S, "failed")
    /\ aborted' = aborted \cup (S \cap handles)
    /\ send_agent_status_update
    /\ UNCHANGED <<pc, wakeVars, due>>

\* One sweep of the watchdog: the agents S were inactive for too long.
WatchdogSweep(S) ==
    /\ S # {} /\ S \subseteq Running
    /\ Fault
    /\ finalize_terminal_agents(S, "failed")
    /\ aborted' = aborted \cup (S \cap handles)
    /\ send_agent_status_update
    /\ UNCHANGED <<pc, wakeVars, due>>

----------------------------------------------------------------------------
(* The task of agent a: execute_agent. *)

Goto(a, p) == pc' = [pc EXCEPT ![a] = p]

\* With the lock: Running, whatever the status was, unless the manager no longer
\* knows the agent.  Both updates sent here show the same.  A task that was
\* aborted before it got here is "late": it ends at its first suspension.
Start(a) ==
    /\ pc[a] = "new"
    /\ UNCHANGED <<batch_id, place, ended, handles, aborted, wakeVars, faults, due>>
    /\ IF place[a] = "none"
       THEN Goto(a, "gone") /\ UNCHANGED <<status, updates>>
       ELSE /\ Goto(a, IF a \in aborted THEN "late" ELSE "working")
            /\ status' = [status EXCEPT ![a] = IF place[a] = "live" THEN "running" ELSE @]
            /\ send_agent_status_update

\* add_progress, by the task or by one of the tasks it spawns to read the child's
\* output, which an abort does not reach: it reports on a live agent only.
Progress(a) ==
    /\ pc[a] \in {"working", "reading"}
    /\ place[a] = "live" /\ Len(updates) < MaxUpdates
    /\ UNCHANGED <<mgrVars, taskVars, wakeVars, faults, due>>
    /\ send_agent_status_update

AllEnded(b) == \A a \in Members(b) : status[a] \in Terminal

\* The child has ended.  With the lock: update_agent_result, whatever the status
\* was.  An agent that may not run fails before it ever suspends, and one whose
\* child cannot be waited for may leave its readers behind.
Finish(a, to) ==
    /\ \/ pc[a] = "working"
       \/ pc[a] = "late" /\ to = "failed"
    /\ Goto(a, IF pc[a] = "working" /\ to = "failed" THEN "reading" ELSE "gone")
    /\ IF place[a] = "live"
       THEN /\ finalize_terminal_agents({a}, to)
            /\ send_agent_status_update
            /\ due' = IF AllEnded(batch_id[a])' THEN due \cup {batch_id[a]} ELSE due
       ELSE UNCHANGED <<mgrVars, updates, due>>
    /\ UNCHANGED <<aborted, wakeVars, faults>>

\* The runtime drops an aborted task, but not the readers it may have spawned.
Dropped(a) ==
    /\ a \in aborted /\ pc[a] \in {"new", "working", "late"}
    /\ Goto(a, IF pc[a] = "working" THEN "reading" ELSE "gone")
    /\ UNCHANGED <<mgrVars, aborted, updates, wakeVars, faults, due>>

----------------------------------------------------------------------------
(* The session. *)

\* Mutant: the newest wake is forgotten first.
ForgetsNewest(w, b) ==
    IF b \in Range(w) THEN w
    ELSE SubSeq(Append(w, b), 1, IF Len(w) < MaxWoken THEN Len(w) + 1 ELSE MaxWoken)

\* Mutant: nothing is forgotten.
NeverForgets(w, b) == IF b \in Range(w) THEN w ELSE Append(w, b)

\* One batch of agent_completion_wake_messages: it wakes the session unless it is
\* remembered, and beyond MaxWoken the oldest is forgotten.
Remember(w, b) == IF b \in Range(w) THEN w ELSE LastOf(Append(w, b), MaxWoken)

\* The wakes remembered after each of the batches in order.
Known(w, order) ==
    LET known[i \in 0..Len(order)] ==
            IF i = 0 THEN w ELSE Remember(known[i - 1], order[i])
    IN  known

\* The forwarding task handles an update; its batches come in any order.
Deliver ==
    /\ updates # <<>>
    /\ updates' = Tail(updates)
    /\ \E order \in SetToSeqs(Head(updates)) :
           LET known == Known(woken, order)
               wakes == {order[i] : i \in {j \in DOMAIN order : order[j] \notin Range(known[j - 1])}}
           IN  /\ woken' = known[Len(order)]
               /\ told' = [b \in Batches |-> IF b \in wakes THEN UpTo2(told[b]) ELSE told[b]]
    /\ UNCHANGED <<mgrVars, taskVars, faults, due>>

\* set_event_sender: a new session with a channel and a State of its own; the
\* archive is cleared, the live agents stay, ended or not.
NewSession ==
    /\ Fault
    /\ place' = [a \in Agents |-> IF place[a] = "archived" THEN "none" ELSE place[a]]
    /\ status' = [a \in Agents |-> IF place[a] = "archived" THEN "none" ELSE status[a]]
    /\ updates' = <<>> /\ woken' = <<>>
    /\ told' = [b \in Batches |-> 0] /\ due' = {}
    /\ UNCHANGED <<batch_id, ended, handles, taskVars>>

----------------------------------------------------------------------------
Init ==
    /\ batch_id = [a \in Agents |-> 0]
    /\ status = [a \in Agents |-> "none"] /\ place = [a \in Agents |-> "none"]
    /\ ended = <<>> /\ handles = {} /\ aborted = {}
    /\ pc = [a \in Agents |-> "unborn"]
    /\ updates = <<>> /\ woken = <<>>
    /\ faults = 0
    /\ told = [b \in Batches |-> 0] /\ due = {}

Task(a) ==
    \/ Start(a) \/ Progress(a) \/ Dropped(a)
    \/ \E to \in {"completed", "failed"} : Finish(a, to)

Next ==
    \/ \E n \in Agents : RunAgents(n)
    \/ \E S \in SUBSET Agents : CancelAgents(S) \/ WatchdogSweep(S)
    \/ \E a \in Agents : Task(a)
    \/ Deliver
    \/ NewSession

Spec == Init /\ [][Next]_vars

----------------------------------------------------------------------------
TypeOK ==
    /\ batch_id \in [Agents -> Batches \cup {0}]
    /\ status \in [Agents -> Active \cup Terminal \cup {"none"}]
    /\ place \in [Agents -> {"none", "live", "archived"}]
    /\ ended \in Seq(Agents) /\ handles \subseteq Agents /\ aborted \subseteq Agents
    /\ pc \in [Agents -> Stages]
    /\ updates \in Seq(SUBSET Batches)
    /\ woken \in Seq(Batches) /\ Len(woken) <= MaxWoken
    /\ faults \in 0..MaxFaults
    /\ told \in [Batches -> 0..2] /\ due \subseteq Batches

\* An agent can be cancelled exactly while it is active: its handle is there from
\* its creation to its end, whichever of its own task, the watchdog, a cancel
\* call and the pruning of old agents ends it.  The one exception is an agent
\* whose task was aborted while it ran and set the status once more.
CancellableWhileActive ==
    /\ \A a \in handles : place[a] = "live" /\ status[a] \in Active /\ a \notin aborted
    /\ \A a \in Running : a \in handles \/ a \in aborted

\* The session is told that a batch has completed only after all of its agents,
\* the one created last too, have ended; again except for an agent that its aborted task set
\* to Running once more.
WokenBatchHasEnded ==
    \A b \in Batches : told[b] > 0 =>
        Members(b) \cap Running \subseteq aborted

\* A batch wakes the session once, although the wakes remembered are capped and
\* every later update shows the ended batch again: it is out of sight before it
\* is forgotten.  Shown beside it are at most MaxVisible - 1 batches that ended
\* before it, which a new session hears of at once and in any order, and
\* MaxVisible - 1 that ended after it.  An aborted task that ended or revived an
\* agent anew disturbs this: of the batch's own agents, or as many as the cap
\* leaves room for.
WokenOnce ==
    \A b \in Batches :
        \/ told[b] < 2
        \/ Members(b) \cap aborted # {}
        \/ Cardinality(aborted) + 2 * MaxVisible > MaxWoken + 1

\* A result that update_agent_result recorded is final: no cancellation, watchdog
\* sweep or late step of a task changes it before the session's archive goes.
CompletedIsFinal ==
    [][\A a \in Agents : status[a] = "completed" => status'[a] \in {"completed", "none"}]_vars

\* No completion is lost: when the last agent of a batch ended by itself and the
\* channel is drained, the session has been woken for that batch.
FinishedBatchWakes == updates = <<>> => \A b \in due : told[b] > 0
=============================================================================
