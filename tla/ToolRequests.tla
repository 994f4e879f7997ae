---------------------------- MODULE ToolRequests ----------------------------
(***************************************************************************)
(* Tool calls that wait for an answer of the client: command and patch     *)
(* approvals, request_user_input and client-side (dynamic) tools           *)
(* (core/src/codex/session.rs, streaming.rs, apply_patch.rs).              *)
(*                                                                         *)
(* A turn runs its tool calls one after the other.  Each such call creates *)
(* a oneshot channel, leaves the sender in a map of the session, announces *)
(* the request to the client and awaits the receiver.  submission_loop     *)
(* routes the answer; Session::abort clears the maps, which closes the     *)
(* channels, and then cancels the turn.                                    *)
(*                                                                         *)
(* A request is identified with its tool call, and the answer to it too.   *)
(* Approvals and dynamic tools are found by call_id, user input requests   *)
(* by the sub_id of their turn.                                            *)
(***************************************************************************)
EXTENDS Naturals, FiniteSets

CONSTANTS Turns,
          Approvals, UserInputs, DynamicTools,  \* tool calls of each sort
          None,
          MaxAborts     \* bound on Interrupts and aborting decisions

Calls == Approvals \cup UserInputs \cup DynamicTools

ASSUME RequestAssumption ==
    /\ None \notin Turns \cup Calls
    /\ Approvals \cap UserInputs = {}
    /\ Approvals \cap DynamicTools = {}
    /\ UserInputs \cap DynamicTools = {}
    /\ {"none", "open", "closed", "cancelled"} \cap Calls = {}
    /\ MaxAborts \in Nat

VARIABLES
    \* the session's State, guarded by its mutex
    current,    \* current_task
    pending,    \* calls whose sender is in one of the three maps
    \* the turns
    pc, call,   \* the call a turn is executing
    cancelled,  \* turns on which AgentTask::abort was called
    \* the requests
    turn,       \* the turn that made the call
    chan,       \* oneshot channel: no channel, open, closed, or the answer sent
    outcome,    \* what the tool call received
    announced,  \* calls whose request event was sent
    answered,   \* calls that the client answered
    \* submission_loop and the task of an Interrupt
    loop, interrupt, taken, spawned, aborts

session  == <<current, pending>>
requests == <<chan, outcome>>
actors   == <<loop, interrupt, taken, spawned, aborts>>
vars == <<session, pc, call, cancelled, turn, requests, announced, answered, actors>>

TypeOK ==
    /\ current \in Turns \cup {None}
    /\ pending \subseteq Calls
    /\ pc \in [Turns -> {"unborn", "run", "register", "announce", "wait", "done", "dead"}]
    /\ call \in [Turns -> Calls \cup {None}]
    /\ cancelled \subseteq Turns
    /\ turn \in [Calls -> Turns \cup {None}]
    /\ chan \in [Calls -> {"none", "open", "closed"} \cup Calls]
    /\ outcome \in [Calls -> {"none", "cancelled"} \cup Calls]
    /\ announced \subseteq Calls
    /\ answered \subseteq Calls
    /\ loop \in {"recv", "abort", "set"}
    /\ interrupt \in {"idle", "spawned", "abort"}
    /\ taken \in [{"loop", "interrupt"} -> Turns \cup {None}]
    /\ spawned \in Turns \cup {None}
    /\ aborts \in 0 .. MaxAborts

Init ==
    /\ current = None /\ pending = {}
    /\ pc = [t \in Turns |-> "unborn"]
    /\ call = [t \in Turns |-> None]
    /\ cancelled = {}
    /\ turn = [c \in Calls |-> None]
    /\ chan = [c \in Calls |-> "none"]
    /\ outcome = [c \in Calls |-> "none"]
    /\ announced = {}
    /\ answered = {}
    /\ loop = "recv" /\ interrupt = "idle"
    /\ taken = [a \in {"loop", "interrupt"} |-> None]
    /\ spawned = None /\ aborts = 0

Goto(t, from, to) == pc[t] = from /\ pc' = [pc EXCEPT ![t] = to]
Finished(t) == pc[t] \in {"done", "dead"}

-----------------------------------------------------------------------------
(* The turn. *)

(* Mutation of AnnouncesFirst: every request is announced before it is registered. *)
AnnouncesFirst_All(c) == TRUE

(* request_command_approval and request_patch_approval send their event before
   they insert the sender; the other requests insert first. *)
AnnouncesFirst(c) == c \in Approvals

(* A tool call that has to ask; its oneshot channel is created. *)
Ask(t, c) ==
    /\ turn[c] = None
    /\ Goto(t, "run", IF AnnouncesFirst(c) THEN "announce" ELSE "register")
    /\ call' = [call EXCEPT ![t] = c]
    /\ turn' = [turn EXCEPT ![c] = t]
    /\ chan' = [chan EXCEPT ![c] = "open"]
    /\ UNCHANGED <<session, cancelled, outcome, announced, answered, actors>>

(* Mutation of SameKey: the approvals too are kept by turn. *)
SameKey_ByTurn(c, d) ==
    \/ c = d
    \/ turn[c] = turn[d] /\ \/ c \in UserInputs /\ d \in UserInputs
                            \/ c \in Approvals /\ d \in Approvals

(* Do c and d have the same key in the same map? *)
SameKey(c, d) == \/ c = d
                 \/ c \in UserInputs /\ d \in UserInputs /\ turn[c] = turn[d]

AlreadyPending(c) == c \notin Approvals /\ \E d \in pending : SameKey(c, d)

(* The insertion into the map: register_pending_user_input and
   register_pending_dynamic_tool refuse a key that is already there. *)
Register(t) ==
    /\ pc[t] = "register"
    /\ IF AlreadyPending(call[t])
       THEN /\ pc' = [pc EXCEPT ![t] = "run"]
            /\ outcome' = [outcome EXCEPT ![call[t]] = "cancelled"]
            /\ UNCHANGED pending
       ELSE /\ pc' = [pc EXCEPT ![t] = IF AnnouncesFirst(call[t])
                                      THEN "wait" ELSE "announce"]
            /\ pending' = pending \cup {call[t]}
            /\ UNCHANGED outcome
    /\ UNCHANGED <<current, call, cancelled, turn, chan, announced, answered, actors>>

(* The request event is sent to the client. *)
Announce(t) ==
    /\ Goto(t, "announce", IF AnnouncesFirst(call[t]) THEN "register" ELSE "wait")
    /\ announced' = announced \cup {call[t]}
    /\ UNCHANGED <<session, call, cancelled, turn, requests, answered, actors>>

(* Mutation of Resolve: the error of a dropped sender is not handled. *)
Resolve_Raw(t) ==
    /\ Goto(t, "wait", "run")
    /\ chan[call[t]] # "open"
    /\ outcome' = [outcome EXCEPT ![call[t]] = chan[call[t]]]
    /\ UNCHANGED <<session, call, cancelled, turn, chan, announced, answered, actors>>

(* The receiver yields the answer, or an error if the sender was dropped; an
   approval then counts as denied, the other calls as cancelled. *)
Resolve(t) ==
    /\ Goto(t, "wait", "run")
    /\ chan[call[t]] # "open"
    /\ outcome' = [outcome EXCEPT ![call[t]] =
                     IF chan[call[t]] = "closed" THEN "cancelled" ELSE chan[call[t]]]
    /\ UNCHANGED <<session, call, cancelled, turn, chan, announced, answered, actors>>

(* The turn ends: remove_task. *)
EndTurn(t) ==
    /\ Goto(t, "run", "done")
    /\ current' = IF current = t THEN None ELSE current
    /\ UNCHANGED <<pending, call, cancelled, turn, requests, announced, answered, actors>>

(* tokio drops a cancelled turn where it would block. *)
Die(t) ==
    /\ t \in cancelled
    /\ pc[t] \in {"run", "wait"}
    /\ pc' = [pc EXCEPT ![t] = "dead"]
    /\ UNCHANGED <<session, call, cancelled, turn, requests, announced, answered, actors>>

-----------------------------------------------------------------------------
(* Session::abort, in two steps: the section under the mutex and the call of
   AgentTask::abort after it. *)
AbortClear(who) ==
    /\ pending' = {}
    /\ chan' = [c \in Calls |-> IF c \in pending THEN "closed" ELSE chan[c]]
    /\ taken' = [taken EXCEPT ![who] = current]
    /\ current' = None

AbortCancel(who) ==
    /\ cancelled' = cancelled \cup {t \in Turns : t = taken[who] /\ ~Finished(t)}
    /\ taken' = [taken EXCEPT ![who] = None]

-----------------------------------------------------------------------------
(* submission_loop. *)

(* Mutation of Answer: the sender is used but stays in the map. *)
Answer_KeepsSender(c) ==
    /\ loop = "recv"
    /\ c \in announced /\ c \notin answered
    /\ answered' = answered \cup {c}
    /\ chan' = [d \in Calls |-> IF d \in pending /\ SameKey(c, d) THEN c ELSE chan[d]]
    /\ UNCHANGED <<session, pc, call, cancelled, turn, outcome, announced, actors>>

(* Op::ExecApproval, PatchApproval, UserInputAnswer, DynamicToolResponse: the
   sender found under the answer's key is removed and used; without one the
   answer is dropped with a warning.  The client answers a request once. *)
Answer(c) ==
    /\ loop = "recv"
    /\ c \in announced /\ c \notin answered
    /\ answered' = answered \cup {c}
    /\ LET found == {d \in pending : SameKey(c, d)} IN
          /\ pending' = pending \ found
          /\ chan' = [d \in Calls |-> IF d \in found THEN c ELSE chan[d]]
    /\ UNCHANGED <<current, pc, call, cancelled, turn, outcome, announced, actors>>

(* A decision Abort, or the synchronous abort of a UserInput. *)
LoopAbort ==
    /\ loop = "recv" /\ aborts < MaxAborts
    /\ loop' = "abort" /\ aborts' = aborts + 1
    /\ AbortClear("loop")
    /\ UNCHANGED <<pc, call, cancelled, turn, outcome, announced, answered,
                   interrupt, spawned>>

LoopCancel ==
    /\ loop = "abort" /\ loop' = "recv"
    /\ AbortCancel("loop")
    /\ UNCHANGED <<session, pc, call, turn, requests, announced, answered,
                   interrupt, spawned, aborts>>

(* Op::Interrupt spawns a task that aborts. *)
Interrupt ==
    /\ loop = "recv" /\ interrupt = "idle" /\ aborts < MaxAborts
    /\ interrupt' = "spawned" /\ aborts' = aborts + 1
    /\ UNCHANGED <<session, pc, call, cancelled, turn, requests, announced,
                   answered, loop, taken, spawned>>

InterruptAbort ==
    /\ interrupt = "spawned" /\ interrupt' = "abort"
    /\ AbortClear("interrupt")
    /\ UNCHANGED <<pc, call, cancelled, turn, outcome, announced, answered, loop,
                   spawned, aborts>>

InterruptCancel ==
    /\ interrupt = "abort" /\ interrupt' = "idle"
    /\ AbortCancel("interrupt")
    /\ UNCHANGED <<session, pc, call, turn, requests, announced, answered, loop,
                   spawned, aborts>>

(* A new turn: its task runs before set_task makes it the current one; set_task
   cancels the turn it replaces and leaves the maps alone. *)
SpawnTurn(t) ==
    /\ loop = "recv" /\ loop' = "set"
    /\ Goto(t, "unborn", "run")
    /\ spawned' = t
    /\ UNCHANGED <<session, call, cancelled, turn, requests, announced, answered,
                   interrupt, taken, aborts>>

SetTask ==
    /\ loop = "set" /\ loop' = "recv"
    /\ current' = spawned /\ spawned' = None
    /\ cancelled' = cancelled \cup {t \in Turns : t = current /\ ~Finished(t)}
    /\ UNCHANGED <<pending, pc, call, turn, requests, announced, answered,
                   interrupt, taken, aborts>>

-----------------------------------------------------------------------------
TurnStep(t) ==
    \/ \E c \in Calls : Ask(t, c)
    \/ Register(t) \/ Announce(t) \/ Resolve(t) \/ EndTurn(t) \/ Die(t)

AbortStep == LoopCancel \/ SetTask \/ InterruptAbort \/ InterruptCancel

Next ==
    \/ \E t \in Turns : TurnStep(t) \/ SpawnTurn(t)
    \/ \E c \in Calls : Answer(c)
    \/ LoopAbort \/ Interrupt \/ AbortStep

(* Tasks that are ready run; the client owes no answer. *)
Fairness ==
    /\ \A t \in Turns : WF_vars(TurnStep(t))
    /\ WF_vars(LoopCancel \/ SetTask)
    /\ WF_vars(InterruptAbort \/ InterruptCancel)

Spec == Init /\ [][Next]_vars /\ Fairness

-----------------------------------------------------------------------------
(* A tool that ran with the user's consent had it: no approval, patch or dynamic
   call ever takes the answer to another call for its own, nor a cleared map
   for an answer, whatever aborts and turns overlap. *)
AnswersOwnCall ==
    \A c \in Approvals \cup DynamicTools :
        outcome[c] \in Calls => outcome[c] = c /\ c \in answered

(* request_user_input keys its entry by turn, so a second request of the turn is
   refused while the first is pending: the sequential tool calls of a turn never
   meet that refusal, whether the first was answered, cleared or cancelled. *)
NeverAlreadyPending ==
    \A t \in Turns : pc[t] = "register" => ~AlreadyPending(call[t])

(* A request for user input or of a dynamic tool that the client has seen is still
   answerable as long as the call waits: its sender is in the map, or the call
   has been told. *)
AnnouncedIsPending ==
    \A c \in announced \ Approvals : chan[c] = "open" => c \in pending

Abandoned(c) == \E t \in Turns : t = turn[c] /\ pc[t] = "dead"

(* An answered request_user_input or dynamic tool call goes on: the answer, or
   the abort that overtook it, reaches the tool. *)
AnsweredToolResumes ==
    \A c \in UserInputs \cup DynamicTools :
        c \in answered ~> outcome[c] # "none" \/ Abandoned(c)

(* Op::ExecApproval: "Approve a command execution ... The user's decision in
   response to the request": the decision reaches the waiting command. *)
DecisionReachesCall ==
    \A c \in Approvals :
        c \in answered ~> outcome[c] # "none" \/ Abandoned(c)
=============================================================================
