----------------------------- MODULE AutoDrive -----------------------------
(***************************************************************************)
(* Auto Drive as the terminal UI runs it: the run controller               *)
(* (code-auto-drive-core/src/controller.rs), the handlers of the chat      *)
(* widget that drive it (tui/src/chatwidget.rs) and the coordinator thread *)
(* that asks the model for the next prompt                                 *)
(* (code-auto-drive-core/src/auto_coordinator.rs).                         *)
(*                                                                         *)
(* The UI handles one event at a time, so each handler is one action.      *)
(* Around it run, asynchronously, one coordinator thread per launch, the   *)
(* countdown threads and the restart timers: none of the last two is ever  *)
(* cancelled, and neither their events nor the coordinator's carry the     *)
(* launch they belong to.                                                  *)
(*                                                                         *)
(* The controller is a record that the controller's methods transform, as  *)
(* `&mut self` does; its goal is set throughout an active run and is left  *)
(* out.  countdown_decision_seq is left out too: auto_handle_countdown     *)
(* passes the controller's own value, so the comparison always succeeds.   *)
(* Its field stray is history: the run waits for its coordinator although  *)
(* what made it wait went past it, to the core session.                    *)
(* Time is abstract: a countdown or a timer may fire at any moment, and    *)
(* its ticks above zero only repaint.                                      *)
(***************************************************************************)
EXTENDS Naturals, Sequences, FiniteSets

CONSTANTS
    Modes,      \* the continue modes the user may choose: "timed", "manual"
    Routing,    \* auto_drive.coordinator_routing
    QueueCap,   \* MAX_QUEUED_CONVERSATION_UPDATES
    MaxRuns,    \* bound: launches
    MaxSeq,     \* bound: decisions of one coordinator after its seed
    MaxTurns,   \* bound: turns in the core session at once
    MaxEvents   \* bound: things the user does besides launching and pausing, and
                \* failures of the core session and of launching

ASSUME AutoDriveAssumption ==
    /\ Modes \subseteq {"timed", "manual"} /\ Modes # {}
    /\ Routing \in BOOLEAN
    /\ QueueCap \in Nat \ {0}
    /\ \A n \in {MaxRuns, MaxSeq, MaxTurns, MaxEvents} : n \in Nat

VARIABLES
    ctl,        \* AutoDriveController
    handle,     \* auto_handle: the launch whose coordinator it reaches, 0 for None
    goalRequest,\* auto_pending_goal_request
    coord,      \* per launch, the locals of run_auto_loop and its command channel
    events,     \* per launch, what its coordinator sent and the UI has not handled
    countdowns, \* running countdown threads
    timers,     \* pending restart timers
    turns,      \* number of turns submitted to the core session and not complete
    reviewing,  \* is_review_flow_active, or auto-resolve still blocks the run
    run,        \* launches so far
    sent,       \* history: per decision, how often its prompt went to the core
    budget      \* what is left of MaxEvents

vars == <<ctl, handle, goalRequest, coord, events, countdowns, timers, turns,
          reviewing, run, sent, budget>>
coordVars == <<coord, events>>
uiVars == <<ctl, handle, goalRequest, countdowns, timers, turns, reviewing, run, sent, budget>>

None == <<>>                            \* Option::None; Some(x) is a tuple
Blank == <<0, 0>>                       \* the empty prompt of a bootstrap
Runs == 1..MaxRuns
Decisions == Runs \X (0..MaxSeq)        \* <<launch, seq>>
Statuses == {"planning", "continue", "omitted", "success", "transient", "failed"}

\* AutoRunPhase; AwaitingDiagnostics is "coordWait" or "turnWait" by its flag,
\* AwaitingCoordinator{prompt_ready} is "ready", and Launching never outlives
\* the handler that enters it.
ActivePhases ==
    {"active", "paused", "ready", "coordWait", "turnWait", "review", "recovery"}
Phases == ActivePhases \cup {"idle", "goalEntry"}
is_active(c) == c.phase \in ActivePhases
is_waiting_for_response(c) == c.phase \in {"coordWait", "turnWait"}

----------------------------------------------------------------------------
(* The controller's methods. *)

Default == [phase |-> "idle", prompt |-> None, countdownId |-> 0, restartToken |-> 0,
            pendingRestart |-> None, attempts |-> 0, lock |-> FALSE,
            stopMsg |-> FALSE, mode |-> "timed", stray |-> FALSE]

\* Everything but the settings and pending_stop_message falls back to default.
reset(c) == [Default EXCEPT !.stopMsg = c.stopMsg, !.mode = c.mode]

\* prepare_launch, then launch_succeeded or launch_failed.
launched(c, ok) == [reset(c) EXCEPT !.phase = IF ok THEN "coordWait" ELSE "goalEntry"]

stop_run(c) == [reset(c) EXCEPT !.phase = "goalEntry", !.stopMsg = FALSE]

pause_for_transient_failure(c) ==
    [c EXCEPT !.prompt = None, !.phase = "recovery", !.attempts = @ + 1,
              !.restartToken = @ + 1,
              !.pendingRestart = <<c.restartToken + 1, c.attempts + 1>>]

\* Mutant: the new countdown keeps the number of the last one.
SameCountdownId(c, p) == [c EXCEPT !.prompt = p, !.phase = "ready"]

schedule_cli_prompt(c, p) ==
    [c EXCEPT !.prompt = p, !.phase = "ready", !.countdownId = @ + 1]

on_prompt_submitted(c) == [c EXCEPT !.phase = "coordWait", !.stray = FALSE]
set_coordinator_waiting(c, w) ==
    [c EXCEPT !.phase = IF w THEN "coordWait"
                        ELSE IF @ = "coordWait" THEN "turnWait" ELSE @]
on_resume_from_manual(c) == [c EXCEPT !.phase = "active"]
on_complete_review(c) == [c EXCEPT !.phase = "active", !.lock = FALSE]
on_recovery_attempt(c) == [c EXCEPT !.phase = IF @ = "recovery" THEN "active" ELSE @]

\* The new guard is tried for before the old one is dropped, so a run that
\* holds the lock finds it busy and loses it; without it the run goes on.
on_begin_review(c, free) ==
    [c EXCEPT !.phase = IF free /\ ~c.lock THEN "review" ELSE "active",
              !.lock = free /\ ~c.lock]

----------------------------------------------------------------------------
(* The coordinator thread of launch r: run_auto_loop.  It has at most one  *)
(* decision unacknowledged and queues the conversations that arrive        *)
(* meanwhile, dropping the oldest beyond QueueCap.  Between "asking" the    *)
(* model, "replying" to the user and receiving a command ("loop") it does  *)
(* not block, so the top of the loop belongs to the step before it.        *)

Stopped == [pc |-> "stopped", cancelled |-> FALSE, ack |-> None, queue |-> 0,
            seq |-> 0, cmds |-> <<>>]

\* Mutant: the cap is checked against the length after the push.
CapOffByOne(n) == IF n > QueueCap THEN QueueCap ELSE n + 1

queue_update_capped(n) == IF n >= QueueCap THEN QueueCap ELSE n + 1

\* The top of the loop, with or without a pending conversation: it waits for the
\* acknowledgement or is asked about, and so is the oldest queued one.
LoopTop(c, conv) ==
    IF c.ack # None
    THEN [c EXCEPT !.pc = "loop", !.queue = IF conv THEN queue_update_capped(@) ELSE @]
    ELSE IF ~conv /\ c.queue = 0 THEN [c EXCEPT !.pc = "loop"]
    ELSE IF c.cancelled THEN Stopped
    ELSE [c EXCEPT !.pc = "asking", !.queue = IF conv THEN @ ELSE @ - 1]

\* A thread that derives its goal asks at once; any other first sends the
\* planning seed as decision 0, without the model.
Started(derive) ==
    LoopTop([Stopped EXCEPT !.ack = IF derive THEN None ELSE <<0>>], derive)
SeedEvents(r, derive) ==
    IF derive THEN <<>> ELSE <<[kind |-> "planning", of |-> <<r, 0>>]>>

Emit(r, e) == events' = [events EXCEPT ![r] = Append(@, e)]

\* The model answered with a decision; a failed one ends the thread, as the
\* turn cap and an answer that stayed invalid do.
CoordDecide(r, status) ==
    LET s == coord[r].seq + 1 IN
    /\ coord[r].pc = "asking" /\ s <= MaxSeq
    /\ coord' = [coord EXCEPT ![r] =
          IF status \in {"transient", "failed"} THEN Stopped
          ELSE LoopTop([@ EXCEPT !.seq = s, !.ack = <<s>>], FALSE)]
    /\ Emit(r, [kind |-> status, of |-> <<r, s>>])
    /\ UNCHANGED uiVars

\* The answer did not pass validation: the conversation, with the error appended,
\* is pending again.  consecutive_decision_failures only bounds how often; the
\* decision that gives up is a failed one.
CoordRetry(r) ==
    /\ coord[r].pc = "asking"
    /\ coord' = [coord EXCEPT ![r] = LoopTop(@, TRUE)]
    /\ UNCHANGED <<events, uiVars>>

\* A cancelled request returns AutoCoordinatorCancelled.
CoordCancelled(r) ==
    /\ coord[r].pc = "asking" /\ coord[r].cancelled
    /\ coord' = [coord EXCEPT ![r] = Stopped]
    /\ UNCHANGED <<events, uiVars>>

\* What a command does to a thread that waits for one.
Received(c, k) ==
    CASE k.cmd = "ack" ->
           LoopTop(IF c.ack = <<k.seq>> THEN [c EXCEPT !.ack = None] ELSE c, FALSE)
      [] k.cmd = "user" -> [c EXCEPT !.pc = "replying"]
      [] k.cmd = "update" -> LoopTop(c, TRUE)
      [] k.cmd = "stop" -> Stopped

\* A thread that waits takes the command at once, for nobody can tell when; what
\* is sent to one that asks or replies is kept, and to one that has ended lost.
Delivered(c, command) ==
    IF c.pc = "stopped" THEN c
    ELSE IF c.pc = "loop" /\ c.cmds = <<>> THEN Received(c, command)
    ELSE [c EXCEPT !.cmds = Append(@, command)]
Command(k, r, command) == [k EXCEPT ![r] = Delivered(@, command)]

\* The next command kept while the thread was busy.
CoordReceive(r) ==
    /\ coord[r].pc = "loop" /\ coord[r].cmds # <<>>
    /\ coord' = [coord EXCEPT ![r] =
          Received([coord[r] EXCEPT !.cmds = Tail(@)], Head(coord[r].cmds))]
    /\ UNCHANGED <<events, uiVars>>

\* The answer to a user prompt: on success the conversation is asked about next.
CoordReply(r, ok, command) ==
    /\ coord[r].pc = "replying" /\ (command => ok)
    /\ coord' = [coord EXCEPT ![r] = LoopTop(@, ok)]
    /\ Emit(r, [kind |-> IF command THEN "replyCommand" ELSE "reply", of |-> <<r, 0>>])
    /\ UNCHANGED uiVars

Coordinator(r) ==
    \/ \E status \in Statuses \ {"planning"} : CoordDecide(r, status)
    \/ CoordRetry(r)
    \/ CoordCancelled(r)
    \/ CoordReceive(r)
    \/ \E ok, command \in BOOLEAN : CoordReply(r, ok, command)

----------------------------------------------------------------------------
(* Parts of the widget's handlers.  Each takes the controller c and the    *)
(* coordinators k as the handler has left them and fixes ctl', coord',     *)
(* handle' and goalRequest'; NoTurn says that no turn is submitted.        *)

\* Mutant: the decision is not acknowledged.
ForgetAck(k, s) == k
AckDecision(k, s) == IF handle = 0 THEN k ELSE Command(k, handle, [cmd |-> "ack", seq |-> s])

\* CancelCoordinator: the handle is taken, its token cancelled, Stop sent.
CancelCoordinator(k) ==
    IF handle = 0 \/ k[handle].pc = "stopped" THEN k
    ELSE Command([k EXCEPT ![handle].cancelled = TRUE], handle, [cmd |-> "stop"])

\* Counted by MaxEvents.
Uses == budget > 0 /\ budget' = budget - 1
NoTurn == UNCHANGED <<turns, sent>>
Keep(c, k, g) == ctl' = c /\ coord' = k /\ goalRequest' = g /\ UNCHANGED handle

auto_stop(c, k) ==
    /\ ctl' = stop_run(c) /\ coord' = CancelCoordinator(k)
    /\ handle' = 0 /\ goalRequest' = FALSE

\* Sending fails when the thread has ended.
auto_send_conversation_force(c, k, g) ==
    \/ /\ handle = 0
       /\ Keep(c, k, g)
    \/ /\ handle # 0 /\ k[handle].pc = "stopped"
       /\ auto_stop(c, k)
    \/ /\ handle # 0 /\ k[handle].pc # "stopped"
       /\ Keep([set_coordinator_waiting(on_prompt_submitted(c), TRUE) EXCEPT !.prompt = None],
               Command(k, handle, [cmd |-> "update"]), g)

auto_send_conversation(c, k) ==
    IF is_waiting_for_response(c) THEN Keep(c, k, goalRequest)
    ELSE auto_send_conversation_force(on_complete_review(c), k, goalRequest)

CountSent(p) == [d \in Decisions |-> IF d = p THEN sent[d] + 1 ELSE sent[d]]

\* Mutant: the phase is left for the turn to change.
DispatchStaysReady(c, k) ==
    /\ turns < MaxTurns
    /\ ctl' = c /\ coord' = k /\ goalRequest' = FALSE
    /\ turns' = turns + 1 /\ sent' = CountSent(c.prompt)
    /\ UNCHANGED handle

auto_dispatch_cli_prompt(c, k) ==
    /\ turns < MaxTurns
    /\ ctl' = set_coordinator_waiting(on_prompt_submitted(c), FALSE)
    /\ coord' = k /\ goalRequest' = FALSE
    /\ turns' = turns + 1
    /\ sent' = CountSent(c.prompt)
    /\ UNCHANGED handle

auto_submit_prompt(c, k, g) ==
    \/ g /\ auto_send_conversation_force(c, k, FALSE) /\ NoTurn
    \/ ~g /\ c.prompt \in {None, Blank} /\ auto_stop(c, k) /\ NoTurn
    \/ ~g /\ c.prompt \notin {None, Blank} /\ auto_dispatch_cli_prompt(c, k)

\* StartCountdown: Manual mode has no countdown.
StartCountdown(c, r) ==
    countdowns' = IF c.mode = "manual" THEN countdowns
                  ELSE countdowns \cup {[run |-> r, id |-> c.countdownId, by |-> c.prompt]}

\* Mutant: the handle is dropped without cancelling its coordinator.
PauseWithoutCancel(c, k) ==
    LET p == pause_for_transient_failure(c) IN
    /\ ctl' = p /\ coord' = k /\ handle' = 0
    /\ timers' = timers \cup {[run |-> run, restart |-> p.pendingRestart]}
    /\ NoTurn

\* Mutant: a timer is started only if none is pending.
OneTimerAtATime(c, k) ==
    LET p == pause_for_transient_failure(c) IN
    /\ ctl' = p /\ coord' = CancelCoordinator(k) /\ handle' = 0
    /\ timers' = IF timers = {} THEN {[run |-> run, restart |-> p.pendingRestart]} ELSE timers
    /\ NoTurn

\* auto_pause_for_transient_failure with its ScheduleRestart effect.
auto_pause_for_transient_failure(c, k) ==
    LET p == pause_for_transient_failure(c) IN
    /\ ctl' = p /\ coord' = CancelCoordinator(k) /\ handle' = 0
    /\ timers' = timers \cup {[run |-> run, restart |-> p.pendingRestart]}
    /\ NoTurn

\* auto_launch_with_goal with the coordinators k, the handle h and the goal request
\* g; the controller ends as up, or as down if the thread fails to start, which
\* shows the goal entry panel.
auto_launch_with_goal(up, down, k, h, g, derive) ==
    /\ run < MaxRuns /\ run' = run + 1
    /\ \/ /\ ctl' = up
          /\ handle' = run + 1 /\ goalRequest' = g
          /\ coord' = [k EXCEPT ![run + 1] = Started(derive)]
          /\ events' = [events EXCEPT ![run + 1] = SeedEvents(run + 1, derive)]
       \/ /\ budget > 0
          /\ ctl' = down
          /\ handle' = h /\ goalRequest' = FALSE /\ coord' = k
          /\ UNCHANGED events
    /\ budget' = IF handle' = run + 1 THEN budget ELSE budget - 1
    /\ NoTurn /\ UNCHANGED reviewing

----------------------------------------------------------------------------
(* What the user does. *)

\* /auto stops the active run first.
StoppedCtl == IF is_active(ctl) THEN stop_run(ctl) ELSE ctl
StoppedCoord == IF is_active(ctl) THEN CancelCoordinator(coord) ELSE coord
StoppedHandle == IF is_active(ctl) THEN 0 ELSE handle

\* `/auto <goal>`.
AutoGoal ==
    /\ auto_launch_with_goal(launched(StoppedCtl, TRUE), launched(StoppedCtl, FALSE),
                             StoppedCoord, StoppedHandle, goalRequest /\ ~is_active(ctl), FALSE)
    /\ UNCHANGED <<countdowns, timers>>

\* `/auto`: derive the goal from the history, after a countdown on an empty prompt.
AutoBootstrap ==
    /\ auto_launch_with_goal(schedule_cli_prompt(launched(StoppedCtl, TRUE), Blank),
                             launched(StoppedCtl, FALSE),
                             StoppedCoord, StoppedHandle, TRUE, TRUE)
    /\ IF is_active(ctl') THEN StartCountdown(ctl', run') ELSE UNCHANGED countdowns
    /\ UNCHANGED timers

\* `/auto` with nothing to derive a goal from: the goal entry panel.
AutoGoalEntry ==
    /\ Uses
    /\ ctl' = [reset(StoppedCtl) EXCEPT !.phase = "goalEntry"]
    /\ coord' = StoppedCoord /\ handle' = StoppedHandle /\ goalRequest' = FALSE
    /\ UNCHANGED <<events, countdowns, timers, turns, sent, reviewing, run>>

\* Esc on the panel.
auto_exit_goal_entry ==
    /\ Uses
    /\ ctl.phase = "goalEntry" /\ ctl' = reset(ctl)
    /\ UNCHANGED <<handle, goalRequest, coordVars, countdowns, timers, turns, reviewing, run, sent>>

\* Esc on an active run, /undo, or a new chat.
Stop ==
    /\ Uses
    /\ is_active(ctl) /\ auto_stop(ctl, coord) /\ NoTurn
    /\ UNCHANGED <<events, countdowns, timers, reviewing, run>>

\* Enter on a prompt that is ready.
SubmitKey ==
    /\ Uses
    /\ ctl.phase = "ready" /\ auto_submit_prompt(ctl, coord, goalRequest)
    /\ UNCHANGED <<events, countdowns, timers, reviewing, run>>

\* 'e' or Esc on a prompt that is ready: the countdown is orphaned.
auto_pause_for_manual_edit ==
    /\ ctl.phase = "ready"
    /\ ctl' = [ctl EXCEPT !.phase = "paused", !.countdownId = @ + 1]
    /\ UNCHANGED <<handle, goalRequest, coordVars, countdowns, timers, turns, reviewing, run, sent,
                   budget>>

\* The settings pane changes the continue mode.
update_continue_mode(mode) ==
    LET ready == ctl.phase = "ready"
        c == [ctl EXCEPT !.mode = mode, !.countdownId = IF ready THEN @ + 1 ELSE @]
    IN /\ Uses
       /\ mode # ctl.mode /\ ctl' = c
       /\ IF ready THEN StartCountdown(c, run) ELSE UNCHANGED countdowns
       /\ UNCHANGED <<handle, goalRequest, coordVars, timers, turns, reviewing, run, sent>>

\* finalize_sent_user_message: a message is a turn of the core session, and a run
\* paused for an edit goes to wait for the coordinator; asked says that it is at
\* work on the run.
SubmitTurn(asked) ==
    /\ turns < MaxTurns /\ turns' = turns + 1
    /\ ctl' = IF ctl.phase = "paused"
              THEN [on_prompt_submitted(ctl) EXCEPT !.stray = ~asked] ELSE ctl

\* A message of the user.  With routing it goes to the coordinator, unless it is a
\* slash command that expands to a prompt (any other has an action of its own or
\* leaves the run alone).  If the coordinator is out of reach, the widget answers
\* some messages itself and sends the conversation; the rest, as everything else,
\* are turns of the core session.
SubmitUserMessage(slash) ==
    LET routes == ~slash /\ is_active(ctl) /\ Routing
        reached == handle # 0 /\ coord[handle].pc # "stopped"
        edited == IF ctl.phase = "paused" THEN ctl.prompt ELSE None
    IN /\ Uses
       /\ \/ /\ routes /\ reached
             /\ Keep(set_coordinator_waiting(on_prompt_submitted(ctl), TRUE),
                     Command(coord, handle, [cmd |-> "user"]), goalRequest)
             /\ NoTurn
          \/ /\ routes /\ ~reached /\ ctl.phase # "paused"
             /\ auto_send_conversation_force(ctl, coord, goalRequest) /\ NoTurn
          \/ /\ ~(routes /\ reached)
             /\ SubmitTurn(FALSE) /\ sent' = CountSent(edited)
             /\ UNCHANGED <<handle, goalRequest, coord>>
       /\ UNCHANGED <<events, countdowns, timers, reviewing, run>>

----------------------------------------------------------------------------
(* Events of the coordinator, of the countdowns and of the restart timers. *)

Handled(r) == events' = [events EXCEPT ![r] = Tail(@)]

\* auto_handle_decision up to its match on the status.
Decided(e) ==
    LET d == IF e.kind \in {"planning", "continue"} THEN e.of ELSE None
        c == on_resume_from_manual([ctl EXCEPT !.prompt = d])
    IN IF e.kind \in {"transient", "failed"} THEN c
       ELSE on_recovery_attempt([c EXCEPT !.attempts = 0, !.pendingRestart = None])

auto_handle_decision(r) ==
    LET e == Head(events[r])
        c == Decided(e)
        k == AckDecision(coord, e.of[2])
    IN /\ events[r] # <<>> /\ e.kind \in Statuses
       /\ Handled(r)
       /\ \/ /\ ~is_active(ctl)
             /\ Keep(ctl, k, goalRequest) /\ NoTurn /\ UNCHANGED <<countdowns, timers>>
          \/ /\ is_active(ctl) /\ e.kind \in {"omitted", "failed"}
             /\ auto_stop(c, k) /\ NoTurn /\ UNCHANGED <<countdowns, timers>>
          \/ /\ is_active(ctl) /\ e.kind = "planning"
             /\ auto_dispatch_cli_prompt(c, k) /\ UNCHANGED <<countdowns, timers>>
          \/ /\ is_active(ctl) /\ e.kind = "continue"
             /\ Keep(schedule_cli_prompt(c, e.of), k, FALSE) /\ NoTurn
             /\ StartCountdown(schedule_cli_prompt(c, e.of), run) /\ UNCHANGED timers
          \/ /\ is_active(ctl) /\ e.kind = "success"
             /\ LET s == schedule_cli_prompt([c EXCEPT !.stopMsg = TRUE], e.of)
                IN StartCountdown(s, run) /\ auto_submit_prompt(s, k, FALSE)
             /\ UNCHANGED timers
          \/ /\ is_active(ctl) /\ e.kind = "transient"
             /\ auto_pause_for_transient_failure(c, k) /\ goalRequest' = FALSE
             /\ UNCHANGED countdowns
       /\ UNCHANGED <<reviewing, run, budget>>

\* The reply is not checked against the run: without a command the controller
\* becomes active, and a command is a turn.  A slash command is dispatched as
\* `/auto`, in an event of its own.
auto_handle_user_reply(r) ==
    LET e == Head(events[r]) IN
    /\ events[r] # <<>> /\ e.kind \in {"reply", "replyCommand"}
    /\ Handled(r)
    /\ \/ /\ e.kind = "reply"
          /\ ctl' = [ctl EXCEPT !.phase = "active"] /\ UNCHANGED turns
       \/ e.kind = "replyCommand" /\ SubmitTurn(r = handle)
       \/ e.kind = "replyCommand" /\ UNCHANGED <<ctl, turns>>
    /\ UNCHANGED <<handle, goalRequest, coord, countdowns, timers, reviewing, run, sent, budget>>

\* The last tick of a countdown: submits if its number is the current one.
auto_handle_countdown(t) ==
    /\ countdowns' = countdowns \ {t}
    /\ IF ctl.phase = "ready" /\ t.id = ctl.countdownId
       THEN auto_submit_prompt(ctl, coord, goalRequest)
       ELSE Keep(ctl, coord, goalRequest) /\ NoTurn
    /\ UNCHANGED <<events, timers, reviewing, run, budget>>

\* A restart timer: relaunches if its token and attempt are the pending ones.
auto_handle_restart(t) ==
    LET resumed == [on_recovery_attempt(ctl) EXCEPT !.pendingRestart = None]
        again(ok) == [launched(resumed, ok) EXCEPT !.attempts = ctl.attempts]
    IN /\ timers' = timers \ {t}
       /\ \/ /\ ctl.phase = "recovery" /\ ctl.pendingRestart = t.restart
             /\ auto_launch_with_goal(again(TRUE), again(FALSE), coord, handle, goalRequest, FALSE)
          \/ /\ ~(ctl.phase = "recovery" /\ ctl.pendingRestart = t.restart)
             /\ Keep(ctl, coord, goalRequest) /\ NoTurn
             /\ UNCHANGED <<events, reviewing, run, budget>>
       /\ UNCHANGED countdowns

----------------------------------------------------------------------------
(* Events of the core session. *)

\* A final answer of a turn.  While a stop message is pending it is taken for
\* the answer to the completion check: anything but "not complete" stops the run.
insert_final_answer(complete) ==
    /\ turns > 0 /\ ctl.stopMsg
    /\ IF complete THEN auto_stop(ctl, coord)
       ELSE auto_send_conversation_force([ctl EXCEPT !.stopMsg = FALSE, !.phase = "active"],
                                         coord, goalRequest)
    /\ NoTurn
    /\ UNCHANGED <<events, countdowns, timers, reviewing, run, budget>>

\* A turn is over.  The run goes on unless it waits for the coordinator; a
\* foreground review is waited for if the lock can be had.
auto_on_turn_complete(free) ==
    /\ turns > 0 /\ turns' = turns - 1
    /\ LET c == on_resume_from_manual(ctl)
           d == IF reviewing THEN on_begin_review(c, free) ELSE on_complete_review(c)
       IN \/ ctl.phase # "turnWait" /\ Keep(ctl, coord, goalRequest)
          \/ ctl.phase = "turnWait" /\ d.phase = "review" /\ Keep(d, coord, goalRequest)
          \/ ctl.phase = "turnWait" /\ d.phase # "review" /\ auto_send_conversation(d, coord)
    /\ UNCHANGED <<sent, events, countdowns, timers, reviewing, run, budget>>

\* An error of the core session pauses an active run, whatever it was doing.
on_error ==
    /\ turns > 0
    /\ Uses
    /\ is_active(ctl) /\ auto_pause_for_transient_failure(ctl, coord)
    /\ UNCHANGED <<goalRequest, events, countdowns, reviewing, run>>

\* EnteredReviewMode.
BeginReview(free) ==
    /\ Uses
    /\ ~reviewing /\ reviewing' = TRUE
    /\ ctl' = IF is_active(ctl) THEN on_begin_review(ctl, free) ELSE ctl
    /\ UNCHANGED <<handle, goalRequest, coordVars, countdowns, timers, turns, run, sent>>

\* The review and its auto-resolve rounds are over: maybe_resume_auto_after_review.
EndReview ==
    /\ reviewing /\ reviewing' = FALSE
    /\ IF ctl.phase = "review" THEN auto_send_conversation(on_complete_review(ctl), coord)
       ELSE Keep(ctl, coord, goalRequest)
    /\ NoTurn
    /\ UNCHANGED <<events, countdowns, timers, run, budget>>

----------------------------------------------------------------------------
Init ==
    /\ ctl = Default
    /\ handle = 0 /\ goalRequest = FALSE
    /\ coord = [r \in Runs |-> Stopped]
    /\ events = [r \in Runs |-> <<>>]
    /\ countdowns = {} /\ timers = {}
    /\ turns = 0 /\ reviewing = FALSE /\ run = 0
    /\ sent = [d \in Decisions |-> 0]
    /\ budget = MaxEvents

User ==
    \/ AutoGoal \/ AutoBootstrap
    \/ \E mode \in Modes : update_continue_mode(mode)
    \/ AutoGoalEntry \/ auto_exit_goal_entry \/ Stop
    \/ SubmitKey \/ auto_pause_for_manual_edit
    \/ \E slash \in BOOLEAN : SubmitUserMessage(slash)

Session ==
    \/ \E complete \in BOOLEAN : insert_final_answer(complete)
    \/ \E free \in BOOLEAN : auto_on_turn_complete(free) \/ BeginReview(free)
    \/ on_error \/ EndReview

Next ==
    \/ User
    \/ Session
    \/ \E r \in Runs : Coordinator(r) \/ auto_handle_decision(r) \/ auto_handle_user_reply(r)
    \/ \E t \in countdowns : auto_handle_countdown(t)
    \/ \E t \in timers : auto_handle_restart(t)

Spec == Init /\ [][Next]_vars

----------------------------------------------------------------------------
(* Properties. *)

Events == [kind : Statuses \cup {"reply", "replyCommand"}, of : Decisions]
Commands == [cmd : {"ack"}, seq : 0..MaxSeq] \cup [cmd : {"user", "update", "stop"}]
Controllers ==
    [phase : Phases, prompt : {None, Blank} \cup Decisions, countdownId : Nat,
     restartToken : Nat, pendingRestart : {None} \cup (Nat \X Nat), attempts : Nat,
     lock : BOOLEAN, stopMsg : BOOLEAN, mode : {"timed", "manual"}, stray : BOOLEAN]
Coordinators ==
    [pc : {"stopped", "loop", "asking", "replying"}, cancelled : BOOLEAN,
     ack : {None} \cup {<<s>> : s \in 0..MaxSeq}, queue : 0..QueueCap, seq : 0..MaxSeq,
     cmds : Seq(Commands)]

\* Type invariant.
TypeOK ==
    /\ ctl \in Controllers
    /\ handle \in 0..MaxRuns /\ run \in 0..MaxRuns /\ goalRequest \in BOOLEAN
    /\ coord \in [Runs -> Coordinators]
    /\ events \in [Runs -> Seq(Events)]
    /\ countdowns \subseteq [run : Runs, id : Nat, by : {Blank} \cup Decisions]
    /\ timers \subseteq [run : Runs, restart : Nat \X Nat]
    /\ turns \in 0..MaxTurns /\ reviewing \in BOOLEAN
    /\ sent \in [Decisions -> Nat]
    /\ budget \in 0..MaxEvents

\* The prompt of a decision reaches the core session at most once, whichever of
\* the countdown, the Enter key, a late tick and the user's edit comes first.
SubmittedOnce == \A d \in Decisions : sent[d] <= 1

\* A coordinator that runs and was not told to stop is the one the widget holds,
\* for an active run: stopping, pausing, restarting and relaunching leak none.
LiveCoordinatorIsHeld ==
    \A r \in Runs : coord[r].pc # "stopped" /\ ~coord[r].cancelled
                    => handle = r /\ is_active(ctl)

\* A run that waits before a retry has the timer that will retry it.
RetryIsScheduled ==
    ctl.phase = "recovery" => \E t \in timers : t.restart = ctl.pendingRestart

\* A run that waits for its coordinator is owed something: the coordinator is at
\* work on it, or has a command to take, or its answer is on the way.  The one
\* exception is a pause for an edit that ends with a turn the coordinator was not
\* told of: a slash command, a message with routing off, or the late reply of an
\* earlier launch.
CoordinatorOwesAnswer ==
    ctl.phase = "coordWait" /\ handle # 0 /\ ~ctl.stray
    => \/ coord[handle].pc \in {"asking", "replying"}
       \/ coord[handle].cmds # <<>>
       \/ events[handle] # <<>>

\* A countdown that reaches zero submits the prompt it counted down for, as long
\* as the launch it belongs to still holds its coordinator.
CountdownSubmitsItsOwn ==
    [][\A t \in countdowns \ countdowns' :
          sent' # sent /\ t.run = handle => sent' = CountSent(t.by)]_vars

\* "Goal entry panel is visible; awaiting user input to launch": a run that was
\* stopped stays so until the user launches another.
StopIsFinal == [][~is_active(ctl) /\ is_active(ctl') => run' > run]_vars
=============================================================================
