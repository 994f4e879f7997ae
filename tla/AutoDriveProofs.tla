-------------------------- MODULE AutoDriveProofs --------------------------
(***************************************************************************)
(* Proofs about AutoDrive, for any number of launches, decisions, turns    *)
(* and events, any queue capacity and both settings of the routing.        *)
(***************************************************************************)
EXTENDS AutoDrive, TLAPS

----------------------------------------------------------------------------
(* The data the model is built from. *)

\* What the provers need to know of decisions, so that pairs stay folded.
LEMMA DecisionFacts ==
    /\ \A r \in Runs, s \in 0..MaxSeq : <<r, s>> \in Decisions
    /\ \A d \in Decisions : d[1] \in Runs /\ d[2] \in 0..MaxSeq /\ d = <<d[1], d[2]>>
    /\ None \notin Decisions /\ Blank \notin Decisions /\ None # Blank
  BY DEF Decisions, Runs, None, Blank

\* One coordinator step on behalf of the widget: a thread that runs afterwards ran
\* before, has decided nothing meanwhile and is still cancelled if it was.
Tame(c, d) ==
    d.pc # "stopped" =>
        c.pc # "stopped" /\ d.seq = c.seq /\ (c.cancelled => d.cancelled)

LEMMA Bounds == MaxRuns \in Nat /\ MaxSeq \in Nat /\ MaxTurns \in Nat /\ MaxEvents \in Nat
  BY AutoDriveAssumption

LEMMA StoppedType == Stopped \in Coordinators
  <1>1. 0 \in 0..QueueCap /\ 0 \in 0..MaxSeq /\ <<>> \in Seq(Commands)
    BY AutoDriveAssumption, Bounds
  <1> QED BY <1>1 DEF Stopped, Coordinators

\* The top of the loop keeps the type, and changes neither the sequence number,
\* nor the token, nor what is unacknowledged or kept.
LEMMA LoopTopType ==
    ASSUME NEW c \in Coordinators, NEW conv \in BOOLEAN, c.pc # "stopped"
    PROVE  /\ LoopTop(c, conv) \in Coordinators
           /\ Tame(c, LoopTop(c, conv))
  <1>1. /\ c.queue \in 0..QueueCap
        /\ queue_update_capped(c.queue) \in 0..QueueCap
        /\ c.queue # 0 => c.queue - 1 \in 0..QueueCap
    BY AutoDriveAssumption DEF Coordinators, queue_update_capped
  <1>2. \A p \in {"loop", "asking"}, q \in 0..QueueCap :
            /\ [c EXCEPT !.pc = p, !.queue = q] \in Coordinators
            /\ Tame(c, [c EXCEPT !.pc = p, !.queue = q])
    BY DEF Coordinators, Tame
  <1>3. CASE c.ack # None
    <2>1. PICK q \in 0..QueueCap : q = IF conv THEN queue_update_capped(c.queue) ELSE c.queue
      BY <1>1
    <2>2. LoopTop(c, conv) = [c EXCEPT !.pc = "loop", !.queue = q]
      BY <1>3, <2>1 DEF LoopTop
    <2> QED BY <1>2, <2>2
  <1>4. CASE c.ack = None /\ ~conv /\ c.queue = 0
    <2>1. LoopTop(c, conv) = [c EXCEPT !.pc = "loop"]
      BY <1>4 DEF LoopTop
    <2> QED BY <2>1 DEF Coordinators, Tame
  <1>5. CASE c.ack = None /\ ~(~conv /\ c.queue = 0) /\ c.cancelled
    <2>1. LoopTop(c, conv) = Stopped
      BY <1>5 DEF LoopTop
    <2> QED BY <2>1, StoppedType DEF Stopped, Tame
  <1>6. CASE c.ack = None /\ ~(~conv /\ c.queue = 0) /\ ~c.cancelled
    <2>1. PICK q \in 0..QueueCap : q = IF conv THEN c.queue ELSE c.queue - 1
      BY <1>1, <1>6
    <2>2. LoopTop(c, conv) = [c EXCEPT !.pc = "asking", !.queue = q]
      BY <1>6, <2>1 DEF LoopTop
    <2> QED BY <1>2, <2>2
  <1> QED BY <1>3, <1>4, <1>5, <1>6

LEMMA ReceivedType ==
    ASSUME NEW c \in Coordinators, NEW k \in Commands, c.pc # "stopped"
    PROVE  Received(c, k) \in Coordinators /\ Tame(c, Received(c, k))
  <1>1. k.cmd \in {"ack", "user", "update", "stop"}
    BY DEF Commands
  <1>2. CASE k.cmd = "ack"
    <2> DEFINE d == IF c.ack = <<k.seq>> THEN [c EXCEPT !.ack = None] ELSE c
    <2>1. d \in Coordinators /\ d.pc = c.pc /\ Tame(c, d)
      BY DEF Coordinators, Tame
    <2>2. LoopTop(d, FALSE) \in Coordinators /\ Tame(d, LoopTop(d, FALSE))
      BY <2>1, LoopTopType
    <2>3. Received(c, k) = LoopTop(d, FALSE)
      BY <1>2 DEF Received
    <2> QED BY <2>1, <2>2, <2>3 DEF Tame
  <1>3. CASE k.cmd = "user"
    BY <1>3 DEF Received, Coordinators, Tame
  <1>4. CASE k.cmd = "update"
    BY <1>4, LoopTopType DEF Received
  <1>5. CASE k.cmd = "stop"
    BY <1>5, StoppedType DEF Received, Stopped, Tame
  <1> QED BY <1>1, <1>2, <1>3, <1>4, <1>5

LEMMA KeptType ==
    ASSUME NEW c \in Coordinators, NEW m \in Commands
    PROVE  /\ [c EXCEPT !.cmds = Append(@, m)] \in Coordinators
           /\ Tame(c, [c EXCEPT !.cmds = Append(@, m)])
  <1>1. PICK s \in Seq(Commands) : s = Append(c.cmds, m)
    <2>1. c.cmds \in Seq(Commands)
      BY DEF Coordinators
    <2>2. Append(c.cmds, m) \in Seq(Commands)
      BY <2>1
    <2> QED BY <2>2
  <1>2. [c EXCEPT !.cmds = s] \in Coordinators /\ Tame(c, [c EXCEPT !.cmds = s])
    BY DEF Coordinators, Tame
  <1> QED BY <1>1, <1>2

LEMMA DeliveredType ==
    ASSUME NEW c \in Coordinators, NEW m \in Commands
    PROVE  Delivered(c, m) \in Coordinators /\ Tame(c, Delivered(c, m))
  <1>1. CASE c.pc = "stopped"
    BY <1>1 DEF Delivered, Tame
  <1>2. CASE c.pc # "stopped" /\ c.pc = "loop" /\ c.cmds = <<>>
    BY <1>2, ReceivedType DEF Delivered
  <1>3. CASE c.pc # "stopped" /\ ~(c.pc = "loop" /\ c.cmds = <<>>)
    BY <1>3, KeptType DEF Delivered
  <1> QED BY <1>1, <1>2, <1>3

\* A command reaches one thread only.
LEMMA CommandType ==
    ASSUME NEW k \in [Runs -> Coordinators], NEW r \in Runs, NEW m \in Commands
    PROVE  /\ Command(k, r, m) \in [Runs -> Coordinators]
           /\ \A q \in Runs : q # r => Command(k, r, m)[q] = k[q]
           /\ Command(k, r, m)[r] = Delivered(k[r], m)
           /\ Tame(k[r], Command(k, r, m)[r])
  <1>1. Delivered(k[r], m) \in Coordinators /\ Tame(k[r], Delivered(k[r], m))
    BY DeliveredType
  <1> QED BY <1>1 DEF Command

\* Cancelling: the thread the widget holds has ended or knows that it must.
LEMMA CancelType ==
    ASSUME NEW k \in [Runs -> Coordinators], handle \in 0..MaxRuns
    PROVE  /\ CancelCoordinator(k) \in [Runs -> Coordinators]
           /\ \A q \in Runs : q # handle => CancelCoordinator(k)[q] = k[q]
           /\ \A q \in Runs : Tame(k[q], CancelCoordinator(k)[q])
           /\ handle # 0 => \/ CancelCoordinator(k)[handle].pc = "stopped"
                            \/ CancelCoordinator(k)[handle].cancelled
  <1>1. CASE handle = 0 \/ k[handle].pc = "stopped"
    BY <1>1 DEF CancelCoordinator, Tame, Runs
  <1>2. CASE handle # 0 /\ k[handle].pc # "stopped"
    <2> DEFINE m == [cmd |-> "stop"]
               c == [k[handle] EXCEPT !.cancelled = TRUE]
               l == [k EXCEPT ![handle] = c]
    <2>1. handle \in Runs /\ m \in Commands
      BY <1>2, Bounds DEF Runs, Commands
    <2>2. c \in Coordinators /\ Tame(k[handle], c) /\ c.cancelled /\ c.pc # "stopped"
      BY <2>1, <1>2 DEF Coordinators, Tame
    <2>3. l \in [Runs -> Coordinators] /\ l[handle] = c /\ \A q \in Runs : q # handle => l[q] = k[q]
      BY <2>1, <2>2
    <2>4. CancelCoordinator(k) = Command(l, handle, m)
      BY <1>2 DEF CancelCoordinator
    <2> HIDE DEF l, c, m
    <2>5. /\ Command(l, handle, m) \in [Runs -> Coordinators]
          /\ \A q \in Runs : q # handle => Command(l, handle, m)[q] = l[q]
          /\ Tame(c, Command(l, handle, m)[handle])
      BY <2>1, <2>3, CommandType
    <2> QED BY <2>1, <2>2, <2>3, <2>4, <2>5 DEF Tame
  <1> QED BY <1>1, <1>2

LEMMA AckType ==
    ASSUME NEW k \in [Runs -> Coordinators], handle \in 0..MaxRuns, NEW s \in 0..MaxSeq
    PROVE  /\ AckDecision(k, s) \in [Runs -> Coordinators]
           /\ \A q \in Runs : q # handle => AckDecision(k, s)[q] = k[q]
           /\ \A q \in Runs : Tame(k[q], AckDecision(k, s)[q])
  <1>1. CASE handle = 0
    BY <1>1 DEF AckDecision, Tame
  <1>2. CASE handle # 0
    <2>1. handle \in Runs /\ [cmd |-> "ack", seq |-> s] \in Commands
      BY <1>2, Bounds DEF Runs, Commands
    <2> QED BY <1>2, <2>1, CommandType DEF AckDecision, Tame
  <1> QED BY <1>1, <1>2

----------------------------------------------------------------------------
(* The controller's methods and the parts of the handlers. *)

\* The controller's methods keep its type.
LEMMA MethodTypes ==
    ASSUME NEW c \in Controllers
    PROVE  /\ reset(c) \in Controllers
           /\ \A ok \in BOOLEAN : launched(c, ok) \in Controllers
           /\ stop_run(c) \in Controllers
           /\ pause_for_transient_failure(c) \in Controllers
           /\ pause_for_transient_failure(c).pendingRestart \in Nat \X Nat
           /\ \A p \in {Blank} \cup Decisions : schedule_cli_prompt(c, p) \in Controllers
           /\ on_prompt_submitted(c) \in Controllers
           /\ \A w \in BOOLEAN : set_coordinator_waiting(c, w) \in Controllers
           /\ on_resume_from_manual(c) \in Controllers
           /\ on_complete_review(c) \in Controllers
           /\ on_recovery_attempt(c) \in Controllers
           /\ \A free \in BOOLEAN : on_begin_review(c, free) \in Controllers
  <1> USE DEF Controllers, Phases, ActivePhases
  <1>1. reset(c) \in Controllers
    BY DEF reset, Default
  <1>2. \A ok \in BOOLEAN : launched(c, ok) \in Controllers
    BY <1>1 DEF launched
  <1>3. stop_run(c) \in Controllers
    BY <1>1 DEF stop_run
  <1>5. /\ pause_for_transient_failure(c) \in Controllers
        /\ pause_for_transient_failure(c).pendingRestart \in Nat \X Nat
    <2>1. PICK n \in Nat, a \in Nat : n = c.restartToken + 1 /\ a = c.attempts + 1
      OBVIOUS
    <2>2. pause_for_transient_failure(c) =
              [c EXCEPT !.prompt = None, !.phase = "recovery", !.attempts = a,
                        !.restartToken = n, !.pendingRestart = <<n, a>>]
      BY <2>1 DEF pause_for_transient_failure
    <2>3. <<n, a>> \in Nat \X Nat
      OBVIOUS
    <2> QED BY <2>2, <2>3
  <1>6. \A p \in {Blank} \cup Decisions : schedule_cli_prompt(c, p) \in Controllers
    <2>1. c.countdownId + 1 \in Nat
      OBVIOUS
    <2> QED BY <2>1 DEF schedule_cli_prompt
  <1>7. on_prompt_submitted(c) \in Controllers /\ on_resume_from_manual(c) \in Controllers
    BY DEF on_prompt_submitted, on_resume_from_manual
  <1>8. \A w \in BOOLEAN : set_coordinator_waiting(c, w) \in Controllers
    BY DEF set_coordinator_waiting
  <1>9. on_complete_review(c) \in Controllers /\ on_recovery_attempt(c) \in Controllers
    BY DEF on_complete_review, on_recovery_attempt
  <1>10. \A free \in BOOLEAN : on_begin_review(c, free) \in Controllers
    BY DEF on_begin_review
  <1> QED BY <1>1, <1>2, <1>3, <1>5, <1>6, <1>7, <1>8, <1>9, <1>10

\* The widget keeps its coordinator, or gives up one that has ended or must end.
HandleKept ==
    \/ handle' = handle
    \/ /\ handle' = 0
       /\ handle # 0 => coord'[handle].pc = "stopped" \/ coord'[handle].cancelled

\* What a part of a handler makes of the controller c and the coordinators k.
PartEffect(c, k) ==
    /\ ctl' \in Controllers /\ coord' \in [Runs -> Coordinators] /\ goalRequest' \in BOOLEAN
    /\ \A q \in Runs : Tame(k[q], coord'[q])
    /\ HandleKept
    /\ \/ ctl' = c /\ handle' = handle
       \/ ctl'.phase = "goalEntry" /\ handle' = 0
       \/ /\ ctl'.phase \in {"coordWait", "turnWait"}
          /\ ctl'.countdownId = c.countdownId /\ handle' = handle

\* No turn is submitted, or one with the prompt of c.
TurnEffect(c) ==
    \/ turns' = turns /\ sent' = sent
    \/ /\ turns' = turns + 1 /\ turns' <= MaxTurns /\ ctl'.phase = "turnWait"
       /\ c.prompt \in Decisions /\ sent' = CountSent(c.prompt)

LEMMA KeepEffect ==
    ASSUME NEW c \in Controllers, NEW k \in [Runs -> Coordinators], NEW g \in BOOLEAN,
           Keep(c, k, g)
    PROVE  PartEffect(c, k)
  BY DEF Keep, PartEffect, HandleKept, Tame

LEMMA StopEffect ==
    ASSUME handle \in 0..MaxRuns,
           NEW c \in Controllers, NEW k \in [Runs -> Coordinators], auto_stop(c, k)
    PROVE  PartEffect(c, k)
  <1>1. ctl' \in Controllers /\ ctl'.phase = "goalEntry"
    <2>1. stop_run(c).phase = "goalEntry"
      BY DEF stop_run, reset, Default
    <2> QED BY <2>1, MethodTypes DEF auto_stop
  <1>2. coord' = CancelCoordinator(k) /\ handle' = 0 /\ goalRequest' = FALSE
    BY DEF auto_stop
  <1> QED BY <1>1, <1>2, CancelType DEF PartEffect, HandleKept

LEMMA SendEffect ==
    ASSUME handle \in 0..MaxRuns,
           NEW c \in Controllers, NEW k \in [Runs -> Coordinators], NEW g \in BOOLEAN,
           auto_send_conversation_force(c, k, g)
    PROVE  PartEffect(c, k)
  <1>1. CASE handle = 0 /\ Keep(c, k, g)
    BY <1>1, KeepEffect
  <1>2. CASE auto_stop(c, k)
    BY <1>2, StopEffect
  <1>3. CASE /\ handle # 0
             /\ Keep([set_coordinator_waiting(on_prompt_submitted(c), TRUE) EXCEPT !.prompt = None],
                     Command(k, handle, [cmd |-> "update"]), g)
    <2> DEFINE d == [set_coordinator_waiting(on_prompt_submitted(c), TRUE) EXCEPT !.prompt = None]
    <2>1. d \in Controllers /\ d.phase = "coordWait" /\ d.countdownId = c.countdownId
      BY DEF Controllers, Phases, ActivePhases, set_coordinator_waiting, on_prompt_submitted
    <2>2. handle \in Runs /\ [cmd |-> "update"] \in Commands
      BY <1>3, Bounds DEF Runs, Commands
    <2> DEFINE l == Command(k, handle, [cmd |-> "update"])
    <2>3. l \in [Runs -> Coordinators] /\ \A q \in Runs : Tame(k[q], l[q])
      BY <2>2, CommandType DEF Tame
    <2> HIDE DEF d, l
    <2>4. ctl' = d /\ coord' = l /\ goalRequest' = g /\ handle' = handle
      BY <1>3 DEF Keep, d, l
    <2> QED BY <2>1, <2>3, <2>4 DEF PartEffect, HandleKept
  <1> QED BY <1>1, <1>2, <1>3 DEF auto_send_conversation_force

LEMMA DispatchEffect ==
    ASSUME TypeOK, NEW c \in Controllers, NEW k \in [Runs -> Coordinators],
           c.prompt \in Decisions, auto_dispatch_cli_prompt(c, k)
    PROVE  PartEffect(c, k) /\ TurnEffect(c)
  <1> DEFINE d == set_coordinator_waiting(on_prompt_submitted(c), FALSE)
  <1>1. d \in Controllers /\ d.phase = "turnWait" /\ d.countdownId = c.countdownId
    BY DEF Controllers, Phases, ActivePhases, set_coordinator_waiting, on_prompt_submitted
  <1>2. /\ ctl' = d /\ coord' = k /\ goalRequest' = FALSE /\ handle' = handle
        /\ turns < MaxTurns /\ turns' = turns + 1 /\ sent' = CountSent(c.prompt)
    BY DEF auto_dispatch_cli_prompt
  <1> HIDE DEF d
  <1>3. turns' <= MaxTurns
    BY <1>2, Bounds DEF TypeOK
  <1> QED BY <1>1, <1>2, <1>3 DEF PartEffect, HandleKept, Tame, TurnEffect

LEMMA SubmitEffect ==
    ASSUME TypeOK, NEW c \in Controllers, NEW k \in [Runs -> Coordinators], NEW g \in BOOLEAN,
           auto_submit_prompt(c, k, g)
    PROVE  PartEffect(c, k) /\ TurnEffect(c)
  <1>0. handle \in 0..MaxRuns
    BY DEF TypeOK
  <1>1. CASE auto_send_conversation_force(c, k, FALSE) /\ NoTurn
    BY <1>0, <1>1, SendEffect DEF NoTurn, TurnEffect
  <1>2. CASE auto_stop(c, k) /\ NoTurn
    BY <1>0, <1>2, StopEffect DEF NoTurn, TurnEffect
  <1>3. CASE c.prompt \notin {None, Blank} /\ auto_dispatch_cli_prompt(c, k)
    <2>1. c.prompt \in Decisions
      BY <1>3 DEF Controllers
    <2> QED BY <1>3, <2>1, DispatchEffect
  <1> QED BY <1>1, <1>2, <1>3 DEF auto_submit_prompt

----------------------------------------------------------------------------
(* Type correctness, the handle and the launches. *)

\* The widget holds the latest launch's coordinator or none, and none unless the
\* run is active; during a recovery pause it holds none.
HandleInv ==
    /\ handle \in {0, run}
    /\ handle # 0 => is_active(ctl) /\ ctl.phase # "recovery"
    /\ \A r \in Runs : coord[r].pc # "stopped" => coord[r].cancelled \/ handle = r

\* Nothing exists of a launch to come, and before the first one no run is active
\* and no stop message is pending; a prompt that is ready is there.
LaunchInv ==
    /\ \A r \in Runs : r > run => coord[r].pc = "stopped" /\ events[r] = <<>>
    /\ is_active(ctl) \/ ctl.stopMsg => run > 0
    /\ ctl.phase = "ready" => ctl.prompt # None

Reach == TypeOK /\ HandleInv /\ LaunchInv

\* The part of Tame that these invariants need.
Lives(c, d) == d.pc # "stopped" => c.pc # "stopped" /\ (c.cancelled => d.cancelled)

\* A step that launches nothing.
StepEffect ==
    /\ run' = run
    /\ HandleKept
    /\ handle' # 0 => is_active(ctl') /\ ctl'.phase # "recovery"
    /\ is_active(ctl') \/ ctl'.stopMsg => run > 0
    /\ ctl'.phase = "ready" => ctl'.prompt # None
    /\ \A r \in Runs : r > run => events'[r] = <<>>

LEMMA EffectKeeps ==
    ASSUME Reach, StepEffect, \A q \in Runs : Lives(coord[q], coord'[q])
    PROVE  HandleInv' /\ LaunchInv'
  <1>1. handle \in 0..MaxRuns /\ run \in 0..MaxRuns
    BY DEF Reach, TypeOK
  <1>2. HandleInv'
    <2>1. handle' \in {0, run'} /\ (handle' # 0 => is_active(ctl') /\ ctl'.phase # "recovery")
      BY DEF Reach, HandleInv, StepEffect, HandleKept
    <2>2. ASSUME NEW r \in Runs, coord'[r].pc # "stopped", ~coord'[r].cancelled
          PROVE  handle' = r
      <3>1. coord[r].pc # "stopped" /\ ~coord[r].cancelled
        BY <2>2 DEF Lives
      <3>2. handle = r /\ r # 0
        BY <3>1 DEF Reach, HandleInv, Runs
      <3> QED BY <2>2, <3>2 DEF StepEffect, HandleKept
    <2> QED BY <2>1, <2>2 DEF HandleInv
  <1>3. LaunchInv'
    <2>1. ASSUME NEW r \in Runs, r > run
          PROVE  coord'[r].pc = "stopped"
      BY <2>1 DEF Reach, LaunchInv, Lives
    <2> QED BY <2>1 DEF LaunchInv, StepEffect
  <1> QED BY <1>2, <1>3

\* What Reach says of the parts of the state, for the steps below.
LEMMA ReachFacts ==
    ASSUME Reach
    PROVE  /\ ctl \in Controllers /\ coord \in [Runs -> Coordinators] /\ goalRequest \in BOOLEAN
           /\ handle \in 0..MaxRuns /\ run \in 0..MaxRuns
           /\ is_active(ctl) \/ ctl.stopMsg => run \in Runs /\ run > 0
           /\ \A r \in Runs : r > run => events[r] = <<>>
  BY DEF Reach, TypeOK, LaunchInv, Runs

\* A part of a handler that starts from a controller with a prompt, if it is
\* ready, and that is active and not in recovery as far as a coordinator is held.
LEMMA PartStep ==
    ASSUME Reach, NEW c, NEW k, PartEffect(c, k), run' = run,
           \A r \in Runs : r > run => events'[r] = <<>>,
           handle # 0 => is_active(c) /\ c.phase # "recovery",
           is_active(c) \/ c.stopMsg => run > 0,
           ctl'.phase \in {"coordWait", "turnWait"} \/ ctl'.stopMsg => run > 0,
           c.phase = "ready" => c.prompt # None
    PROVE  StepEffect
  <1>1. CASE ctl' = c /\ handle' = handle
    BY <1>1 DEF PartEffect, StepEffect, HandleKept
  <1>2. CASE ctl'.phase = "goalEntry" /\ handle' = 0
    BY <1>2 DEF PartEffect, StepEffect, is_active, ActivePhases
  <1>3. CASE ctl'.phase \in {"coordWait", "turnWait"} /\ handle' = handle
    BY <1>3 DEF PartEffect, StepEffect, HandleKept, is_active, ActivePhases
  <1> QED BY <1>1, <1>2, <1>3 DEF PartEffect

LEMMA TurnType ==
    ASSUME TypeOK, NEW c, TurnEffect(c)
    PROVE  turns' \in 0..MaxTurns /\ sent' \in [Decisions -> Nat]
  BY Bounds DEF TypeOK, TurnEffect, CountSent

\* The steps of a coordinator.
LEMMA CoordinatorStep ==
    ASSUME Reach, NEW r \in Runs, Coordinator(r)
    PROVE  TypeOK' /\ StepEffect /\ \A q \in Runs : Lives(coord[q], coord'[q])
  <1>1. coord[r] \in Coordinators /\ coord[r].pc # "stopped"
    BY DEF Reach, TypeOK, Coordinator, CoordDecide, CoordRetry, CoordCancelled, CoordReceive, CoordReply
  <1>2. UNCHANGED uiVars
    BY DEF Coordinator, CoordDecide, CoordRetry, CoordCancelled, CoordReceive, CoordReply
  <1>3. r <= run
    BY <1>1 DEF Reach, LaunchInv, TypeOK, Runs
  <1> DEFINE Moved(c) == Lives(coord[r], c) /\ coord' = [coord EXCEPT ![r] = c]
  <1>4. \E c \in Coordinators : Moved(c)
    <2>1. ASSUME NEW status \in Statuses, CoordDecide(r, status)
          PROVE  \E c \in Coordinators : Moved(c)
      <3> DEFINE s == coord[r].seq + 1
                 c == [coord[r] EXCEPT !.seq = s, !.ack = <<s>>]
                 d == LoopTop(c, FALSE)
      <3>1. s \in 0..MaxSeq
        BY <1>1, <2>1, Bounds DEF CoordDecide, Coordinators
      <3>2. c \in Coordinators /\ Lives(coord[r], c) /\ c.pc # "stopped"
        BY <1>1, <3>1 DEF Coordinators, Lives
      <3>3. d \in Coordinators /\ Tame(c, d)
        BY <3>2, LoopTopType
      <3>4. coord' = [coord EXCEPT ![r] = IF status \in {"transient", "failed"} THEN Stopped ELSE d]
        BY <2>1 DEF CoordDecide
      <3>5. Lives(coord[r], d) /\ Lives(coord[r], Stopped)
        BY <3>2, <3>3 DEF Lives, Tame, Stopped
      <3> HIDE DEF d
      <3> QED BY <3>3, <3>4, <3>5, StoppedType
    <2>2. CASE CoordRetry(r)
      BY <1>1, <2>2, LoopTopType DEF CoordRetry, Lives, Tame
    <2>3. CASE CoordCancelled(r)
      BY <2>3, StoppedType DEF CoordCancelled, Lives, Stopped
    <2>4. CASE CoordReceive(r)
      <3> DEFINE c == [coord[r] EXCEPT !.cmds = Tail(@)]
                 m == Head(coord[r].cmds)
      <3>1. m \in Commands /\ Tail(coord[r].cmds) \in Seq(Commands)
        <4>1. coord[r].cmds \in Seq(Commands) /\ coord[r].cmds # <<>>
          BY <1>1, <2>4 DEF CoordReceive, Coordinators
        <4> QED BY <4>1
      <3>2. c \in Coordinators /\ Lives(coord[r], c) /\ c.pc # "stopped"
        BY <1>1, <3>1 DEF Coordinators, Lives
      <3>3. Received(c, m) \in Coordinators /\ Tame(c, Received(c, m))
        BY <3>1, <3>2, ReceivedType
      <3>4. coord' = [coord EXCEPT ![r] = Received(c, m)]
        BY <2>4, Zenon DEF CoordReceive
      <3> QED BY <3>2, <3>3, <3>4 DEF Lives, Tame
    <2>5. ASSUME NEW ok \in BOOLEAN, NEW command \in BOOLEAN, CoordReply(r, ok, command)
          PROVE  \E c \in Coordinators : Moved(c)
      BY <1>1, <2>5, LoopTopType DEF CoordReply, Lives, Tame
    <2> QED BY <2>1, <2>2, <2>3, <2>4, <2>5 DEF Coordinator
  <1>5. coord' \in [Runs -> Coordinators] /\ \A q \in Runs : Lives(coord[q], coord'[q])
    BY <1>4 DEF Reach, TypeOK, Lives
  <1>6. events' \in [Runs -> Seq(Events)] /\ \A q \in Runs : q # r => events'[q] = events[q]
    <2>1. UNCHANGED events \/ \E e \in Events : events' = [events EXCEPT ![r] = Append(@, e)]
      <3>1. ASSUME NEW status \in Statuses, CoordDecide(r, status)
            PROVE  <2>1!2
        <4>1. coord[r].seq + 1 \in 0..MaxSeq
          BY <1>1, <3>1, Bounds DEF CoordDecide, Coordinators
        <4>2. [kind |-> status, of |-> <<r, coord[r].seq + 1>>] \in Events
          BY <4>1, DecisionFacts DEF Events
        <4> QED BY <3>1, <4>2 DEF CoordDecide, Emit
      <3>2. ASSUME NEW ok \in BOOLEAN, NEW command \in BOOLEAN, CoordReply(r, ok, command)
            PROVE  <2>1!2
        <4>1. <<r, 0>> \in Decisions
          BY Bounds, DecisionFacts
        <4>2. [kind |-> IF command THEN "replyCommand" ELSE "reply", of |-> <<r, 0>>] \in Events
          BY <4>1 DEF Events
        <4> QED BY <3>2, <4>2 DEF CoordReply, Emit
      <3>3. CASE CoordRetry(r) \/ CoordCancelled(r) \/ CoordReceive(r)
        BY <3>3 DEF CoordRetry, CoordCancelled, CoordReceive
      <3> QED BY <3>1, <3>2, <3>3 DEF Coordinator
    <2>2. events \in [Runs -> Seq(Events)]
      BY DEF Reach, TypeOK
    <2>3. ASSUME NEW e \in Events, events' = [events EXCEPT ![r] = Append(@, e)]
          PROVE  <1>6
      <3>1. Append(events[r], e) \in Seq(Events)
        BY <2>2
      <3> QED BY <2>2, <2>3, <3>1
    <2> QED BY <2>1, <2>2, <2>3
  <1>7. TypeOK'
    BY <1>2, <1>5, <1>6 DEF Reach, TypeOK, uiVars
  <1>8. StepEffect
    <2>1. run' = run /\ handle' = handle /\ ctl' = ctl
      BY <1>2 DEF uiVars
    <2>2. \A q \in Runs : q > run => events'[q] = <<>>
      BY <1>3, <1>6 DEF Reach, LaunchInv, TypeOK, Runs
    <2> QED BY <2>1, <2>2 DEF Reach, StepEffect, HandleKept, HandleInv, LaunchInv
  <1> QED BY <1>5, <1>7, <1>8

LEMMA UsesType ==
    ASSUME TypeOK, Uses
    PROVE  budget' \in 0..MaxEvents
  BY Bounds DEF TypeOK, Uses

\* The type invariant after a step that keeps launches and events, part by part.
LEMMA UiType ==
    ASSUME Reach, HandleKept, run' = run, reviewing' \in BOOLEAN,
           ctl' \in Controllers, coord' \in [Runs -> Coordinators], goalRequest' \in BOOLEAN,
           events' \in [Runs -> Seq(Events)],
           countdowns' \subseteq [run : Runs, id : Nat, by : {Blank} \cup Decisions],
           timers' \subseteq [run : Runs, restart : Nat \X Nat],
           turns' \in 0..MaxTurns, sent' \in [Decisions -> Nat], budget' \in 0..MaxEvents
    PROVE  TypeOK'
  <1>1. handle' \in 0..MaxRuns /\ run' \in 0..MaxRuns
    BY Bounds DEF Reach, TypeOK, HandleKept
  <1> QED BY <1>1 DEF TypeOK

LEMMA CountdownType ==
    ASSUME TypeOK, NEW c \in Controllers, NEW r \in Runs, c.prompt # None, StartCountdown(c, r)
    PROVE  countdowns' \subseteq [run : Runs, id : Nat, by : {Blank} \cup Decisions]
  <1>1. [run |-> r, id |-> c.countdownId, by |-> c.prompt] \in [run : Runs, id : Nat, by : {Blank} \cup Decisions]
    BY DEF Controllers
  <1> QED BY <1>1 DEF TypeOK, StartCountdown

\* What a handler that launches nothing must establish.
UiStep == TypeOK' /\ StepEffect /\ \A q \in Runs : Tame(coord[q], coord'[q])

LEMMA StoppedParts ==
    ASSUME Reach
    PROVE  /\ StoppedCtl \in Controllers /\ ~is_active(StoppedCtl) /\ StoppedHandle = 0
           /\ StoppedCtl.stopMsg => run > 0
           /\ StoppedCoord \in [Runs -> Coordinators]
           /\ \A q \in Runs : Tame(coord[q], StoppedCoord[q])
           /\ \A q \in Runs : StoppedCoord[q].pc = "stopped" \/ StoppedCoord[q].cancelled
  <1>1. CASE is_active(ctl)
    <2>1. StoppedCtl = stop_run(ctl) /\ StoppedCoord = CancelCoordinator(coord) /\ StoppedHandle = 0
      BY <1>1 DEF StoppedCtl, StoppedCoord, StoppedHandle
    <2>2. stop_run(ctl) \in Controllers
      BY ReachFacts, MethodTypes
    <2>3. ~is_active(stop_run(ctl)) /\ stop_run(ctl).stopMsg = FALSE
      BY DEF stop_run, reset, Default, is_active, ActivePhases
    <2>4. ASSUME NEW q \in Runs
          PROVE  CancelCoordinator(coord)[q].pc = "stopped" \/ CancelCoordinator(coord)[q].cancelled
      <3>1. CASE q = handle
        BY <3>1, ReachFacts, CancelType, Bounds DEF Runs
      <3>2. CASE q # handle
        <4>1. CancelCoordinator(coord)[q] = coord[q]
          BY <3>2, ReachFacts, CancelType
        <4> QED BY <3>2, <4>1 DEF Reach, HandleInv
      <3> QED BY <3>1, <3>2
    <2> QED BY <2>1, <2>2, <2>3, <2>4, ReachFacts, CancelType
  <1>2. CASE ~is_active(ctl)
    <2>1. StoppedCtl = ctl /\ StoppedCoord = coord /\ StoppedHandle = handle /\ handle = 0
      BY <1>2 DEF StoppedCtl, StoppedCoord, StoppedHandle, Reach, HandleInv
    <2>2. \A q \in Runs : coord[q].pc = "stopped" \/ coord[q].cancelled
      BY <2>1 DEF Reach, HandleInv, Runs
    <2> QED BY <1>2, <2>1, <2>2, ReachFacts DEF Tame
  <1> QED BY <1>1, <1>2

\* The three ways of the user's message: to the coordinator, into the conversation
\* of the run, or past it to the core session.
RoutedMessage ==
    /\ is_active(ctl) /\ handle # 0 /\ coord[handle].pc # "stopped"
    /\ ctl' = set_coordinator_waiting(on_prompt_submitted(ctl), TRUE)
    /\ coord' = Command(coord, handle, [cmd |-> "user"])
    /\ UNCHANGED <<handle, goalRequest, turns, sent>>
LocalMessage == auto_send_conversation_force(ctl, coord, goalRequest) /\ NoTurn /\ is_active(ctl)
TurnMessage ==
    /\ turns < MaxTurns /\ turns' = turns + 1
    /\ sent' = CountSent(IF ctl.phase = "paused" THEN ctl.prompt ELSE None)
    /\ ctl' = IF ctl.phase = "paused" THEN [on_prompt_submitted(ctl) EXCEPT !.stray = TRUE] ELSE ctl
    /\ UNCHANGED <<handle, goalRequest, coord>>

LEMMA MessageCases ==
    ASSUME NEW slash \in BOOLEAN, SubmitUserMessage(slash)
    PROVE  /\ Uses /\ UNCHANGED <<events, countdowns, timers, reviewing, run>>
           /\ RoutedMessage \/ LocalMessage \/ TurnMessage
  <1>1. Uses /\ UNCHANGED <<events, countdowns, timers, reviewing, run>>
    BY DEF SubmitUserMessage
  <1> QED BY <1>1 DEF SubmitUserMessage, RoutedMessage, LocalMessage, TurnMessage, SubmitTurn, Keep, NoTurn

\* What the user does besides launching.
LEMMA UserStep ==
    ASSUME Reach,
           \/ \E mode \in Modes : update_continue_mode(mode)
           \/ AutoGoalEntry \/ auto_exit_goal_entry \/ Stop
           \/ SubmitKey \/ auto_pause_for_manual_edit
           \/ \E slash \in BOOLEAN : SubmitUserMessage(slash)
    PROVE  UiStep
  <1> USE ReachFacts
  <1>0. TypeOK
    BY DEF Reach
  <1>1. ASSUME NEW mode \in Modes, update_continue_mode(mode)
        PROVE  UiStep
    <2> DEFINE n == IF ctl.phase = "ready" THEN ctl.countdownId + 1 ELSE ctl.countdownId
               c == [ctl EXCEPT !.mode = mode, !.countdownId = n]
    <2>1. n \in Nat /\ mode \in {"timed", "manual"}
      BY AutoDriveAssumption DEF Controllers
    <2>2. c \in Controllers /\ c.prompt = ctl.prompt /\ c.phase = ctl.phase /\ c.stopMsg = ctl.stopMsg
      <3> HIDE DEF n
      <3> QED BY <2>1 DEF Controllers
    <2>3. /\ ctl' = c
          /\ IF ctl.phase = "ready" THEN StartCountdown(c, run) ELSE UNCHANGED countdowns
          /\ UNCHANGED <<handle, goalRequest, coord, events, timers, turns, reviewing, run, sent>>
      BY <1>1 DEF update_continue_mode, coordVars
    <2> HIDE DEF c
    <2>4. countdowns' \subseteq [run : Runs, id : Nat, by : {Blank} \cup Decisions]
      <3>1. CASE ctl.phase = "ready"
        <4>1. run \in Runs /\ c.prompt # None
          BY <3>1, <2>2 DEF Reach, LaunchInv, is_active, ActivePhases
        <4> QED BY <1>0, <2>2, <2>3, <3>1, <4>1, CountdownType
      <3>2. CASE ctl.phase # "ready"
        BY <1>0, <2>3, <3>2 DEF TypeOK
      <3> QED BY <3>1, <3>2
    <2>5. budget' \in 0..MaxEvents
      BY <1>0, <1>1, UsesType DEF update_continue_mode
    <2>6. HandleKept
      BY <2>3 DEF HandleKept
    <2>7. TypeOK'
      BY <1>0, <2>2, <2>3, <2>4, <2>5, <2>6, UiType DEF TypeOK
    <2>8. StepEffect
      BY <2>2, <2>3, <2>6 DEF StepEffect, Reach, HandleInv, LaunchInv, is_active
    <2> QED BY <2>3, <2>7, <2>8 DEF UiStep, Tame
  <1>2. CASE AutoGoalEntry
    <2> DEFINE c == [reset(StoppedCtl) EXCEPT !.phase = "goalEntry"]
    <2>1. c \in Controllers /\ c.phase = "goalEntry" /\ c.stopMsg = StoppedCtl.stopMsg
      <3>1. reset(StoppedCtl) \in Controllers
        BY StoppedParts, MethodTypes
      <3>2. reset(StoppedCtl).stopMsg = StoppedCtl.stopMsg
        BY DEF reset, Default
      <3> QED BY <3>1, <3>2 DEF Controllers, Phases, ActivePhases
    <2>2. /\ ctl' = c /\ coord' = StoppedCoord /\ handle' = StoppedHandle /\ goalRequest' = FALSE
          /\ UNCHANGED <<events, countdowns, timers, turns, sent, reviewing, run>>
      BY <1>2 DEF AutoGoalEntry
    <2> HIDE DEF c
    <2>3. HandleKept
      BY <2>2, StoppedParts, Bounds DEF HandleKept, Runs
    <2>4. budget' \in 0..MaxEvents
      BY <1>0, <1>2, UsesType DEF AutoGoalEntry
    <2>5. TypeOK'
      BY <1>0, <2>1, <2>2, <2>3, <2>4, StoppedParts, UiType DEF TypeOK
    <2>6. StepEffect
      BY <2>1, <2>2, <2>3, StoppedParts DEF StepEffect, is_active, ActivePhases
    <2> QED BY <2>2, <2>5, <2>6, StoppedParts DEF UiStep
  <1>3. CASE auto_exit_goal_entry
    <2>1. reset(ctl) \in Controllers
      BY MethodTypes
    <2>2. reset(ctl).phase = "idle" /\ reset(ctl).stopMsg = ctl.stopMsg
      BY DEF reset, Default
    <2>3. /\ ctl' = reset(ctl) /\ ctl.phase = "goalEntry"
          /\ UNCHANGED <<handle, goalRequest, coord, events, countdowns, timers, turns, reviewing, run, sent>>
      BY <1>3 DEF auto_exit_goal_entry, coordVars
    <2>4. handle = 0 /\ HandleKept
      BY <2>3 DEF Reach, HandleInv, HandleKept, is_active, ActivePhases
    <2>5. budget' \in 0..MaxEvents
      BY <1>0, <1>3, UsesType DEF auto_exit_goal_entry
    <2>6. TypeOK'
      BY <1>0, <2>1, <2>3, <2>4, <2>5, UiType DEF TypeOK
    <2>7. StepEffect
      BY <2>2, <2>3, <2>4 DEF StepEffect, is_active, ActivePhases
    <2> QED BY <2>3, <2>6, <2>7 DEF UiStep, Tame
  <1>4. CASE Stop
    <2>1. /\ is_active(ctl) /\ auto_stop(ctl, coord) /\ turns' = turns /\ sent' = sent
          /\ UNCHANGED <<events, countdowns, timers, reviewing, run>>
      BY <1>4 DEF Stop, NoTurn
    <2>2. PartEffect(ctl, coord)
      BY <2>1, StopEffect
    <2>3. budget' \in 0..MaxEvents
      BY <1>0, <1>4, UsesType DEF Stop
    <2>4. TypeOK'
      BY <1>0, <2>1, <2>2, <2>3, UiType DEF TypeOK, PartEffect
    <2>5. StepEffect
      BY <2>1, <2>2, PartStep DEF Reach, HandleInv, LaunchInv
    <2> QED BY <2>2, <2>4, <2>5 DEF UiStep, PartEffect
  <1>5. CASE SubmitKey
    <2>1. /\ ctl.phase = "ready" /\ auto_submit_prompt(ctl, coord, goalRequest)
          /\ UNCHANGED <<events, countdowns, timers, reviewing, run>>
      BY <1>5 DEF SubmitKey
    <2>2. PartEffect(ctl, coord) /\ TurnEffect(ctl)
      BY <1>0, <2>1, SubmitEffect
    <2>3. budget' \in 0..MaxEvents
      BY <1>0, <1>5, UsesType DEF SubmitKey
    <2>4. TypeOK'
      BY <1>0, <2>1, <2>2, <2>3, UiType, TurnType DEF TypeOK, PartEffect
    <2>5. run > 0
      BY <2>1 DEF is_active, ActivePhases
    <2>6. StepEffect
      BY <2>1, <2>2, <2>5, PartStep DEF Reach, HandleInv, LaunchInv
    <2> QED BY <2>2, <2>4, <2>6 DEF UiStep, PartEffect
  <1>6. CASE auto_pause_for_manual_edit
    <2> DEFINE n == ctl.countdownId + 1
               c == [ctl EXCEPT !.phase = "paused", !.countdownId = n]
    <2>1. n \in Nat
      BY DEF Controllers
    <2>2. c \in Controllers /\ c.phase = "paused"
      <3> HIDE DEF n
      <3> QED BY <2>1 DEF Controllers, Phases, ActivePhases
    <2>3. /\ ctl.phase = "ready" /\ ctl' = c
          /\ UNCHANGED <<handle, goalRequest, coord, events, countdowns, timers, turns, reviewing, run, sent>>
      BY <1>6 DEF auto_pause_for_manual_edit, coordVars
    <2> HIDE DEF c
    <2>4. budget' \in 0..MaxEvents
      BY <1>0, <1>6 DEF auto_pause_for_manual_edit, TypeOK
    <2>5. HandleKept
      BY <2>3 DEF HandleKept
    <2>6. TypeOK'
      BY <1>0, <2>2, <2>3, <2>4, <2>5, UiType DEF TypeOK
    <2>7. StepEffect
      BY <2>2, <2>3, <2>5 DEF StepEffect, is_active, ActivePhases
    <2> QED BY <2>3, <2>6, <2>7 DEF UiStep, Tame
  <1>7. ASSUME NEW slash \in BOOLEAN, SubmitUserMessage(slash)
        PROVE  UiStep
    <2> DEFINE w == set_coordinator_waiting(on_prompt_submitted(ctl), TRUE)
               o == [on_prompt_submitted(ctl) EXCEPT !.stray = TRUE]
    <2>1. w \in Controllers /\ o \in Controllers
      <3>1. on_prompt_submitted(ctl) \in Controllers /\ w \in Controllers
        BY MethodTypes
      <3> QED BY <3>1 DEF Controllers
    <2>2. w.phase = "coordWait" /\ o.phase = "coordWait"
      BY DEF Controllers, set_coordinator_waiting, on_prompt_submitted
    <2> HIDE DEF w, o
    <2>3. UNCHANGED <<events, countdowns, timers, reviewing, run>> /\ handle \in 0..MaxRuns
      BY <1>7, MessageCases
    <2>4. handle' = handle => HandleKept
      BY DEF HandleKept
    <2>5. budget' \in 0..MaxEvents
      BY <1>0, <1>7, MessageCases, UsesType
    <2>6. CASE RoutedMessage
      <3>0. /\ is_active(ctl) /\ handle # 0 /\ ctl' = w /\ HandleKept
            /\ coord' = Command(coord, handle, [cmd |-> "user"])
            /\ UNCHANGED <<handle, goalRequest, turns, sent>>
        BY <2>4, <2>6 DEF RoutedMessage, w
      <3>1. handle \in Runs /\ [cmd |-> "user"] \in Commands
        BY <2>3, <3>0, Bounds DEF Runs, Commands
      <3>2. coord' \in [Runs -> Coordinators] /\ \A q \in Runs : Tame(coord[q], coord'[q])
        BY <3>0, <3>1, CommandType DEF Tame
      <3>3. TypeOK'
        BY <1>0, <2>1, <2>3, <2>5, <3>0, <3>2, UiType DEF TypeOK
      <3>4. StepEffect
        BY <2>2, <2>3, <3>0 DEF StepEffect, is_active, ActivePhases
      <3> QED BY <3>2, <3>3, <3>4 DEF UiStep
    <2>7. CASE LocalMessage
      <3>1. PartEffect(ctl, coord) /\ is_active(ctl) /\ turns' = turns /\ sent' = sent
        BY <2>3, <2>7, SendEffect DEF LocalMessage, NoTurn
      <3>2. TypeOK'
        BY <1>0, <2>3, <2>5, <3>1, UiType DEF TypeOK, PartEffect
      <3>3. StepEffect
        BY <2>3, <3>1, PartStep DEF Reach, HandleInv, LaunchInv
      <3> QED BY <3>1, <3>2, <3>3 DEF UiStep, PartEffect
    <2>8. CASE TurnMessage
      <3>0. /\ turns' \in 0..MaxTurns /\ sent' \in [Decisions -> Nat] /\ HandleKept
            /\ UNCHANGED <<handle, goalRequest, coord>>
        BY <1>0, <2>4, <2>8, Bounds DEF TypeOK, CountSent, TurnMessage
      <3>1. ctl' = IF ctl.phase = "paused" THEN o ELSE ctl
        BY <2>8 DEF TurnMessage, o
      <3>2. TypeOK'
        BY <1>0, <2>1, <2>3, <2>5, <3>0, <3>1, UiType DEF TypeOK
      <3>3. StepEffect
        <4>1. CASE ctl.phase = "paused"
          BY <2>2, <2>3, <3>0, <3>1, <4>1 DEF StepEffect, is_active, ActivePhases
        <4>2. CASE ctl.phase # "paused"
          BY <2>3, <3>0, <3>1, <4>2 DEF StepEffect, Reach, HandleInv, LaunchInv
        <4> QED BY <4>1, <4>2
      <3> QED BY <3>0, <3>2, <3>3 DEF UiStep, Tame
    <2> QED BY <1>7, <2>6, <2>7, <2>8, MessageCases
  <1> QED BY <1>1, <1>2, <1>3, <1>4, <1>5, <1>6, <1>7

\* What a pause for a transient failure does.
LEMMA PauseEffect ==
    ASSUME Reach, is_active(ctl),
           NEW c \in Controllers, NEW k \in [Runs -> Coordinators],
           \A q \in Runs : Tame(coord[q], k[q]),
           auto_pause_for_transient_failure(c, k)
    PROVE  /\ ctl' \in Controllers /\ ctl'.phase = "recovery" /\ handle' = 0
           /\ coord' \in [Runs -> Coordinators] /\ HandleKept
           /\ \A q \in Runs : Tame(coord[q], coord'[q])
           /\ timers' \subseteq [run : Runs, restart : Nat \X Nat]
           /\ turns' = turns /\ sent' = sent
  <1> DEFINE p == pause_for_transient_failure(c)
  <1>1. p \in Controllers /\ p.pendingRestart \in Nat \X Nat
    BY MethodTypes
  <1>2. p.phase = "recovery"
    BY DEF Controllers, pause_for_transient_failure
  <1> HIDE DEF p
  <1>3. /\ ctl' = p /\ coord' = CancelCoordinator(k) /\ handle' = 0
        /\ timers' = timers \cup {[run |-> run, restart |-> p.pendingRestart]}
        /\ turns' = turns /\ sent' = sent
    BY DEF auto_pause_for_transient_failure, NoTurn, p
  <1>4. /\ coord' \in [Runs -> Coordinators] /\ HandleKept
        /\ \A q \in Runs : Tame(k[q], coord'[q])
    BY <1>3, ReachFacts, CancelType DEF HandleKept
  <1>5. \A q \in Runs : Tame(coord[q], coord'[q])
    BY <1>4 DEF Tame
  <1>6. timers' \subseteq [run : Runs, restart : Nat \X Nat]
    BY <1>1, <1>3, ReachFacts DEF Reach, TypeOK
  <1> QED BY <1>1, <1>2, <1>3, <1>4, <1>5, <1>6

\* Taking an event from a channel.
LEMMA HandledType ==
    ASSUME Reach, NEW r \in Runs, events[r] # <<>>, Handled(r)
    PROVE  /\ events' \in [Runs -> Seq(Events)] /\ Head(events[r]) \in Events
           /\ \A q \in Runs : q > run => events'[q] = <<>>
           /\ r <= run /\ run > 0 /\ run \in Runs
  <1>1. events \in [Runs -> Seq(Events)] /\ run \in 0..MaxRuns
    BY DEF Reach, TypeOK
  <1>2. r <= run
    BY <1>1 DEF Reach, LaunchInv, Runs
  <1>3. run > 0 /\ run \in Runs
    BY <1>1, <1>2 DEF Runs
  <1>4. events[r] \in Seq(Events)
    BY <1>1
  <1>5. Head(events[r]) \in Events /\ Tail(events[r]) \in Seq(Events)
    BY <1>4
  <1>6. events' = [events EXCEPT ![r] = Tail(events[r])]
    BY DEF Handled
  <1>7. events' \in [Runs -> Seq(Events)]
    BY <1>1, <1>5, <1>6
  <1>8. \A q \in Runs : q > run => events'[q] = <<>>
    BY <1>1, <1>2, <1>6, ReachFacts
  <1> QED BY <1>2, <1>3, <1>5, <1>7, <1>8

\* The controller as auto_handle_decision has it when it looks at the status.
LEMMA DecidedType ==
    ASSUME Reach, NEW e \in Events
    PROVE  /\ Decided(e) \in Controllers /\ Decided(e).phase = "active"
           /\ Decided(e).countdownId = ctl.countdownId
           /\ Decided(e).prompt = IF e.kind \in {"planning", "continue"} THEN e.of ELSE None
  <1> DEFINE d == IF e.kind \in {"planning", "continue"} THEN e.of ELSE None
             c == on_resume_from_manual([ctl EXCEPT !.prompt = d])
  <1>1. d \in {None, Blank} \cup Decisions
    BY DEF Events
  <1> HIDE DEF d
  <1>2. /\ c \in Controllers /\ c.phase = "active"
        /\ c.countdownId = ctl.countdownId /\ c.prompt = d
    BY <1>1, ReachFacts DEF Controllers, on_resume_from_manual, Phases, ActivePhases
  <1>3. CASE e.kind \in {"transient", "failed"}
    <2>1. Decided(e) = c
      BY <1>3 DEF Decided, d
    <2> QED BY <1>2, <2>1 DEF d
  <1>4. CASE e.kind \notin {"transient", "failed"}
    <2>1. Decided(e) = on_recovery_attempt([c EXCEPT !.attempts = 0, !.pendingRestart = None])
      BY <1>4, Zenon DEF Decided, d
    <2> DEFINE f == [c EXCEPT !.attempts = 0, !.pendingRestart = None]
    <2> HIDE DEF c
    <2>2. /\ f \in Controllers /\ f.phase = "active"
          /\ f.countdownId = c.countdownId /\ f.prompt = c.prompt
      BY <1>2 DEF Controllers
    <2> HIDE DEF f
    <2>3. on_recovery_attempt(f) \in Controllers
      BY <2>2, MethodTypes
    <2>4. /\ on_recovery_attempt(f).phase = "active"
          /\ on_recovery_attempt(f).countdownId = f.countdownId
          /\ on_recovery_attempt(f).prompt = f.prompt
      BY <2>2 DEF Controllers, on_recovery_attempt
    <2> QED BY <1>2, <2>1, <2>2, <2>3, <2>4 DEF d, f
  <1> QED BY <1>3, <1>4

\* The handlers of the coordinator's events.
LEMMA DecisionStep ==
    ASSUME Reach, NEW r \in Runs, auto_handle_decision(r)
    PROVE  UiStep
  <1> USE ReachFacts
  <1> DEFINE e == Head(events[r])
             c == Decided(e)
             k == AckDecision(coord, e.of[2])
  <1>0. TypeOK
    BY DEF Reach
  <1>1. /\ events' \in [Runs -> Seq(Events)] /\ e \in Events
        /\ \A q \in Runs : q > run => events'[q] = <<>>
        /\ r <= run /\ run > 0 /\ run \in Runs
    BY HandledType DEF auto_handle_decision
  <1>2. /\ c \in Controllers /\ c.phase = "active" /\ c.countdownId = ctl.countdownId
        /\ c.prompt = IF e.kind \in {"planning", "continue"} THEN e.of ELSE None
    BY <1>1, DecidedType
  <1>3. e.of \in Decisions /\ e.of[2] \in 0..MaxSeq /\ e.of # None
    BY <1>1, DecisionFacts DEF Events
  <1>4. k \in [Runs -> Coordinators] /\ \A q \in Runs : Tame(coord[q], k[q])
    BY <1>3, AckType
  <1>5. UNCHANGED <<reviewing, run, budget>>
    BY DEF auto_handle_decision
  <1>6. CASE /\ ~is_active(ctl)
             /\ Keep(ctl, k, goalRequest) /\ NoTurn /\ UNCHANGED <<countdowns, timers>>
    <2> HIDE DEF k, e, c
    <2>1. /\ ctl' = ctl /\ coord' = k /\ goalRequest' = goalRequest /\ handle' = handle
          /\ UNCHANGED <<turns, sent, countdowns, timers>>
      BY <1>6 DEF Keep, NoTurn
    <2>2. HandleKept
      BY <2>1 DEF HandleKept
    <2>3. TypeOK'
      BY <1>0, <1>1, <1>4, <1>5, <2>1, <2>2, UiType DEF TypeOK
    <2>4. StepEffect
      BY <1>1, <1>5, <2>1, <2>2 DEF StepEffect, Reach, HandleInv, LaunchInv
    <2> QED BY <1>4, <2>1, <2>3, <2>4 DEF UiStep
  <1>7. ASSUME NEW d \in Controllers, PartEffect(d, k), TurnEffect(d),
               is_active(d), d.phase # "recovery", d.prompt # None \/ d.phase # "ready",
               timers' = timers,
               \/ countdowns' = countdowns
               \/ StartCountdown(d, run) /\ d.prompt # None
        PROVE  UiStep
    <2> HIDE DEF k, e, c
    <2>1. countdowns' \subseteq [run : Runs, id : Nat, by : {Blank} \cup Decisions]
      BY <1>0, <1>1, <1>7, CountdownType DEF TypeOK
    <2>2. TypeOK'
      BY <1>0, <1>1, <1>5, <1>7, <2>1, UiType, TurnType DEF TypeOK, PartEffect
    <2>3. StepEffect
      BY <1>1, <1>5, <1>7, PartStep
    <2>4. \A q \in Runs : Tame(coord[q], coord'[q])
      BY <1>4, <1>7 DEF PartEffect, Tame
    <2> QED BY <2>2, <2>3, <2>4 DEF UiStep
  <1>8. CASE auto_stop(c, k) /\ NoTurn /\ UNCHANGED <<countdowns, timers>>
    <2> HIDE DEF k, e, c
    <2>1. PartEffect(c, k) /\ TurnEffect(c)
      BY <1>2, <1>4, <1>8, StopEffect DEF NoTurn, TurnEffect
    <2> QED BY <1>2, <1>7, <1>8, <2>1 DEF is_active, ActivePhases
  <1>9. CASE /\ e.kind = "planning"
             /\ auto_dispatch_cli_prompt(c, k) /\ UNCHANGED <<countdowns, timers>>
    <2>1. c.prompt \in Decisions
      BY <1>2, <1>3, <1>9
    <2> HIDE DEF k, e, c
    <2>2. PartEffect(c, k) /\ TurnEffect(c)
      BY <1>0, <1>2, <1>4, <1>9, <2>1, DispatchEffect
    <2> QED BY <1>2, <1>7, <1>9, <2>2 DEF is_active, ActivePhases
  <1>10. CASE /\ Keep(schedule_cli_prompt(c, e.of), k, FALSE) /\ NoTurn
              /\ StartCountdown(schedule_cli_prompt(c, e.of), run) /\ UNCHANGED timers
    <2> DEFINE s == schedule_cli_prompt(c, e.of)
    <2> HIDE DEF k, e, c
    <2>1. s \in Controllers
      BY <1>2, <1>3, MethodTypes
    <2>2. s.phase = "ready" /\ s.prompt = e.of
      BY <1>2 DEF Controllers, schedule_cli_prompt
    <2> HIDE DEF s
    <2>3. Keep(s, k, FALSE) /\ NoTurn /\ StartCountdown(s, run) /\ UNCHANGED timers
      BY <1>10 DEF s
    <2>4. PartEffect(s, k) /\ TurnEffect(s)
      BY <1>4, <2>1, <2>3, KeepEffect DEF NoTurn, TurnEffect
    <2> QED BY <1>3, <1>7, <2>1, <2>2, <2>3, <2>4 DEF is_active, ActivePhases
  <1>11. CASE /\ LET s == schedule_cli_prompt([c EXCEPT !.stopMsg = TRUE], e.of)
                 IN StartCountdown(s, run) /\ auto_submit_prompt(s, k, FALSE)
              /\ UNCHANGED timers
    <2> DEFINE m == [c EXCEPT !.stopMsg = TRUE]
               s == schedule_cli_prompt(m, e.of)
    <2> HIDE DEF k, e, c
    <2>1. m \in Controllers
      BY <1>2 DEF Controllers
    <2> HIDE DEF m
    <2>2. s \in Controllers
      BY <1>3, <2>1, MethodTypes
    <2>3. s.phase = "ready" /\ s.prompt = e.of
      BY <2>1 DEF Controllers, schedule_cli_prompt
    <2> HIDE DEF s
    <2>4. StartCountdown(s, run) /\ auto_submit_prompt(s, k, FALSE) /\ timers' = timers
      BY <1>11 DEF s, m
    <2>5. PartEffect(s, k) /\ TurnEffect(s)
      BY <1>0, <1>4, <2>2, <2>4, SubmitEffect
    <2> QED BY <1>3, <1>7, <2>2, <2>3, <2>4, <2>5 DEF is_active, ActivePhases
  <1>12. CASE /\ is_active(ctl)
              /\ auto_pause_for_transient_failure(c, k) /\ goalRequest' = FALSE
              /\ UNCHANGED countdowns
    <2> HIDE DEF k, e, c
    <2>1. /\ ctl' \in Controllers /\ ctl'.phase = "recovery" /\ handle' = 0
          /\ coord' \in [Runs -> Coordinators] /\ HandleKept
          /\ \A q \in Runs : Tame(coord[q], coord'[q])
          /\ timers' \subseteq [run : Runs, restart : Nat \X Nat]
          /\ turns' = turns /\ sent' = sent
      BY <1>2, <1>4, <1>12, PauseEffect
    <2>2. TypeOK'
      BY <1>0, <1>1, <1>5, <1>12, <2>1, UiType DEF TypeOK
    <2>3. StepEffect
      BY <1>1, <1>5, <2>1 DEF StepEffect
    <2> QED BY <2>1, <2>2, <2>3 DEF UiStep
  <1> QED BY <1>6, <1>8, <1>9, <1>10, <1>11, <1>12 DEF auto_handle_decision

LEMMA ReplyStep ==
    ASSUME Reach, NEW r \in Runs, auto_handle_user_reply(r)
    PROVE  UiStep
  <1> USE ReachFacts
  <1>0. TypeOK
    BY DEF Reach
  <1>1. /\ events' \in [Runs -> Seq(Events)]
        /\ \A q \in Runs : q > run => events'[q] = <<>>
        /\ r <= run /\ run > 0 /\ run \in Runs
    BY HandledType DEF auto_handle_user_reply
  <1>2. UNCHANGED <<handle, goalRequest, coord, countdowns, timers, reviewing, run, sent, budget>>
    BY DEF auto_handle_user_reply
  <1>3. turns' \in 0..MaxTurns
    BY <1>0, Bounds DEF auto_handle_user_reply, SubmitTurn, TypeOK
  <1> DEFINE a == [ctl EXCEPT !.phase = "active"]
             w == [on_prompt_submitted(ctl) EXCEPT !.stray = ~(r = handle)]
  <1>4. a \in Controllers /\ w \in Controllers
    BY DEF Controllers, Phases, ActivePhases, on_prompt_submitted
  <1>5. a.phase = "active" /\ w.phase = "coordWait"
    BY DEF Controllers, on_prompt_submitted
  <1>6. ctl' = a \/ (ctl' = IF ctl.phase = "paused" THEN w ELSE ctl) \/ ctl' = ctl
    BY DEF auto_handle_user_reply, SubmitTurn
  <1> HIDE DEF a, w
  <1>7. HandleKept
    BY <1>2 DEF HandleKept
  <1>8. TypeOK'
    BY <1>0, <1>1, <1>2, <1>3, <1>4, <1>6, <1>7, UiType DEF TypeOK
  <1>9. StepEffect
    BY <1>1, <1>2, <1>5, <1>6, <1>7
       DEF StepEffect, Reach, HandleInv, LaunchInv, is_active, ActivePhases
  <1> QED BY <1>2, <1>8, <1>9 DEF UiStep, Tame

\* Countdowns, restart timers that come too late, and the core session.
LEMMA CountdownStep ==
    ASSUME Reach, NEW t \in countdowns, auto_handle_countdown(t)
    PROVE  UiStep
  <1> USE ReachFacts
  <1>0. TypeOK
    BY DEF Reach
  <1>1. countdowns' \subseteq countdowns /\ UNCHANGED <<events, timers, reviewing, run, budget>>
    BY DEF auto_handle_countdown
  <1>2. PartEffect(ctl, coord) /\ TurnEffect(ctl)
    <2>1. CASE auto_submit_prompt(ctl, coord, goalRequest)
      BY <1>0, <2>1, SubmitEffect
    <2>2. CASE Keep(ctl, coord, goalRequest) /\ NoTurn
      BY <2>2, KeepEffect DEF NoTurn, TurnEffect
    <2> QED BY <2>1, <2>2 DEF auto_handle_countdown
  <1>3. TypeOK'
    BY <1>0, <1>1, <1>2, UiType, TurnType DEF TypeOK, PartEffect
  <1>4. ctl' = ctl \/ run > 0
    BY DEF auto_handle_countdown, Keep, is_active, ActivePhases
  <1>5. StepEffect
    <2>1. ctl'.phase \in {"coordWait", "turnWait"} \/ ctl'.stopMsg => run > 0
      BY <1>4 DEF is_active, ActivePhases
    <2> QED BY <1>1, <1>2, <2>1, PartStep DEF Reach, HandleInv, LaunchInv
  <1> QED BY <1>2, <1>3, <1>5 DEF UiStep, PartEffect

LEMMA LateRestartStep ==
    ASSUME Reach, NEW t \in timers,
           timers' = timers \ {t}, Keep(ctl, coord, goalRequest), NoTurn,
           UNCHANGED <<events, reviewing, run, budget, countdowns>>
    PROVE  UiStep
  <1>1. /\ UNCHANGED <<ctl, coord, goalRequest, handle, events, reviewing, run, budget,
                        countdowns, turns, sent>>
        /\ timers' \subseteq timers
    BY DEF Keep, NoTurn
  <1>2. TypeOK'
    BY <1>1 DEF Reach, TypeOK
  <1>3. StepEffect
    BY <1>1 DEF Reach, StepEffect, HandleKept, HandleInv, LaunchInv
  <1> QED BY <1>1, <1>2, <1>3 DEF UiStep, Tame

LEMMA SessionStep ==
    ASSUME Reach, Session
    PROVE  UiStep
  <1> USE ReachFacts
  <1>0. TypeOK
    BY DEF Reach
  <1>1. ASSUME NEW c \in Controllers, PartEffect(c, coord),
               is_active(c), c.phase # "recovery", c.phase # "ready", run > 0,
               turns' \in 0..MaxTurns, reviewing' \in BOOLEAN,
               UNCHANGED <<sent, events, countdowns, timers, run, budget>>
        PROVE  UiStep
    <2>1. TypeOK'
      BY <1>0, <1>1, UiType DEF TypeOK, PartEffect
    <2>2. StepEffect
      BY <1>1, PartStep
    <2> QED BY <1>1, <2>1, <2>2 DEF UiStep, PartEffect
  <1>2. ASSUME PartEffect(ctl, coord), ctl' = ctl,
               turns' \in 0..MaxTurns, reviewing' \in BOOLEAN,
               UNCHANGED <<sent, events, countdowns, timers, run, budget>>
        PROVE  UiStep
    <2>1. TypeOK'
      BY <1>0, <1>2, UiType DEF TypeOK, PartEffect
    <2>2. StepEffect
      <3>1. ctl'.phase \in {"coordWait", "turnWait"} \/ ctl'.stopMsg => run > 0
        BY <1>2 DEF is_active, ActivePhases
      <3> QED BY <1>2, <3>1, PartStep DEF Reach, HandleInv, LaunchInv
    <2> QED BY <1>2, <2>1, <2>2 DEF UiStep, PartEffect
  <1>3. ASSUME NEW complete \in BOOLEAN, insert_final_answer(complete)
        PROVE  UiStep
    <2> DEFINE c == [ctl EXCEPT !.stopMsg = FALSE, !.phase = "active"]
    <2>1. c \in Controllers /\ c.phase = "active"
      BY DEF Controllers, Phases, ActivePhases
    <2> HIDE DEF c
    <2>2. /\ ctl.stopMsg /\ turns' = turns /\ sent' = sent
          /\ UNCHANGED <<events, countdowns, timers, reviewing, run, budget>>
      BY <1>3 DEF insert_final_answer, NoTurn
    <2>3. CASE auto_stop(ctl, coord)
      <3>1. PartEffect(ctl, coord)
        BY <2>3, StopEffect
      <3>2. TypeOK'
        BY <1>0, <2>2, <3>1, UiType DEF TypeOK, PartEffect
      <3>3. StepEffect
        BY <2>2, <3>1, PartStep DEF Reach, HandleInv, LaunchInv
      <3> QED BY <3>1, <3>2, <3>3 DEF UiStep, PartEffect
    <2>4. CASE auto_send_conversation_force(c, coord, goalRequest)
      <3>1. PartEffect(c, coord)
        BY <2>1, <2>4, SendEffect
      <3> QED BY <1>0, <1>1, <2>1, <2>2, <3>1 DEF TypeOK, is_active, ActivePhases
    <2> QED BY <1>3, <2>3, <2>4 DEF insert_final_answer, c
  <1>4. ASSUME NEW c \in Controllers, auto_send_conversation(c, coord), c.phase \in {"active", "review"},
               run > 0, turns' \in 0..MaxTurns, reviewing' \in BOOLEAN,
               UNCHANGED <<sent, events, countdowns, timers, run, budget>>
        PROVE  UiStep
    <2>1. auto_send_conversation_force(on_complete_review(c), coord, goalRequest)
      BY <1>4 DEF auto_send_conversation, is_waiting_for_response
    <2>2. on_complete_review(c) \in Controllers
      BY MethodTypes
    <2>3. on_complete_review(c).phase = "active"
      BY DEF on_complete_review, Controllers
    <2>4. PartEffect(on_complete_review(c), coord)
      BY <2>1, <2>2, SendEffect
    <2> QED BY <1>1, <1>4, <2>2, <2>3, <2>4 DEF is_active, ActivePhases
  <1>5. ASSUME NEW free \in BOOLEAN, auto_on_turn_complete(free)
        PROVE  UiStep
    <2> DEFINE c == on_resume_from_manual(ctl)
               d == IF reviewing THEN on_begin_review(c, free) ELSE on_complete_review(c)
    <2>1. c \in Controllers
      BY MethodTypes
    <2> HIDE DEF c
    <2>2. d \in Controllers
      BY <2>1, MethodTypes
    <2>3. d.phase \in {"active", "review"}
      BY <2>1 DEF Controllers, on_begin_review, on_complete_review
    <2> HIDE DEF d
    <2>4. /\ turns' \in 0..MaxTurns /\ reviewing' \in BOOLEAN
          /\ UNCHANGED <<sent, events, countdowns, timers, run, budget>>
      BY <1>0, <1>5, Bounds DEF auto_on_turn_complete, TypeOK
    <2>5. CASE Keep(ctl, coord, goalRequest)
      <3>1. PartEffect(ctl, coord) /\ ctl' = ctl
        BY <2>5, KeepEffect DEF Keep
      <3> QED BY <1>2, <2>4, <3>1
    <2>6. CASE ctl.phase = "turnWait" /\ Keep(d, coord, goalRequest)
      <3>1. PartEffect(d, coord) /\ run > 0
        BY <2>2, <2>6, KeepEffect DEF is_active, ActivePhases
      <3> QED BY <1>1, <2>2, <2>3, <2>4, <3>1 DEF is_active, ActivePhases
    <2>7. CASE ctl.phase = "turnWait" /\ auto_send_conversation(d, coord)
      <3>1. run > 0
        BY <2>7 DEF is_active, ActivePhases
      <3> QED BY <1>4, <2>2, <2>3, <2>4, <2>7, <3>1
    <2> QED BY <1>5, <2>5, <2>6, <2>7 DEF auto_on_turn_complete, c, d
  <1>6. CASE on_error
    <2>1. /\ ctl' \in Controllers /\ ctl'.phase = "recovery" /\ handle' = 0
          /\ coord' \in [Runs -> Coordinators] /\ HandleKept
          /\ \A q \in Runs : Tame(coord[q], coord'[q])
          /\ timers' \subseteq [run : Runs, restart : Nat \X Nat]
          /\ turns' = turns /\ sent' = sent
      <3>1. \A q \in Runs : Tame(coord[q], coord[q])
        BY DEF Tame
      <3> QED BY <1>6, <3>1, PauseEffect DEF on_error
    <2>2. /\ UNCHANGED <<goalRequest, events, countdowns, reviewing, run>>
          /\ is_active(ctl) /\ budget' \in 0..MaxEvents
      BY <1>0, <1>6, UsesType DEF on_error
    <2>3. TypeOK'
      BY <1>0, <2>1, <2>2, UiType DEF TypeOK
    <2>4. StepEffect
      BY <2>1, <2>2 DEF StepEffect
    <2> QED BY <2>1, <2>3, <2>4 DEF UiStep
  <1>7. ASSUME NEW free \in BOOLEAN, BeginReview(free)
        PROVE  UiStep
    <2> DEFINE b == on_begin_review(ctl, free)
    <2>1. b \in Controllers
      BY MethodTypes
    <2>2. b.phase \in {"active", "review"}
      BY DEF Controllers, on_begin_review
    <2> HIDE DEF b
    <2>3. /\ ctl' = IF is_active(ctl) THEN b ELSE ctl
          /\ reviewing' = TRUE /\ budget' \in 0..MaxEvents
          /\ UNCHANGED <<handle, goalRequest, coord, events, countdowns, timers, turns, run, sent>>
      BY <1>0, <1>7, UsesType DEF BeginReview, b, coordVars
    <2>4. HandleKept
      BY <2>3 DEF HandleKept
    <2>5. TypeOK'
      BY <1>0, <2>1, <2>3, <2>4, UiType DEF TypeOK
    <2>6. StepEffect
      <3>1. CASE is_active(ctl)
        BY <2>2, <2>3, <2>4, <3>1 DEF StepEffect, is_active, ActivePhases
      <3>2. CASE ~is_active(ctl)
        BY <2>3, <2>4, <3>2 DEF StepEffect, Reach, HandleInv, LaunchInv
      <3> QED BY <3>1, <3>2
    <2> QED BY <2>3, <2>5, <2>6 DEF UiStep, Tame
  <1>8. CASE EndReview
    <2>1. /\ turns' \in 0..MaxTurns /\ reviewing' \in BOOLEAN
          /\ UNCHANGED <<sent, events, countdowns, timers, run, budget>>
      BY <1>0, <1>8 DEF EndReview, NoTurn, TypeOK
    <2>2. CASE ctl.phase = "review" /\ auto_send_conversation(on_complete_review(ctl), coord)
      <3>1. on_complete_review(ctl) \in Controllers
        BY MethodTypes
      <3>2. on_complete_review(ctl).phase = "active" /\ run > 0
        BY <2>2 DEF on_complete_review, Controllers, is_active, ActivePhases
      <3> QED BY <1>4, <2>1, <2>2, <3>1, <3>2
    <2>3. CASE Keep(ctl, coord, goalRequest)
      <3>1. PartEffect(ctl, coord) /\ ctl' = ctl
        BY <2>3, KeepEffect DEF Keep
      <3> QED BY <1>2, <2>1, <3>1
    <2> QED BY <1>8, <2>2, <2>3 DEF EndReview
  <1> QED BY <1>3, <1>5, <1>6, <1>7, <1>8 DEF Session

\* A coordinator at its first block.
LEMMA StartedType ==
    ASSUME NEW derive \in BOOLEAN
    PROVE  /\ Started(derive) \in Coordinators
           /\ Started(derive).pc = (IF derive THEN "asking" ELSE "loop")
           /\ Started(derive).ack = (IF derive THEN None ELSE <<0>>)
           /\ Started(derive).seq = 0 /\ Started(derive).queue = 0
           /\ Started(derive).cmds = <<>> /\ ~Started(derive).cancelled
  <1>0. 0 \in 0..MaxSeq /\ 0 \in 0..QueueCap /\ <<>> \in Seq(Commands) /\ None # <<0>>
    BY Bounds, AutoDriveAssumption DEF None
  <1> DEFINE c == [Stopped EXCEPT !.ack = IF derive THEN None ELSE <<0>>]
  <1>1. /\ c \in Coordinators /\ c.ack = (IF derive THEN None ELSE <<0>>)
        /\ c.seq = 0 /\ c.queue = 0 /\ c.cmds = <<>> /\ ~c.cancelled
    BY <1>0 DEF Stopped, Coordinators
  <1>2. Started(derive) = LoopTop(c, derive)
    BY Zenon DEF Started
  <1> HIDE DEF c
  <1>3. CASE derive
    <2>1. LoopTop(c, derive) = [c EXCEPT !.pc = "asking", !.queue = c.queue]
      BY <1>1, <1>3 DEF LoopTop
    <2> QED BY <1>1, <1>2, <1>3, <2>1 DEF Coordinators
  <1>4. CASE ~derive
    <2>1. LoopTop(c, derive) = [c EXCEPT !.pc = "loop", !.queue = c.queue]
      BY <1>0, <1>1, <1>4 DEF LoopTop
    <2> QED BY <1>1, <1>2, <1>4, <2>1 DEF Coordinators
  <1> QED BY <1>3, <1>4

LEMMA SeedType ==
    ASSUME NEW r \in Runs, NEW derive \in BOOLEAN
    PROVE  SeedEvents(r, derive) \in Seq(Events)
  <1>1. <<r, 0>> \in Decisions
    BY Bounds, DecisionFacts
  <1>2. [kind |-> "planning", of |-> <<r, 0>>] \in Events
    BY <1>1 DEF Events, Statuses
  <1> QED BY <1>2 DEF SeedEvents

\* A launch: every coordinator before it has ended or knows that it must.
LaunchEffect(up, down, k, derive) ==
    /\ run' = run + 1 /\ run' \in Runs /\ sent' = sent
    /\ ctl' \in {up, down} /\ coord' \in [Runs -> Coordinators]
    /\ \A q \in Runs : q # run' => coord'[q] = k[q] /\ events'[q] = events[q]
    /\ handle' = run' => /\ ctl' = up /\ coord'[run'] = Started(derive)
                         /\ events'[run'] = SeedEvents(run', derive)
    /\ handle' # run' => /\ handle' = 0 /\ ctl' = down
                         /\ coord'[run'] = k[run'] /\ events'[run'] = events[run']

Quiet(k) ==
    /\ k \in [Runs -> Coordinators]
    /\ \A q \in Runs : Tame(coord[q], k[q])
    /\ \A q \in Runs : k[q].pc = "stopped" \/ k[q].cancelled

LEMMA LaunchStep ==
    ASSUME Reach, NEW up \in Controllers, NEW down \in Controllers,
           NEW k, NEW g \in BOOLEAN, NEW derive \in BOOLEAN, Quiet(k),
           is_active(up), up.phase # "recovery", up.phase = "ready" => up.prompt # None,
           ~is_active(down),
           auto_launch_with_goal(up, down, k, 0, g, derive),
           timers' \subseteq timers,
           countdowns' \subseteq [run : Runs, id : Nat, by : {Blank} \cup Decisions]
    PROVE  TypeOK' /\ HandleInv' /\ LaunchInv' /\ LaunchEffect(up, down, k, derive)
  <1> USE ReachFacts
  <1>1. /\ run' = run + 1 /\ run' \in Runs /\ run' \in 0..MaxRuns
        /\ UNCHANGED <<turns, sent, reviewing>>
    BY Bounds DEF auto_launch_with_goal, NoTurn, Runs
  <1>2. CASE /\ ctl' = up /\ handle' = run + 1 /\ goalRequest' = g
             /\ coord' = [k EXCEPT ![run + 1] = Started(derive)]
             /\ events' = [events EXCEPT ![run + 1] = SeedEvents(run + 1, derive)]
             /\ budget' = IF handle' = run + 1 THEN budget ELSE budget - 1
    <2>1. coord' \in [Runs -> Coordinators] /\ coord'[run'] = Started(derive)
      BY <1>1, <1>2, StartedType DEF Quiet
    <2>2. /\ events' \in [Runs -> Seq(Events)] /\ events'[run'] = SeedEvents(run', derive)
          /\ \A q \in Runs : q # run' => coord'[q] = k[q] /\ events'[q] = events[q]
      BY <1>1, <1>2, SeedType DEF Reach, TypeOK, Quiet
    <2>3. TypeOK'
      BY <1>1, <1>2, <2>1, <2>2 DEF Reach, TypeOK
    <2>4. HandleInv'
      BY <1>1, <1>2, <2>2 DEF HandleInv, Quiet
    <2>5. LaunchInv'
      <3>1. ASSUME NEW q \in Runs, q > run'
            PROVE  coord'[q].pc = "stopped" /\ events'[q] = <<>>
        <4>1. q > run /\ q # run'
          BY <1>1, <3>1 DEF Runs
        <4>2. coord[q].pc = "stopped" /\ events[q] = <<>>
          BY <4>1 DEF Reach, LaunchInv
        <4> QED BY <2>2, <4>1, <4>2 DEF Quiet, Tame
      <3> QED BY <1>1, <1>2, <3>1 DEF LaunchInv, Runs
    <2> QED BY <1>1, <1>2, <2>1, <2>2, <2>3, <2>4, <2>5 DEF LaunchEffect
  <1>3. CASE /\ budget > 0
             /\ ctl' = down
             /\ handle' = 0 /\ goalRequest' = FALSE /\ coord' = k
             /\ UNCHANGED events
             /\ budget' = IF handle' = run + 1 THEN budget ELSE budget - 1
    <2>1. budget' \in 0..MaxEvents /\ handle' # run' /\ handle' \in 0..MaxRuns
      BY <1>1, <1>3, Bounds DEF Reach, TypeOK
    <2>2. TypeOK'
      BY <1>1, <1>3, <2>1 DEF Reach, TypeOK, Quiet
    <2>3. HandleInv'
      BY <1>1, <1>3 DEF HandleInv, Quiet
    <2>4. LaunchInv'
      <3>1. ASSUME NEW q \in Runs, q > run'
            PROVE  coord'[q].pc = "stopped" /\ events'[q] = <<>>
        <4>1. q > run
          BY <1>1, <3>1 DEF Runs
        <4>2. coord[q].pc = "stopped" /\ events[q] = <<>>
          BY <4>1 DEF Reach, LaunchInv
        <4> QED BY <1>3, <4>2 DEF Quiet, Tame
      <3> QED BY <1>1, <1>3, <3>1 DEF LaunchInv, Runs, is_active, ActivePhases
    <2> QED BY <1>1, <1>3, <2>1, <2>2, <2>3, <2>4 DEF LaunchEffect, Quiet
  <1> QED BY <1>2, <1>3 DEF auto_launch_with_goal

\* The three launches, with the controllers they end with.
LEMMA LaunchedType ==
    ASSUME NEW c \in Controllers
    PROVE  /\ launched(c, TRUE) \in Controllers /\ launched(c, FALSE) \in Controllers
           /\ launched(c, TRUE).phase = "coordWait" /\ launched(c, FALSE).phase = "goalEntry"
           /\ launched(c, TRUE).countdownId = 0
  <1>1. launched(c, TRUE) \in Controllers /\ launched(c, FALSE) \in Controllers
    BY MethodTypes
  <1> QED BY <1>1 DEF launched, reset, Default

Again(ok) ==
    [launched([on_recovery_attempt(ctl) EXCEPT !.pendingRestart = None], ok)
        EXCEPT !.attempts = ctl.attempts]

LEMMA AgainType ==
    ASSUME Reach
    PROVE  /\ Again(TRUE) \in Controllers /\ Again(FALSE) \in Controllers
           /\ Again(TRUE).phase = "coordWait" /\ Again(FALSE).phase = "goalEntry"
  <1> DEFINE o == on_recovery_attempt(ctl)
             c == [o EXCEPT !.pendingRestart = None]
  <1>1. o \in Controllers
    BY ReachFacts, MethodTypes
  <1> HIDE DEF o
  <1>2. c \in Controllers
    BY <1>1 DEF Controllers
  <1> HIDE DEF c
  <1>3. /\ launched(c, TRUE) \in Controllers /\ launched(c, FALSE) \in Controllers
        /\ launched(c, TRUE).phase = "coordWait" /\ launched(c, FALSE).phase = "goalEntry"
    BY <1>2, LaunchedType
  <1>4. ASSUME NEW l \in Controllers
        PROVE  /\ [l EXCEPT !.attempts = ctl.attempts] \in Controllers
               /\ [l EXCEPT !.attempts = ctl.attempts].phase = l.phase
    BY ReachFacts DEF Controllers
  <1> QED BY <1>3, <1>4 DEF Again, o, c

LEMMA AutoGoalStep ==
    ASSUME Reach, AutoGoal
    PROVE  /\ TypeOK' /\ HandleInv' /\ LaunchInv'
           /\ Quiet(StoppedCoord) /\ UNCHANGED <<countdowns, timers>>
           /\ LaunchEffect(launched(StoppedCtl, TRUE), launched(StoppedCtl, FALSE), StoppedCoord, FALSE)
  <1> DEFINE up == launched(StoppedCtl, TRUE)
             down == launched(StoppedCtl, FALSE)
  <1>1. /\ up \in Controllers /\ down \in Controllers
        /\ up.phase = "coordWait" /\ down.phase = "goalEntry"
    BY StoppedParts, LaunchedType
  <1>2. Quiet(StoppedCoord) /\ StoppedHandle = 0
    BY StoppedParts DEF Quiet
  <1> HIDE DEF up, down
  <1>3. /\ auto_launch_with_goal(up, down, StoppedCoord, 0, goalRequest /\ ~is_active(ctl), FALSE)
        /\ UNCHANGED <<countdowns, timers>>
    BY <1>2 DEF AutoGoal, up, down
  <1>4. /\ countdowns' \subseteq [run : Runs, id : Nat, by : {Blank} \cup Decisions]
        /\ timers' \subseteq timers /\ (goalRequest /\ ~is_active(ctl)) \in BOOLEAN
    BY <1>3 DEF Reach, TypeOK
  <1> QED BY <1>1, <1>2, <1>3, <1>4, LaunchStep DEF is_active, ActivePhases, up, down

LEMMA AutoBootstrapStep ==
    ASSUME Reach, AutoBootstrap
    PROVE  /\ TypeOK' /\ HandleInv' /\ LaunchInv'
           /\ Quiet(StoppedCoord) /\ UNCHANGED timers
           /\ IF is_active(ctl') THEN StartCountdown(ctl', run') ELSE UNCHANGED countdowns
           /\ LaunchEffect(schedule_cli_prompt(launched(StoppedCtl, TRUE), Blank),
                           launched(StoppedCtl, FALSE), StoppedCoord, TRUE)
  <1> DEFINE l == launched(StoppedCtl, TRUE)
             up == schedule_cli_prompt(l, Blank)
             down == launched(StoppedCtl, FALSE)
  <1>1. /\ l \in Controllers /\ down \in Controllers /\ down.phase = "goalEntry"
    BY StoppedParts, LaunchedType
  <1> HIDE DEF l, down
  <1>2. up \in Controllers
    BY <1>1, MethodTypes
  <1>3. up.phase = "ready" /\ up.prompt = Blank /\ Blank # None
    BY <1>1, DecisionFacts DEF schedule_cli_prompt, Controllers
  <1>4. Quiet(StoppedCoord) /\ StoppedHandle = 0
    BY StoppedParts DEF Quiet
  <1> HIDE DEF up
  <1>5. /\ auto_launch_with_goal(up, down, StoppedCoord, 0, TRUE, TRUE)
        /\ IF is_active(ctl') THEN StartCountdown(ctl', run') ELSE UNCHANGED countdowns
        /\ UNCHANGED timers
    BY <1>4 DEF AutoBootstrap, up, down, l
  <1>6. run' \in Runs /\ ctl' \in {up, down}
    <2>1. ctl' \in {up, down} /\ run < MaxRuns /\ run' = run + 1
      BY <1>5 DEF auto_launch_with_goal
    <2> QED BY <2>1, ReachFacts, Bounds DEF Runs
  <1>7. countdowns' \subseteq [run : Runs, id : Nat, by : {Blank} \cup Decisions]
    <2>1. CASE ctl' = up
      <3>1. StartCountdown(up, run')
        BY <1>3, <1>5, <2>1 DEF is_active, ActivePhases
      <3> QED BY <1>2, <1>3, <1>6, <3>1, CountdownType DEF Reach
    <2>2. CASE ctl' = down
      BY <1>1, <1>5, <2>2 DEF Reach, TypeOK, is_active, ActivePhases
    <2> QED BY <1>6, <2>1, <2>2
  <1>8. timers' \subseteq timers
    BY <1>5
  <1> QED BY <1>1, <1>2, <1>3, <1>4, <1>5, <1>7, <1>8, LaunchStep DEF is_active, ActivePhases, up, down, l

LEMMA RestartStep ==
    ASSUME Reach, NEW t \in timers, auto_handle_restart(t)
    PROVE  \/ UiStep /\ UNCHANGED <<ctl, coord, handle, events, countdowns, sent, run>>
              /\ ~(ctl.phase = "recovery" /\ ctl.pendingRestart = t.restart)
           \/ /\ TypeOK' /\ HandleInv' /\ LaunchInv'
              /\ Quiet(coord) /\ UNCHANGED countdowns
              /\ LaunchEffect(Again(TRUE), Again(FALSE), coord, FALSE)
  <1>1. CASE /\ ctl.phase = "recovery"
             /\ auto_launch_with_goal(Again(TRUE), Again(FALSE), coord, handle, goalRequest, FALSE)
    <2>1. handle = 0 /\ Quiet(coord)
      BY <1>1, ReachFacts DEF Reach, HandleInv, Quiet, Runs, Tame
    <2>2. /\ timers' \subseteq timers /\ UNCHANGED countdowns
          /\ countdowns' \subseteq [run : Runs, id : Nat, by : {Blank} \cup Decisions]
      BY DEF auto_handle_restart, Reach, TypeOK
    <2> QED BY <1>1, <2>1, <2>2, AgainType, ReachFacts, LaunchStep DEF is_active, ActivePhases
  <1>2. CASE /\ ~(ctl.phase = "recovery" /\ ctl.pendingRestart = t.restart)
             /\ Keep(ctl, coord, goalRequest) /\ NoTurn
             /\ UNCHANGED <<events, reviewing, run, budget>>
    BY <1>2, LateRestartStep DEF auto_handle_restart, Keep, NoTurn
  <1> QED BY <1>1, <1>2 DEF auto_handle_restart, Again

\* No step leaves the invariant.
LEMMA ReachStep ==
    ASSUME Reach, [Next]_vars
    PROVE  Reach'
  <1>1. ASSUME UiStep
        PROVE  Reach'
    <2>1. \A q \in Runs : Lives(coord[q], coord'[q])
      BY <1>1 DEF UiStep, Tame, Lives
    <2> QED BY <1>1, <2>1, EffectKeeps DEF UiStep, Reach
  <1>2. CASE User
    <2>1. CASE AutoGoal
      BY <2>1, AutoGoalStep DEF Reach
    <2>2. CASE AutoBootstrap
      BY <2>2, AutoBootstrapStep DEF Reach
    <2>3. CASE ~AutoGoal /\ ~AutoBootstrap
      BY <1>1, <1>2, <2>3, UserStep DEF User
    <2> QED BY <2>1, <2>2, <2>3
  <1>3. CASE Session
    BY <1>1, <1>3, SessionStep
  <1>4. ASSUME NEW r \in Runs, Coordinator(r) \/ auto_handle_decision(r) \/ auto_handle_user_reply(r)
        PROVE  Reach'
    <2>1. CASE Coordinator(r)
      BY <2>1, CoordinatorStep, EffectKeeps DEF Reach
    <2>2. CASE auto_handle_decision(r)
      BY <1>1, <2>2, DecisionStep
    <2>3. CASE auto_handle_user_reply(r)
      BY <1>1, <2>3, ReplyStep
    <2> QED BY <1>4, <2>1, <2>2, <2>3
  <1>5. ASSUME NEW t \in countdowns, auto_handle_countdown(t)
        PROVE  Reach'
    BY <1>1, <1>5, CountdownStep
  <1>6. ASSUME NEW t \in timers, auto_handle_restart(t)
        PROVE  Reach'
    BY <1>1, <1>6, RestartStep DEF Reach
  <1>7. CASE UNCHANGED vars
    BY <1>7 DEF vars, Reach, TypeOK, HandleInv, LaunchInv
  <1> QED BY <1>2, <1>3, <1>4, <1>5, <1>6, <1>7 DEF Next

LEMMA ReachInit ==
    ASSUME Init
    PROVE  Reach
  <1>1. Default \in Controllers
    BY DEF Default, Controllers, Phases, ActivePhases
  <1>2. TypeOK
    <2>1. coord \in [Runs -> Coordinators] /\ events \in [Runs -> Seq(Events)]
      BY StoppedType DEF Init
    <2>2. /\ handle \in 0..MaxRuns /\ run \in 0..MaxRuns /\ turns \in 0..MaxTurns
          /\ budget \in 0..MaxEvents /\ sent \in [Decisions -> Nat]
      BY Bounds DEF Init
    <2> QED BY <1>1, <2>1, <2>2 DEF Init, TypeOK
  <1>3. HandleInv /\ LaunchInv
    BY DEF Init, HandleInv, LaunchInv, Default, Stopped, is_active, ActivePhases
  <1> QED BY <1>2, <1>3 DEF Reach

\* Every reachable state is well typed, and the launches and the handle are in order.
THEOREM Reachable == Spec => []Reach
  BY ReachInit, ReachStep, PTL DEF Spec

\* Every variable keeps its type.
THEOREM TypeCorrect == Spec => []TypeOK
  <1>1. Reach => TypeOK
    BY DEF Reach
  <1> QED BY <1>1, Reachable, PTL

\* Whatever stops, pauses, restarts or relaunches a run, no coordinator is left
\* running that the widget neither holds nor told to stop.
THEOREM NoLeakedCoordinator == Spec => []LiveCoordinatorIsHeld
  <1>1. Reach => LiveCoordinatorIsHeld
    BY DEF Reach, HandleInv, LiveCoordinatorIsHeld, Runs
  <1> QED BY <1>1, Reachable, PTL

----------------------------------------------------------------------------
(* Prompts, countdowns and restart timers. *)

\* The prompt of d waits for its countdown, the Enter key or the user's edit.
Offered(d) == ctl.phase \in {"ready", "paused"} /\ ctl.prompt = d

\* What a step that launches nothing does to the prompt, the countdowns and the
\* restart timers, when it may take up the decisions in D.
PromptEffect(D) ==
    /\ ctl'.phase = "recovery" =>
          \/ ctl.phase = "recovery" /\ ctl'.pendingRestart = ctl.pendingRestart /\ timers' = timers
          \/ \E t \in timers' : t.restart = ctl'.pendingRestart
    /\ handle' # 0 => ctl'.countdownId >= ctl.countdownId
    /\ ctl'.phase \in {"ready", "paused"} =>
          \/ /\ ctl.phase \in {"ready", "paused"} /\ ctl'.prompt = ctl.prompt
             /\ ctl'.phase = "ready" => ctl.phase = "ready"
          \/ ctl'.prompt \in D /\ ctl'.countdownId > ctl.countdownId
    /\ \A t \in countdowns' \ countdowns :
          /\ t.run = run
          /\ handle' # 0 => /\ t.id = ctl'.countdownId /\ t.id > ctl.countdownId
                            /\ ctl'.phase = "ready" => t.by = ctl'.prompt
    /\ \/ sent' = sent
       \/ /\ ctl'.phase \notin {"ready", "paused"}
          /\ \E d \in Decisions : (Offered(d) \/ d \in D) /\ sent' = CountSent(d)

LEMMA PartPrompt ==
    ASSUME Reach, NEW c, NEW k, PartEffect(c, k), TurnEffect(c),
           c = ctl \/ (c.phase \in {"active", "review"} /\ c.countdownId = ctl.countdownId),
           c.prompt \in Decisions /\ sent' # sent => Offered(c.prompt),
           countdowns' \subseteq countdowns, timers' = timers
    PROVE  PromptEffect({})
  <1>1. ctl.countdownId \in Nat /\ c.countdownId = ctl.countdownId
    BY ReachFacts DEF Controllers
  <1>2. CASE ctl' = c /\ handle' = handle
    BY <1>1, <1>2 DEF PartEffect, TurnEffect, PromptEffect
  <1>3. CASE ctl'.phase = "goalEntry" /\ handle' = 0
    BY <1>1, <1>3 DEF PartEffect, TurnEffect, PromptEffect
  <1>4. CASE ctl'.phase \in {"coordWait", "turnWait"} /\ ctl'.countdownId = c.countdownId
    BY <1>1, <1>4 DEF PartEffect, TurnEffect, PromptEffect
  <1> QED BY <1>2, <1>3, <1>4 DEF PartEffect

\* No decision counts for a turn without a prompt of one.
LEMMA CountNothing ==
    ASSUME TypeOK, NEW p, p \notin Decisions
    PROVE  CountSent(p) = sent
  BY DEF TypeOK, CountSent

LEMMA NoTurnEffect ==
    ASSUME NoTurn, NEW c
    PROVE  TurnEffect(c)
  BY DEF NoTurn, TurnEffect

LEMMA UserPrompt ==
    ASSUME Reach,
           \/ \E mode \in Modes : update_continue_mode(mode)
           \/ AutoGoalEntry \/ auto_exit_goal_entry \/ Stop
           \/ SubmitKey \/ auto_pause_for_manual_edit
           \/ \E slash \in BOOLEAN : SubmitUserMessage(slash)
    PROVE  PromptEffect({})
  <1> USE ReachFacts
  <1>0. TypeOK /\ ctl.countdownId \in Nat
    BY DEF Reach, Controllers
  <1>1. ASSUME NEW mode \in Modes, update_continue_mode(mode)
        PROVE  PromptEffect({})
    <2> DEFINE n == IF ctl.phase = "ready" THEN ctl.countdownId + 1 ELSE ctl.countdownId
               c == [ctl EXCEPT !.mode = mode, !.countdownId = n]
    <2>1. n \in Nat /\ n >= ctl.countdownId /\ (ctl.phase = "ready" => n > ctl.countdownId)
      BY <1>0
    <2> HIDE DEF n
    <2>2. /\ c.prompt = ctl.prompt /\ c.phase = ctl.phase /\ c.countdownId = n
          /\ c.pendingRestart = ctl.pendingRestart
      BY DEF Controllers
    <2>3. /\ ctl' = c /\ sent' = sent /\ timers' = timers
          /\ IF ctl.phase = "ready" THEN StartCountdown(c, run) ELSE UNCHANGED countdowns
      BY <1>1 DEF update_continue_mode, n
    <2> HIDE DEF c
    <2>4. \A t \in countdowns' \ countdowns :
             t = [run |-> run, id |-> c.countdownId, by |-> c.prompt] /\ ctl.phase = "ready"
      BY <2>3 DEF StartCountdown
    <2> QED BY <1>0, <2>1, <2>2, <2>3, <2>4 DEF PromptEffect
  <1>2. CASE AutoGoalEntry
    <2>1. ctl'.phase = "goalEntry" /\ handle' = 0 /\ UNCHANGED <<countdowns, sent>>
      BY <1>2, StoppedParts DEF AutoGoalEntry, reset, Default
    <2> QED BY <2>1 DEF PromptEffect
  <1>3. CASE auto_exit_goal_entry
    <2>1. ctl'.phase = "idle" /\ handle' = 0 /\ UNCHANGED <<countdowns, sent>>
      BY <1>3 DEF auto_exit_goal_entry, reset, Default, Reach, HandleInv, is_active, ActivePhases
    <2> QED BY <2>1 DEF PromptEffect
  <1>4. CASE Stop
    <2>1. auto_stop(ctl, coord) /\ NoTurn /\ UNCHANGED <<countdowns, timers>>
      BY <1>4 DEF Stop
    <2>2. PartEffect(ctl, coord) /\ TurnEffect(ctl) /\ sent' = sent
      BY <2>1, StopEffect, NoTurnEffect DEF NoTurn
    <2> QED BY <2>1, <2>2, PartPrompt
  <1>5. CASE SubmitKey
    <2>1. /\ ctl.phase = "ready" /\ auto_submit_prompt(ctl, coord, goalRequest)
          /\ UNCHANGED <<countdowns, timers>>
      BY <1>5 DEF SubmitKey
    <2>2. PartEffect(ctl, coord) /\ TurnEffect(ctl)
      BY <1>0, <2>1, SubmitEffect
    <2> QED BY <2>1, <2>2, PartPrompt DEF Offered
  <1>6. CASE auto_pause_for_manual_edit
    <2>1. /\ ctl.phase = "ready" /\ ctl'.phase = "paused" /\ ctl'.prompt = ctl.prompt
          /\ ctl'.countdownId = ctl.countdownId + 1 /\ UNCHANGED <<countdowns, sent>>
      BY <1>6 DEF auto_pause_for_manual_edit, Controllers
    <2> QED BY <1>0, <2>1 DEF PromptEffect
  <1>7. ASSUME NEW slash \in BOOLEAN, SubmitUserMessage(slash)
        PROVE  PromptEffect({})
    <2> DEFINE w == set_coordinator_waiting(on_prompt_submitted(ctl), TRUE)
               o == [on_prompt_submitted(ctl) EXCEPT !.stray = TRUE]
               e == IF ctl.phase = "paused" THEN ctl.prompt ELSE None
    <2>1. /\ w.phase = "coordWait" /\ o.phase = "coordWait"
          /\ w.countdownId = ctl.countdownId /\ o.countdownId = ctl.countdownId
      BY DEF Controllers, set_coordinator_waiting, on_prompt_submitted
    <2> HIDE DEF w, o
    <2>2. UNCHANGED <<countdowns, timers>>
      BY <1>7, MessageCases
    <2>3. CASE RoutedMessage
      <3>1. ctl' = w /\ UNCHANGED <<handle, sent>>
        BY <2>3 DEF RoutedMessage, w
      <3> QED BY <1>0, <2>1, <2>2, <3>1 DEF PromptEffect
    <2>4. CASE LocalMessage
      <3>1. PartEffect(ctl, coord) /\ TurnEffect(ctl) /\ sent' = sent
        BY <1>0, <2>4, SendEffect, NoTurnEffect DEF LocalMessage, NoTurn, TypeOK
      <3> QED BY <2>2, <3>1, PartPrompt
    <2>5. CASE TurnMessage
      <3>0. sent' = CountSent(e) /\ handle' = handle /\ ctl' = IF ctl.phase = "paused" THEN o ELSE ctl
        BY <2>5 DEF TurnMessage, o
      <3>1. CASE ctl.phase = "paused"
        <4>1. CASE ctl.prompt \in Decisions
          BY <1>0, <2>1, <2>2, <3>0, <3>1, <4>1 DEF PromptEffect, Offered
        <4>2. CASE ctl.prompt \notin Decisions
          <5>1. sent' = sent
            BY <1>0, <3>0, <3>1, <4>2, CountNothing
          <5> QED BY <1>0, <2>1, <2>2, <3>0, <3>1, <5>1 DEF PromptEffect
        <4> QED BY <4>1, <4>2
      <3>2. CASE ctl.phase # "paused"
        <4>1. sent' = sent /\ ctl' = ctl
          BY <1>0, <3>0, <3>2, CountNothing, DecisionFacts
        <4> QED BY <1>0, <2>2, <3>0, <4>1 DEF PromptEffect
      <3> QED BY <3>1, <3>2
    <2> QED BY <1>7, <2>3, <2>4, <2>5, MessageCases
  <1> QED BY <1>1, <1>2, <1>3, <1>4, <1>5, <1>6, <1>7

LEMMA SessionPrompt ==
    ASSUME Reach, Session
    PROVE  PromptEffect({})
  <1> USE ReachFacts
  <1>0. TypeOK /\ ctl.countdownId \in Nat
    BY DEF Reach, Controllers
  <1>1. ASSUME NEW c, PartEffect(c, coord), sent' = sent,
               c = ctl \/ (c.phase \in {"active", "review"} /\ c.countdownId = ctl.countdownId),
               countdowns' = countdowns, timers' = timers
        PROVE  PromptEffect({})
    <2>1. CASE ctl' = c /\ handle' = handle
      BY <1>0, <1>1, <2>1 DEF PromptEffect
    <2>2. CASE ctl'.phase = "goalEntry" /\ handle' = 0
      BY <1>0, <1>1, <2>2 DEF PromptEffect
    <2>3. CASE ctl'.phase \in {"coordWait", "turnWait"} /\ ctl'.countdownId = c.countdownId
      BY <1>0, <1>1, <2>3 DEF PromptEffect
    <2> QED BY <1>1, <2>1, <2>2, <2>3 DEF PartEffect
  <1>2. ASSUME NEW complete \in BOOLEAN, insert_final_answer(complete)
        PROVE  PromptEffect({})
    <2> DEFINE c == [ctl EXCEPT !.stopMsg = FALSE, !.phase = "active"]
    <2>1. c \in Controllers /\ c.phase = "active" /\ c.countdownId = ctl.countdownId
      BY DEF Controllers, Phases, ActivePhases
    <2> HIDE DEF c
    <2>2. sent' = sent /\ countdowns' = countdowns /\ timers' = timers
      BY <1>2 DEF insert_final_answer, NoTurn
    <2>3. CASE auto_stop(ctl, coord)
      BY <1>1, <2>2, <2>3, StopEffect
    <2>4. CASE auto_send_conversation_force(c, coord, goalRequest)
      BY <1>1, <2>1, <2>2, <2>4, SendEffect
    <2> QED BY <1>2, <2>3, <2>4 DEF insert_final_answer, c
  <1>3. ASSUME NEW c \in Controllers, auto_send_conversation(c, coord),
               c.phase \in {"active", "review"}, c.countdownId = ctl.countdownId, sent' = sent,
               countdowns' = countdowns, timers' = timers
        PROVE  PromptEffect({})
    <2>1. auto_send_conversation_force(on_complete_review(c), coord, goalRequest)
      BY <1>3 DEF auto_send_conversation, is_waiting_for_response
    <2>2. on_complete_review(c) \in Controllers
      BY MethodTypes
    <2>3. on_complete_review(c).phase = "active" /\ on_complete_review(c).countdownId = c.countdownId
      BY DEF on_complete_review, Controllers
    <2> QED BY <1>1, <1>3, <2>1, <2>2, <2>3, SendEffect
  <1>4. ASSUME NEW free \in BOOLEAN, auto_on_turn_complete(free)
        PROVE  PromptEffect({})
    <2> DEFINE c == on_resume_from_manual(ctl)
               d == IF reviewing THEN on_begin_review(c, free) ELSE on_complete_review(c)
    <2>1. c \in Controllers
      BY MethodTypes
    <2>2. c.countdownId = ctl.countdownId
      BY DEF on_resume_from_manual, Controllers
    <2> HIDE DEF c
    <2>3. d \in Controllers
      BY <2>1, MethodTypes
    <2>4. d.phase \in {"active", "review"} /\ d.countdownId = c.countdownId
      BY <2>1 DEF Controllers, on_begin_review, on_complete_review
    <2> HIDE DEF d
    <2>5. sent' = sent /\ countdowns' = countdowns /\ timers' = timers
      BY <1>4 DEF auto_on_turn_complete
    <2>6. CASE Keep(ctl, coord, goalRequest)
      BY <1>1, <2>5, <2>6, KeepEffect
    <2>7. CASE Keep(d, coord, goalRequest)
      BY <1>1, <2>2, <2>3, <2>4, <2>5, <2>7, KeepEffect
    <2>8. CASE auto_send_conversation(d, coord)
      BY <1>3, <2>2, <2>3, <2>4, <2>5, <2>8
    <2> QED BY <1>4, <2>6, <2>7, <2>8 DEF auto_on_turn_complete, c, d
  <1>5. CASE on_error
    <2>1. /\ handle' = 0 /\ UNCHANGED <<countdowns, sent>>
          /\ ctl' = pause_for_transient_failure(ctl)
          /\ [run |-> run, restart |-> ctl'.pendingRestart] \in timers'
      BY <1>5 DEF on_error, auto_pause_for_transient_failure, NoTurn
    <2>2. ctl'.phase = "recovery"
      BY <2>1 DEF pause_for_transient_failure, Controllers
    <2>3. \E t \in timers' : t.restart = ctl'.pendingRestart
      BY <2>1
    <2> QED BY <2>1, <2>2, <2>3 DEF PromptEffect
  <1>6. ASSUME NEW free \in BOOLEAN, BeginReview(free)
        PROVE  PromptEffect({})
    <2> DEFINE b == on_begin_review(ctl, free)
    <2>1. b.phase \in {"active", "review"} /\ b.countdownId = ctl.countdownId
      BY DEF Controllers, on_begin_review
    <2> HIDE DEF b
    <2>2. ctl' \in {b, ctl} /\ UNCHANGED <<countdowns, timers, sent>>
      BY <1>6 DEF BeginReview, b
    <2>3. CASE ctl' = b
      BY <1>0, <2>1, <2>2, <2>3 DEF PromptEffect
    <2>4. CASE ctl' = ctl
      BY <1>0, <2>2, <2>4 DEF PromptEffect
    <2> QED BY <2>2, <2>3, <2>4
  <1>7. CASE EndReview
    <2>1. sent' = sent /\ countdowns' = countdowns /\ timers' = timers
      BY <1>7 DEF EndReview, NoTurn
    <2>2. CASE auto_send_conversation(on_complete_review(ctl), coord)
      <3>1. on_complete_review(ctl) \in Controllers
        BY MethodTypes
      <3>2. /\ on_complete_review(ctl).phase = "active"
            /\ on_complete_review(ctl).countdownId = ctl.countdownId
        BY DEF on_complete_review, Controllers
      <3> QED BY <1>3, <2>1, <2>2, <3>1, <3>2
    <2>3. CASE Keep(ctl, coord, goalRequest)
      BY <1>1, <2>1, <2>3, KeepEffect
    <2> QED BY <1>7, <2>2, <2>3 DEF EndReview
  <1> QED BY <1>2, <1>4, <1>5, <1>6, <1>7 DEF Session

LEMMA ReplyPrompt ==
    ASSUME Reach, NEW r \in Runs, auto_handle_user_reply(r)
    PROVE  PromptEffect({})
  <1> DEFINE a == [ctl EXCEPT !.phase = "active"]
             w == [on_prompt_submitted(ctl) EXCEPT !.stray = ~(r = handle)]
  <1>1. a.phase = "active" /\ w.phase = "coordWait"
        /\ a.countdownId = ctl.countdownId /\ w.countdownId = ctl.countdownId
    BY ReachFacts DEF Controllers, on_prompt_submitted
  <1>2. UNCHANGED <<handle, countdowns, timers, sent>> /\ ctl.countdownId \in Nat
    BY ReachFacts DEF auto_handle_user_reply, Controllers
  <1>3. ctl' \in {a, w, ctl}
    BY DEF auto_handle_user_reply, SubmitTurn
  <1> HIDE DEF a, w
  <1>4. CASE ctl' \in {a, w}
    BY <1>1, <1>2, <1>4 DEF PromptEffect
  <1>5. CASE ctl' = ctl
    BY <1>2, <1>5 DEF PromptEffect
  <1> QED BY <1>3, <1>4, <1>5

LEMMA CountdownPrompt ==
    ASSUME Reach, NEW t \in countdowns, auto_handle_countdown(t)
    PROVE  PromptEffect({})
  <1>1. countdowns' \subseteq countdowns /\ timers' = timers
    BY DEF auto_handle_countdown
  <1>2. CASE ctl.phase = "ready" /\ auto_submit_prompt(ctl, coord, goalRequest)
    <2>1. PartEffect(ctl, coord) /\ TurnEffect(ctl)
      BY <1>2, ReachFacts, SubmitEffect DEF Reach
    <2> QED BY <1>1, <1>2, <2>1, PartPrompt DEF Offered
  <1>3. CASE Keep(ctl, coord, goalRequest) /\ NoTurn
    <2>1. PartEffect(ctl, coord) /\ TurnEffect(ctl) /\ sent' = sent
      BY <1>3, ReachFacts, KeepEffect, NoTurnEffect DEF NoTurn
    <2> QED BY <1>1, <2>1, PartPrompt
  <1> QED BY <1>2, <1>3 DEF auto_handle_countdown

LEMMA DecisionPrompt ==
    ASSUME Reach, NEW r \in Runs, auto_handle_decision(r)
    PROVE  PromptEffect({Head(events[r]).of})
  <1> USE ReachFacts
  <1> DEFINE e == Head(events[r])
             c == Decided(e)
             k == AckDecision(coord, e.of[2])
  <1> SUFFICES PromptEffect({e.of})
    OBVIOUS
  <1>0. TypeOK /\ ctl.countdownId \in Nat
    BY DEF Reach, Controllers
  <1>1. e \in Events
    BY HandledType DEF auto_handle_decision
  <1>2. /\ c \in Controllers /\ c.phase = "active" /\ c.countdownId = ctl.countdownId
        /\ c.prompt = IF e.kind \in {"planning", "continue"} THEN e.of ELSE None
    BY <1>1, DecidedType
  <1>3. e.of \in Decisions /\ e.of[2] \in 0..MaxSeq
    BY <1>1, DecisionFacts DEF Events
  <1>4. k \in [Runs -> Coordinators]
    BY <1>3, AckType
  <1>5. ASSUME NEW s \in Controllers, s.countdownId > ctl.countdownId, s.prompt = e.of, s.phase = "ready",
               PartEffect(s, k), TurnEffect(s), timers' = timers, StartCountdown(s, run)
        PROVE  PromptEffect({e.of})
    <2> HIDE DEF e, k, c
    <2>0. s.countdownId \in Nat
      BY <1>5 DEF Controllers
    <2>1. \A t \in countdowns' \ countdowns : t = [run |-> run, id |-> s.countdownId, by |-> s.prompt]
      BY <1>5 DEF StartCountdown
    <2>2. sent' = sent \/ (ctl'.phase = "turnWait" /\ sent' = CountSent(e.of))
      BY <1>5 DEF TurnEffect
    <2>3. CASE ctl' = s /\ handle' = handle
      BY <1>0, <1>3, <1>5, <2>0, <2>1, <2>2, <2>3 DEF PromptEffect
    <2>4. CASE ctl'.phase = "goalEntry" /\ handle' = 0
      BY <1>0, <1>5, <2>0, <2>1, <2>2, <2>4 DEF PromptEffect
    <2>5. CASE ctl'.phase \in {"coordWait", "turnWait"} /\ ctl'.countdownId = s.countdownId
      BY <1>0, <1>3, <1>5, <2>0, <2>1, <2>2, <2>5 DEF PromptEffect
    <2> QED BY <1>5, <2>3, <2>4, <2>5 DEF PartEffect
  <1>6. CASE ~is_active(ctl) /\ Keep(ctl, k, goalRequest) /\ NoTurn /\ UNCHANGED <<countdowns, timers>>
    <2>1. UNCHANGED <<ctl, handle, countdowns, timers, sent>>
      BY <1>6 DEF Keep, NoTurn
    <2> QED BY <1>0, <2>1 DEF PromptEffect
  <1>7. CASE auto_stop(c, k) /\ NoTurn /\ UNCHANGED <<countdowns, timers>>
    <2> HIDE DEF e, k, c
    <2>1. handle' = 0 /\ ctl'.phase = "goalEntry" /\ UNCHANGED <<countdowns, timers, sent>>
      BY <1>7 DEF auto_stop, NoTurn, stop_run, reset, Default
    <2> QED BY <2>1 DEF PromptEffect
  <1>8. CASE e.kind = "planning" /\ auto_dispatch_cli_prompt(c, k) /\ UNCHANGED <<countdowns, timers>>
    <2>1. c.prompt = e.of
      BY <1>2, <1>8
    <2> HIDE DEF e, k, c
    <2>2. /\ ctl'.phase = "turnWait" /\ ctl'.countdownId = ctl.countdownId
          /\ sent' = CountSent(e.of) /\ UNCHANGED <<countdowns, timers>>
      BY <1>2, <1>8, <2>1
         DEF auto_dispatch_cli_prompt, set_coordinator_waiting, on_prompt_submitted, Controllers
    <2> QED BY <1>0, <1>3, <2>2 DEF PromptEffect
  <1>9. CASE /\ Keep(schedule_cli_prompt(c, e.of), k, FALSE) /\ NoTurn
             /\ StartCountdown(schedule_cli_prompt(c, e.of), run) /\ UNCHANGED timers
    <2> DEFINE s == schedule_cli_prompt(c, e.of)
    <2> HIDE DEF k, e, c
    <2>1. s \in Controllers
      BY <1>2, <1>3, MethodTypes
    <2>2. s.phase = "ready" /\ s.prompt = e.of /\ s.countdownId = ctl.countdownId + 1
      BY <1>2 DEF Controllers, schedule_cli_prompt
    <2> HIDE DEF s
    <2>3. Keep(s, k, FALSE) /\ NoTurn /\ StartCountdown(s, run) /\ timers' = timers
      BY <1>9 DEF s
    <2>4. PartEffect(s, k) /\ TurnEffect(s)
      BY <1>4, <2>1, <2>3, KeepEffect, NoTurnEffect
    <2>5. s.countdownId > ctl.countdownId
      BY <1>0, <2>2
    <2> QED BY <1>5, <2>1, <2>2, <2>3, <2>4, <2>5
  <1>10. CASE /\ LET s == schedule_cli_prompt([c EXCEPT !.stopMsg = TRUE], e.of)
                 IN StartCountdown(s, run) /\ auto_submit_prompt(s, k, FALSE)
              /\ UNCHANGED timers
    <2> DEFINE m == [c EXCEPT !.stopMsg = TRUE]
               s == schedule_cli_prompt(m, e.of)
    <2> HIDE DEF k, e, c
    <2>1. m \in Controllers /\ m.countdownId = c.countdownId
      BY <1>2 DEF Controllers
    <2> HIDE DEF m
    <2>2. s \in Controllers
      BY <1>3, <2>1, MethodTypes
    <2>3. s.phase = "ready" /\ s.prompt = e.of /\ s.countdownId = m.countdownId + 1
      BY <2>1 DEF Controllers, schedule_cli_prompt
    <2> HIDE DEF s
    <2>4. StartCountdown(s, run) /\ auto_submit_prompt(s, k, FALSE) /\ timers' = timers
      BY <1>10 DEF s, m
    <2>5. PartEffect(s, k) /\ TurnEffect(s)
      BY <1>0, <1>4, <2>2, <2>4, SubmitEffect
    <2>6. s.countdownId > ctl.countdownId
      BY <1>0, <1>2, <2>1, <2>3
    <2> QED BY <1>5, <2>2, <2>3, <2>4, <2>5, <2>6
  <1>11. CASE auto_pause_for_transient_failure(c, k) /\ UNCHANGED countdowns
    <2> HIDE DEF k, e, c
    <2>1. /\ handle' = 0 /\ UNCHANGED <<countdowns, sent>>
          /\ ctl' = pause_for_transient_failure(c)
          /\ [run |-> run, restart |-> ctl'.pendingRestart] \in timers'
      BY <1>11 DEF auto_pause_for_transient_failure, NoTurn
    <2>2. ctl'.phase = "recovery"
      BY <1>2, <2>1 DEF pause_for_transient_failure, Controllers
    <2>3. \E t \in timers' : t.restart = ctl'.pendingRestart
      BY <2>1
    <2> QED BY <2>1, <2>2, <2>3 DEF PromptEffect
  <1> QED BY <1>6, <1>7, <1>8, <1>9, <1>10, <1>11 DEF auto_handle_decision

\* A launch, of whichever kind.
Launching(k, derive) ==
    /\ Quiet(k) /\ coord' \in [Runs -> Coordinators]
    /\ run' = run + 1 /\ run' \in Runs /\ sent' = sent
    /\ ctl'.phase \in {"coordWait", "ready", "goalEntry"}
    /\ ctl'.phase = "ready" => ctl'.prompt = Blank
    /\ \A q \in Runs : q # run' => coord'[q] = k[q] /\ events'[q] = events[q]
    /\ handle' = run' => /\ coord'[run'] = Started(derive)
                         /\ events'[run'] = SeedEvents(run', derive)
    /\ handle' # run' => /\ handle' = 0
                         /\ coord'[run'] = k[run'] /\ events'[run'] = events[run']
    /\ \A t \in countdowns' \ countdowns :
          t.run = run' /\ t.id = ctl'.countdownId /\ t.by = ctl'.prompt

\* A step of the widget that launches nothing and takes no event of a coordinator.
WidgetStep ==
    \/ User /\ ~AutoGoal /\ ~AutoBootstrap
    \/ Session
    \/ \E t \in countdowns : auto_handle_countdown(t)

\* Every step is one of these.
LEMMA StepCases ==
    ASSUME Reach, [Next]_vars
    PROVE  \/ UiStep /\ PromptEffect({}) /\ events' = events /\ WidgetStep
           \/ \E r \in Runs : auto_handle_decision(r)
           \/ \E r \in Runs : auto_handle_user_reply(r)
           \/ \E r \in Runs : Coordinator(r)
           \/ \E k : \E derive \in BOOLEAN : Launching(k, derive)
           \/ /\ UNCHANGED <<ctl, coord, handle, events, countdowns, sent, run>>
              /\ \/ timers' = timers
                 \/ \E t \in timers : /\ timers' = timers \ {t}
                                      /\ ~(ctl.phase = "recovery" /\ ctl.pendingRestart = t.restart)
  <1> DEFINE Launches == \E k : \E derive \in BOOLEAN : Launching(k, derive)
  <1>1. CASE AutoGoal
    <2> DEFINE up == launched(StoppedCtl, TRUE)
               down == launched(StoppedCtl, FALSE)
    <2>1. up.phase = "coordWait" /\ down.phase = "goalEntry"
      BY StoppedParts, LaunchedType
    <2> HIDE DEF up, down
    <2>2. /\ Quiet(StoppedCoord) /\ LaunchEffect(up, down, StoppedCoord, FALSE)
          /\ countdowns' = countdowns
      BY <1>1, AutoGoalStep DEF up, down
    <2>3. ctl'.phase \in {"coordWait", "goalEntry"}
      BY <2>1, <2>2 DEF LaunchEffect
    <2>4. Launching(StoppedCoord, FALSE)
      BY <2>2, <2>3 DEF Launching, LaunchEffect
    <2> QED BY <2>4
  <1>2. CASE AutoBootstrap
    <2> DEFINE l == launched(StoppedCtl, TRUE)
               up == schedule_cli_prompt(l, Blank)
               down == launched(StoppedCtl, FALSE)
    <2>1. l \in Controllers /\ down.phase = "goalEntry"
      BY StoppedParts, LaunchedType
    <2> HIDE DEF l, down
    <2>2. up.phase = "ready" /\ up.prompt = Blank
      BY <2>1 DEF schedule_cli_prompt, Controllers
    <2> HIDE DEF up
    <2>3. /\ Quiet(StoppedCoord) /\ LaunchEffect(up, down, StoppedCoord, TRUE)
          /\ IF is_active(ctl') THEN StartCountdown(ctl', run') ELSE UNCHANGED countdowns
      BY <1>2, AutoBootstrapStep DEF up, down, l
    <2>4. \A t \in countdowns' \ countdowns :
             t = [run |-> run', id |-> ctl'.countdownId, by |-> ctl'.prompt]
      BY <2>3 DEF StartCountdown
    <2>5. /\ ctl'.phase \in {"ready", "goalEntry"}
          /\ ctl'.phase = "ready" => ctl'.prompt = Blank
      BY <2>1, <2>2, <2>3 DEF LaunchEffect
    <2>6. \A t \in countdowns' \ countdowns :
             t.run = run' /\ t.id = ctl'.countdownId /\ t.by = ctl'.prompt
      BY <2>4
    <2>7. Launching(StoppedCoord, TRUE)
      BY <2>3, <2>5, <2>6 DEF Launching, LaunchEffect
    <2> QED BY <2>7
  <1>3. CASE User /\ ~AutoGoal /\ ~AutoBootstrap
    <2>1. UiStep /\ PromptEffect({})
      BY <1>3, UserStep, UserPrompt DEF User
    <2>2. events' = events
      BY <1>3 DEF User, update_continue_mode, AutoGoalEntry, auto_exit_goal_entry, Stop, SubmitKey,
                  auto_pause_for_manual_edit, SubmitUserMessage, coordVars
    <2> QED BY <1>3, <2>1, <2>2 DEF WidgetStep
  <1>4. CASE Session
    <2>1. events' = events
      BY <1>4 DEF Session, insert_final_answer, auto_on_turn_complete, BeginReview, on_error, EndReview,
                  coordVars
    <2> QED BY <1>4, <2>1, SessionStep, SessionPrompt DEF WidgetStep
  <1>5. ASSUME NEW t \in countdowns, auto_handle_countdown(t)
        PROVE  UiStep /\ PromptEffect({}) /\ events' = events /\ WidgetStep
    <2>1. UiStep /\ PromptEffect({}) /\ events' = events
      BY <1>5, CountdownStep, CountdownPrompt DEF auto_handle_countdown
    <2> QED BY <1>5, <2>1 DEF WidgetStep
  <1>6. ASSUME NEW t \in timers, auto_handle_restart(t)
        PROVE  \/ Launches
               \/ /\ UNCHANGED <<ctl, coord, handle, events, countdowns, sent, run>>
                  /\ timers' = timers \ {t}
                  /\ ~(ctl.phase = "recovery" /\ ctl.pendingRestart = t.restart)
    <2>1. timers' = timers \ {t}
      BY <1>6 DEF auto_handle_restart
    <2>2. CASE /\ Quiet(coord) /\ UNCHANGED countdowns
               /\ LaunchEffect(Again(TRUE), Again(FALSE), coord, FALSE)
      <3>1. Launching(coord, FALSE)
        BY <2>2, AgainType DEF Launching, LaunchEffect
      <3> QED BY <3>1
    <2> QED BY <1>6, <2>1, <2>2, RestartStep
  <1>7. CASE UNCHANGED vars
    BY <1>7 DEF vars
  <1> QED BY <1>1, <1>2, <1>3, <1>4, <1>5, <1>6, <1>7 DEF Next, User

\* A run in recovery has its timer: a pause starts one, and a timer that expires
\* relaunches the run or was not the one it waits for.
THEOREM RecoveryIsTimed == Spec => []RetryIsScheduled
  <1>1. Init => RetryIsScheduled
    BY DEF Init, Default, RetryIsScheduled
  <1>2. ASSUME Reach, RetryIsScheduled, [Next]_vars
        PROVE  RetryIsScheduled'
    <2>1. ASSUME NEW D, PromptEffect(D)
          PROVE  RetryIsScheduled'
      BY <1>2, <2>1 DEF PromptEffect, RetryIsScheduled
    <2>2. ASSUME NEW r \in Runs, auto_handle_decision(r)
          PROVE  RetryIsScheduled'
      BY <1>2, <2>1, <2>2, DecisionPrompt
    <2>3. ASSUME NEW r \in Runs, auto_handle_user_reply(r)
          PROVE  RetryIsScheduled'
      BY <1>2, <2>1, <2>3, ReplyPrompt
    <2>4. ASSUME NEW r \in Runs, Coordinator(r)
          PROVE  RetryIsScheduled'
      <3>1. ctl' = ctl /\ timers' = timers
        BY <2>4 DEF Coordinator, CoordDecide, CoordRetry, CoordCancelled, CoordReceive, CoordReply, uiVars
      <3> QED BY <1>2, <3>1 DEF RetryIsScheduled
    <2>5. ASSUME NEW k, NEW derive, Launching(k, derive)
          PROVE  RetryIsScheduled'
      BY <2>5 DEF Launching, RetryIsScheduled
    <2>6. ASSUME ctl' = ctl,
                 \/ timers' = timers
                 \/ \E t \in timers : /\ timers' = timers \ {t}
                                      /\ ~(ctl.phase = "recovery" /\ ctl.pendingRestart = t.restart)
          PROVE  RetryIsScheduled'
      BY <1>2, <2>6 DEF RetryIsScheduled
    <2> QED BY <1>2, <2>1, <2>2, <2>3, <2>4, <2>5, <2>6, StepCases
  <1> QED BY <1>1, <1>2, Reachable, PTL DEF Spec

\* A countdown belongs to a launch; one of the launch that is held has the number
\* of the present countdown or an earlier one, and in the first case counts down
\* for the prompt that is ready.
CountdownInv ==
    \A t \in countdowns :
        /\ t.run <= run
        /\ t.run = handle => t.id <= ctl.countdownId
        /\ t.run = handle /\ ctl.phase = "ready" /\ t.id = ctl.countdownId => t.by = ctl.prompt

LEMMA CountdownInvStep ==
    ASSUME Reach, CountdownInv, [Next]_vars
    PROVE  CountdownInv'
  <1>1. Reach'
    BY ReachStep
  <1>2. /\ \A t \in countdowns \cup countdowns' : t.run \in Runs /\ t.id \in Nat
        /\ ctl.countdownId \in Nat /\ ctl'.countdownId \in Nat
        /\ run \in 0..MaxRuns /\ handle \in {0, run} /\ handle' \in {0, run'}
    BY <1>1 DEF Reach, TypeOK, HandleInv, Controllers
  <1>3. ASSUME NEW D, PromptEffect(D), run' = run, handle' \in {0, handle}
        PROVE  CountdownInv'
    <2>1. SUFFICES ASSUME NEW t \in countdowns'
                   PROVE  /\ t.run <= run
                          /\ t.run = handle' => t.id <= ctl'.countdownId
                          /\ t.run = handle' /\ ctl'.phase = "ready" /\ t.id = ctl'.countdownId
                                => t.by = ctl'.prompt
      BY <1>3 DEF CountdownInv
    <2>2. t.run \in Runs /\ t.run # 0 /\ t.id \in Nat
      BY <1>2 DEF Runs
    <2>3. CASE t \notin countdowns
      BY <1>2, <1>3, <2>2, <2>3 DEF PromptEffect, Runs
    <2>4. CASE t \in countdowns
      <3>1. t.run <= run
        BY <2>4 DEF CountdownInv
      <3>2. ASSUME t.run = handle'
            PROVE  t.id <= ctl'.countdownId
        BY <1>2, <1>3, <2>2, <2>4, <3>2 DEF CountdownInv, PromptEffect
      <3>3. ASSUME t.run = handle', ctl'.phase = "ready", t.id = ctl'.countdownId
            PROVE  t.by = ctl'.prompt
        <4>1. t.run = handle /\ t.id <= ctl.countdownId /\ ctl'.countdownId >= ctl.countdownId
          BY <1>3, <2>2, <2>4, <3>3 DEF CountdownInv, PromptEffect
        <4>2. t.id = ctl.countdownId
          BY <1>2, <2>2, <3>3, <4>1
        <4>3. ctl.phase = "ready" /\ ctl'.prompt = ctl.prompt
          BY <1>2, <1>3, <3>3, <4>2 DEF PromptEffect
        <4> QED BY <2>4, <4>1, <4>2, <4>3 DEF CountdownInv
      <3> QED BY <3>1, <3>2, <3>3
    <2> QED BY <2>3, <2>4
  <1>4. ASSUME UiStep
        PROVE  run' = run /\ handle' \in {0, handle}
    BY <1>4 DEF UiStep, StepEffect, HandleKept
  <1>5. ASSUME NEW r \in Runs, auto_handle_decision(r)
        PROVE  CountdownInv'
    BY <1>3, <1>4, <1>5, DecisionStep, DecisionPrompt
  <1>6. ASSUME NEW r \in Runs, auto_handle_user_reply(r)
        PROVE  CountdownInv'
    BY <1>3, <1>4, <1>6, ReplyStep, ReplyPrompt
  <1>7. ASSUME NEW r \in Runs, Coordinator(r)
        PROVE  CountdownInv'
    <2>1. UNCHANGED <<ctl, handle, countdowns, run>>
      BY <1>7 DEF Coordinator, CoordDecide, CoordRetry, CoordCancelled, CoordReceive, CoordReply, uiVars
    <2> QED BY <2>1 DEF CountdownInv
  <1>8. ASSUME NEW k, NEW derive, Launching(k, derive)
        PROVE  CountdownInv'
    <2>1. SUFFICES ASSUME NEW t \in countdowns'
                   PROVE  /\ t.run <= run'
                          /\ t.run = handle' => t.id <= ctl'.countdownId
                          /\ t.run = handle' /\ ctl'.phase = "ready" /\ t.id = ctl'.countdownId
                                => t.by = ctl'.prompt
      BY DEF CountdownInv
    <2>2. CASE t \in countdowns
      <3>1. t.run <= run /\ t.run \in Runs
        BY <1>2, <2>2 DEF CountdownInv
      <3>2. t.run <= run' /\ t.run # handle'
        BY <1>2, <1>8, <3>1 DEF Launching, Runs
      <3> QED BY <3>2
    <2>3. CASE t \notin countdowns
      BY <1>2, <1>8, <2>3 DEF Launching, Runs
    <2> QED BY <2>2, <2>3
  <1>9. ASSUME UNCHANGED <<ctl, handle, countdowns, run>>
        PROVE  CountdownInv'
    BY <1>9 DEF CountdownInv
  <1> QED BY <1>3, <1>4, <1>5, <1>6, <1>7, <1>8, <1>9, StepCases

\* A countdown that runs out submits the prompt it counted down for, or nothing,
\* as long as its launch is the one that is held.
THEOREM CountdownsSubmitTheirOwn == Spec => CountdownSubmitsItsOwn
  <1> DEFINE Own == \A t \in countdowns \ countdowns' :
                        sent' # sent /\ t.run = handle => sent' = CountSent(t.by)
  <1>1. Init => CountdownInv
    BY DEF Init, CountdownInv
  <1>2. Reach /\ CountdownInv /\ [Next]_vars => CountdownInv'
    BY CountdownInvStep
  <1>3. ASSUME Reach, CountdownInv, [Next]_vars
        PROVE  [Own]_vars
    <2>1. ASSUME NEW t \in countdowns \ countdowns', sent' # sent, t.run = handle
          PROVE  sent' = CountSent(t.by)
      <3>1. auto_handle_countdown(t)
        <4>1. PICK u \in countdowns : auto_handle_countdown(u)
          BY <1>3, <2>1 DEF Next, vars, User, Session, Coordinator, CoordDecide, CoordRetry, CoordCancelled,
             CoordReceive, CoordReply, uiVars, AutoGoal, AutoBootstrap, update_continue_mode, AutoGoalEntry,
             auto_exit_goal_entry, Stop, SubmitKey, auto_pause_for_manual_edit, SubmitUserMessage,
             insert_final_answer, auto_on_turn_complete, BeginReview, on_error, EndReview,
             auto_handle_decision, auto_handle_user_reply, auto_handle_restart, StartCountdown
        <4>2. countdowns' = countdowns \ {u}
          BY <4>1 DEF auto_handle_countdown
        <4> QED BY <2>1, <4>1, <4>2
      <3>2. /\ ctl.phase = "ready" /\ t.id = ctl.countdownId
            /\ auto_submit_prompt(ctl, coord, goalRequest)
        BY <2>1, <3>1 DEF auto_handle_countdown, NoTurn
      <3>3. TurnEffect(ctl)
        BY <1>3, <3>2, ReachFacts, SubmitEffect DEF Reach
      <3>4. sent' = CountSent(ctl.prompt)
        BY <2>1, <3>3 DEF TurnEffect
      <3> QED BY <1>3, <2>1, <3>2, <3>4 DEF CountdownInv
    <2> QED BY <2>1
  <1> QED BY <1>1, <1>2, <1>3, Reachable, PTL DEF Spec, CountdownSubmitsItsOwn

----------------------------------------------------------------------------
(* A decision's prompt reaches the core session once. *)

\* d was sent to the UI and not handled yet.
Arriving(d) ==
    \E i \in 1..Len(events[d[1]]) : events[d[1]][i].kind \in Statuses /\ events[d[1]][i].of = d

\* d may still be decided.
Fresh(d) == d[1] > run \/ (coord[d[1]].pc # "stopped" /\ d[2] > coord[d[1]].seq)

\* A channel carries the decisions of its own launch, each once.
ChannelInv ==
    \A r \in Runs : \A i, j \in 1..Len(events[r]) :
        /\ events[r][i].kind \in Statuses => events[r][i].of[1] = r
        /\ /\ events[r][i].kind \in Statuses /\ events[r][j].kind \in Statuses
           /\ events[r][i].of = events[r][j].of
           => i = j

\* A decision is to come, on the way or offered, and only one of these, until its
\* prompt is sent.
OnceInv ==
    \A d \in Decisions :
        /\ Fresh(d) => ~Arriving(d) /\ ~Offered(d) /\ sent[d] = 0
        /\ Arriving(d) => ~Offered(d) /\ sent[d] = 0
        /\ Offered(d) => sent[d] = 0
        /\ sent[d] <= 1

\* What the handling of an event leaves in the channels.
LEMMA HandledOnce ==
    ASSUME Reach, ChannelInv, NEW r \in Runs, events[r] # <<>>, Handled(r)
    PROVE  /\ ChannelInv'
           /\ \A d \in Decisions : Arriving(d)' => Arriving(d)
           /\ Head(events[r]) \in Events
           /\ \A d \in Decisions : Head(events[r]).kind \in Statuses /\ Head(events[r]).of = d
                                  => Arriving(d) /\ ~Arriving(d)'
  <1>1. /\ events \in [Runs -> Seq(Events)] /\ events[r] \in Seq(Events)
        /\ events' = [events EXCEPT ![r] = Tail(events[r])]
    BY DEF Reach, TypeOK, Handled
  <1>2. /\ Len(events[r]) > 0 /\ Len(Tail(events[r])) = Len(events[r]) - 1
        /\ \A i \in 1..Len(Tail(events[r])) : Tail(events[r])[i] = events[r][i + 1]
        /\ Head(events[r]) = events[r][1] /\ Head(events[r]) \in Events
    BY <1>1
  <1>3. \A q \in Runs : events'[q] = IF q = r THEN Tail(events[r]) ELSE events[q]
    BY <1>1
  <1>4. ASSUME NEW i \in 1..Len(events'[r])
        PROVE  i + 1 \in 1..Len(events[r]) /\ events'[r][i] = events[r][i + 1]
    <2>1. events'[r] = Tail(events[r]) /\ Len(events[r]) \in Nat
      BY <1>1, <1>3
    <2>2. i \in 1..(Len(events[r]) - 1)
      BY <1>2, <1>4, <2>1
    <2> QED BY <1>2, <2>1, <2>2
  <1>5. ASSUME NEW q \in Runs, NEW i \in 1..Len(events'[q])
        PROVE  \E n \in {0, 1} : /\ n = (IF q = r THEN 1 ELSE 0) /\ i + n \in 1..Len(events[q])
                                 /\ events'[q][i] = events[q][i + n]
    <2>0. events[q] \in Seq(Events)
      BY <1>1
    <2>1. CASE q = r
      BY <1>4, <2>1
    <2>2. CASE q # r
      BY <1>3, <1>5, <2>0, <2>2
    <2> QED BY <2>1, <2>2
  <1>6. ChannelInv'
    <2>1. SUFFICES ASSUME NEW q \in Runs, NEW i \in 1..Len(events'[q]), NEW j \in 1..Len(events'[q])
                   PROVE  /\ events'[q][i].kind \in Statuses => events'[q][i].of[1] = q
                          /\ /\ events'[q][i].kind \in Statuses /\ events'[q][j].kind \in Statuses
                             /\ events'[q][i].of = events'[q][j].of
                             => i = j
      BY DEF ChannelInv
    <2>2. PICK n \in {0, 1} : /\ n = (IF q = r THEN 1 ELSE 0) /\ i + n \in 1..Len(events[q])
                              /\ events'[q][i] = events[q][i + n]
      BY <1>5
    <2>3. j + n \in 1..Len(events[q]) /\ events'[q][j] = events[q][j + n]
      BY <1>5, <2>2
    <2>4. i + n = j + n => i = j
      <3>0. Len(events'[q]) \in Nat
        BY <1>1, <1>3
      <3> QED BY <3>0
    <2> QED BY <2>2, <2>3, <2>4 DEF ChannelInv
  <1>7. ASSUME NEW d \in Decisions, Arriving(d)'
        PROVE  Arriving(d)
    <2>1. d[1] \in Runs
      BY DecisionFacts
    <2>2. PICK i \in 1..Len(events'[d[1]]) :
             events'[d[1]][i].kind \in Statuses /\ events'[d[1]][i].of = d
      BY <1>7 DEF Arriving
    <2> QED BY <1>5, <2>1, <2>2 DEF Arriving
  <1>8. ASSUME NEW d \in Decisions, Head(events[r]).kind \in Statuses, Head(events[r]).of = d
        PROVE  Arriving(d) /\ ~Arriving(d)'
    <2>1. 1 \in 1..Len(events[r])
      BY <1>1, <1>2
    <2>2. d[1] = r
      BY <1>2, <1>8, <2>1 DEF ChannelInv
    <2>3. Arriving(d)
      BY <1>2, <1>8, <2>1, <2>2 DEF Arriving
    <2>4. ASSUME Arriving(d)'
          PROVE  FALSE
      <3>1. PICK i \in 1..Len(events'[r]) : events'[r][i].kind \in Statuses /\ events'[r][i].of = d
        BY <2>2, <2>4 DEF Arriving
      <3>2. i + 1 \in 1..Len(events[r]) /\ events'[r][i] = events[r][i + 1]
        BY <1>4
      <3>3. i + 1 = 1
        BY <1>2, <1>8, <2>1, <3>1, <3>2 DEF ChannelInv
      <3>4. Len(events'[r]) \in Nat
        BY <1>1, <1>3
      <3> QED BY <3>3, <3>4
    <2> QED BY <2>3, <2>4
  <1> QED BY <1>2, <1>6, <1>7, <1>8

\* A step that offers and sends only what was offered, or what was on the way and
\* is no longer, and that decides nothing.
LEMMA PromptOnce ==
    ASSUME Reach, OnceInv, NEW D \in SUBSET Decisions, UiStep, PromptEffect(D),
           \A d \in Decisions : Arriving(d)' => Arriving(d),
           \A d \in D : Arriving(d) /\ ~Arriving(d)'
    PROVE  OnceInv'
  <1>0. sent \in [Decisions -> Nat] /\ run' = run
    BY DEF Reach, TypeOK, UiStep, StepEffect
  <1>1. ASSUME NEW d \in Decisions
        PROVE  /\ Fresh(d)' => Fresh(d)
               /\ Offered(d)' => Offered(d) \/ d \in D
               /\ sent'[d] # sent[d] => (Offered(d) \/ d \in D) /\ ~Offered(d)' /\ sent'[d] = sent[d] + 1
    <2>1. Fresh(d)' => Fresh(d)
      <3>1. d[1] \in Runs
        BY DecisionFacts
      <3>2. Tame(coord[d[1]], coord'[d[1]])
        BY <3>1 DEF UiStep
      <3> QED BY <1>0, <3>2 DEF Fresh, Tame
    <2>2. Offered(d)' => Offered(d) \/ d \in D
      BY DEF PromptEffect, Offered
    <2>3. ASSUME sent'[d] # sent[d]
          PROVE  (Offered(d) \/ d \in D) /\ ~Offered(d)' /\ sent'[d] = sent[d] + 1
      <3>1. PICK p \in Decisions : /\ Offered(p) \/ p \in D
                                   /\ sent' = CountSent(p) /\ ctl'.phase \notin {"ready", "paused"}
        BY <2>3 DEF PromptEffect
      <3>2. p = d /\ sent'[d] = sent[d] + 1
        BY <2>3, <3>1 DEF CountSent
      <3> QED BY <3>1, <3>2 DEF Offered
    <2> QED BY <2>1, <2>2, <2>3
  <1>2. SUFFICES ASSUME NEW d \in Decisions
                 PROVE  /\ Fresh(d)' => ~Arriving(d)' /\ ~Offered(d)' /\ sent'[d] = 0
                        /\ Arriving(d)' => ~Offered(d)' /\ sent'[d] = 0
                        /\ Offered(d)' => sent'[d] = 0
                        /\ sent'[d] <= 1
    BY DEF OnceInv
  <1>3. /\ Fresh(d) => ~Arriving(d) /\ ~Offered(d) /\ sent[d] = 0
        /\ Arriving(d) => ~Offered(d) /\ sent[d] = 0
        /\ Offered(d) => sent[d] = 0
        /\ sent[d] <= 1
    BY DEF OnceInv
  <1>4. sent[d] \in Nat
    BY <1>0
  <1>5. /\ Fresh(d)' => Fresh(d)
        /\ Offered(d)' => Offered(d) \/ d \in D
        /\ sent'[d] # sent[d] => (Offered(d) \/ d \in D) /\ ~Offered(d)' /\ sent'[d] = sent[d] + 1
        /\ Arriving(d)' => Arriving(d)
        /\ d \in D => Arriving(d) /\ ~Arriving(d)'
    BY <1>1
  <1> QED BY <1>3, <1>4, <1>5

\* What a coordinator's step adds to its channel.
LEMMA CoordinatorOnce ==
    ASSUME Reach, NEW r \in Runs, Coordinator(r)
    PROVE  /\ UNCHANGED <<ctl, sent, run, handle>>
           /\ \A q \in Runs : q # r => coord'[q] = coord[q]
           /\ \/ Tame(coord[r], coord'[r]) /\ events' = events
              \/ /\ Tame(coord[r], coord'[r])
                 /\ \E e \in Events : /\ e.kind \notin Statuses
                                       /\ events' = [events EXCEPT ![r] = Append(@, e)]
              \/ /\ coord[r].pc # "stopped" /\ coord[r].seq + 1 \in 0..MaxSeq
                 /\ coord'[r].pc # "stopped" => coord'[r].seq = coord[r].seq + 1
                 /\ \E e \in Events : /\ e.of = <<r, coord[r].seq + 1>>
                                       /\ events' = [events EXCEPT ![r] = Append(@, e)]
  <1>1. UNCHANGED <<ctl, sent, run, handle>>
    BY DEF Coordinator, CoordDecide, CoordRetry, CoordCancelled, CoordReceive, CoordReply, uiVars
  <1>2. \A q \in Runs : q # r => coord'[q] = coord[q]
    BY DEF Coordinator, CoordDecide, CoordRetry, CoordCancelled, CoordReceive, CoordReply, Reach, TypeOK
  <1>3. coord \in [Runs -> Coordinators] /\ coord[r] \in Coordinators
    BY DEF Reach, TypeOK
  <1>4. ASSUME NEW status \in Statuses, CoordDecide(r, status)
        PROVE  /\ coord[r].pc # "stopped" /\ coord[r].seq + 1 \in 0..MaxSeq
               /\ coord'[r].pc # "stopped" => coord'[r].seq = coord[r].seq + 1
               /\ \E e \in Events : /\ e.of = <<r, coord[r].seq + 1>>
                                     /\ events' = [events EXCEPT ![r] = Append(@, e)]
    <2> DEFINE s == coord[r].seq + 1
               c == [coord[r] EXCEPT !.seq = s, !.ack = <<s>>]
               e == [kind |-> status, of |-> <<r, s>>]
    <2>1. s \in 0..MaxSeq /\ coord[r].pc # "stopped"
      BY <1>3, <1>4, Bounds DEF CoordDecide, Coordinators
    <2>2. c \in Coordinators /\ c.pc # "stopped" /\ c.seq = s
      <3> HIDE DEF s
      <3> QED BY <1>3, <2>1 DEF Coordinators
    <2>3. Tame(c, LoopTop(c, FALSE))
      BY <2>2, LoopTopType
    <2>4. coord' = [coord EXCEPT ![r] = IF status \in {"transient", "failed"} THEN Stopped ELSE LoopTop(c, FALSE)]
      BY <1>4 DEF CoordDecide
    <2>5. e \in Events /\ e.of = <<r, s>> /\ events' = [events EXCEPT ![r] = Append(@, e)]
      BY <1>4, <2>1, DecisionFacts DEF CoordDecide, Emit, Events
    <2> HIDE DEF c, e
    <2>6. coord'[r] \in {Stopped, LoopTop(c, FALSE)}
      BY <1>3, <2>4
    <2>7. coord'[r].pc # "stopped" => coord'[r].seq = s
      <3> HIDE DEF s
      <3>1. CASE coord'[r] = Stopped
        BY <3>1 DEF Stopped
      <3>2. CASE coord'[r] = LoopTop(c, FALSE)
        BY <2>2, <2>3, <3>2 DEF Tame
      <3> QED BY <2>6, <3>1, <3>2
    <2> QED BY <2>1, <2>5, <2>7
  <1>5. CASE CoordRetry(r)
    <2>1. Tame(coord[r], LoopTop(coord[r], TRUE))
      BY <1>3, <1>5, LoopTopType DEF CoordRetry
    <2> QED BY <1>1, <1>2, <1>3, <1>5, <2>1 DEF CoordRetry
  <1>6. CASE CoordCancelled(r)
    <2>1. Tame(coord[r], Stopped)
      BY DEF Tame, Stopped
    <2> QED BY <1>1, <1>2, <1>3, <1>6, <2>1 DEF CoordCancelled
  <1>7. CASE CoordReceive(r)
    <2> DEFINE c == [coord[r] EXCEPT !.cmds = Tail(@)]
               m == Head(coord[r].cmds)
    <2>1. m \in Commands /\ Tail(coord[r].cmds) \in Seq(Commands)
      <3>1. coord[r].cmds \in Seq(Commands) /\ coord[r].cmds # <<>>
        BY <1>3, <1>7 DEF CoordReceive, Coordinators
      <3> QED BY <3>1
    <2>2. c \in Coordinators /\ Tame(coord[r], c) /\ c.pc # "stopped"
      BY <1>3, <1>7, <2>1 DEF Coordinators, Tame, CoordReceive
    <2>3. Tame(c, Received(c, m))
      BY <2>1, <2>2, ReceivedType
    <2>4. coord' = [coord EXCEPT ![r] = Received(c, m)] /\ events' = events
      BY <1>7, Zenon DEF CoordReceive
    <2> HIDE DEF c, m
    <2>5. Tame(coord[r], coord'[r])
      BY <1>3, <2>2, <2>3, <2>4 DEF Tame
    <2> QED BY <1>1, <1>2, <2>4, <2>5
  <1>8. ASSUME NEW ok \in BOOLEAN, NEW command \in BOOLEAN, CoordReply(r, ok, command)
        PROVE  /\ Tame(coord[r], coord'[r])
               /\ \E e \in Events : /\ e.kind \notin Statuses
                                     /\ events' = [events EXCEPT ![r] = Append(@, e)]
    <2> DEFINE e == [kind |-> IF command THEN "replyCommand" ELSE "reply", of |-> <<r, 0>>]
    <2>1. <<r, 0>> \in Decisions
      BY Bounds, DecisionFacts
    <2>2. e \in Events /\ e.kind \notin Statuses
      BY <2>1 DEF Events, Statuses
    <2>3. events' = [events EXCEPT ![r] = Append(@, e)]
      BY <1>8 DEF CoordReply, Emit
    <2>4. Tame(coord[r], coord'[r])
      <3>1. Tame(coord[r], LoopTop(coord[r], ok))
        BY <1>3, <1>8, LoopTopType DEF CoordReply
      <3> QED BY <1>3, <1>8, <3>1 DEF CoordReply
    <2> HIDE DEF e
    <2> QED BY <2>2, <2>3, <2>4
  <1> QED BY <1>1, <1>2, <1>4, <1>5, <1>6, <1>7, <1>8 DEF Coordinator

\* A channel with one more event.
LEMMA AppendOnce ==
    ASSUME Reach, ChannelInv, NEW r \in Runs, NEW e \in Events,
           events' = [events EXCEPT ![r] = Append(@, e)],
           e.kind \in Statuses => e.of[1] = r /\ ~Arriving(e.of)
    PROVE  /\ ChannelInv'
           /\ \A d \in Decisions : Arriving(d)' => Arriving(d) \/ (e.kind \in Statuses /\ d = e.of)
  <1>1. events \in [Runs -> Seq(Events)] /\ events[r] \in Seq(Events)
    BY DEF Reach, TypeOK
  <1>2. /\ Len(events'[r]) = Len(events[r]) + 1 /\ Len(events[r]) \in Nat
        /\ events'[r][Len(events[r]) + 1] = e
        /\ \A i \in 1..Len(events[r]) : events'[r][i] = events[r][i]
    BY <1>1
  <1>3. \A q \in Runs : q # r => events'[q] = events[q]
    BY <1>1
  <1>4. ASSUME NEW i \in 1..Len(events'[r])
        PROVE  \/ i \in 1..Len(events[r]) /\ events'[r][i] = events[r][i]
               \/ i = Len(events[r]) + 1 /\ events'[r][i] = e
    BY <1>2, <1>4
  <1>5. ChannelInv'
    <2>1. SUFFICES ASSUME NEW q \in Runs, NEW i \in 1..Len(events'[q]), NEW j \in 1..Len(events'[q])
                   PROVE  /\ events'[q][i].kind \in Statuses => events'[q][i].of[1] = q
                          /\ /\ events'[q][i].kind \in Statuses /\ events'[q][j].kind \in Statuses
                             /\ events'[q][i].of = events'[q][j].of
                             => i = j
      BY DEF ChannelInv
    <2>2. CASE q # r
      BY <1>3, <2>2 DEF ChannelInv
    <2>3. CASE q = r
      <3>1. \A m \in 1..Len(events[r]) : events[r][m].kind \in Statuses /\ e.kind \in Statuses => events[r][m].of # e.of
        BY DEF Arriving
      <3>2. CASE i \in 1..Len(events[r]) /\ j \in 1..Len(events[r])
        BY <1>2, <2>3, <3>2 DEF ChannelInv
      <3>3. CASE i \in 1..Len(events[r]) /\ j = Len(events[r]) + 1
        BY <1>2, <2>3, <3>1, <3>3 DEF ChannelInv
      <3>4. CASE i = Len(events[r]) + 1 /\ j \in 1..Len(events[r])
        BY <1>2, <2>3, <3>1, <3>4 DEF ChannelInv
      <3>5. CASE i = Len(events[r]) + 1 /\ j = Len(events[r]) + 1
        BY <1>2, <2>3, <3>5
      <3> QED BY <1>4, <2>3, <3>2, <3>3, <3>4, <3>5
    <2> QED BY <2>2, <2>3
  <1>6. ASSUME NEW d \in Decisions, Arriving(d)'
        PROVE  Arriving(d) \/ (e.kind \in Statuses /\ d = e.of)
    <2>1. d[1] \in Runs
      BY DecisionFacts
    <2>2. PICK i \in 1..Len(events'[d[1]]) :
             events'[d[1]][i].kind \in Statuses /\ events'[d[1]][i].of = d
      BY <1>6 DEF Arriving
    <2>3. CASE d[1] = r
      BY <1>4, <2>2, <2>3 DEF Arriving
    <2>4. CASE d[1] # r
      BY <1>3, <2>1, <2>2, <2>4 DEF Arriving
    <2> QED BY <2>3, <2>4
  <1> QED BY <1>5, <1>6

LEMMA OnceStep ==
    ASSUME Reach, ChannelInv, OnceInv, [Next]_vars
    PROVE  ChannelInv' /\ OnceInv'
  <1>1. CASE UiStep /\ PromptEffect({}) /\ events' = events
    <2>1. ChannelInv' /\ \A d \in Decisions : Arriving(d)' => Arriving(d)
      BY <1>1 DEF ChannelInv, Arriving
    <2> QED BY <1>1, <2>1, PromptOnce
  <1>2. ASSUME NEW r \in Runs, auto_handle_decision(r)
        PROVE  ChannelInv' /\ OnceInv'
    <2>1. events[r] # <<>> /\ Head(events[r]).kind \in Statuses /\ Handled(r)
      BY <1>2 DEF auto_handle_decision
    <2>2. PICK p \in Decisions : p = Head(events[r]).of
      BY <2>1, HandledOnce DEF Events
    <2>3. /\ ChannelInv' /\ \A d \in Decisions : Arriving(d)' => Arriving(d)
          /\ Arriving(p) /\ ~Arriving(p)'
      BY <2>1, <2>2, HandledOnce
    <2>4. UiStep /\ PromptEffect({p})
      BY <1>2, <2>2, DecisionStep, DecisionPrompt
    <2>5. {p} \in SUBSET Decisions /\ \A d \in {p} : Arriving(d) /\ ~Arriving(d)'
      BY <2>3
    <2> QED BY <2>3, <2>4, <2>5, PromptOnce
  <1>3. ASSUME NEW r \in Runs, auto_handle_user_reply(r)
        PROVE  ChannelInv' /\ OnceInv'
    <2>1. events[r] # <<>> /\ Handled(r)
      BY <1>3 DEF auto_handle_user_reply
    <2>2. ChannelInv' /\ \A d \in Decisions : Arriving(d)' => Arriving(d)
      BY <2>1, HandledOnce
    <2>3. UiStep /\ PromptEffect({})
      BY <1>3, ReplyStep, ReplyPrompt
    <2> QED BY <2>2, <2>3, PromptOnce
  <1>4. ASSUME NEW r \in Runs, Coordinator(r)
        PROVE  ChannelInv' /\ OnceInv'
    <2>1. /\ UNCHANGED <<ctl, sent, run>> /\ \A d \in Decisions : Offered(d)' <=> Offered(d)
          /\ \A q \in Runs : q # r => coord'[q] = coord[q]
      BY <1>4, CoordinatorOnce DEF Offered
    <2>2. ASSUME Tame(coord[r], coord'[r]), ChannelInv',
                 \A d \in Decisions : Arriving(d)' => Arriving(d)
          PROVE  ChannelInv' /\ OnceInv'
      <3>1. ASSUME NEW d \in Decisions, Fresh(d)'
            PROVE  Fresh(d)
        <4>1. d[1] \in Runs
          BY DecisionFacts
        <4> QED BY <2>1, <2>2, <3>1, <4>1 DEF Fresh, Tame
      <3> QED BY <2>1, <2>2, <3>1 DEF OnceInv
    <2>3. CASE Tame(coord[r], coord'[r]) /\ events' = events
      <3>1. ChannelInv' /\ \A d \in Decisions : Arriving(d)' => Arriving(d)
        BY <2>3 DEF ChannelInv, Arriving
      <3> QED BY <2>2, <2>3, <3>1
    <2>4. ASSUME Tame(coord[r], coord'[r]), NEW e \in Events, e.kind \notin Statuses,
                 events' = [events EXCEPT ![r] = Append(@, e)]
          PROVE  ChannelInv' /\ OnceInv'
      BY <2>2, <2>4, AppendOnce
    <2>5. ASSUME coord[r].pc # "stopped", coord[r].seq + 1 \in 0..MaxSeq,
                 coord'[r].pc # "stopped" => coord'[r].seq = coord[r].seq + 1,
                 NEW e \in Events, e.of = <<r, coord[r].seq + 1>>,
                 events' = [events EXCEPT ![r] = Append(@, e)]
          PROVE  ChannelInv' /\ OnceInv'
      <3>0. coord[r].seq \in Nat /\ run \in Nat /\ \A q \in Runs : q \in Nat
        <4>1. coord[r] \in Coordinators /\ run \in 0..MaxRuns
          BY DEF Reach, TypeOK
        <4> QED BY <4>1, Bounds DEF Coordinators, Runs
      <3>1. e.of \in Decisions /\ e.of[1] = r /\ e.of[2] = coord[r].seq + 1
        BY <2>5, DecisionFacts
      <3>2. Fresh(e.of) /\ r <= run
        BY <2>5, <3>0, <3>1 DEF Fresh, Reach, LaunchInv
      <3>3. ~Arriving(e.of) /\ ~Offered(e.of) /\ sent[e.of] = 0
        BY <3>1, <3>2 DEF OnceInv
      <3>4. ChannelInv' /\ \A d \in Decisions : Arriving(d)' => Arriving(d) \/ d = e.of
        BY <2>5, <3>1, <3>3, AppendOnce
      <3>5. ASSUME NEW d \in Decisions, Fresh(d)'
            PROVE  Fresh(d) /\ d # e.of
        <4>1. d[1] \in Runs /\ d[2] \in Nat
          BY Bounds, DecisionFacts
        <4>2. CASE d[1] # r
          BY <2>1, <3>1, <3>5, <4>1, <4>2 DEF Fresh
        <4>3. CASE d[1] = r
          BY <2>1, <2>5, <3>0, <3>1, <3>2, <3>5, <4>1, <4>3 DEF Fresh
        <4> QED BY <4>2, <4>3
      <3> QED BY <2>1, <3>1, <3>3, <3>4, <3>5 DEF OnceInv
    <2> QED BY <1>4, <2>3, <2>4, <2>5, CoordinatorOnce
  <1>5. ASSUME NEW k, NEW derive \in BOOLEAN, Launching(k, derive)
        PROVE  ChannelInv' /\ OnceInv'
    <2>0. run \in Nat /\ run' = run + 1 /\ run' \in Runs /\ sent' = sent /\ events[run'] = <<>>
      BY <1>5, Bounds DEF Reach, TypeOK, LaunchInv, Launching
    <2>1. ASSUME NEW d \in Decisions
          PROVE  ~Offered(d)'
      BY <1>5, <2>1, DecisionFacts DEF Launching, Offered
    <2>2. \/ events'[run'] = <<>>
          \/ /\ handle' = run' /\ events'[run'] = <<[kind |-> "planning", of |-> <<run', 0>>]>>
             /\ coord'[run'].seq = 0
      BY <1>5, <2>0, StartedType DEF Launching, SeedEvents
    <2>3. /\ \A q \in Runs : q # run' => events'[q] = events[q]
          /\ \A q \in Runs : q # run' => Tame(coord[q], coord'[q])
      BY <1>5 DEF Launching, Quiet
    <2>4. \A i \in 1..Len(events'[run']) : i = 1 /\ events'[run'][i].of = <<run', 0>> /\ coord'[run'].seq = 0
      BY <2>2
    <2>5. ChannelInv'
      <3>1. SUFFICES ASSUME NEW q \in Runs, NEW i \in 1..Len(events'[q]), NEW j \in 1..Len(events'[q])
                     PROVE  /\ events'[q][i].kind \in Statuses => events'[q][i].of[1] = q
                            /\ /\ events'[q][i].kind \in Statuses /\ events'[q][j].kind \in Statuses
                               /\ events'[q][i].of = events'[q][j].of
                               => i = j
        BY DEF ChannelInv
      <3>2. CASE q = run'
        BY <2>4, <3>2
      <3>3. CASE q # run'
        BY <2>3, <3>3 DEF ChannelInv
      <3> QED BY <3>2, <3>3
    <2>6. SUFFICES ASSUME NEW d \in Decisions
                   PROVE  /\ Fresh(d)' => ~Arriving(d)' /\ sent[d] = 0
                          /\ Arriving(d)' => sent[d] = 0
                          /\ sent[d] <= 1
      BY <2>0, <2>1, <2>5 DEF OnceInv
    <2>7. /\ d[1] \in Runs /\ d[1] \in Nat /\ d[2] \in Nat
          /\ Fresh(d) => ~Arriving(d) /\ sent[d] = 0
          /\ Arriving(d) => sent[d] = 0
          /\ sent[d] <= 1
      BY DecisionFacts, Bounds DEF OnceInv, Runs
    <2>8. CASE d[1] = run'
      <3>1. Fresh(d)
        BY <2>0, <2>8 DEF Fresh
      <3>2. Arriving(d)' => ~Fresh(d)'
        <4>1. SUFFICES ASSUME Arriving(d)'
                       PROVE  ~Fresh(d)'
          OBVIOUS
        <4>2. PICK i \in 1..Len(events'[run']) : events'[run'][i].of = d
          BY <2>8, <4>1 DEF Arriving
        <4>3. d = <<run', 0>> /\ coord'[run'].seq = 0
          BY <2>4, <4>2
        <4> QED BY <2>0, <2>8, <4>3 DEF Fresh
      <3> QED BY <2>7, <3>1, <3>2
    <2>9. CASE d[1] # run'
      <3>1. Arriving(d)' => Arriving(d)
        BY <2>3, <2>7, <2>9 DEF Arriving
      <3>2. Fresh(d)' => Fresh(d)
        BY <2>0, <2>3, <2>7, <2>9 DEF Fresh, Tame
      <3> QED BY <2>7, <3>1, <3>2
    <2> QED BY <2>8, <2>9
  <1>6. ASSUME UNCHANGED <<ctl, coord, events, sent, run>>
        PROVE  ChannelInv' /\ OnceInv'
    BY <1>6 DEF ChannelInv, OnceInv, Fresh, Arriving, Offered
  <1> QED BY <1>1, <1>2, <1>3, <1>4, <1>5, <1>6, StepCases

\* Neither a countdown nor a key, an edit or a late event sends a prompt twice.
THEOREM PromptsSentOnce == Spec => []SubmittedOnce
  <1>1. Init => ChannelInv /\ OnceInv
    <2> SUFFICES ASSUME Init
                 PROVE  ChannelInv /\ OnceInv
      OBVIOUS
    <2>1. \A d \in Decisions : d[1] \in Runs
      BY DecisionFacts
    <2>2. \A d \in Decisions : ~Arriving(d) /\ ~Offered(d)
      BY <2>1 DEF Init, Arriving, Offered, Default
    <2>3. ChannelInv
      BY DEF Init, ChannelInv
    <2> QED BY <2>2, <2>3 DEF Init, OnceInv
  <1>2. Reach /\ ChannelInv /\ OnceInv /\ [Next]_vars => ChannelInv' /\ OnceInv'
    BY OnceStep
  <1>3. OnceInv => SubmittedOnce
    BY DEF OnceInv, SubmittedOnce
  <1> QED BY <1>1, <1>2, <1>3, Reachable, PTL DEF Spec

----------------------------------------------------------------------------
(* A run that waits for its coordinator is owed something. *)

\* A conversation or a user prompt is in the coordinator's hands.
AtWork(c) ==
    \/ c.pc \in {"asking", "replying"}
    \/ c.queue > 0
    \/ \E i \in 1..Len(c.cmds) : c.cmds[i].cmd \in {"user", "update"}

\* The acknowledgement that a coordinator waits for is on the way to it, or will
\* be sent when the decision it is for is handled.
Acking(c, ev) ==
    \/ c.ack = None
    \/ \E i \in 1..Len(ev) : ev[i].kind \in Statuses /\ <<ev[i].of[2]>> = c.ack
    \/ \E i \in 1..Len(c.cmds) : c.cmds[i].cmd = "ack" /\ <<c.cmds[i].seq>> = c.ack

\* A thread that runs and was not told to stop; it asks only with nothing to be
\* acknowledged, and keeps conversations waiting for no other reason.
Sound(c) ==
    /\ c.pc \in {"loop", "asking", "replying"} /\ ~c.cancelled
    /\ \A i \in 1..Len(c.cmds) : c.cmds[i].cmd # "stop"
    /\ c.pc = "asking" => c.ack = None
    /\ c.pc = "loop" => c.ack # None \/ c.queue = 0

Ended(ev) == \E i \in 1..Len(ev) : ev[i].kind \in {"transient", "failed"}

Answered(ev, n) == \E i \in 1..Len(ev) : i > n /\ ev[i].kind # "replyCommand"

Owed(c, ev) ==
    /\ (Sound(c) /\ Acking(c, ev)) \/ (c.pc = "stopped" /\ Ended(ev))
    /\ \A i \in 1..Len(ev) : ev[i].kind = "replyCommand" => AtWork(c) \/ Answered(ev, i)

Owing(c, ev) == AtWork(c) \/ Answered(ev, 0)

OwesInv ==
    handle # 0 =>
        /\ Owed(coord[handle], events[handle])
        /\ ctl.phase = "coordWait" /\ ~ctl.stray => Owing(coord[handle], events[handle])

\* The top of the loop drops no conversation of a thread that was not cancelled.
LEMMA LoopTopOwes ==
    ASSUME NEW c \in Coordinators, NEW conv \in BOOLEAN, NEW d, d = LoopTop(c, conv), ~c.cancelled
    PROVE  /\ d.pc \in {"loop", "asking"} /\ ~d.cancelled /\ d.ack = c.ack /\ d.cmds = c.cmds
           /\ d.pc = "asking" => d.ack = None
           /\ d.pc = "loop" => d.ack # None \/ d.queue = 0
           /\ c.queue > 0 => d.pc = "asking" \/ d.queue > 0
  <1>1. c.queue \in Nat /\ queue_update_capped(c.queue) > 0
    BY AutoDriveAssumption DEF Coordinators, queue_update_capped
  <1>2. CASE c.ack # None
    BY <1>1, <1>2 DEF LoopTop, Coordinators
  <1>3. CASE c.ack = None /\ ~conv /\ c.queue = 0
    BY <1>1, <1>3 DEF LoopTop, Coordinators
  <1>4. CASE c.ack = None /\ ~(~conv /\ c.queue = 0)
    BY <1>1, <1>4 DEF LoopTop, Coordinators
  <1> QED BY <1>2, <1>3, <1>4

LEMMA LoopTopTakes ==
    ASSUME NEW c \in Coordinators, NEW d, d = LoopTop(c, TRUE), ~c.cancelled
    PROVE  d.pc = "asking" \/ d.queue > 0
  <1>1. c.queue \in Nat /\ queue_update_capped(c.queue) > 0
    BY AutoDriveAssumption DEF Coordinators, queue_update_capped
  <1> QED BY <1>1 DEF LoopTop, Coordinators

\* A thread that waits for a command takes one other than Stop.
LEMMA ReceivedOwes ==
    ASSUME NEW c \in Coordinators, NEW m \in Commands, NEW d, d = Received(c, m),
           m.cmd # "stop", c.pc = "loop", ~c.cancelled
    PROVE  /\ d.pc \in {"loop", "asking", "replying"} /\ ~d.cancelled /\ d.cmds = c.cmds
           /\ d.pc = "asking" => d.ack = None
           /\ d.pc = "loop" => d.ack # None \/ d.queue = 0
           /\ m.cmd \in {"user", "update"} \/ c.queue > 0 =>
                 d.pc \in {"asking", "replying"} \/ d.queue > 0
           /\ d.ack \in {None, c.ack}
           /\ m.cmd = "ack" /\ <<m.seq>> = c.ack => d.ack = None
  <1>1. m.cmd \in {"ack", "user", "update"}
    BY DEF Commands
  <1>2. CASE m.cmd = "ack"
    <2> DEFINE b == IF c.ack = <<m.seq>> THEN [c EXCEPT !.ack = None] ELSE c
    <2>1. /\ b \in Coordinators /\ b.cancelled = c.cancelled /\ b.cmds = c.cmds /\ b.queue = c.queue
          /\ b.ack \in {None, c.ack} /\ (<<m.seq>> = c.ack => b.ack = None)
      BY DEF Coordinators
    <2>2. d = LoopTop(b, FALSE)
      BY <1>2 DEF Received
    <2> HIDE DEF b
    <2>3. /\ d.pc \in {"loop", "asking"} /\ ~d.cancelled /\ d.ack = b.ack /\ d.cmds = b.cmds
          /\ d.pc = "asking" => d.ack = None
          /\ d.pc = "loop" => d.ack # None \/ d.queue = 0
          /\ b.queue > 0 => d.pc = "asking" \/ d.queue > 0
      BY <2>1, <2>2, LoopTopOwes
    <2> QED BY <1>2, <2>1, <2>3
  <1>3. CASE m.cmd = "user"
    BY <1>3 DEF Received, Coordinators
  <1>4. CASE m.cmd = "update"
    <2>1. d = LoopTop(c, TRUE)
      BY <1>4 DEF Received
    <2>2. /\ d.pc \in {"loop", "asking"} /\ ~d.cancelled /\ d.ack = c.ack /\ d.cmds = c.cmds
          /\ d.pc = "asking" => d.ack = None
          /\ d.pc = "loop" => d.ack # None \/ d.queue = 0
      <3>1. PICK conv \in BOOLEAN : d = LoopTop(c, conv)
        BY <2>1
      <3> QED BY <3>1, LoopTopOwes
    <2>3. d.pc = "asking" \/ d.queue > 0
      BY <2>1, LoopTopTakes
    <2> QED BY <1>4, <2>2, <2>3
  <1> QED BY <1>1, <1>2, <1>3, <1>4

\* A command that is sent to a thread is taken or kept.
LEMMA DeliveredOwes ==
    ASSUME NEW c \in Coordinators, NEW m \in Commands, NEW d, d = Delivered(c, m),
           m.cmd # "stop", Sound(c)
    PROVE  /\ Sound(d)
           /\ AtWork(c) \/ m.cmd \in {"user", "update"} => AtWork(d)
           /\ \A ev : Acking(c, ev) \/ (m.cmd = "ack" /\ <<m.seq>> = c.ack) => Acking(d, ev)
  <1>0. c.cmds \in Seq(Commands) /\ c.pc # "stopped"
    BY DEF Coordinators, Sound
  <1>1. CASE c.pc = "loop" /\ c.cmds = <<>>
    <2>1. d = Received(c, m)
      BY <1>1 DEF Delivered
    <2>2. /\ d.pc \in {"loop", "asking", "replying"} /\ ~d.cancelled /\ d.cmds = <<>>
          /\ d.pc = "asking" => d.ack = None
          /\ d.pc = "loop" => d.ack # None \/ d.queue = 0
          /\ m.cmd \in {"user", "update"} \/ c.queue > 0 =>
                d.pc \in {"asking", "replying"} \/ d.queue > 0
          /\ d.ack \in {None, c.ack}
          /\ m.cmd = "ack" /\ <<m.seq>> = c.ack => d.ack = None
      BY <1>1, <2>1, ReceivedOwes DEF Sound
    <2>3. Sound(d)
      BY <2>2 DEF Sound
    <2>4. AtWork(c) \/ m.cmd \in {"user", "update"} => AtWork(d)
      BY <1>1, <2>2 DEF AtWork
    <2>5. \A ev : Acking(c, ev) \/ (m.cmd = "ack" /\ <<m.seq>> = c.ack) => Acking(d, ev)
      BY <1>1, <2>2 DEF Acking
    <2> QED BY <2>3, <2>4, <2>5
  <1>2. CASE ~(c.pc = "loop" /\ c.cmds = <<>>)
    <2>1. d = [c EXCEPT !.cmds = Append(c.cmds, m)]
      BY <1>0, <1>2 DEF Delivered
    <2>2. PICK s \in Seq(Commands) : s = Append(c.cmds, m)
      <3>1. Append(c.cmds, m) \in Seq(Commands)
        BY <1>0
      <3> QED BY <3>1
    <2>3. /\ d.pc = c.pc /\ d.cancelled = c.cancelled /\ d.ack = c.ack /\ d.queue = c.queue
          /\ d.cmds = s
      BY <2>1, <2>2 DEF Coordinators
    <2>4. /\ Len(c.cmds) \in Nat /\ Len(s) = Len(c.cmds) + 1 /\ s[Len(s)] = m
          /\ \A i \in 1..Len(c.cmds) : s[i] = c.cmds[i] /\ i \in 1..Len(s)
          /\ Len(s) \in 1..Len(s)
          /\ \A i \in 1..Len(s) : i \in 1..Len(c.cmds) \/ i = Len(s)
      BY <1>0, <2>2
    <2>5. Sound(d)
      BY <2>3, <2>4 DEF Sound
    <2>6. AtWork(c) \/ m.cmd \in {"user", "update"} => AtWork(d)
      BY <2>3, <2>4 DEF AtWork
    <2>7. \A ev : Acking(c, ev) \/ (m.cmd = "ack" /\ <<m.seq>> = c.ack) => Acking(d, ev)
      BY <2>3, <2>4 DEF Acking
    <2> QED BY <2>5, <2>6, <2>7
  <1> QED BY <1>1, <1>2

\* The coordinator sends an answer, or the widget takes one.
LEMMA AppendOwes ==
    ASSUME NEW ev \in Seq(Events), NEW e \in Events, NEW en, en = Append(ev, e)
    PROVE  /\ Len(en) \in 1..Len(en) /\ en[Len(en)] = e
           /\ \A c : Acking(c, ev) => Acking(c, en)
           /\ e.kind # "replyCommand" => /\ \A c : Owing(c, en)
                                         /\ \A i \in 1..Len(en) : en[i].kind = "replyCommand" => Answered(en, i)
  <1>1. /\ Len(ev) \in Nat /\ Len(en) = Len(ev) + 1 /\ en[Len(en)] = e
        /\ \A i \in 1..Len(ev) : en[i] = ev[i] /\ i \in 1..Len(en)
    OBVIOUS
  <1>2. Len(en) \in 1..Len(en) /\ Len(en) > 0
    BY <1>1
  <1>3. \A c : Acking(c, ev) => Acking(c, en)
    BY <1>1 DEF Acking
  <1>4. ASSUME e.kind # "replyCommand"
        PROVE  /\ \A c : Owing(c, en)
               /\ \A i \in 1..Len(en) : en[i].kind = "replyCommand" => Answered(en, i)
    <2>1. \A c : Owing(c, en)
      BY <1>1, <1>2, <1>4 DEF Owing, Answered
    <2>2. ASSUME NEW i \in 1..Len(en), en[i].kind = "replyCommand"
          PROVE  Answered(en, i)
      <3>1. i # Len(en)
        BY <1>1, <1>4, <2>2
      <3>2. Len(en) > i
        BY <1>1, <3>1
      <3> QED BY <1>1, <1>2, <1>4, <3>2 DEF Answered
    <2> QED BY <2>1, <2>2
  <1> QED BY <1>1, <1>2, <1>3, <1>4

LEMMA TailOwes ==
    ASSUME NEW ev \in Seq(Events), ev # <<>>, NEW et, et = Tail(ev), NEW c, Owed(c, ev)
    PROVE  /\ Ended(ev) => Ended(et) \/ Head(ev).kind \in {"transient", "failed"}
           /\ \A i \in 1..Len(et) : et[i].kind = "replyCommand" => AtWork(c) \/ Answered(et, i)
           /\ Head(ev).kind = "replyCommand" => Owing(c, et)
           /\ Acking(c, ev) => \/ Acking(c, et)
                               \/ Head(ev).kind \in Statuses /\ <<Head(ev).of[2]>> = c.ack
  <1>1. /\ Len(ev) \in Nat /\ Len(ev) > 0 /\ Len(et) = Len(ev) - 1 /\ ev[1] = Head(ev)
        /\ \A i \in 1..Len(et) : et[i] = ev[i + 1] /\ i + 1 \in 1..Len(ev)
        /\ 1 \in 1..Len(ev)
    OBVIOUS
  <1>2. ASSUME NEW i \in 1..Len(ev)
        PROVE  i = 1 \/ (i - 1 \in 1..Len(et) /\ et[i - 1] = ev[i])
    BY <1>1
  <1>3. ASSUME NEW i \in 1..Len(ev), Answered(ev, i)
        PROVE  Answered(et, i - 1)
    <2>1. PICK j \in 1..Len(ev) : j > i /\ ev[j].kind # "replyCommand"
      BY <1>3 DEF Answered
    <2>2. j - 1 \in 1..Len(et) /\ et[j - 1] = ev[j] /\ j - 1 > i - 1
      BY <1>2, <2>1
    <2> QED BY <2>1, <2>2 DEF Answered
  <1>4. Ended(ev) => Ended(et) \/ Head(ev).kind \in {"transient", "failed"}
    BY <1>1, <1>2 DEF Ended
  <1>5. ASSUME NEW i \in 1..Len(et), et[i].kind = "replyCommand"
        PROVE  AtWork(c) \/ Answered(et, i)
    <2>1. i + 1 \in 1..Len(ev) /\ ev[i + 1].kind = "replyCommand" /\ (i + 1) - 1 = i
      BY <1>1, <1>5
    <2>2. AtWork(c) \/ Answered(ev, i + 1)
      BY <2>1 DEF Owed
    <2> QED BY <1>3, <2>1, <2>2
  <1>6. Head(ev).kind = "replyCommand" => Owing(c, et)
    BY <1>1, <1>3 DEF Owed, Owing
  <1>7. Acking(c, ev) => \/ Acking(c, et)
                         \/ Head(ev).kind \in Statuses /\ <<Head(ev).of[2]>> = c.ack
    BY <1>1, <1>2 DEF Acking
  <1> QED BY <1>4, <1>5, <1>6, <1>7

\* What a handler of anything but a coordinator's event does to the coordinator
\* that is held: nothing, and the run does not begin to wait for it unless it has
\* ended or what it waits for went past it, or it is sent a conversation or a user
\* prompt.
HeldEffect ==
    handle' # 0 =>
        /\ handle' = handle
        /\ \/ /\ coord'[handle] = coord[handle]
              /\ ctl'.phase = "coordWait" =>
                    \/ ctl.phase = "coordWait" /\ ctl'.stray = ctl.stray
                    \/ ctl'.stray
                    \/ coord[handle].pc = "stopped"
           \/ /\ coord[handle].pc # "stopped"
              /\ \E m \in {[cmd |-> "update"], [cmd |-> "user"]} :
                    coord'[handle] = Delivered(coord[handle], m)

LEMMA CommandHeld ==
    ASSUME Reach, handle # 0, coord[handle].pc # "stopped", handle' = handle,
           NEW m \in {[cmd |-> "update"], [cmd |-> "user"]}, coord' = Command(coord, handle, m)
    PROVE  HeldEffect
  <1>1. handle \in Runs /\ m \in Commands
    BY ReachFacts, Bounds DEF Runs, Commands
  <1>2. coord'[handle] = Delivered(coord[handle], m)
    BY <1>1, ReachFacts, CommandType
  <1> QED BY <1>2 DEF HeldEffect

LEMMA SendHeld ==
    ASSUME Reach, NEW c, NEW g, auto_send_conversation_force(c, coord, g)
    PROVE  HeldEffect
  <1>1. CASE handle = 0 /\ Keep(c, coord, g)
    BY <1>1 DEF Keep, HeldEffect
  <1>2. CASE auto_stop(c, coord)
    BY <1>2 DEF auto_stop, HeldEffect
  <1>3. CASE /\ handle # 0 /\ coord[handle].pc # "stopped"
             /\ Keep([set_coordinator_waiting(on_prompt_submitted(c), TRUE) EXCEPT !.prompt = None],
                     Command(coord, handle, [cmd |-> "update"]), g)
    BY <1>3, CommandHeld DEF Keep
  <1> QED BY <1>1, <1>2, <1>3 DEF auto_send_conversation_force

LEMMA SubmitHeld ==
    ASSUME Reach, NEW g, auto_submit_prompt(ctl, coord, g)
    PROVE  HeldEffect
  <1>1. CASE auto_send_conversation_force(ctl, coord, FALSE)
    BY <1>1, SendHeld
  <1>2. CASE auto_stop(ctl, coord)
    BY <1>2 DEF auto_stop, HeldEffect
  <1>3. CASE auto_dispatch_cli_prompt(ctl, coord)
    <2>1. ctl'.phase = "turnWait" /\ coord' = coord /\ handle' = handle
      BY <1>3, ReachFacts
         DEF auto_dispatch_cli_prompt, set_coordinator_waiting, on_prompt_submitted, Controllers
    <2> QED BY <2>1 DEF HeldEffect
  <1> QED BY <1>1, <1>2, <1>3 DEF auto_submit_prompt

LEMMA UserHeld ==
    ASSUME Reach,
           \/ \E mode \in Modes : update_continue_mode(mode)
           \/ AutoGoalEntry \/ auto_exit_goal_entry \/ Stop
           \/ SubmitKey \/ auto_pause_for_manual_edit
           \/ \E slash \in BOOLEAN : SubmitUserMessage(slash)
    PROVE  HeldEffect
  <1> USE ReachFacts
  <1>1. ASSUME NEW mode \in Modes, update_continue_mode(mode)
        PROVE  HeldEffect
    <2>1. ctl'.phase = ctl.phase /\ ctl'.stray = ctl.stray /\ UNCHANGED <<handle, coord>>
      BY <1>1 DEF update_continue_mode, Controllers, coordVars
    <2> QED BY <2>1 DEF HeldEffect
  <1>2. CASE AutoGoalEntry
    BY <1>2, StoppedParts DEF AutoGoalEntry, HeldEffect
  <1>3. CASE auto_exit_goal_entry
    BY <1>3 DEF auto_exit_goal_entry, HeldEffect, Reach, HandleInv, is_active, ActivePhases
  <1>4. CASE Stop
    BY <1>4 DEF Stop, auto_stop, HeldEffect
  <1>5. CASE SubmitKey
    BY <1>5, SubmitHeld DEF SubmitKey
  <1>6. CASE auto_pause_for_manual_edit
    <2>1. ctl'.phase = "paused" /\ UNCHANGED <<handle, coord>>
      BY <1>6 DEF auto_pause_for_manual_edit, Controllers, coordVars
    <2> QED BY <2>1 DEF HeldEffect
  <1>7. ASSUME NEW slash \in BOOLEAN, SubmitUserMessage(slash)
        PROVE  HeldEffect
    <2>1. CASE RoutedMessage
      BY <2>1, CommandHeld DEF RoutedMessage
    <2>2. CASE LocalMessage
      BY <2>2, SendHeld DEF LocalMessage
    <2>3. CASE TurnMessage
      <3>1. UNCHANGED <<handle, coord>> /\ (ctl' = ctl \/ ctl'.stray)
        BY <2>3 DEF TurnMessage, on_prompt_submitted, Controllers
      <3> QED BY <3>1 DEF HeldEffect
    <2> QED BY <1>7, <2>1, <2>2, <2>3, MessageCases
  <1> QED BY <1>1, <1>2, <1>3, <1>4, <1>5, <1>6, <1>7

LEMMA SessionHeld ==
    ASSUME Reach, Session
    PROVE  HeldEffect
  <1> USE ReachFacts
  <1>1. ASSUME Keep(ctl, coord, goalRequest)
        PROVE  HeldEffect
    BY <1>1 DEF Keep, HeldEffect
  <1>2. ASSUME NEW c \in Controllers, c.phase \in {"active", "review"}, auto_send_conversation(c, coord)
        PROVE  HeldEffect
    BY <1>2, SendHeld DEF auto_send_conversation, is_waiting_for_response
  <1>3. ASSUME NEW complete \in BOOLEAN, insert_final_answer(complete)
        PROVE  HeldEffect
    <2>1. CASE auto_stop(ctl, coord)
      BY <2>1 DEF auto_stop, HeldEffect
    <2>2. CASE auto_send_conversation_force([ctl EXCEPT !.stopMsg = FALSE, !.phase = "active"],
                                            coord, goalRequest)
      BY <2>2, SendHeld
    <2> QED BY <1>3, <2>1, <2>2 DEF insert_final_answer
  <1>4. ASSUME NEW free \in BOOLEAN, auto_on_turn_complete(free)
        PROVE  HeldEffect
    <2> DEFINE c == on_resume_from_manual(ctl)
               d == IF reviewing THEN on_begin_review(c, free) ELSE on_complete_review(c)
    <2>1. c \in Controllers
      BY MethodTypes
    <2> HIDE DEF c
    <2>2. d \in Controllers
      BY <2>1, MethodTypes
    <2>3. d.phase \in {"active", "review"}
      BY <2>1 DEF Controllers, on_begin_review, on_complete_review
    <2> HIDE DEF d
    <2>4. CASE Keep(ctl, coord, goalRequest)
      BY <1>1, <2>4
    <2>5. CASE Keep(d, coord, goalRequest)
      BY <2>3, <2>5 DEF Keep, HeldEffect
    <2>6. CASE auto_send_conversation(d, coord)
      BY <1>2, <2>2, <2>3, <2>6
    <2> QED BY <1>4, <2>4, <2>5, <2>6 DEF auto_on_turn_complete, c, d
  <1>5. CASE on_error
    BY <1>5 DEF on_error, auto_pause_for_transient_failure, HeldEffect
  <1>6. ASSUME NEW free \in BOOLEAN, BeginReview(free)
        PROVE  HeldEffect
    <2>1. on_begin_review(ctl, free).phase \in {"active", "review"}
      BY DEF Controllers, on_begin_review
    <2> QED BY <1>6, <2>1 DEF BeginReview, HeldEffect, coordVars
  <1>7. CASE EndReview
    <2>1. CASE auto_send_conversation(on_complete_review(ctl), coord)
      <3>1. on_complete_review(ctl) \in Controllers
        BY MethodTypes
      <3>2. on_complete_review(ctl).phase = "active"
        BY DEF on_complete_review, Controllers
      <3> QED BY <1>2, <2>1, <3>1, <3>2
    <2> QED BY <1>1, <1>7, <2>1 DEF EndReview
  <1> QED BY <1>3, <1>4, <1>5, <1>6, <1>7 DEF Session

LEMMA CountdownHeld ==
    ASSUME Reach, NEW t, auto_handle_countdown(t)
    PROVE  HeldEffect
  <1>1. CASE auto_submit_prompt(ctl, coord, goalRequest)
    BY <1>1, SubmitHeld
  <1>2. CASE Keep(ctl, coord, goalRequest)
    BY <1>2 DEF Keep, HeldEffect
  <1> QED BY <1>1, <1>2 DEF auto_handle_countdown

\* A decision that leaves the widget with a coordinator was not an error, is
\* acknowledged, and the run does not wait for the coordinator after it.
LEMMA DecisionHeld ==
    ASSUME Reach, NEW r \in Runs, auto_handle_decision(r), handle' # 0
    PROVE  /\ handle' = handle /\ coord' = AckDecision(coord, Head(events[r]).of[2])
           /\ ctl'.phase # "coordWait" /\ Head(events[r]).kind \notin {"transient", "failed"}
           /\ events[r] # <<>> /\ Head(events[r]).kind \in Statuses /\ Handled(r)
  <1> USE ReachFacts
  <1> DEFINE e == Head(events[r])
             c == Decided(e)
             k == AckDecision(coord, e.of[2])
  <1>1. events[r] # <<>> /\ e.kind \in Statuses /\ Handled(r)
    BY DEF auto_handle_decision
  <1>2. e \in Events /\ e.of \in Decisions
    BY <1>1, HandledType DEF Events
  <1>3. c \in Controllers /\ c.phase = "active"
    BY <1>2, DecidedType
  <1>4. ASSUME NEW b, b \in Controllers, auto_dispatch_cli_prompt(b, k)
        PROVE  handle' = handle /\ coord' = k /\ ctl'.phase = "turnWait"
    <2> HIDE DEF k
    <2> QED BY <1>4 DEF auto_dispatch_cli_prompt, set_coordinator_waiting, on_prompt_submitted, Controllers
  <1>5. ASSUME NEW b, auto_stop(b, k)
        PROVE  FALSE
    BY <1>5 DEF auto_stop
  <1>6. CASE /\ ~is_active(ctl)
             /\ Keep(ctl, k, goalRequest)
    BY <1>6 DEF Keep, Reach, HandleInv
  <1>7. CASE auto_stop(c, k)
    BY <1>5, <1>7
  <1>8. CASE e.kind = "planning" /\ auto_dispatch_cli_prompt(c, k)
    BY <1>1, <1>3, <1>4, <1>8
  <1>9. CASE e.kind = "continue" /\ Keep(schedule_cli_prompt(c, e.of), k, FALSE)
    <2> HIDE DEF c, k, e
    <2>1. schedule_cli_prompt(c, e.of).phase = "ready"
      BY <1>3 DEF Controllers, schedule_cli_prompt
    <2>2. handle' = handle /\ coord' = k /\ ctl'.phase = "ready"
      BY <1>9, <2>1 DEF Keep
    <2> QED BY <1>1, <1>9, <2>2 DEF e, k
  <1>10. CASE /\ e.kind = "success"
              /\ LET s == schedule_cli_prompt([c EXCEPT !.stopMsg = TRUE], e.of)
                 IN auto_submit_prompt(s, k, FALSE)
    <2> DEFINE m == [c EXCEPT !.stopMsg = TRUE]
               s == schedule_cli_prompt(m, e.of)
    <2> HIDE DEF c
    <2>1. m \in Controllers
      BY <1>3 DEF Controllers
    <2> HIDE DEF m
    <2>2. s \in Controllers
      BY <1>2, <2>1, MethodTypes
    <2> HIDE DEF s
    <2>3. auto_submit_prompt(s, k, FALSE)
      BY <1>10 DEF s, m
    <2>4. auto_dispatch_cli_prompt(s, k)
      BY <1>5, <2>3 DEF auto_submit_prompt
    <2> QED BY <1>1, <1>4, <1>10, <2>2, <2>4
  <1>11. CASE auto_pause_for_transient_failure(c, k)
    BY <1>11 DEF auto_pause_for_transient_failure
  <1> QED BY <1>6, <1>7, <1>8, <1>9, <1>10, <1>11 DEF auto_handle_decision

\* A thread's own step keeps its debts: it pays one by sending an answer.
LEMMA ThreadOwes ==
    ASSUME Reach, NEW r \in Runs, Coordinator(r), Owed(coord[r], events[r])
    PROVE  /\ Owed(coord'[r], events'[r])
           /\ Owing(coord[r], events[r]) => Owing(coord'[r], events'[r])
  <1> DEFINE c == coord[r]
             d == coord'[r]
             ev == events[r]
             en == events'[r]
             Pays == Owed(d, en) /\ (Owing(c, ev) => Owing(d, en))
  <1>1. /\ c \in Coordinators /\ c.pc # "stopped" /\ ev \in Seq(Events)
        /\ c.cmds \in Seq(Commands)
    BY DEF Reach, TypeOK, Coordinators, Coordinator, CoordDecide, CoordRetry, CoordCancelled,
           CoordReceive, CoordReply
  <1>2. Sound(c) /\ Acking(c, ev)
    BY <1>1 DEF Owed
  <1>3. coord \in [Runs -> Coordinators] /\ events \in [Runs -> Seq(Events)]
    BY DEF Reach, TypeOK
  <1>4. ASSUME NEW status \in Statuses \ {"planning"}, CoordDecide(r, status)
        PROVE  Pays
    <2> DEFINE s == c.seq + 1
               e == [kind |-> status, of |-> <<r, s>>]
               b == [c EXCEPT !.seq = s, !.ack = <<s>>]
    <2>1. s \in 0..MaxSeq
      BY <1>1, <1>4, Bounds DEF CoordDecide, Coordinators
    <2>2. e \in Events
      BY <2>1, DecisionFacts DEF Events
    <2>3. en = Append(ev, e)
      BY <1>3, <1>4 DEF CoordDecide, Emit
    <2>4. d = IF status \in {"transient", "failed"} THEN Stopped ELSE LoopTop(b, FALSE)
      BY <1>3, <1>4 DEF CoordDecide
    <2>5. e.kind = status /\ e.of[2] = s /\ status \in Statuses /\ status # "replyCommand"
      BY DEF Statuses
    <2> HIDE DEF e, en
    <2>6. /\ Len(en) \in 1..Len(en) /\ en[Len(en)] = e /\ Owing(d, en)
          /\ \A i \in 1..Len(en) : en[i].kind = "replyCommand" => Answered(en, i)
      <3> HIDE DEF c, d, ev, s, b
      <3> QED BY <1>1, <2>2, <2>3, <2>5, AppendOwes
    <2>7. CASE status \in {"transient", "failed"}
      <3>1. d.pc = "stopped"
        BY <2>4, <2>7 DEF Stopped
      <3>2. Ended(en)
        BY <2>5, <2>6, <2>7 DEF Ended
      <3> QED BY <2>6, <3>1, <3>2 DEF Owed
    <2>8. CASE status \notin {"transient", "failed"}
      <3>1. /\ b \in Coordinators /\ ~b.cancelled /\ b.ack = <<s>> /\ b.cmds = c.cmds
        BY <1>1, <1>2, <2>1 DEF Coordinators, Sound
      <3>2. d = LoopTop(b, FALSE)
        BY <2>4, <2>8
      <3> HIDE DEF b, d, s
      <3>3. /\ d.pc \in {"loop", "asking"} /\ ~d.cancelled /\ d.ack = <<s>> /\ d.cmds = c.cmds
            /\ d.pc = "asking" => d.ack = None
            /\ d.pc = "loop" => d.ack # None \/ d.queue = 0
        BY <3>1, <3>2, LoopTopOwes
      <3>4. Sound(d)
        BY <1>2, <3>3 DEF Sound
      <3>5. Acking(d, en)
        BY <2>5, <2>6, <3>3 DEF Acking
      <3> QED BY <2>6, <3>4, <3>5 DEF Owed
    <2> QED BY <2>6, <2>7, <2>8
  <1>5. ASSUME en = ev, Sound(d), Acking(d, ev), AtWork(c) => AtWork(d)
        PROVE  Pays
    BY <1>5 DEF Owed, Owing
  <1>6. ASSUME CoordRetry(r)
        PROVE  Pays
    <2>1. en = ev /\ c.pc = "asking" /\ d = LoopTop(c, TRUE)
      BY <1>3, <1>6 DEF CoordRetry
    <2>2. PICK conv \in BOOLEAN : d = LoopTop(c, conv)
      BY <2>1
    <2> HIDE DEF d
    <2>3. /\ d.pc \in {"loop", "asking"} /\ ~d.cancelled /\ d.ack = c.ack /\ d.cmds = c.cmds
          /\ d.pc = "asking" => d.ack = None
          /\ d.pc = "loop" => d.ack # None \/ d.queue = 0
      BY <1>1, <1>2, <2>2, LoopTopOwes DEF Sound
    <2>4. d.pc = "asking" \/ d.queue > 0
      BY <1>1, <1>2, <2>1, LoopTopTakes DEF Sound
    <2>5. Sound(d) /\ AtWork(d)
      BY <1>2, <2>3, <2>4 DEF Sound, AtWork
    <2>6. Acking(d, ev)
      BY <1>2, <2>3 DEF Acking
    <2> QED BY <1>5, <2>1, <2>5, <2>6
  <1>7. ASSUME CoordCancelled(r)
        PROVE  Pays
    BY <1>2, <1>7 DEF CoordCancelled, Sound
  <1>8. ASSUME CoordReceive(r)
        PROVE  Pays
    <2>1. PICK s \in Seq(Commands) : s = Tail(c.cmds)
      <3>1. c.cmds # <<>>
        BY <1>8 DEF CoordReceive
      <3>2. Tail(c.cmds) \in Seq(Commands)
        BY <1>1, <3>1
      <3> QED BY <3>2
    <2>2. PICK m \in Commands : m = Head(c.cmds)
      BY <1>1, <1>8 DEF CoordReceive
    <2> DEFINE b == [c EXCEPT !.cmds = s]
    <2>3. en = ev /\ c.pc = "loop" /\ c.cmds # <<>> /\ d = Received(b, m)
      BY <1>3, <1>8, <2>1, <2>2 DEF CoordReceive
    <2>4. /\ b \in Coordinators /\ b.pc = "loop" /\ ~b.cancelled /\ b.cmds = s
          /\ b.ack = c.ack /\ b.queue = c.queue
      BY <1>1, <1>2, <2>3 DEF Coordinators, Sound
    <2>5. /\ Len(c.cmds) \in Nat /\ Len(c.cmds) > 0 /\ Len(s) = Len(c.cmds) - 1 /\ c.cmds[1] = m
          /\ \A i \in 1..Len(s) : s[i] = c.cmds[i + 1] /\ i + 1 \in 1..Len(c.cmds)
          /\ 1 \in 1..Len(c.cmds)
      BY <1>1, <2>1, <2>2, <2>3
    <2>6. \A i \in 1..Len(c.cmds) : i = 1 \/ (i - 1 \in 1..Len(s) /\ s[i - 1] = c.cmds[i])
      BY <2>5
    <2>7. m.cmd # "stop" /\ \A i \in 1..Len(s) : s[i].cmd # "stop"
      BY <1>2, <2>5 DEF Sound
    <2> HIDE DEF b, d
    <2>8. /\ d.pc \in {"loop", "asking", "replying"} /\ ~d.cancelled /\ d.cmds = s
          /\ d.pc = "asking" => d.ack = None
          /\ d.pc = "loop" => d.ack # None \/ d.queue = 0
          /\ m.cmd \in {"user", "update"} \/ c.queue > 0 =>
                d.pc \in {"asking", "replying"} \/ d.queue > 0
          /\ d.ack \in {None, c.ack}
          /\ m.cmd = "ack" /\ <<m.seq>> = c.ack => d.ack = None
      BY <2>3, <2>4, <2>7, ReceivedOwes
    <2>9. Sound(d)
      BY <2>7, <2>8 DEF Sound
    <2>10. ASSUME AtWork(c)
           PROVE  AtWork(d)
      <3>1. CASE c.queue > 0 \/ m.cmd \in {"user", "update"}
        BY <2>8, <3>1 DEF AtWork
      <3>2. CASE ~(c.queue > 0 \/ m.cmd \in {"user", "update"})
        <4>1. PICK i \in 1..Len(c.cmds) : c.cmds[i].cmd \in {"user", "update"}
          BY <2>3, <2>10, <3>2 DEF AtWork
        <4>2. i - 1 \in 1..Len(s) /\ s[i - 1] = c.cmds[i]
          BY <2>5, <2>6, <3>2, <4>1
        <4> QED BY <2>8, <4>1, <4>2 DEF AtWork
      <3> QED BY <3>1, <3>2
    <2>11. Acking(d, ev)
      <3>1. CASE d.ack = None
        BY <3>1 DEF Acking
      <3>2. CASE d.ack # None
        <4>1. d.ack = c.ack
          BY <2>8, <3>2
        <4>2. CASE \E i \in 1..Len(ev) : ev[i].kind \in Statuses /\ <<ev[i].of[2]>> = c.ack
          BY <4>1, <4>2 DEF Acking
        <4>3. CASE \E i \in 1..Len(c.cmds) : c.cmds[i].cmd = "ack" /\ <<c.cmds[i].seq>> = c.ack
          <5>1. PICK i \in 1..Len(c.cmds) : c.cmds[i].cmd = "ack" /\ <<c.cmds[i].seq>> = c.ack
            BY <4>3
          <5>2. i # 1
            BY <2>5, <2>8, <3>2, <5>1
          <5>3. i - 1 \in 1..Len(s) /\ s[i - 1] = c.cmds[i]
            BY <2>6, <5>2
          <5> QED BY <2>8, <4>1, <5>1, <5>3 DEF Acking
        <4> QED BY <1>2, <3>2, <4>1, <4>2, <4>3 DEF Acking
      <3> QED BY <3>1, <3>2
    <2> QED BY <1>5, <2>3, <2>9, <2>10, <2>11
  <1>9. ASSUME NEW ok \in BOOLEAN, NEW command \in BOOLEAN, CoordReply(r, ok, command)
        PROVE  Pays
    <2> DEFINE e == [kind |-> IF command THEN "replyCommand" ELSE "reply", of |-> <<r, 0>>]
    <2>1. e \in Events
      BY Bounds, DecisionFacts DEF Events
    <2>2. en = Append(ev, e) /\ d = LoopTop(c, ok) /\ (command => ok)
      BY <1>3, <1>9 DEF CoordReply, Emit
    <2>3. e.kind = "replyCommand" => command
      OBVIOUS
    <2> HIDE DEF d, e, en
    <2>4. /\ d.pc \in {"loop", "asking"} /\ ~d.cancelled /\ d.ack = c.ack /\ d.cmds = c.cmds
          /\ d.pc = "asking" => d.ack = None
          /\ d.pc = "loop" => d.ack # None \/ d.queue = 0
      BY <1>1, <1>2, <2>2, LoopTopOwes DEF Sound
    <2>5. Sound(d)
      BY <1>2, <2>4 DEF Sound
    <2>6. Acking(d, en)
      <3>1. Acking(d, ev)
        BY <1>2, <2>4 DEF Acking
      <3> QED BY <1>1, <2>1, <2>2, <3>1, AppendOwes
    <2>7. CASE command
      <3>1. d = LoopTop(c, TRUE)
        BY <2>2, <2>7
      <3>2. d.pc = "asking" \/ d.queue > 0
        BY <1>1, <1>2, <3>1, LoopTopTakes DEF Sound
      <3>3. AtWork(d)
        BY <3>2 DEF AtWork
      <3> QED BY <2>5, <2>6, <3>3 DEF Owed, Owing
    <2>8. CASE ~command
      <3>1. /\ Owing(d, en)
            /\ \A i \in 1..Len(en) : en[i].kind = "replyCommand" => Answered(en, i)
        BY <1>1, <2>1, <2>2, <2>3, <2>8, AppendOwes
      <3> QED BY <2>5, <2>6, <3>1 DEF Owed
    <2> QED BY <2>7, <2>8
  <1>10. Pays
    <2>1. \/ \E status \in Statuses \ {"planning"} : CoordDecide(r, status)
          \/ CoordRetry(r) \/ CoordCancelled(r) \/ CoordReceive(r)
          \/ \E ok, command \in BOOLEAN : CoordReply(r, ok, command)
      BY DEF Coordinator
    <2> HIDE DEF Pays
    <2> QED BY <1>4, <1>6, <1>7, <1>8, <1>9, <2>1
  <1> QED BY <1>10

\* A launch starts with its debts in order.
LEMMA StartedOwes ==
    ASSUME NEW r \in Runs, NEW derive \in BOOLEAN
    PROVE  /\ Owed(Started(derive), SeedEvents(r, derive))
           /\ Owing(Started(derive), SeedEvents(r, derive))
  <1>1. CASE derive
    <2>1. /\ Started(derive).pc = "asking" /\ ~Started(derive).cancelled
          /\ Started(derive).ack = None /\ Started(derive).cmds = <<>>
      BY <1>1, StartedType
    <2>2. SeedEvents(r, derive) = <<>>
      BY <1>1 DEF SeedEvents
    <2>3. Sound(Started(derive)) /\ AtWork(Started(derive)) /\ Acking(Started(derive), <<>>)
      BY <2>1 DEF Sound, AtWork, Acking
    <2> QED BY <2>2, <2>3 DEF Owed, Owing
  <1>2. CASE ~derive
    <2>1. /\ Started(derive).pc = "loop" /\ ~Started(derive).cancelled
          /\ Started(derive).ack = <<0>> /\ Started(derive).queue = 0 /\ Started(derive).cmds = <<>>
      BY <1>2, StartedType
    <2> DEFINE e == [kind |-> "planning", of |-> <<r, 0>>]
               ev == SeedEvents(r, derive)
    <2>2. e.kind = "planning" /\ e.kind \in Statuses /\ e.of[2] = 0
      BY DEF Statuses
    <2>3. ev = <<e>>
      BY <1>2 DEF SeedEvents
    <2> HIDE DEF e, ev
    <2>4. 1 \in 1..Len(ev) /\ ev[1] = e /\ \A i \in 1..Len(ev) : i = 1
      BY <2>3
    <2>5. Acking(Started(derive), ev)
      BY <2>1, <2>2, <2>4 DEF Acking
    <2>6. Sound(Started(derive)) /\ Answered(ev, 0)
      BY <2>1, <2>2, <2>4 DEF Sound, Answered
    <2> QED BY <2>2, <2>4, <2>5, <2>6 DEF Owed, Owing, ev
  <1> QED BY <1>1, <1>2

\* The widget takes an event of the coordinator it holds, and the coordinator c
\* has become d by the acknowledgement, if any.
LEMMA HandledOwes ==
    ASSUME NEW ev \in Seq(Events), ev # <<>>, NEW c \in Coordinators, Owed(c, ev), NEW d,
           \/ d = c /\ Head(ev).kind \notin Statuses
           \/ /\ Head(ev).kind \in Statuses \ {"transient", "failed"} /\ Head(ev).of[2] \in 0..MaxSeq
              /\ d = Delivered(c, [cmd |-> "ack", seq |-> Head(ev).of[2]])
    PROVE  /\ Owed(d, Tail(ev))
           /\ Head(ev).kind = "replyCommand" => Owing(d, Tail(ev))
  <1> DEFINE et == Tail(ev)
             h == Head(ev)
  <1>1. /\ Ended(ev) => Ended(et) \/ h.kind \in {"transient", "failed"}
        /\ \A i \in 1..Len(et) : et[i].kind = "replyCommand" => AtWork(c) \/ Answered(et, i)
        /\ h.kind = "replyCommand" => Owing(c, et)
        /\ Acking(c, ev) => Acking(c, et) \/ (h.kind \in Statuses /\ <<h.of[2]>> = c.ack)
    BY TailOwes
  <1>2. "transient" \in Statuses /\ "failed" \in Statuses /\ "replyCommand" \notin Statuses
    BY DEF Statuses
  <1> HIDE DEF et, h
  <1>3. ASSUME Sound(d), Acking(d, et), AtWork(c) => AtWork(d)
        PROVE  Owed(d, et) /\ (h.kind = "replyCommand" => Owing(d, et))
    BY <1>1, <1>3 DEF Owed, Owing
  <1>4. CASE c.pc = "stopped" /\ Ended(ev)
    <2>1. d = c
      BY <1>4 DEF Delivered
    <2>2. Ended(et)
      BY <1>1, <1>2, <1>4 DEF h
    <2> QED BY <1>1, <1>4, <2>1, <2>2 DEF Owed, et, h
  <1>5. CASE Sound(c) /\ Acking(c, ev) /\ d = c /\ h.kind \notin Statuses
    BY <1>1, <1>3, <1>5 DEF et, h
  <1>6. CASE /\ Sound(c) /\ Acking(c, ev)
             /\ h.kind \in Statuses /\ h.of[2] \in 0..MaxSeq
             /\ d = Delivered(c, [cmd |-> "ack", seq |-> h.of[2]])
    <2> DEFINE m == [cmd |-> "ack", seq |-> h.of[2]]
    <2>1. m \in Commands /\ m.cmd = "ack" /\ m.seq = h.of[2]
      BY <1>6 DEF Commands
    <2> HIDE DEF m
    <2>2. /\ Sound(d) /\ (AtWork(c) => AtWork(d))
          /\ Acking(c, et) \/ (m.cmd = "ack" /\ <<m.seq>> = c.ack) => Acking(d, et)
      <3>1. d = Delivered(c, m) /\ m.cmd # "stop"
        BY <1>6, <2>1 DEF m
      <3> QED BY <1>6, <2>1, <3>1, DeliveredOwes
    <2>3. Acking(d, et)
      BY <1>1, <1>6, <2>1, <2>2
    <2> QED BY <1>3, <2>2, <2>3 DEF et, h
  <1> QED BY <1>4, <1>5, <1>6 DEF Owed, h

LEMMA OwesStep ==
    ASSUME Reach, OwesInv, [Next]_vars
    PROVE  OwesInv'
  <1> USE ReachFacts
  <1> SUFFICES ASSUME handle' # 0
               PROVE  OwesInv'
    BY DEF OwesInv
  <1>0. /\ coord \in [Runs -> Coordinators] /\ events \in [Runs -> Seq(Events)]
        /\ handle # 0 => handle \in Runs
    BY Bounds DEF Reach, TypeOK, Runs
  <1>1. ASSUME HeldEffect, events' = events
        PROVE  OwesInv'
    <2> DEFINE c == coord[handle]
               d == coord'[handle]
               ev == events[handle]
    <2>1. handle' = handle /\ c \in Coordinators /\ Owed(c, ev)
      BY <1>0, <1>1 DEF HeldEffect, OwesInv
    <2>2. CASE /\ d = c
               /\ ctl'.phase = "coordWait" =>
                     \/ ctl.phase = "coordWait" /\ ctl'.stray = ctl.stray
                     \/ ctl'.stray
                     \/ c.pc = "stopped"
      <3>1. c.pc = "stopped" => Owing(c, ev)
        <4>1. SUFFICES ASSUME c.pc = "stopped"
                       PROVE  Answered(ev, 0)
          BY DEF Owing
        <4>2. Ended(ev)
          BY <2>1, <4>1 DEF Owed, Sound
        <4>3. PICK i \in 1..Len(ev) : ev[i].kind \in {"transient", "failed"}
          BY <4>2 DEF Ended
        <4> QED BY <4>3 DEF Answered
      <3> QED BY <1>1, <2>1, <2>2, <3>1 DEF OwesInv
    <2>3. CASE /\ c.pc # "stopped"
               /\ \E m \in {[cmd |-> "update"], [cmd |-> "user"]} : d = Delivered(c, m)
      <3>1. PICK m \in {[cmd |-> "update"], [cmd |-> "user"]} : d = Delivered(c, m)
        BY <2>3
      <3>2. m \in Commands /\ m.cmd \in {"user", "update"} /\ m.cmd # "stop"
        BY DEF Commands
      <3>3. Sound(c) /\ Acking(c, ev)
        BY <2>1, <2>3 DEF Owed
      <3> HIDE DEF c, d, ev
      <3>4. Sound(d) /\ AtWork(d) /\ (Acking(c, ev) => Acking(d, ev))
        BY <2>1, <3>1, <3>2, <3>3, DeliveredOwes
      <3>5. Owed(d, ev) /\ Owing(d, ev)
        BY <3>3, <3>4 DEF Owed, Owing
      <3> QED BY <1>1, <2>1, <3>5 DEF OwesInv, d, ev
    <2> QED BY <1>1, <2>2, <2>3 DEF HeldEffect
  <1>2. ASSUME NEW r \in Runs, auto_handle_decision(r)
        PROVE  OwesInv'
    <2> DEFINE c == coord[handle]
               s == Head(events[r]).of[2]
    <2>1. /\ handle' = handle /\ coord' = AckDecision(coord, s)
          /\ ctl'.phase # "coordWait" /\ Head(events[r]).kind \notin {"transient", "failed"}
          /\ events[r] # <<>> /\ Head(events[r]).kind \in Statuses /\ Handled(r)
      BY <1>2, DecisionHeld
    <2>2. handle \in Runs /\ c \in Coordinators /\ Owed(c, events[handle])
      BY <1>0, <2>1 DEF OwesInv
    <2>3. Head(events[r]) \in Events
      BY <2>1, HandledType
    <2>4. s \in 0..MaxSeq
      BY <2>3, DecisionFacts DEF Events
    <2> DEFINE m == [cmd |-> "ack", seq |-> s]
    <2>5. m \in Commands /\ m.cmd # "stop"
      BY <2>4 DEF Commands
    <2>6. coord'[handle] = Delivered(c, m)
      <3>1. coord' = Command(coord, handle, m)
        BY <2>1, <2>2, Bounds DEF AckDecision, Runs
      <3> HIDE DEF m
      <3> QED BY <1>0, <2>2, <2>5, <3>1, CommandType
    <2>7. events' = [events EXCEPT ![r] = Tail(events[r])]
      BY <2>1 DEF Handled
    <2>8. CASE r = handle
      <3>1. events'[handle] = Tail(events[handle]) /\ events[handle] \in Seq(Events)
        BY <1>0, <2>7, <2>8
      <3>2. Owed(coord'[handle], Tail(events[handle]))
        BY <2>1, <2>2, <2>4, <2>6, <2>8, <3>1, HandledOwes
      <3> QED BY <2>1, <3>1, <3>2 DEF OwesInv
    <2>9. CASE r # handle
      <3>1. events'[handle] = events[handle]
        BY <1>0, <2>2, <2>7, <2>9
      <3> DEFINE d == coord'[handle]
                 ev == events[handle]
      <3>2. CASE c.pc = "stopped"
        <4>1. d = c
          BY <2>6, <3>2 DEF Delivered
        <4> QED BY <2>1, <2>2, <3>1, <4>1 DEF OwesInv
      <3>3. CASE c.pc # "stopped"
        <4>1. Sound(c) /\ Acking(c, ev)
          BY <2>2, <3>3 DEF Owed
        <4> HIDE DEF c, d, ev, m
        <4>2. d = Delivered(c, m)
          BY <2>6 DEF d
        <4>3. Sound(d) /\ (AtWork(c) => AtWork(d)) /\ (Acking(c, ev) => Acking(d, ev))
          BY <2>2, <2>5, <4>1, <4>2, DeliveredOwes
        <4>4. Owed(d, ev)
          BY <2>2, <4>1, <4>3 DEF Owed, ev
        <4> QED BY <2>1, <3>1, <4>4 DEF OwesInv, d, ev
      <3> QED BY <3>2, <3>3
    <2> QED BY <2>8, <2>9
  <1>3. ASSUME NEW r \in Runs, auto_handle_user_reply(r)
        PROVE  OwesInv'
    <2> DEFINE c == coord[handle]
               e == Head(events[r])
    <2>1. /\ handle' = handle /\ coord' = coord /\ events[r] # <<>>
          /\ e.kind \in {"reply", "replyCommand"} /\ Handled(r)
      BY <1>3 DEF auto_handle_user_reply
    <2>2. /\ handle \in Runs /\ c \in Coordinators /\ Owed(c, events[handle])
          /\ ctl.phase = "coordWait" /\ ~ctl.stray => Owing(c, events[handle])
      BY <1>0, <2>1 DEF OwesInv
    <2>3. events' = [events EXCEPT ![r] = Tail(events[r])]
      BY <2>1 DEF Handled
    <2>4. /\ e.kind = "reply" => ctl'.phase = "active"
          /\ e.kind = "replyCommand" => ctl' = ctl \/ (r # handle => ctl'.stray)
      BY <1>3 DEF auto_handle_user_reply, SubmitTurn, on_prompt_submitted, Controllers
    <2>5. CASE r = handle
      <3>1. events'[handle] = Tail(events[handle]) /\ events[handle] \in Seq(Events)
        BY <1>0, <2>3, <2>5
      <3>2. e.kind \notin Statuses
        BY <2>1 DEF Statuses
      <3>3. /\ Owed(c, Tail(events[handle]))
            /\ e.kind = "replyCommand" => Owing(c, Tail(events[handle]))
        BY <2>1, <2>2, <2>5, <3>1, <3>2, HandledOwes
      <3> QED BY <2>1, <2>4, <3>1, <3>3 DEF OwesInv
    <2>6. CASE r # handle
      <3>1. events'[handle] = events[handle]
        BY <1>0, <2>2, <2>3, <2>6
      <3> QED BY <2>1, <2>2, <2>4, <2>6, <3>1 DEF OwesInv
    <2> QED BY <2>5, <2>6
  <1>4. ASSUME NEW r \in Runs, Coordinator(r)
        PROVE  OwesInv'
    <2>1. ctl' = ctl /\ handle' = handle
      BY <1>4 DEF Coordinator, CoordDecide, CoordRetry, CoordCancelled, CoordReceive, CoordReply, uiVars
    <2>2. CASE r = handle
      <3>1. Owed(coord[handle], events[handle])
        BY <2>1 DEF OwesInv
      <3>2. /\ Owed(coord'[handle], events'[handle])
            /\ Owing(coord[handle], events[handle]) => Owing(coord'[handle], events'[handle])
        BY <1>4, <2>2, <3>1, ThreadOwes
      <3> QED BY <2>1, <3>2 DEF OwesInv
    <2>3. CASE r # handle
      <3>1. coord'[handle] = coord[handle] /\ events'[handle] = events[handle]
        BY <1>0, <1>4, <2>1, <2>3
           DEF Coordinator, CoordDecide, CoordRetry, CoordCancelled, CoordReceive, CoordReply, Emit
      <3> QED BY <2>1, <3>1 DEF OwesInv
    <2> QED BY <2>2, <2>3
  <1>5. ASSUME NEW k, NEW derive \in BOOLEAN, Launching(k, derive)
        PROVE  OwesInv'
    <2>1. /\ handle' = run' /\ run' \in Runs
          /\ coord'[handle'] = Started(derive) /\ events'[handle'] = SeedEvents(handle', derive)
      BY <1>5 DEF Launching
    <2>2. /\ Owed(Started(derive), SeedEvents(handle', derive))
          /\ Owing(Started(derive), SeedEvents(handle', derive))
      BY <2>1, StartedOwes
    <2> QED BY <2>1, <2>2 DEF OwesInv
  <1>6. ASSUME UNCHANGED <<ctl, coord, handle, events>>
        PROVE  OwesInv'
    BY <1>6 DEF OwesInv
  <1>7. ASSUME WidgetStep, events' = events
        PROVE  OwesInv'
    <2>1. HeldEffect
      BY <1>7, UserHeld, SessionHeld, CountdownHeld DEF WidgetStep, User
    <2> QED BY <1>1, <1>7, <2>1
  <1> QED BY <1>2, <1>3, <1>4, <1>5, <1>6, <1>7, StepCases

\* A run that waits for its coordinator is owed an answer, however the events,
\* commands and acknowledgements interleave, unless it waits on a turn that went
\* past the coordinator.
THEOREM WaitingIsOwed == Spec => []CoordinatorOwesAnswer
  <1>1. Init => OwesInv
    BY DEF Init, OwesInv
  <1>2. Reach /\ OwesInv /\ [Next]_vars => OwesInv'
    BY OwesStep
  <1>3. Reach /\ OwesInv => CoordinatorOwesAnswer
    <2> SUFFICES ASSUME Reach, OwesInv, ctl.phase = "coordWait", handle # 0, ~ctl.stray
                 PROVE  \/ coord[handle].pc \in {"asking", "replying"}
                        \/ coord[handle].cmds # <<>>
                        \/ events[handle] # <<>>
      BY DEF CoordinatorOwesAnswer
    <2>1. Owed(coord[handle], events[handle]) /\ Owing(coord[handle], events[handle])
      BY DEF OwesInv
    <2>2. CASE Answered(events[handle], 0)
      BY <2>2 DEF Answered
    <2>3. CASE AtWork(coord[handle]) /\ events[handle] = <<>>
      <3>1. Sound(coord[handle]) /\ Acking(coord[handle], <<>>)
        BY <2>1, <2>3 DEF Owed, Ended
      <3> QED BY <2>3, <3>1 DEF AtWork, Sound, Acking
    <2> QED BY <2>1, <2>2, <2>3 DEF Owing
  <1> QED BY <1>1, <1>2, <1>3, Reachable, PTL DEF Spec
=============================================================================
