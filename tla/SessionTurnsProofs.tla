------------------------- MODULE SessionTurnsProofs -------------------------
(***************************************************************************)
(* Proofs about the turn engine for any set of tasks, any mix of Ops and   *)
(* any bounds.                                                             *)
(***************************************************************************)
EXTENDS SessionTurns, TLAPS

(* Aborting a task touches only the two abort variables and keeps their types. *)
LEMMA AbortTyped ==
    ASSUME TypeOK, NEW t \in Tasks \cup {None}, AbortTask(t)
    PROVE  /\ aborted' \in [Tasks -> BOOLEAN]
           /\ notices' \subseteq Tasks
BY SessionAssumption DEF TypeOK, AbortTask

(* Taking the current task out keeps the types of what it touches. *)
LEMMA TakeTyped ==
    ASSUME TypeOK, NEW n \in Inputs, TakeCurrent(n)
    PROVE  /\ current' = None /\ aborted' = aborted /\ notices' = notices
           /\ taken' \subseteq Inputs \X Tasks
<1>1. \A t \in {current} \ {None} : <<n, t>> \in Inputs \X Tasks
  BY DEF TypeOK
<1> QED
  BY <1>1 DEF TypeOK, TakeCurrent

(* Recording inputs keeps the log's type, whatever is recorded. *)
LEMMA RecordTyped ==
    ASSUME TypeOK, NEW S, Record(S)
    PROVE  logged' \in [Inputs -> 0 .. 2]
BY DEF TypeOK, Record

(* The program counters stay typed when one process moves. *)
LEMMA GotoTyped ==
    ASSUME TypeOK, NEW p \in Procs, NEW from,
           NEW to \in LoopPc \cup StartPc \cup TaskPc, Goto(p, from, to)
    PROVE  pc' \in [Procs -> LoopPc \cup StartPc \cup TaskPc]
BY DEF TypeOK, Goto

(* Naming a turn to start keeps the type of arg. *)
LEMMA ArgTyped ==
    ASSUME TypeOK, NEW p \in Procs, NEW k \in Kinds,
           NEW i \in Items,
           arg' = [arg EXCEPT ![p] = [kind |-> k, item |-> i]]
    PROVE  arg' \in [Procs -> [kind : Kinds, item : Items]]
BY DEF TypeOK

(* Queues stay queues of inputs when one more is appended, two are joined, or
   the first is removed. *)
LEMMA SeqTyped ==
    ASSUME NEW s \in Seq(Items), NEW u \in Seq(Items), NEW i \in Items
    PROVE  /\ Append(s, i) \in Seq(Items)
           /\ s \o u \in Seq(Items)
           /\ s # <<>> => Tail(s) \in Seq(Items) /\ Head(s) \in Items
OBVIOUS

(* The inputs of submissions are items of the queues. *)
LEMMA InputsAreItems == /\ \A n \in Inputs : n \in Items
                        /\ ToolOutput \in Items /\ NoInput \in Items
BY DEF Items

(* The Ops handled by submission_loop keep the types. *)
LEMMA SubmitTyped ==
    ASSUME TypeOK, NEW n \in Inputs, Submit(n)
    PROVE  TypeOK'
<1> USE SessionAssumption, InputsAreItems
<1>0. /\ ops' \in Seq(AllOps) /\ Len(ops') <= MaxOps
      /\ Loop \in Procs /\ Wake \in Procs
  <2>1. PICK op \in AllOps : Receive(op, n)
    BY DEF Submit, UserInput, QueueUserInput, Interrupt, Shutdown, ApprovalAbort,
           Developer, AgentWake, PostTurn, Compact, Review, AllOps
  <2>2. ops \in Seq(AllOps) /\ Len(ops) \in Nat /\ n = Len(ops) + 1
    BY <2>1 DEF Receive, TypeOK
  <2>3. ops' = Append(ops, op) /\ n <= MaxOps
    BY <2>1 DEF Receive, Inputs
  <2> QED
    BY <2>2, <2>3 DEF Procs
<1>1. CASE UserInput(n) \/ Review(n)
  <2>1. TakeCurrent(n)
    BY <1>1 DEF UserInput, Review
  <2>2. /\ current' = None /\ aborted' = aborted /\ notices' = notices
        /\ taken' \subseteq Inputs \X Tasks
    BY <2>1, TakeTyped
  <2>3. pc' \in [Procs -> LoopPc \cup StartPc \cup TaskPc]
    BY <1>0, <1>1, GotoTyped DEF UserInput, Review, StartPc
  <2>4. arg' \in [Procs -> [kind : Kinds, item : Items]]
    BY <1>0, <1>1, ArgTyped DEF UserInput, Review, Kinds
  <2> QED
    BY <1>0, <1>1, <2>2, <2>3, <2>4
    DEF UserInput, Review, TypeOK, queues, turns, events
<1>2. CASE QueueUserInput(n)
  <2>1. pc' \in [Procs -> LoopPc \cup StartPc \cup TaskPc]
    BY <1>0, <1>2, GotoTyped DEF QueueUserInput, StartPc, LoopPc
  <2>2. arg' \in [Procs -> [kind : Kinds, item : Items]]
    BY <1>0, <1>2, ArgTyped DEF QueueUserInput, Kinds
  <2> QED
    BY <1>0, <1>2, <2>1, <2>2
    DEF QueueUserInput, TypeOK, queues, turns, events, aborts
<1>3. CASE Interrupt(n) \/ Shutdown(n)
  <2>1. pc' \in [Procs -> LoopPc \cup StartPc \cup TaskPc]
    BY <1>0, <1>3, GotoTyped DEF Interrupt, Shutdown, LoopPc, TypeOK
  <2> QED
    BY <1>0, <1>3, <2>1
    DEF Interrupt, Shutdown, TypeOK, queues, starts, turns, events, aborts
<1>4. CASE ApprovalAbort(n)
  <2>1. TakeCurrent(n)
    BY <1>4 DEF ApprovalAbort
  <2>2. /\ current' = None /\ aborted' = aborted /\ notices' = notices
        /\ taken' \subseteq Inputs \X Tasks
    BY <2>1, TakeTyped
  <2> QED
    BY <1>0, <1>4, <2>2
    DEF ApprovalAbort, TypeOK, queues, starts, turns, events
<1>5. ASSUME NEW p \in {Loop, Wake}, OutOfTurn(p, n) PROVE TypeOK'
  <2>1. pc' \in [Procs -> LoopPc \cup StartPc \cup TaskPc]
    BY <1>0, <1>5, GotoTyped DEF OutOfTurn, StartPc, LoopPc
  <2>2. arg' \in [Procs -> [kind : Kinds, item : Items]]
    BY <1>0, <1>5, ArgTyped DEF OutOfTurn, Kinds
  <2>3. pending_input' \in Seq(Items)
    BY <1>5, SeqTyped DEF OutOfTurn, TypeOK
  <2> QED
    BY <1>0, <1>5, <2>1, <2>2, <2>3
    DEF OutOfTurn, TypeOK, queues, turns, events, aborts
<1>6. CASE PostTurn(n)
  <2>1. pc' \in [Procs -> LoopPc \cup StartPc \cup TaskPc]
    BY <1>0, <1>6, GotoTyped DEF PostTurn, LoopPc
  <2>2. pending_post_turn_input' \in Seq(Items)
    BY <1>6, SeqTyped DEF PostTurn, TypeOK
  <2> QED
    BY <1>0, <1>6, <2>1, <2>2 DEF PostTurn, TypeOK, starts, turns, events, aborts
<1>7. CASE Compact(n)
  <2>1. pc' \in [Procs -> LoopPc \cup StartPc \cup TaskPc]
    BY <1>0, <1>7, GotoTyped DEF Compact, LoopPc, StartPc
  <2>2. arg' \in [Procs -> [kind : Kinds, item : Items]]
    BY <1>0, <1>7, ArgTyped DEF Compact, Kinds, TypeOK
  <2>3. pending_input' \in Seq(Items)
    <3>1. pending_input' = Append(pending_input, n) \/ pending_input' = pending_input
      BY <1>7 DEF Compact
    <3>2. pending_input \in Seq(Items) /\ n \in Items
      BY DEF TypeOK
    <3> QED
      BY <3>1, <3>2, SeqTyped
  <2> QED
    BY <1>0, <1>7, <2>1, <2>2, <2>3 DEF Compact, TypeOK, turns, events, aborts
<1> QED
  BY <1>1, <1>2, <1>3, <1>4, <1>5, <1>6, <1>7 DEF Submit, Developer, AgentWake

(* The steps by which the loop, the forwarder or a finished task starts a turn
   keep the types. *)
LEMMA StartTurnTyped ==
    ASSUME TypeOK, NEW p \in Procs, StartTurn(p)
    PROVE  TypeOK'
<1> USE SessionAssumption
<1>1. CASE IdleCheck(p) \/ HooksPass(p) \/ HooksBlock(p)
  <2>1. pc' \in [Procs -> LoopPc \cup StartPc \cup TaskPc]
    BY <1>1, GotoTyped
    DEF IdleCheck, HooksPass, HooksBlock, Rest, LoopPc, StartPc, TaskPc
  <2> QED
    BY <1>1, <2>1 DEF IdleCheck, HooksPass, HooksBlock, TypeOK, queues, starts,
                      turns, events, aborts
<1>2. CASE Spawn(p)
  <2>1. PICK t \in Tasks :
          /\ pc' = [pc EXCEPT ![p] = "set", ![t] = "start"]
          /\ kind' = [kind EXCEPT ![t] = arg[p].kind]
          /\ item' = [item EXCEPT ![t] = arg[p].item]
          /\ new' = [new EXCEPT ![p] = t]
    BY <1>2 DEF Spawn
  <2>2. pc' \in [Procs -> LoopPc \cup StartPc \cup TaskPc]
    BY <2>1 DEF TypeOK, Procs, StartPc, TaskPc, BusyPc
  <2>3. arg[p].kind \in Kinds /\ arg[p].item \in Items
    BY DEF TypeOK
  <2>4. /\ kind' \in [Tasks -> Kinds]
        /\ item' \in [Tasks -> Items]
        /\ new' \in [Procs -> Tasks \cup {None}]
    BY <2>1, <2>3 DEF TypeOK
  <2> QED
    BY <1>2, <2>2, <2>4 DEF Spawn, TypeOK, queues, events, aborts
<1>3. CASE SetTask(p)
  <2>1. pc' \in [Procs -> LoopPc \cup StartPc \cup TaskPc]
    BY <1>3, GotoTyped DEF SetTask, AfterSet, Rest, LoopPc, StartPc, TaskPc
  <2>2. aborted' \in [Tasks -> BOOLEAN] /\ notices' \subseteq Tasks
    BY <1>3, AbortTyped DEF SetTask, TypeOK
  <2>3. /\ current' \in Tasks \cup {None}
        /\ new' \in [Procs -> Tasks \cup {None}]
    BY <1>3 DEF SetTask, TypeOK
  <2> QED
    BY <1>3, <2>1, <2>2, <2>3 DEF SetTask, TypeOK, queues, turns, events
<1>4. CASE AnnounceReview(p)
  <2>1. pc' \in [Procs -> LoopPc \cup StartPc \cup TaskPc]
    BY <1>4, GotoTyped DEF AnnounceReview, Rest, LoopPc, TaskPc
  <2>2. arg[p].item \in Items
    BY DEF TypeOK
  <2> QED
    BY <1>4, <2>1, <2>2
    DEF AnnounceReview, TypeOK, queues, starts, turns, aborts
<1> QED
  BY <1>1, <1>2, <1>3, <1>4 DEF StartTurn

(* The rest of the loop's steps keep the types. *)
LEMMA LoopTyped ==
    ASSUME TypeOK, QueuePush \/ PostIdle \/ CompactQueue
    PROVE  TypeOK'
<1> USE SessionAssumption, InputsAreItems
<1>0. Loop \in Procs
  BY DEF Procs
<1>1. CASE QueuePush
  <2>1. pc' \in [Procs -> LoopPc \cup StartPc \cup TaskPc]
    BY <1>0, <1>1, GotoTyped DEF QueuePush, LoopPc
  <2>2. arg[Loop].item \in Items
    BY <1>0 DEF TypeOK
  <2>3. pending_user_input' \in Seq(Items)
    BY <1>1, <2>2, SeqTyped DEF QueuePush, TypeOK
  <2> QED
    BY <1>1, <2>1, <2>3 DEF QueuePush, TypeOK, starts, turns, events, aborts
<1>2. CASE PostIdle
  <2>1. pc' \in [Procs -> LoopPc \cup StartPc \cup TaskPc]
    BY <1>0, <1>2 DEF PostIdle, LoopPc, StartPc, TypeOK
  <2>2. arg' \in [Procs -> [kind : Kinds, item : Items]]
    BY <1>0, <1>2, ArgTyped DEF PostIdle, Kinds, TypeOK
  <2>3. /\ pending_input' \in Seq(Items)
        /\ pending_post_turn_input' \in Seq(Items)
        /\ pending_user_input' = pending_user_input
        /\ pending_manual_compacts' = pending_manual_compacts
    <3>1. /\ pending_input \o pending_post_turn_input \in Seq(Items)
          /\ <<>> \in Seq(Items)
      BY SeqTyped DEF TypeOK
    <3> QED
      BY <1>2, <3>1 DEF PostIdle, TypeOK, queues
  <2> QED
    BY <1>2, <2>1, <2>2, <2>3 DEF PostIdle, TypeOK, turns, events, aborts
<1>3. CASE CompactQueue
  <2>1. pc' \in [Procs -> LoopPc \cup StartPc \cup TaskPc]
    BY <1>0, <1>3, GotoTyped DEF CompactQueue, LoopPc
  <2> QED
    BY <1>3, <2>1 DEF CompactQueue, TypeOK, starts, turns, events, aborts
<1> QED
  BY <1>1, <1>2, <1>3

(* The steps of run_agent up to the model request keep the types. *)
LEMMA AgentTyped ==
    ASSUME TypeOK, NEW t \in Tasks,
           \/ Start(t) \/ StartReturns(t) \/ Drain(t) \/ RecordPending(t)
           \/ Ask(t) \/ Answered(t)
           \/ ModelTools(t) \/ ModelContinue(t) \/ ModelEnd(t)
    PROVE  TypeOK'
<1> USE SessionAssumption, InputsAreItems
<1>0. /\ t \in Procs
      /\ {"drain", "record", "model", "asking", "finish", "returned"} \subseteq TaskPc
  BY DEF Procs, TaskPc, BusyPc
<1>1. CASE Start(t)
  <2>1. pc' \in [Procs -> LoopPc \cup StartPc \cup TaskPc]
    BY <1>0, <1>1, GotoTyped DEF Start
  <2>2. logged' \in [Inputs -> 0 .. 2]
    BY <1>1, RecordTyped DEF Start
  <2> QED
    BY <1>1, <2>1, <2>2 DEF Start, TypeOK, queues, starts, turns, events, aborts
<1>2. CASE Drain(t)
  <2>1. pc' \in [Procs -> LoopPc \cup StartPc \cup TaskPc]
    BY <1>0, <1>2, GotoTyped DEF Drain
  <2>2. /\ pending_input \o pending_user_input \in Seq(Items)
        /\ <<>> \in Seq(Items)
    BY SeqTyped DEF TypeOK
  <2>3. /\ pending_input' = <<>>
        /\ pending_user_input' = <<>> \/ pending_user_input' = pending_user_input
        /\ \/ held' = held
           \/ held' = [held EXCEPT ![t] = pending_input \o pending_user_input]
    BY <1>2 DEF Drain
  <2>4. held' \in [Tasks -> Seq(Items)]
    BY <2>2, <2>3 DEF TypeOK
  <2>5. pending_input' \in Seq(Items) /\ pending_user_input' \in Seq(Items)
    BY <2>2, <2>3 DEF TypeOK
  <2> QED
    BY <1>2, <2>1, <2>4, <2>5 DEF Drain, TypeOK, starts, events, aborts
<1>3. CASE RecordPending(t)
  <2>1. pc' \in [Procs -> LoopPc \cup StartPc \cup TaskPc]
    BY <1>0, <1>3, GotoTyped DEF RecordPending
  <2>2. logged' \in [Inputs -> 0 .. 2] /\ first' \in [Tasks -> BOOLEAN]
    BY <1>3, RecordTyped DEF RecordPending, TypeOK
  <2> QED
    BY <1>3, <2>1, <2>2 DEF RecordPending, TypeOK, queues, starts, events, aborts
<1>4. CASE ModelTools(t) \/ ModelContinue(t) \/ ModelEnd(t)
  <2>1. pc' \in [Procs -> LoopPc \cup StartPc \cup TaskPc]
    BY <1>0, <1>4, GotoTyped DEF ModelTools, ModelContinue, ModelEnd
  <2>2. held' \in [Tasks -> Seq(Items)]
    <3>1. held' = [held EXCEPT ![t] = <<>>] /\ <<>> \in Seq(Items)
      BY <1>4 DEF ModelTools, ModelContinue, ModelEnd
    <3> QED
      BY <3>1 DEF TypeOK
  <2>3. rounds' \in [Tasks -> 0 .. MaxRounds]
    <3>1. /\ rounds \in [Tasks -> 0 .. MaxRounds] /\ MaxRounds \in Nat
          /\ \/ rounds' = [rounds EXCEPT ![t] = rounds[t] + 1] /\ rounds[t] < MaxRounds
             \/ rounds' = [rounds EXCEPT ![t] = 0]
      BY <1>4, SessionAssumption DEF ModelTools, ModelContinue, ModelEnd, TypeOK
    <3> QED
      BY <3>1
  <2>4. Append(pending_input, ToolOutput) \in Seq(Items)
    BY SeqTyped DEF TypeOK
  <2>5. /\ pending_input' \in Seq(Items)
        /\ pending_post_turn_input' = pending_post_turn_input
        /\ pending_user_input' = pending_user_input
        /\ pending_manual_compacts' = pending_manual_compacts
    BY <1>4, <2>4 DEF ModelTools, ModelContinue, ModelEnd, TypeOK, queues
  <2> QED
    BY <1>4, <2>1, <2>2, <2>3, <2>5
    DEF ModelTools, ModelContinue, ModelEnd, TypeOK, starts, events, aborts
<1>5. CASE StartReturns(t) \/ Ask(t) \/ Answered(t)
  <2>1. pc' \in [Procs -> LoopPc \cup StartPc \cup TaskPc]
    BY <1>0, <1>5, GotoTyped DEF StartReturns, Ask, Answered
  <2>2. rounds' \in [Tasks -> 0 .. MaxRounds]
    BY <1>5 DEF StartReturns, Ask, Answered, TypeOK, turns
  <2> QED
    BY <1>5, <2>1, <2>2 DEF StartReturns, Ask, Answered, TypeOK, queues, starts,
                            turns, events, aborts
<1> QED
  BY <1>1, <1>2, <1>3, <1>4, <1>5

(* The end of a turn, its follow-up, compactions and cancellations keep the
   types. *)
LEMMA EndTyped ==
    ASSUME TypeOK, NEW t \in Tasks,
           \/ Finish(t) \/ RemoveTask(t) \/ Complete(t) \/ FollowUp(t)
           \/ CompactStart(t) \/ CompactOk(t) \/ CompactFail(t) \/ Die(t)
           \/ Notify(t)
    PROVE  TypeOK'
<1> USE SessionAssumption, InputsAreItems
<1>0. /\ t \in Procs
      /\ {"model", "remove", "complete", "followup", "done", "dead"} \subseteq TaskPc
      /\ {"idle_check", "hooks", "spawn"} \subseteq StartPc
  BY DEF Procs, TaskPc, BusyPc, StartPc
<1>1. CASE Finish(t) \/ RemoveTask(t) \/ Complete(t)
  <2>1. pc' \in [Procs -> LoopPc \cup StartPc \cup TaskPc]
    BY <1>0, <1>1, GotoTyped DEF Finish, RemoveTask, Complete
  <2> QED
    BY <1>1, <2>1 DEF Finish, RemoveTask, Complete, TypeOK, queues, starts, turns,
                      events, aborts
<1>2. CASE FollowUp(t)
  <2>1. pc' \in [Procs -> LoopPc \cup StartPc \cup TaskPc]
    BY <1>0, <1>2 DEF FollowUp, TypeOK
  <2>2. /\ pending_input \o pending_post_turn_input \in Seq(Items)
        /\ <<>> \in Seq(Items)
        /\ pending_user_input # <<>> => /\ Tail(pending_user_input) \in Seq(Items)
                                        /\ Head(pending_user_input) \in Items
    BY SeqTyped DEF TypeOK
  <2>3. arg' \in [Procs -> [kind : Kinds, item : Items]]
    <3>1. \/ arg' = arg
          \/ \E k \in Kinds, i \in Items :
                arg' = [arg EXCEPT ![t] = [kind |-> k, item |-> i]]
      BY <1>2, <2>2 DEF FollowUp, Kinds
    <3> QED
      BY <1>0, <3>1, ArgTyped DEF TypeOK
  <2>4. /\ pending_input' \in Seq(Items)
        /\ pending_post_turn_input' \in Seq(Items)
        /\ pending_user_input' \in Seq(Items)
        /\ pending_manual_compacts' \in 0 .. MaxPendingManualCompacts
    <3>1. /\ \/ pending_input' = pending_input
             \/ pending_input' = pending_input \o pending_post_turn_input
          /\ \/ pending_post_turn_input' = pending_post_turn_input
             \/ pending_post_turn_input' = <<>>
          /\ \/ pending_user_input' = pending_user_input
             \/ /\ pending_user_input # <<>>
                /\ pending_user_input' = Tail(pending_user_input)
          /\ \/ pending_manual_compacts' = pending_manual_compacts
             \/ /\ pending_manual_compacts > 0
                /\ pending_manual_compacts' = pending_manual_compacts - 1
      BY <1>2 DEF FollowUp, queues
    <3>2. pending_manual_compacts' \in 0 .. MaxPendingManualCompacts
      BY <3>1 DEF TypeOK
    <3> QED
      BY <2>2, <3>1, <3>2 DEF TypeOK
  <2> QED
    BY <1>2, <2>1, <2>3, <2>4 DEF FollowUp, TypeOK, turns, events, aborts
<1>3. CASE CompactStart(t) \/ CompactOk(t) \/ CompactFail(t) \/ Die(t)
  <2>1. pc' \in [Procs -> LoopPc \cup StartPc \cup TaskPc]
    BY <1>0, <1>3 DEF CompactStart, CompactOk, CompactFail, Die, Goto, TypeOK
  <2> QED
    BY <1>3, <2>1 DEF CompactStart, CompactOk, CompactFail, Die, TypeOK, queues,
                      starts, turns, events, aborts
<1>4. CASE Notify(t)
  BY <1>4 DEF Notify, TypeOK, queues, starts, turns
<1> QED
  BY <1>1, <1>2, <1>3, <1>4

(* The type invariant of the turn engine holds for any set of tasks, any mix of
   Ops and any bounds. *)
THEOREM TypeCorrect == Spec => []TypeOK
<1> USE SessionAssumption, InputsAreItems
<1>1. Init => TypeOK
  <2> SUFFICES ASSUME Init PROVE TypeOK
    OBVIOUS
  <2>1. pc \in [Procs -> LoopPc \cup StartPc \cup TaskPc]
    BY DEF Init, LoopPc, TaskPc
  <2>2. arg \in [Procs -> [kind : Kinds, item : Items]]
    BY DEF Init, NoTurn, Kinds
  <2>3. /\ kind \in [Tasks -> Kinds] /\ item \in [Tasks -> Items]
        /\ new \in [Procs -> Tasks \cup {None}]
        /\ held \in [Tasks -> Seq(Items)]
    BY DEF Init, Kinds
  <2>4. /\ rounds \in [Tasks -> 0 .. MaxRounds]
        /\ logged \in [Inputs -> 0 .. 2]
        /\ ops \in Seq(AllOps) /\ Len(ops) <= MaxOps
    BY DEF Init
  <2> QED
    BY <2>1, <2>2, <2>3, <2>4 DEF Init, TypeOK
<1>2. TypeOK /\ [Next]_vars => TypeOK'
  <2> SUFFICES ASSUME TypeOK, [Next]_vars PROVE TypeOK'
    OBVIOUS
  <2>1. ASSUME NEW n \in Inputs, Submit(n) PROVE TypeOK'
    BY <2>1, SubmitTyped
  <2>2. ASSUME NEW n \in Inputs, RunInterrupt(n) PROVE TypeOK'
    <3>1. /\ current' = None /\ aborted' = aborted /\ notices' = notices
          /\ taken' \subseteq Inputs \X Tasks
      BY <2>2, TakeTyped DEF RunInterrupt
    <3> QED
      BY <2>2, <3>1 DEF RunInterrupt, TypeOK, queues, starts, turns, events
  <2>6. ASSUME NEW n \in Inputs, NEW t \in Tasks, CancelTaken(n, t) PROVE TypeOK'
    <3>1. aborted' \in [Tasks -> BOOLEAN] /\ notices' \subseteq Tasks
      BY <2>6, AbortTyped DEF CancelTaken
    <3> QED
      BY <2>6, <3>1 DEF CancelTaken, TypeOK, queues, starts, turns, events
  <2>3. ASSUME LoopStep \/ StartTurn(Wake) PROVE TypeOK'
    BY <2>3, LoopTyped, StartTurnTyped DEF LoopStep, Procs
  <2>4. ASSUME NEW t \in Tasks, TaskStep(t) \/ Answered(t) \/ Notify(t)
        PROVE  TypeOK'
    BY <2>4, AgentTyped, EndTyped, StartTurnTyped DEF TaskStep, Procs
  <2>5. CASE UNCHANGED vars
    BY <2>5 DEF vars, TypeOK, queues, starts, turns, events, aborts
  <2> QED
    BY <2>1, <2>2, <2>3, <2>4, <2>5, <2>6 DEF Next, AbortStep
<1> QED
  BY <1>1, <1>2, PTL DEF Spec

-----------------------------------------------------------------------------
(* A step that moves one process, neither into a turn nor out of a pending
   set_task, and leaves current, new, the evictions and the cancellations alone,
   keeps every running turn reachable. *)
LEMMA QuietMove ==
    ASSUME TypeOK, ActiveTurnIsCurrent,
           NEW p \in Procs, NEW to, pc' = [pc EXCEPT ![p] = to],
           pc[p] # "set", to \in BusyPc => pc[p] \in BusyPc,
           current' = current, new' = new, aborted' = aborted, taken' = taken
    PROVE  ActiveTurnIsCurrent'
<1> SUFFICES ASSUME NEW t \in Tasks, pc'[t] \in BusyPc, ~aborted'[t]
             PROVE  \/ t = current'
                    \/ \E q \in Procs : pc'[q] = "set" /\ new'[q] = t
                    \/ \E n \in Inputs : <<n, t>> \in taken'
  BY DEF ActiveTurnIsCurrent
<1>1. pc[t] \in BusyPc /\ ~aborted[t]
  BY DEF TypeOK, Procs
<1>2. CASE t = current \/ \E n \in Inputs : <<n, t>> \in taken
  BY <1>2
<1>3. CASE \E q \in Procs : pc[q] = "set" /\ new[q] = t
  <2>1. PICK q \in Procs : pc[q] = "set" /\ new[q] = t
    BY <1>3
  <2>2. pc'[q] = "set" /\ new'[q] = t
    BY <2>1 DEF TypeOK
  <2> QED
    BY <2>2
<1> QED
  BY <1>1, <1>2, <1>3 DEF ActiveTurnIsCurrent

(* Aborting a task leaves it cancelled or finished, so it need not be reachable
   any more; no other task loses its cancellation mark. *)
LEMMA AbortCovers ==
    ASSUME TypeOK, NEW u \in Tasks \cup {None}, AbortTask(u)
    PROVE  /\ \A t \in Tasks : aborted[t] => aborted'[t]
           /\ u \in Tasks /\ pc[u] \in BusyPc => aborted'[u]
BY SessionAssumption DEF TypeOK, AbortTask, Finished, BusyPc

(* Session::abort takes the current task, with the process that calls it moving
   on (or none moving): what was current is evicted. *)
LEMMA TakeMove ==
    ASSUME TypeOK, ActiveTurnIsCurrent, NEW n \in Inputs, TakeCurrent(n), new' = new,
           \/ pc' = pc
           \/ \E to : /\ pc[Loop] = "recv" /\ to \notin BusyPc
                      /\ pc' = [pc EXCEPT ![Loop] = to]
    PROVE  ActiveTurnIsCurrent'
<1> SUFFICES ASSUME NEW t \in Tasks, pc'[t] \in BusyPc, ~aborted'[t]
             PROVE  \/ \E q \in Procs : pc'[q] = "set" /\ new'[q] = t
                    \/ \E m \in Inputs : <<m, t>> \in taken'
  BY DEF ActiveTurnIsCurrent
<1>1. /\ pc[t] \in BusyPc /\ ~aborted[t]
      /\ \A q \in Procs : pc[q] = "set" => pc'[q] = "set"
  BY SessionAssumption DEF TypeOK, Procs, TakeCurrent
<1>2. /\ \A m \in Inputs : <<m, t>> \in taken => <<m, t>> \in taken'
      /\ t = current => <<n, t>> \in taken'
  BY SessionAssumption DEF TakeCurrent
<1> QED
  BY <1>1, <1>2 DEF ActiveTurnIsCurrent

(* A turn that runs and was not cancelled is the session's current task, is on
   its way to set_task, or is held by an abort that will cancel it, for any set of
   tasks, any Ops and any interleaving: no second turn runs beside the current
   one without somebody who stops it. *)
THEOREM ActiveTurnReachable == Spec => []ActiveTurnIsCurrent
<1>1. Init => ActiveTurnIsCurrent
  BY SessionAssumption DEF Init, ActiveTurnIsCurrent, BusyPc, Procs
<1>2. TypeOK /\ ActiveTurnIsCurrent /\ [Next]_vars => ActiveTurnIsCurrent'
  <2> SUFFICES ASSUME TypeOK, ActiveTurnIsCurrent, [Next]_vars
               PROVE  ActiveTurnIsCurrent'
    OBVIOUS
  <2> USE SessionAssumption
  <2>0. Loop \in Procs /\ Wake \in Procs /\ \A t \in Tasks : t \in Procs
    BY DEF Procs
  <2>1. ASSUME NEW n \in Inputs, Submit(n) PROVE ActiveTurnIsCurrent'
    <3>1. CASE UserInput(n) \/ Review(n) \/ ApprovalAbort(n)
      BY <3>1, TakeMove DEF UserInput, Review, ApprovalAbort, Goto, starts, BusyPc
    <3>2. CASE QueueUserInput(n) \/ PostTurn(n) \/ Shutdown(n)
      <4>1. PICK to : /\ pc[Loop] = "recv" /\ to \notin BusyPc
                      /\ pc' = [pc EXCEPT ![Loop] = to]
        BY <3>2 DEF QueueUserInput, PostTurn, Shutdown, Goto, BusyPc
      <4>2. current' = current /\ new' = new /\ aborted' = aborted /\ taken' = taken
        BY <3>2 DEF QueueUserInput, PostTurn, Shutdown, starts, aborts
      <4> QED
        BY <2>0, <4>1, <4>2, QuietMove
    <3>3. CASE Interrupt(n)
      BY <3>3 DEF Interrupt, ActiveTurnIsCurrent, starts, aborts
    <3>4. ASSUME NEW p \in {Loop, Wake}, OutOfTurn(p, n) PROVE ActiveTurnIsCurrent'
      <4>1. PICK to : /\ pc[p] = "recv" /\ to \notin BusyPc
                      /\ pc' = [pc EXCEPT ![p] = to]
        BY <3>4 DEF OutOfTurn, Goto, BusyPc
      <4>2. current' = current /\ new' = new /\ aborted' = aborted /\ taken' = taken
        BY <3>4 DEF OutOfTurn, aborts
      <4> QED
        BY <2>0, <4>1, <4>2, QuietMove
    <3>5. CASE Compact(n)
      <4>1. PICK to : /\ pc[Loop] = "recv" /\ to \notin BusyPc
                      /\ pc' = [pc EXCEPT ![Loop] = to]
        BY <3>5 DEF Compact, Goto, BusyPc
      <4>2. current' = current /\ new' = new /\ aborted' = aborted /\ taken' = taken
        BY <3>5 DEF Compact, aborts
      <4> QED
        BY <2>0, <4>1, <4>2, QuietMove
    <3> QED
      BY <2>1, <3>1, <3>2, <3>3, <3>4, <3>5 DEF Submit, Developer, AgentWake
  <2>2. ASSUME NEW n \in Inputs, RunInterrupt(n) PROVE ActiveTurnIsCurrent'
    BY <2>2, TakeMove DEF RunInterrupt, starts
  <2>9. ASSUME NEW n \in Inputs, NEW u \in Tasks, CancelTaken(n, u)
        PROVE  ActiveTurnIsCurrent'
    <3>1. /\ current' = current /\ pc' = pc /\ new' = new
          /\ taken' = taken \ {<<n, u>>} /\ AbortTask(u)
      BY <2>9 DEF CancelTaken, starts
    <3> SUFFICES ASSUME NEW t \in Tasks, pc[t] \in BusyPc, ~aborted'[t]
                 PROVE  \/ t = current
                        \/ \E q \in Procs : pc[q] = "set" /\ new[q] = t
                        \/ \E m \in Inputs : <<m, t>> \in taken'
      BY <3>1 DEF ActiveTurnIsCurrent
    <3>2. ~aborted[t] /\ t # u
      BY <3>1, AbortCovers
    <3>3. \A m \in Inputs : <<m, t>> \in taken => <<m, t>> \in taken'
      BY <3>1, <3>2
    <3> QED
      BY <3>2, <3>3 DEF ActiveTurnIsCurrent
  <2>3. ASSUME NEW p \in Procs, StartTurn(p) PROVE ActiveTurnIsCurrent'
    <3>1. CASE IdleCheck(p) \/ HooksPass(p) \/ HooksBlock(p) \/ AnnounceReview(p)
      <4>1. PICK to : /\ pc[p] # "set" /\ to \notin BusyPc
                      /\ pc' = [pc EXCEPT ![p] = to]
        BY <3>1 DEF IdleCheck, HooksPass, HooksBlock, AnnounceReview, Goto, Rest, BusyPc
      <4>2. current' = current /\ new' = new /\ aborted' = aborted /\ taken' = taken
        BY <3>1 DEF IdleCheck, HooksPass, HooksBlock, AnnounceReview, starts, aborts
      <4> QED
        BY <4>1, <4>2, QuietMove
    <3>2. CASE Spawn(p)
      <4>1. PICK u \in Tasks :
              /\ pc[p] = "spawn" /\ pc[u] = "unborn"
              /\ pc' = [pc EXCEPT ![p] = "set", ![u] = "start"]
              /\ new' = [new EXCEPT ![p] = u]
              /\ current' = current /\ aborted' = aborted /\ taken' = taken
        BY <3>2 DEF Spawn, aborts
      <4>2. pc'[p] = "set" /\ new'[p] = u
        BY <2>0, <4>1 DEF TypeOK
      <4> SUFFICES ASSUME NEW t \in Tasks, pc'[t] \in BusyPc, ~aborted'[t]
                   PROVE  \/ t = current'
                          \/ \E q \in Procs : pc'[q] = "set" /\ new'[q] = t
                          \/ \E n \in Inputs : <<n, t>> \in taken'
        BY DEF ActiveTurnIsCurrent
      <4>3. CASE t = u
        BY <4>2, <4>3
      <4>4. CASE t # u
        <5>1. pc[t] \in BusyPc /\ ~aborted[t]
          BY <2>0, <4>1, <4>4 DEF TypeOK, BusyPc
        <5>2. ASSUME NEW q \in Procs, pc[q] = "set", new[q] = t
              PROVE  pc'[q] = "set" /\ new'[q] = t
          BY <2>0, <4>1, <5>2 DEF TypeOK
        <5> QED
          BY <4>1, <5>1, <5>2 DEF ActiveTurnIsCurrent
      <4> QED
        BY <4>3, <4>4
    <3>3. CASE SetTask(p)
      <4>1. /\ pc[p] = "set" /\ pc' = [pc EXCEPT ![p] = AfterSet(p)]
            /\ current' = new[p] /\ new' = [new EXCEPT ![p] = None]
            /\ AbortTask(current) /\ taken' = taken
        BY <3>3 DEF SetTask, Goto
      <4> SUFFICES ASSUME NEW t \in Tasks, pc'[t] \in BusyPc, ~aborted'[t], t # current'
                   PROVE  \/ \E q \in Procs : pc'[q] = "set" /\ new'[q] = t
                          \/ \E n \in Inputs : <<n, t>> \in taken'
        BY DEF ActiveTurnIsCurrent
      <4>2. pc[t] \in BusyPc
        BY <2>0, <4>1 DEF TypeOK, AfterSet, Rest, BusyPc
      <4>3. ~aborted[t] /\ t # current
        <5>1. current \in Tasks \cup {None}
          BY DEF TypeOK
        <5> QED
          BY <4>1, <4>2, <5>1, AbortCovers
      <4>4. CASE \E n \in Inputs : <<n, t>> \in taken
        BY <4>1, <4>4
      <4>5. ASSUME NEW q \in Procs, pc[q] = "set", new[q] = t
            PROVE  pc'[q] = "set" /\ new'[q] = t
        <5>1. q # p
          BY <4>1, <4>5
        <5> QED
          BY <4>1, <4>5, <5>1 DEF TypeOK
      <4> QED
        BY <4>2, <4>3, <4>4, <4>5 DEF ActiveTurnIsCurrent
    <3> QED
      BY <2>3, <3>1, <3>2, <3>3 DEF StartTurn
  <2>4. ASSUME QueuePush \/ PostIdle \/ CompactQueue PROVE ActiveTurnIsCurrent'
    <3>1. PICK to : /\ pc[Loop] # "set" /\ to \notin BusyPc
                    /\ pc' = [pc EXCEPT ![Loop] = to]
      BY <2>4 DEF QueuePush, PostIdle, CompactQueue, Goto, BusyPc
    <3>2. current' = current /\ new' = new /\ aborted' = aborted /\ taken' = taken
      BY <2>4 DEF QueuePush, PostIdle, CompactQueue, starts, aborts
    <3> QED
      BY <2>0, <3>1, <3>2, QuietMove
  <2>5. ASSUME NEW t \in Tasks,
               \/ Start(t) \/ StartReturns(t) \/ Drain(t) \/ RecordPending(t)
               \/ Ask(t) \/ Answered(t) \/ ModelTools(t)
               \/ ModelContinue(t) \/ ModelEnd(t) \/ Finish(t) \/ CompactStart(t)
               \/ CompactOk(t) \/ CompactFail(t) \/ Complete(t) \/ Die(t) \/ FollowUp(t)
        PROVE  ActiveTurnIsCurrent'
    <3>1. PICK to : /\ pc[t] # "set" /\ (to \in BusyPc => pc[t] \in BusyPc)
                    /\ pc' = [pc EXCEPT ![t] = to]
      BY <2>5 DEF Start, StartReturns, Ask, Answered, Drain, RecordPending, ModelTools, ModelContinue, ModelEnd,
                  Finish, CompactStart, CompactOk, CompactFail, Complete, Die,
                  FollowUp, Goto, BusyPc
    <3>2. current' = current /\ new' = new /\ aborted' = aborted /\ taken' = taken
      BY <2>5 DEF Start, StartReturns, Ask, Answered, Drain, RecordPending, ModelTools, ModelContinue, ModelEnd,
                  Finish, CompactStart, CompactOk, CompactFail, Complete, Die,
                  FollowUp, starts, aborts
    <3> QED
      BY <2>0, <3>1, <3>2, QuietMove
  <2>6. ASSUME NEW t \in Tasks, RemoveTask(t) PROVE ActiveTurnIsCurrent'
    <3>1. /\ pc[t] = "remove" /\ pc' = [pc EXCEPT ![t] = "complete"]
          /\ current' = (IF current = t THEN None ELSE current)
          /\ new' = new /\ aborted' = aborted /\ taken' = taken
      BY <2>6 DEF RemoveTask, Goto, starts, aborts
    <3> SUFFICES ASSUME NEW u \in Tasks, pc'[u] \in BusyPc, ~aborted'[u], u # current'
                 PROVE  \/ \E q \in Procs : pc'[q] = "set" /\ new'[q] = u
                        \/ \E n \in Inputs : <<n, u>> \in taken'
      BY DEF ActiveTurnIsCurrent
    <3>2. u # t /\ pc[u] \in BusyPc
      BY <2>0, <3>1 DEF TypeOK, BusyPc
    <3>3. ASSUME NEW q \in Procs, pc[q] = "set" PROVE pc'[q] = "set"
      BY <2>0, <3>1, <3>3 DEF TypeOK
    <3> QED
      BY <3>1, <3>2, <3>3 DEF ActiveTurnIsCurrent
  <2>7. ASSUME NEW t \in Tasks, Notify(t) PROVE ActiveTurnIsCurrent'
    BY <2>7 DEF Notify, ActiveTurnIsCurrent, starts
  <2>8. CASE UNCHANGED vars
    BY <2>8 DEF vars, starts, aborts, ActiveTurnIsCurrent
  <2> QED
    BY <2>0, <2>1, <2>2, <2>3, <2>4, <2>5, <2>6, <2>7, <2>8, <2>9
    DEF Next, AbortStep, LoopStep, TaskStep
<1> QED
  BY <1>1, <1>2, TypeCorrect, PTL DEF Spec
=============================================================================
