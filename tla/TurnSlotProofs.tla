--------------------------- MODULE TurnSlotProofs ---------------------------
(***************************************************************************)
(* The session implements TurnSlot, for any set of tasks, any mix of Ops   *)
(* and any bounds.  What a step does to the slot depends only on pc,       *)
(* current_task, the tasks on their way to set_task, the ones that aborts  *)
(* took out and the aborted ones; StepShapes reduces the actions to the    *)
(* seven things they do to those, and the rest of the argument speaks of   *)
(* the seven shapes alone.                                                 *)
(***************************************************************************)
EXTENDS SessionTurnsProofs

\* No turn is aborted, current or evicted before it is spawned; the processes
\* that are about to call set_task each have a turn of their own that was never
\* installed; and one abort at most holds a turn, which is not current then.
Unborn == \A t \in Tasks : pc[t] = "unborn" =>
              ~aborted[t] /\ t # current /\ \A n \in Inputs : <<n, t>> \notin taken
OfferedOnce ==
    \A p \in Procs : pc[p] = "set" =>
        /\ new[p] \in Tasks /\ pc[new[p]] # "unborn" /\ new[p] # current
        /\ \A n \in Inputs : <<n, new[p]>> \notin taken
        /\ \A q \in Procs : pc[q] = "set" /\ new[q] = new[p] => q = p
TakenOnce ==
    \A n \in Inputs, t \in Tasks : <<n, t>> \in taken =>
        t # current /\ \A m \in Inputs : <<m, t>> \in taken => m = n
SlotInv == Unborn /\ OfferedOnce /\ TakenOnce

-----------------------------------------------------------------------------
(* The seven shapes of a step. *)
Still == UNCHANGED <<pc, current, new, aborted, taken>>

\* Process p goes on.
Moves(p, to) ==
    /\ pc[p] \notin {"set", "unborn"} /\ to \notin {"set", "unborn"}
    /\ pc' = [pc EXCEPT ![p] = to]
    /\ new' = new /\ aborted' = aborted /\ taken' = taken

\* It is no turn, or stays busy, or idle, or was aborted before.
Quiet(p, to) ==
    /\ Moves(p, to) /\ current' = current
    /\ p \in Tasks /\ ~aborted[p] => (pc[p] \in BusyPc <=> to \in BusyPc)

\* Turn t leaves the busy states and perhaps the slot.
Ends(t, to) ==
    /\ Moves(t, to) /\ pc[t] \in BusyPc /\ to \notin BusyPc
    /\ current' = current \/ (current = t /\ current' = None)

\* Whatever is current is taken out, and the loop may go on.
Takes(n, to) ==
    /\ TakeCurrent(n) /\ new' = new
    /\ \/ pc' = pc
       \/ /\ pc[Loop] = "recv" /\ to \notin {"set", "unborn"}
          /\ pc' = [pc EXCEPT ![Loop] = to]

\* What was taken out is aborted.
Cancels(n, t) ==
    /\ <<n, t>> \in taken /\ taken' = taken \ {<<n, t>>}
    /\ AbortTask(t)
    /\ pc' = pc /\ current' = current /\ new' = new

Spawns(p, u) ==
    /\ pc[p] = "spawn" /\ pc[u] = "unborn"
    /\ pc' = [pc EXCEPT ![p] = "set", ![u] = "start"]
    /\ new' = [new EXCEPT ![p] = u]
    /\ current' = current /\ aborted' = aborted /\ taken' = taken

Sets(p) ==
    /\ pc[p] = "set" /\ pc' = [pc EXCEPT ![p] = AfterSet(p)]
    /\ current' = new[p] /\ new' = [new EXCEPT ![p] = None]
    /\ AbortTask(current) /\ taken' = taken

(* Every step of the session has one of the seven shapes. *)
LEMMA StepShapes ==
    ASSUME TypeOK, [Next]_vars
    PROVE  \/ Still
           \/ \E p \in Procs : \E to : Quiet(p, to)
           \/ \E t \in Tasks : \E to : Ends(t, to)
           \/ \E n \in Inputs : \E to : Takes(n, to)
           \/ \E n \in Inputs, t \in Tasks : Cancels(n, t)
           \/ \E p \in Procs, u \in Tasks : Spawns(p, u)
           \/ \E p \in Procs : Sets(p)
<1> DEFINE Goal == \/ Still
                   \/ \E p \in Procs : \E to : Quiet(p, to)
                   \/ \E t \in Tasks : \E to : Ends(t, to)
                   \/ \E n \in Inputs : \E to : Takes(n, to)
                   \/ \E n \in Inputs, t \in Tasks : Cancels(n, t)
                   \/ \E p \in Procs, u \in Tasks : Spawns(p, u)
                   \/ \E p \in Procs : Sets(p)
<1> USE SessionAssumption
<1>0. Loop \in Procs /\ Wake \in Procs /\ \A t \in Tasks : t \in Procs
  BY DEF Procs
<1>1. ASSUME NEW n \in Inputs, Submit(n) PROVE Goal
  <2>1. CASE UserInput(n) \/ Review(n) \/ ApprovalAbort(n)
    <3>1. \E to : Takes(n, to)
      BY <2>1 DEF UserInput, Review, ApprovalAbort, Goto, starts, Takes
    <3> QED BY <3>1
  <2>2. CASE QueueUserInput(n) \/ PostTurn(n) \/ Shutdown(n)
    <3>1. PICK to : /\ pc[Loop] = "recv" /\ to \notin {"set", "unborn"}
                    /\ pc' = [pc EXCEPT ![Loop] = to]
      BY <2>2 DEF QueueUserInput, PostTurn, Shutdown, Goto
    <3>2. current' = current /\ new' = new /\ aborted' = aborted /\ taken' = taken
      BY <2>2 DEF QueueUserInput, PostTurn, Shutdown, starts, aborts
    <3>3. Quiet(Loop, to)
      BY <3>1, <3>2 DEF Quiet, Moves
    <3> QED BY <1>0, <3>3
  <2>3. CASE Interrupt(n)
    <3>1. Still
      BY <2>3 DEF Interrupt, Still, starts, aborts
    <3> QED BY <3>1
  <2>4. ASSUME NEW p \in {Loop, Wake}, OutOfTurn(p, n) PROVE Goal
    <3>1. PICK to : /\ pc[p] = "recv" /\ to \notin {"set", "unborn"}
                    /\ pc' = [pc EXCEPT ![p] = to]
      BY <2>4 DEF OutOfTurn, Goto
    <3>2. current' = current /\ new' = new /\ aborted' = aborted /\ taken' = taken
      BY <2>4 DEF OutOfTurn, aborts
    <3>3. Quiet(p, to)
      BY <3>1, <3>2 DEF Quiet, Moves
    <3> QED BY <1>0, <3>3
  <2>5. CASE Compact(n)
    <3>1. PICK to : /\ pc[Loop] = "recv" /\ to \notin {"set", "unborn"}
                    /\ pc' = [pc EXCEPT ![Loop] = to]
      BY <2>5 DEF Compact, Goto
    <3>2. current' = current /\ new' = new /\ aborted' = aborted /\ taken' = taken
      BY <2>5 DEF Compact, aborts
    <3>3. Quiet(Loop, to)
      BY <3>1, <3>2 DEF Quiet, Moves
    <3> QED BY <1>0, <3>3
  <2> QED
    BY <1>1, <2>1, <2>2, <2>3, <2>4, <2>5 DEF Submit, Developer, AgentWake
<1>2. ASSUME NEW n \in Inputs, RunInterrupt(n) PROVE Goal
  <2>1. Takes(n, "recv")
    BY <1>2 DEF RunInterrupt, starts, Takes
  <2> QED BY <2>1
<1>9. ASSUME NEW n \in Inputs, NEW t \in Tasks, CancelTaken(n, t) PROVE Goal
  <2>1. Cancels(n, t)
    BY <1>9 DEF CancelTaken, starts, Cancels
  <2> QED BY <2>1
<1>3. ASSUME NEW p \in Procs, StartTurn(p) PROVE Goal
  <2>1. CASE IdleCheck(p) \/ HooksPass(p) \/ HooksBlock(p) \/ AnnounceReview(p)
    <3>1. PICK to : /\ pc[p] \in {"idle_check", "hooks", "entered"}
                    /\ to \in {"spawn", "recv", "done", "followup"}
                    /\ pc' = [pc EXCEPT ![p] = to]
      BY <2>1 DEF IdleCheck, HooksPass, HooksBlock, AnnounceReview, Goto, Rest
    <3>2. current' = current /\ new' = new /\ aborted' = aborted /\ taken' = taken
      BY <2>1 DEF IdleCheck, HooksPass, HooksBlock, AnnounceReview, starts, aborts
    <3>3. Quiet(p, to)
      BY <3>1, <3>2 DEF Quiet, Moves, BusyPc
    <3> QED BY <3>3
  <2>2. CASE Spawn(p)
    <3>1. \E u \in Tasks : Spawns(p, u)
      BY <2>2 DEF Spawn, Spawns, aborts
    <3> QED BY <3>1
  <2>3. CASE SetTask(p)
    <3>1. Sets(p)
      BY <2>3 DEF SetTask, Sets, Goto
    <3> QED BY <3>1
  <2> QED
    BY <1>3, <2>1, <2>2, <2>3 DEF StartTurn
<1>4. ASSUME QueuePush \/ PostIdle \/ CompactQueue PROVE Goal
  <2>1. PICK to : /\ pc[Loop] \notin {"set", "unborn"} /\ to \notin {"set", "unborn"}
                  /\ pc' = [pc EXCEPT ![Loop] = to]
    BY <1>4 DEF QueuePush, PostIdle, CompactQueue, Goto
  <2>2. current' = current /\ new' = new /\ aborted' = aborted /\ taken' = taken
    BY <1>4 DEF QueuePush, PostIdle, CompactQueue, starts, aborts
  <2>3. Quiet(Loop, to)
    BY <2>1, <2>2 DEF Quiet, Moves
  <2> QED BY <1>0, <2>3
<1>5. ASSUME NEW t \in Tasks,
             \/ Start(t) \/ Drain(t) \/ RecordPending(t) \/ Ask(t) \/ Answered(t)
             \/ ModelTools(t)
             \/ ModelContinue(t) \/ ModelEnd(t) \/ Finish(t) \/ CompactStart(t)
             \/ CompactOk(t) \/ Complete(t) \/ Die(t) \/ FollowUp(t)
      PROVE  Goal
  <2>1. PICK to : /\ pc[t] \notin {"set", "unborn"} /\ to \notin {"set", "unborn"}
                  /\ pc' = [pc EXCEPT ![t] = to]
                  /\ aborted[t] \/ (pc[t] \in BusyPc <=> to \in BusyPc)
    BY <1>5 DEF Start, Drain, RecordPending, Ask, Answered, ModelTools, ModelContinue, ModelEnd,
                Finish, CompactStart, CompactOk, Complete, Die, FollowUp, Goto, BusyPc
  <2>2. current' = current /\ new' = new /\ aborted' = aborted /\ taken' = taken
    BY <1>5 DEF Start, Drain, RecordPending, Ask, Answered, ModelTools, ModelContinue, ModelEnd,
                Finish, CompactStart, CompactOk, Complete, Die, FollowUp, starts, aborts
  <2>3. Quiet(t, to)
    BY <2>1, <2>2 DEF Quiet, Moves
  <2> QED BY <1>0, <2>3
<1>6. ASSUME NEW t \in Tasks, RemoveTask(t) \/ CompactFail(t) \/ StartReturns(t)
      PROVE  Goal
  <2>1. Ends(t, "complete") \/ Ends(t, "returned")
    BY <1>6 DEF RemoveTask, CompactFail, StartReturns, Ends, Moves, Goto, BusyPc,
                starts, aborts
  <2> QED BY <2>1
<1>7. ASSUME NEW t \in Tasks, Notify(t) PROVE Goal
  <2>1. Still
    BY <1>7 DEF Notify, Still, starts
  <2> QED BY <2>1
<1>8. CASE UNCHANGED vars
  <2>1. Still
    BY <1>8 DEF vars, Still, starts, aborts
  <2> QED BY <2>1
<1> QED
  BY <1>0, <1>1, <1>2, <1>3, <1>4, <1>5, <1>6, <1>7, <1>8, <1>9
  DEF Next, AbortStep, LoopStep, TaskStep

-----------------------------------------------------------------------------
(* Aborting a task changes aborted for that task alone. *)
LEMMA AbortOnly ==
    ASSUME TypeOK, NEW u \in Tasks \cup {None}, AbortTask(u)
    PROVE  \A t \in Tasks : /\ t # u => aborted'[t] = aborted[t]
                            /\ t = u => aborted'[t] \/ pc[t] \notin BusyPc
BY SessionAssumption DEF TypeOK, AbortTask, Finished, BusyPc

(* Taking the current task out adds it, and nothing else, to what is taken. *)
LEMMA TakesOnly ==
    ASSUME TypeOK, NEW n \in Inputs, TakeCurrent(n)
    PROVE  /\ current' = None /\ aborted' = aborted
           /\ \A m \in Inputs, t \in Tasks :
                 <<m, t>> \in taken' <=> <<m, t>> \in taken \/ (m = n /\ t = current)
BY SessionAssumption DEF TakeCurrent, TypeOK

(* Each shape of a step keeps SlotInv: a turn gets its identity, its place
   before set_task and its abort in that order. *)
LEMMA SlotInvStep ==
    ASSUME TypeOK, SlotInv, [Next]_vars
    PROVE  SlotInv'
<1> USE SessionAssumption
<1>0. Loop \in Procs /\ (\A t \in Tasks : t \in Procs) /\ current \in Tasks \cup {None}
  BY DEF Procs, TypeOK
<1>1. CASE Still
  BY <1>1 DEF Still, SlotInv, Unborn, OfferedOnce, TakenOnce
<1>2. ASSUME NEW p \in Procs, NEW to, Moves(p, to),
             current' = current \/ current' = None
      PROVE  SlotInv'
  <2>1. \A q \in Procs : /\ pc'[q] = "set" <=> pc[q] = "set"
                         /\ pc'[q] = "unborn" <=> pc[q] = "unborn"
    BY <1>2 DEF Moves, TypeOK
  <2>2. new' = new /\ aborted' = aborted /\ taken' = taken
    BY <1>2 DEF Moves
  <2>3. Unborn'
    BY <1>0, <1>2, <2>1, <2>2 DEF SlotInv, Unborn
  <2>4. OfferedOnce'
    BY <1>0, <1>2, <2>1, <2>2 DEF SlotInv, OfferedOnce
  <2>5. TakenOnce'
    BY <1>2, <2>2 DEF SlotInv, TakenOnce
  <2> QED
    BY <2>3, <2>4, <2>5 DEF SlotInv
<1>3. ASSUME NEW n \in Inputs, NEW to, Takes(n, to) PROVE SlotInv'
  <2>1. \A q \in Procs : /\ pc'[q] = "set" <=> pc[q] = "set"
                         /\ pc'[q] = "unborn" <=> pc[q] = "unborn"
    BY <1>0, <1>3 DEF Takes, TypeOK
  <2>2. /\ new' = new /\ current' = None /\ aborted' = aborted
        /\ \A m \in Inputs, t \in Tasks :
              <<m, t>> \in taken' <=> <<m, t>> \in taken \/ (m = n /\ t = current)
    BY <1>3, TakesOnly DEF Takes
  <2>3. Unborn'
    <3> SUFFICES ASSUME NEW t \in Tasks, pc'[t] = "unborn"
                 PROVE  ~aborted'[t] /\ t # current' /\ \A m \in Inputs : <<m, t>> \notin taken'
      BY DEF Unborn
    <3>1. ~aborted[t] /\ t # current /\ \A m \in Inputs : <<m, t>> \notin taken
      BY <1>0, <2>1 DEF SlotInv, Unborn
    <3> QED
      BY <2>2, <3>1
  <2>4. OfferedOnce'
    <3> SUFFICES ASSUME NEW q \in Procs, pc'[q] = "set"
                 PROVE  /\ new'[q] \in Tasks /\ pc'[new'[q]] # "unborn" /\ new'[q] # current'
                        /\ \A m \in Inputs : <<m, new'[q]>> \notin taken'
                        /\ \A r \in Procs : pc'[r] = "set" /\ new'[r] = new'[q] => r = q
      BY DEF OfferedOnce
    <3>1. /\ new[q] \in Tasks /\ pc[new[q]] # "unborn" /\ new[q] # current
          /\ \A m \in Inputs : <<m, new[q]>> \notin taken
          /\ \A r \in Procs : pc[r] = "set" /\ new[r] = new[q] => r = q
      BY <2>1 DEF SlotInv, OfferedOnce
    <3> QED
      BY <1>0, <2>1, <2>2, <3>1
  <2>5. TakenOnce'
    BY <2>2 DEF SlotInv, TakenOnce
  <2> QED
    BY <2>3, <2>4, <2>5 DEF SlotInv
<1>8. ASSUME NEW n \in Inputs, NEW u \in Tasks, Cancels(n, u) PROVE SlotInv'
  <2>1. /\ pc' = pc /\ current' = current /\ new' = new
        /\ <<n, u>> \in taken /\ taken' \subseteq taken /\ AbortTask(u)
    BY <1>8 DEF Cancels
  <2>2. Unborn'
    <3> SUFFICES ASSUME NEW t \in Tasks, pc[t] = "unborn"
                 PROVE  ~aborted'[t] /\ t # current /\ \A m \in Inputs : <<m, t>> \notin taken'
      BY <2>1 DEF Unborn
    <3>1. ~aborted[t] /\ t # current /\ \A m \in Inputs : <<m, t>> \notin taken
      BY DEF SlotInv, Unborn
    <3>2. t # u
      BY <2>1, <3>1
    <3>3. aborted'[t] = aborted[t]
      BY <2>1, <3>2, AbortOnly
    <3> QED
      BY <2>1, <3>1, <3>3
  <2>3. OfferedOnce'
    BY <2>1 DEF SlotInv, OfferedOnce
  <2>4. TakenOnce'
    BY <2>1 DEF SlotInv, TakenOnce
  <2> QED
    BY <2>2, <2>3, <2>4 DEF SlotInv
<1>4. ASSUME NEW p \in Procs, NEW u \in Tasks, Spawns(p, u) PROVE SlotInv'
  <2>1. /\ pc'[p] = "set" /\ new'[p] = u /\ pc'[u] = "start" /\ p # u
        /\ \A q \in Procs : q # p /\ q # u => pc'[q] = pc[q]
        /\ \A q \in Procs : q # p => new'[q] = new[q]
    BY <1>0, <1>4 DEF Spawns, TypeOK
  <2>2. Unborn'
    <3> SUFFICES ASSUME NEW t \in Tasks, pc'[t] = "unborn"
                 PROVE  ~aborted'[t] /\ t # current' /\ \A m \in Inputs : <<m, t>> \notin taken'
      BY DEF Unborn
    <3>1. pc[t] = "unborn"
      BY <1>0, <2>1
    <3> QED
      BY <1>4, <3>1 DEF Spawns, SlotInv, Unborn
  <2>3. \A q \in Procs : q # p /\ pc'[q] = "set" =>
            pc[q] = "set" /\ new'[q] = new[q] /\ new[q] # u
    BY <1>4, <2>1 DEF Spawns, SlotInv, OfferedOnce
  <2>4. \A t \in Tasks : pc[t] # "unborn" => pc'[t] # "unborn"
    BY <1>0, <2>1
  <2>5. u # current /\ \A m \in Inputs : <<m, u>> \notin taken
    BY <1>4 DEF Spawns, SlotInv, Unborn
  <2>6. current' = current /\ taken' = taken
    BY <1>4 DEF Spawns
  <2>7. OfferedOnce'
    <3> SUFFICES ASSUME NEW q \in Procs, pc'[q] = "set"
                 PROVE  /\ new'[q] \in Tasks /\ pc'[new'[q]] # "unborn" /\ new'[q] # current'
                        /\ \A m \in Inputs : <<m, new'[q]>> \notin taken'
                        /\ \A r \in Procs : pc'[r] = "set" /\ new'[r] = new'[q] => r = q
      BY DEF OfferedOnce
    <3>1. CASE q = p
      BY <2>1, <2>3, <2>5, <2>6, <3>1
    <3>2. CASE q # p
      <4>1. /\ new[q] \in Tasks /\ pc[new[q]] # "unborn" /\ new[q] # current
            /\ \A m \in Inputs : <<m, new[q]>> \notin taken
            /\ \A r \in Procs : pc[r] = "set" /\ new[r] = new[q] => r = q
        BY <2>3, <3>2 DEF SlotInv, OfferedOnce
      <4> QED
        BY <2>1, <2>3, <2>4, <2>6, <3>2, <4>1
    <3> QED
      BY <3>1, <3>2
  <2>8. TakenOnce'
    BY <2>6 DEF SlotInv, TakenOnce
  <2> QED
    BY <2>2, <2>7, <2>8 DEF SlotInv
<1>5. ASSUME NEW p \in Procs, Sets(p) PROVE SlotInv'
  <2>1. /\ pc[p] = "set" /\ pc'[p] \in {"done", "recv", "entered"}
        /\ \A q \in Procs : q # p => pc'[q] = pc[q] /\ new'[q] = new[q]
        /\ current' = new[p] /\ AbortTask(current) /\ taken' = taken
    BY <1>5 DEF Sets, AfterSet, Rest, TypeOK
  <2>2. Unborn'
    <3> SUFFICES ASSUME NEW t \in Tasks, pc'[t] = "unborn"
                 PROVE  ~aborted'[t] /\ t # current' /\ \A m \in Inputs : <<m, t>> \notin taken'
      BY DEF Unborn
    <3>1. pc[t] = "unborn"
      BY <1>0, <2>1
    <3>2. /\ ~aborted[t] /\ t # current /\ t # new[p]
          /\ \A m \in Inputs : <<m, t>> \notin taken
      BY <2>1, <3>1 DEF SlotInv, Unborn, OfferedOnce
    <3>3. aborted'[t] = aborted[t]
      BY <1>0, <2>1, <3>2, AbortOnly
    <3> QED
      BY <2>1, <3>2, <3>3
  <2>3. \A q \in Procs : pc'[q] = "set" => q # p /\ pc[q] = "set"
    BY <2>1
  <2>4. \A t \in Tasks : pc[t] # "unborn" => pc'[t] # "unborn"
    BY <1>0, <2>1
  <2>5. OfferedOnce'
    <3> SUFFICES ASSUME NEW q \in Procs, pc'[q] = "set"
                 PROVE  /\ new'[q] \in Tasks /\ pc'[new'[q]] # "unborn" /\ new'[q] # current'
                        /\ \A m \in Inputs : <<m, new'[q]>> \notin taken'
                        /\ \A r \in Procs : pc'[r] = "set" /\ new'[r] = new'[q] => r = q
      BY DEF OfferedOnce
    <3>1. q # p /\ pc[q] = "set" /\ new'[q] = new[q]
      BY <2>1, <2>3
    <3>2. /\ new[q] \in Tasks /\ pc[new[q]] # "unborn" /\ new[q] # new[p]
          /\ \A m \in Inputs : <<m, new[q]>> \notin taken
          /\ \A r \in Procs : pc[r] = "set" /\ new[r] = new[q] => r = q
      BY <2>1, <3>1 DEF SlotInv, OfferedOnce
    <3> QED
      BY <2>1, <2>3, <2>4, <3>1, <3>2
  <2>6. TakenOnce'
    <3>1. \A m \in Inputs : <<m, new[p]>> \notin taken
      BY <2>1 DEF SlotInv, OfferedOnce
    <3> QED
      BY <2>1, <3>1 DEF SlotInv, TakenOnce
  <2> QED
    BY <2>2, <2>5, <2>6 DEF SlotInv
<1>6. ASSUME NEW p \in Procs, NEW to, Quiet(p, to) PROVE SlotInv'
  BY <1>2, <1>6 DEF Quiet
<1>7. ASSUME NEW t \in Tasks, NEW to, Ends(t, to) PROVE SlotInv'
  BY <1>0, <1>2, <1>7 DEF Ends
<1> QED
  BY <1>1, <1>3, <1>4, <1>5, <1>6, <1>7, <1>8, StepShapes

-----------------------------------------------------------------------------
(* Under the refinement mapping each shape is a step of TurnSlot or changes
   nothing there. *)
LEMMA SlotStep ==
    ASSUME TypeOK, SlotInv, [Next]_vars
    PROVE  [Slot!Next]_(Slot!slotVars)
<1> USE SessionAssumption
<1> DEFINE Spawned == {t \in Tasks : pc[t] # "unborn"}
           Offered == {t \in Tasks : \E p \in Procs : pc[p] = "set" /\ new[p] = t}
           Evicted == {t \in Tasks : \E n \in Inputs : <<n, t>> \in taken}
           Act == {t \in Tasks : pc[t] \in BusyPc /\ ~aborted[t]}
<1>0. Loop \in Procs /\ (\A t \in Tasks : t \in Procs) /\ current \in Tasks \cup {None}
  BY DEF Procs, TypeOK
<1>1. CASE Still
  <2>1. /\ Spawned' = Spawned /\ Offered' = Offered /\ Evicted' = Evicted
        /\ Act' = Act /\ current' = current
    BY <1>1 DEF Still
  <2> QED
    BY <2>1 DEF Slot!slotVars
<1>2. ASSUME NEW p \in Procs, NEW to, Moves(p, to)
      PROVE  Spawned' = Spawned /\ Offered' = Offered /\ Evicted' = Evicted
  <2>1. \A q \in Procs : /\ pc'[q] = "set" <=> pc[q] = "set"
                         /\ pc'[q] = "unborn" <=> pc[q] = "unborn"
    BY <1>2 DEF Moves, TypeOK
  <2>2. Spawned' = Spawned
    BY <1>0, <2>1
  <2>3. Offered' = Offered /\ Evicted' = Evicted
    BY <1>2, <2>1 DEF Moves
  <2> QED
    BY <2>2, <2>3
<1>3. ASSUME NEW p \in Procs, NEW to, Quiet(p, to) PROVE UNCHANGED Slot!slotVars
  <2>1. /\ Spawned' = Spawned /\ Offered' = Offered /\ Evicted' = Evicted
        /\ current' = current
    BY <1>2, <1>3 DEF Quiet
  <2>2. \A t \in Tasks : t \in Act' <=> t \in Act
    BY <1>0, <1>3 DEF Quiet, Moves, TypeOK
  <2>3. Act' = Act
    BY <2>2
  <2> QED
    BY <2>1, <2>3 DEF Slot!slotVars
<1>4. ASSUME NEW t \in Tasks, NEW to, Ends(t, to) PROVE Slot!Next
  <2>1. Spawned' = Spawned /\ Offered' = Offered /\ Evicted' = Evicted
    BY <1>0, <1>2, <1>4 DEF Ends
  <2>2. \A u \in Tasks : u \in Act' <=> u \in Act /\ u # t
    BY <1>0, <1>4 DEF Ends, Moves, TypeOK
  <2>3. Act' = Act \ {t}
    BY <2>2
  <2>4. t \in Spawned
    BY <1>4 DEF Ends, Moves
  <2>5. Slot!End(t)
    BY <1>4, <2>1, <2>3, <2>4 DEF Ends, Slot!End
  <2> QED
    BY <2>5 DEF Slot!Next
<1>5. ASSUME NEW n \in Inputs, NEW to, Takes(n, to) PROVE [Slot!Next]_(Slot!slotVars)
  <2>1. \A q \in Procs : /\ pc'[q] = "set" <=> pc[q] = "set"
                         /\ pc'[q] = "unborn" <=> pc[q] = "unborn"
    BY <1>0, <1>5 DEF Takes, TypeOK
  <2>2. \A t \in Tasks : pc'[t] = pc[t]
    BY <1>0, <1>5 DEF Takes, TypeOK
  <2>3. /\ new' = new /\ current' = None /\ aborted' = aborted
        /\ \A m \in Inputs, t \in Tasks :
              <<m, t>> \in taken' <=> <<m, t>> \in taken \/ (m = n /\ t = current)
    BY <1>5, TakesOnly DEF Takes
  <2>4. Spawned' = Spawned
    BY <2>2
  <2>5. Offered' = Offered
    BY <2>1, <2>3
  <2>6. Act' = Act
    <3>1. \A t \in Tasks : t \in Act' <=> t \in Act
      BY <2>2, <2>3
    <3> QED BY <3>1
  <2>7. \A t \in Tasks : t \in Evicted' <=> t \in Evicted \/ t = current
    BY <2>3
  <2>8. CASE current = None
    <3>1. Evicted' = Evicted
      BY <2>7, <2>8
    <3> QED
      BY <2>3, <2>4, <2>5, <2>6, <2>8, <3>1 DEF Slot!slotVars
  <2>9. CASE current # None
    <3>1. Evicted' = Evicted \cup {current}
      BY <1>0, <2>7, <2>9
    <3>2. Slot!Evict
      BY <2>3, <2>4, <2>5, <2>6, <2>9, <3>1 DEF Slot!Evict
    <3> QED
      BY <3>2 DEF Slot!Next
  <2> QED
    BY <2>8, <2>9
<1>8. ASSUME NEW n \in Inputs, NEW u \in Tasks, Cancels(n, u) PROVE Slot!Next
  <2>1. /\ pc' = pc /\ current' = current /\ new' = new
        /\ <<n, u>> \in taken /\ taken' = taken \ {<<n, u>>} /\ AbortTask(u)
    BY <1>8 DEF Cancels
  <2>2. Spawned' = Spawned /\ Offered' = Offered
    BY <2>1
  <2>3. Act' = Act \ {u}
    <3>1. \A t \in Tasks : /\ t # u => aborted'[t] = aborted[t]
                           /\ t = u => aborted'[t] \/ pc[t] \notin BusyPc
      BY <2>1, AbortOnly
    <3>2. \A t \in Tasks : t \in Act' <=> t \in Act /\ t # u
      BY <2>1, <3>1
    <3> QED BY <3>2
  <2>4. Evicted' = Evicted \ {u} /\ u \in Evicted
    <3>1. \A m \in Inputs : <<m, u>> \in taken => m = n
      BY <2>1 DEF SlotInv, TakenOnce
    <3>2. \A t \in Tasks, m \in Inputs :
             <<m, t>> \in taken' <=> <<m, t>> \in taken /\ ~(m = n /\ t = u)
      BY <2>1
    <3>3. \A t \in Tasks : t \in Evicted' <=> t \in Evicted /\ t # u
      BY <3>1, <3>2
    <3> QED BY <2>1, <3>3
  <2>5. Slot!Cancel(u)
    BY <2>1, <2>2, <2>3, <2>4 DEF Slot!Cancel
  <2> QED
    BY <2>5 DEF Slot!Next
<1>6. ASSUME NEW p \in Procs, NEW u \in Tasks, Spawns(p, u) PROVE Slot!Next
  <2>1. /\ pc'[p] = "set" /\ new'[p] = u /\ pc'[u] = "start" /\ p # u
        /\ pc[p] = "spawn" /\ pc[u] = "unborn"
        /\ \A q \in Procs : q # p /\ q # u => pc'[q] = pc[q]
        /\ \A q \in Procs : q # p => new'[q] = new[q]
        /\ current' = current /\ aborted' = aborted /\ taken' = taken
    BY <1>0, <1>6 DEF Spawns, TypeOK
  <2>2. u \notin Spawned
    BY <2>1
  <2>3. Spawned' = Spawned \cup {u}
    <3>1. \A t \in Tasks : t \in Spawned' <=> t \in Spawned \/ t = u
      BY <1>0, <2>1
    <3> QED BY <3>1
  <2>4. Offered' = Offered \cup {u}
    <3>1. \A t \in Tasks : t \in Offered' <=> t \in Offered \/ t = u
      BY <1>0, <2>1
    <3> QED BY <3>1
  <2>5. Act' = Act \cup {u}
    <3>1. ~aborted[u]
      BY <2>1 DEF SlotInv, Unborn
    <3>2. \A t \in Tasks : t \in Act' <=> t \in Act \/ t = u
      BY <1>0, <2>1, <3>1 DEF BusyPc
    <3> QED BY <3>2
  <2>6. Slot!Offer(u)
    BY <2>1, <2>2, <2>3, <2>4, <2>5 DEF Slot!Offer
  <2> QED
    BY <2>6 DEF Slot!Next
<1>7. ASSUME NEW p \in Procs, Sets(p) PROVE Slot!Next
  <2>1. /\ pc[p] = "set" /\ pc'[p] \in {"done", "recv", "entered"}
        /\ \A q \in Procs : q # p => pc'[q] = pc[q] /\ new'[q] = new[q]
        /\ current' = new[p] /\ AbortTask(current) /\ taken' = taken
    BY <1>7 DEF Sets, AfterSet, Rest, TypeOK
  <2>2. new[p] \in Tasks /\ new[p] \in Offered
    BY <2>1 DEF SlotInv, OfferedOnce
  <2>3. Spawned' = Spawned
    <3>1. \A t \in Tasks : t \in Spawned' <=> t \in Spawned
      BY <1>0, <2>1
    <3> QED BY <3>1
  <2>4. Offered' = Offered \ {new[p]}
    <3>1. \A t \in Tasks : t \in Offered' <=> t \in Offered /\ t # new[p]
      BY <2>1 DEF SlotInv, OfferedOnce
    <3> QED BY <3>1
  <2>5. Act' = Act \ {current}
    <3>1. \A t \in Tasks : pc'[t] = pc[t] \/ {pc'[t], pc[t]} \cap BusyPc = {}
      BY <1>0, <2>1 DEF BusyPc
    <3>2. \A t \in Tasks : t \in Act' <=> t \in Act /\ t # current
      <4>1. \A t \in Tasks : /\ t # current => aborted'[t] = aborted[t]
                             /\ t = current => aborted'[t] \/ pc[t] \notin BusyPc
        BY <1>0, <2>1, AbortOnly
      <4> QED
        BY <3>1, <4>1
    <3> QED BY <3>2
  <2>6. PICK u \in Tasks : u = new[p]
    BY <2>2
  <2>7. Slot!Install(u)
    BY <2>1, <2>2, <2>3, <2>4, <2>5, <2>6 DEF Slot!Install
  <2> QED
    BY <2>7 DEF Slot!Next
<1> QED
  BY <1>1, <1>3, <1>4, <1>5, <1>6, <1>7, <1>8, StepShapes

(* The session implements TurnSlot: for any set of tasks, any Ops and any
   interleaving of the loop, the forwarder, the tasks and the detached aborts,
   a turn works only before it is installed, while it is current_task, or from
   the moment an abort took it out to the moment it cancels it, and remove_task,
   abort and set_task never touch another's turn. *)
THEOREM SessionImplementsSlot == Spec => TurnsShareOneSlot
<1>1. Init => SlotInv /\ Slot!Init
  <2> SUFFICES ASSUME Init PROVE SlotInv /\ Slot!Init
    OBVIOUS
  <2>1. /\ \A p \in Procs : pc[p] # "set"
        /\ \A t \in Tasks : pc[t] = "unborn" /\ ~aborted[t]
        /\ current = None /\ taken = {}
    BY SessionAssumption DEF Init, Procs
  <2>2. SlotInv
    BY <2>1, SessionAssumption DEF SlotInv, Unborn, OfferedOnce, TakenOnce
  <2>3. Slot!Init
    BY <2>1 DEF Slot!Init, BusyPc
  <2> QED
    BY <2>2, <2>3
<1>2. TypeOK /\ SlotInv /\ [Next]_vars => SlotInv'
  BY SlotInvStep
<1>3. TypeOK /\ SlotInv /\ [Next]_vars => [Slot!Next]_(Slot!slotVars)
  BY SlotStep
<1> QED
  BY <1>1, <1>2, <1>3, TypeCorrect, PTL DEF Spec, TurnsShareOneSlot, Slot!Spec
=============================================================================
