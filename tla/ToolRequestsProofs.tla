------------------------ MODULE ToolRequestsProofs ------------------------
(***************************************************************************)
(* Proofs about ToolRequests, for every set of turns and tool calls and    *)
(* any number of aborts.                                                   *)
(***************************************************************************)
EXTENDS ToolRequests, TLAPS

(* A turn executes its own call. *)
CallsOwned ==
    \A t \in Turns : pc[t] \in {"register", "announce", "wait"} =>
        call[t] \in Calls /\ turn[call[t]] = t

(* A sender in a map has an open channel, and belongs to the call that its turn
   made last and has not seen resolved. *)
PendingOwned ==
    \A d \in pending :
        /\ chan[d] = "open"
        /\ turn[d] \in Turns
        /\ call[turn[d]] = d
        /\ \/ pc[turn[d]] \in {"wait", "dead"}
           \/ d \notin Approvals /\ pc[turn[d]] = "announce"

(* The open channels of calls that register first. *)
OpenRegistered ==
    \A c \in Calls \ Approvals : chan[c] = "open" =>
        \/ c \in pending
        \/ /\ turn[c] \in Turns /\ pc[turn[c]] = "register"
           /\ call[turn[c]] = c

(* Until its sender is in the map, a call's channel is untouched. *)
UnregisteredOpen ==
    \A t \in Turns :
        pc[t] = "register" \/ (pc[t] = "announce" /\ call[t] \in Approvals)
            => chan[call[t]] = "open"

(* A call that registers first is announced only after it registered. *)
AnnouncedLater ==
    \A c \in announced :
        /\ turn[c] \in Turns
        /\ c \notin Approvals => ~(pc[turn[c]] = "register" /\ call[turn[c]] = c)

(* What was sent on a channel that is found by call_id. *)
SentOwn ==
    \A c \in Approvals \cup DynamicTools :
        chan[c] \in Calls => chan[c] = c /\ c \in answered

TypeInv == TypeOK /\ CallsOwned

RequestInv == /\ TypeInv /\ PendingOwned /\ OpenRegistered
              /\ UnregisteredOpen /\ AnnouncedLater

AnswerInv == TypeInv /\ SentOwn /\ AnswersOwnCall

-----------------------------------------------------------------------------
(* The type invariant needs to know that a turn in the middle of a request has a
   call, which it made itself. *)
LEMMA TypeInductive ==
    /\ Init => TypeInv
    /\ TypeInv /\ [Next]_vars => TypeInv'
<1>1. Init => TypeInv
  BY RequestAssumption DEF Init, TypeInv, TypeOK, CallsOwned
<1>2. ASSUME TypeInv, [Next]_vars PROVE TypeInv'
  <2> USE <1>2 DEF TypeInv, TypeOK, CallsOwned, session, requests, actors, Goto
  <2>1. ASSUME NEW t \in Turns, NEW c \in Calls, Ask(t, c) PROVE TypeInv'
    BY <2>1, RequestAssumption DEF Ask
  <2>2. ASSUME NEW t \in Turns, Register(t) PROVE TypeInv'
    BY <2>2 DEF Register
  <2>3. ASSUME NEW t \in Turns, Announce(t) PROVE TypeInv'
    BY <2>3 DEF Announce
  <2>4. ASSUME NEW t \in Turns, Resolve(t) PROVE TypeInv'
    BY <2>4 DEF Resolve
  <2>5. ASSUME NEW t \in Turns, EndTurn(t) \/ Die(t) PROVE TypeInv'
    BY <2>5 DEF EndTurn, Die
  <2>6. ASSUME NEW t \in Turns, SpawnTurn(t) PROVE TypeInv'
    BY <2>6 DEF SpawnTurn
  <2>7. ASSUME NEW c \in Calls, Answer(c) PROVE TypeInv'
    BY <2>7 DEF Answer
  <2>8. CASE LoopAbort
    BY <2>8, RequestAssumption DEF LoopAbort, AbortClear
  <2>9. CASE LoopCancel \/ InterruptCancel
    BY <2>9 DEF LoopCancel, InterruptCancel, AbortCancel
  <2>10. CASE Interrupt
    BY <2>10, RequestAssumption DEF Interrupt
  <2>11. CASE InterruptAbort
    BY <2>11 DEF InterruptAbort, AbortClear
  <2>12. CASE SetTask
    BY <2>12 DEF SetTask
  <2>13. CASE UNCHANGED vars
    BY <2>13 DEF vars
  <2>14. QED
    BY <1>2, <2>1, <2>2, <2>3, <2>4, <2>5, <2>6, <2>7, <2>8, <2>9, <2>10, <2>11,
       <2>12, <2>13 DEF Next, TurnStep, AbortStep
<1>3. QED
  BY <1>1, <1>2

(* Every variable of every action of the loop, the interrupt task and the turns
   stays within its type. *)
THEOREM TypeCorrect == Spec => []TypeOK
<1>1. TypeInv => TypeOK
  BY DEF TypeInv
<1>2. QED
  BY <1>1, TypeInductive, PTL DEF Spec

-----------------------------------------------------------------------------
(* No call that is found by call_id takes another call's answer, or a cleared map,
   for its own answer: the channel of such a call only ever carries the answer
   given to that call, and a tool reads nothing but its channel. *)
THEOREM AnswersGoHome == Spec => []AnswersOwnCall
<1>1. Init => AnswerInv
  BY TypeInductive, RequestAssumption DEF Init, AnswerInv, SentOwn, AnswersOwnCall, Calls
<1>2. ASSUME AnswerInv, [Next]_vars PROVE AnswerInv'
  <2>0. TypeInv /\ TypeInv'
    BY <1>2, TypeInductive DEF AnswerInv
  <2> USE <1>2, <2>0 DEF TypeInv, TypeOK, SentOwn, AnswersOwnCall, session, requests,
          actors, Goto
  <2> SUFFICES SentOwn' /\ AnswersOwnCall'
    BY DEF AnswerInv
  <2>a. SentOwn /\ AnswersOwnCall
    BY DEF AnswerInv
  <2>1. ASSUME NEW t \in Turns, NEW c \in Calls, Ask(t, c)
        PROVE SentOwn' /\ AnswersOwnCall'
    BY <2>a, <2>1, RequestAssumption DEF Ask, Calls
  <2>2. ASSUME NEW t \in Turns, Register(t) PROVE SentOwn' /\ AnswersOwnCall'
    BY <2>a, <2>2, RequestAssumption DEF Register, Calls
  <2>3. ASSUME NEW t \in Turns, Resolve(t) PROVE SentOwn' /\ AnswersOwnCall'
    BY <2>a, <2>3, RequestAssumption DEF Resolve, Calls
  <2>4. ASSUME NEW c \in Calls, Answer(c)
        PROVE SentOwn' /\ AnswersOwnCall'
    <3>1. SentOwn'
      BY <2>a, <2>4, RequestAssumption DEF Answer, SameKey, Calls
    <3>2. AnswersOwnCall'
      BY <2>a, <2>4 DEF Answer
    <3>3. QED
      BY <3>1, <3>2
  <2>5. CASE LoopAbort \/ InterruptAbort
    BY <2>a, <2>5, RequestAssumption DEF LoopAbort, InterruptAbort, AbortClear, Calls
  <2>6. ASSUME UNCHANGED <<chan, outcome, answered>> PROVE SentOwn' /\ AnswersOwnCall'
    BY <2>a, <2>6
  <2>7. QED
    BY <1>2, <2>1, <2>2, <2>3, <2>4, <2>5, <2>6
       DEF Next, TurnStep, AbortStep, Announce, EndTurn, Die, SpawnTurn, LoopCancel,
           InterruptCancel, Interrupt, SetTask, vars
<1>3. AnswerInv => AnswersOwnCall
  BY DEF AnswerInv
<1>4. QED
  BY <1>1, <1>2, <1>3, PTL DEF Spec

-----------------------------------------------------------------------------
(* While a call of a turn waits to register, no other request of that turn is in
   the maps. *)
LEMMA RegisterAlone == RequestInv => NeverAlreadyPending
<1> SUFFICES ASSUME RequestInv, NEW t \in Turns, pc[t] = "register",
                    AlreadyPending(call[t])
             PROVE FALSE
  BY DEF NeverAlreadyPending
<1>1. PICK d \in pending : SameKey(call[t], d)
  BY DEF AlreadyPending
<1>2. call[t] \in Calls /\ turn[call[t]] = t
  BY DEF RequestInv, TypeInv, CallsOwned
<1>3. turn[d] = t
  BY <1>1, <1>2 DEF SameKey
<1>4. QED
  BY <1>3 DEF RequestInv, PendingOwned

(* The tool calls of one turn never meet the refusal "request_user_input already
   pending", and a request that registers before it is announced can be answered
   from its announcement until its call has been told the outcome. *)
THEOREM RequestsReachable == Spec => [](NeverAlreadyPending /\ AnnouncedIsPending)
<1>1. Init => RequestInv
  BY TypeInductive, RequestAssumption
     DEF Init, RequestInv, PendingOwned, OpenRegistered, UnregisteredOpen, AnnouncedLater
<1>2. ASSUME RequestInv, [Next]_vars PROVE RequestInv'
  <2>0. TypeInv /\ TypeInv' /\ CallsOwned /\ TypeOK /\ TypeOK' /\ CallsOwned'
    BY <1>2, TypeInductive DEF RequestInv, TypeInv
  <2>a. PendingOwned /\ OpenRegistered /\ UnregisteredOpen /\ AnnouncedLater
    BY <1>2 DEF RequestInv
  <2>b. NeverAlreadyPending
    BY <1>2, RegisterAlone
  <2> DEFINE Goal == PendingOwned' /\ OpenRegistered' /\ UnregisteredOpen' /\ AnnouncedLater'
  <2> SUFFICES Goal
    BY <2>0 DEF RequestInv
  <2> USE DEF TypeOK, CallsOwned, PendingOwned, OpenRegistered, UnregisteredOpen,
          AnnouncedLater, session, requests, actors, Goto
  <2>c. \A t \in Turns :
           pc[t] = "register" \/ (pc[t] = "announce" /\ call[t] \in Approvals)
              => call[t] \notin pending
    BY <2>0, <2>a
  <2>1. ASSUME NEW t \in Turns, NEW c \in Calls, Ask(t, c) PROVE Goal
    <3> USE <2>0, <2>a, <2>1, RequestAssumption DEF Ask, AnnouncesFirst
    <3>1. c \notin pending /\ c \notin announced
      OBVIOUS
    <3>2. PendingOwned'
      BY <3>1
    <3>3. OpenRegistered'
      BY <3>1
    <3>4. UnregisteredOpen'
      BY <3>1
    <3>5. AnnouncedLater'
      BY <3>1
    <3>6. QED
      BY <3>2, <3>3, <3>4, <3>5
  <2>2. ASSUME NEW t \in Turns, Register(t) PROVE Goal
    <3> USE <2>0, <2>a, <2>2, RequestAssumption DEF AnnouncesFirst
    <3>1. /\ ~AlreadyPending(call[t]) /\ call[t] \in Calls /\ turn[call[t]] = t
          /\ pc[t] = "register"
      BY <2>b DEF NeverAlreadyPending, Register
    <3>2. /\ pc' = [pc EXCEPT ![t] = IF call[t] \in Approvals THEN "wait" ELSE "announce"]
          /\ pending' = pending \cup {call[t]}
          /\ UNCHANGED <<call, turn, chan, announced>>
      BY <3>1 DEF Register
    <3>3. PendingOwned'
      BY <3>1, <3>2
    <3>4. OpenRegistered'
      BY <3>1, <3>2
    <3>5. UnregisteredOpen'
      BY <3>1, <3>2
    <3>6. AnnouncedLater'
      BY <3>1, <3>2
    <3>7. QED
      BY <3>3, <3>4, <3>5, <3>6
  <2>3. ASSUME NEW t \in Turns, Announce(t) PROVE Goal
    <3> USE <2>0, <2>a, <2>3, RequestAssumption DEF Announce, AnnouncesFirst
    <3>1. PendingOwned'
      OBVIOUS
    <3>2. OpenRegistered'
      OBVIOUS
    <3>3. UnregisteredOpen'
      OBVIOUS
    <3>4. AnnouncedLater'
      OBVIOUS
    <3>5. QED
      BY <3>1, <3>2, <3>3, <3>4
  <2>4. ASSUME NEW t \in Turns, Resolve(t) PROVE Goal
    BY <2>0, <2>a, <2>4 DEF Resolve
  <2>5. ASSUME NEW t \in Turns, EndTurn(t) \/ Die(t) PROVE Goal
    BY <2>0, <2>a, <2>5 DEF EndTurn, Die
  <2>6. ASSUME NEW t \in Turns, SpawnTurn(t) PROVE Goal
    BY <2>0, <2>a, <2>6 DEF SpawnTurn
  <2>7. ASSUME NEW c \in Calls, Answer(c) PROVE Goal
    <3> USE <2>0, <2>a, <2>7, RequestAssumption DEF Answer
    <3>1. \A d \in Calls : d \in pending' =>
             d \in pending /\ chan'[d] = chan[d]
      OBVIOUS
    <3>2. \A d \in Calls : chan'[d] = "open" =>
             chan[d] = "open" /\ (d \in pending => d \in pending')
      OBVIOUS
    <3>3. PendingOwned'
      BY <3>1
    <3>4. OpenRegistered'
      BY <3>2
    <3>6. UnregisteredOpen'
      BY <2>c
    <3>7. AnnouncedLater'
      OBVIOUS
    <3>8. QED
      BY <3>3, <3>4, <3>6, <3>7
  <2>8. CASE LoopAbort \/ InterruptAbort
    <3> USE <2>0, <2>a, <2>8, RequestAssumption DEF LoopAbort, InterruptAbort, AbortClear
    <3>1. PendingOwned'
      OBVIOUS
    <3>2. OpenRegistered'
      OBVIOUS
    <3>4. UnregisteredOpen'
      BY <2>c
    <3>5. AnnouncedLater'
      OBVIOUS
    <3>6. QED
      BY <3>1, <3>2, <3>4, <3>5
  <2>9. ASSUME UNCHANGED <<pending, pc, call, turn, chan, announced>> PROVE Goal
    BY <2>a, <2>9
  <2>10. QED
    BY <1>2, <2>1, <2>2, <2>3, <2>4, <2>5, <2>6, <2>7, <2>8, <2>9
       DEF Next, TurnStep, AbortStep, LoopCancel, InterruptCancel, Interrupt, SetTask, vars
<1>3. RequestInv => NeverAlreadyPending /\ AnnouncedIsPending
  BY RegisterAlone
     DEF RequestInv, AnnouncedIsPending, OpenRegistered, AnnouncedLater, TypeInv, TypeOK
<1>4. QED
  BY <1>1, <1>2, <1>3, PTL DEF Spec

(* register_pending_user_input and register_pending_dynamic_tool never refuse a
   call of the turn itself: by the time the turn asks again its earlier entry was
   answered or cleared, whatever aborts came in between. *)
THEOREM NeverRefused == Spec => []NeverAlreadyPending
  BY RequestsReachable, PTL
=============================================================================
