-------------------------- MODULE ReadinessProofs --------------------------
(***************************************************************************)
(* Proofs about the readiness flag for any number of markers and waiters   *)
(* and any width of the token counter.                                     *)
(***************************************************************************)
EXTENDS Readiness, TLAPS

(* What "at most one caller is told true" rests on: a success was recorded
   only together with the bit, and the bit excludes registered tokens. *)
IInv ==
    /\ TypeOK
    /\ ReadyClosesTokens
    /\ marked # {} => ready
    /\ SingleWinner

(* The initial state is well typed; the token counter starts inside its range
   because the range has at least two values. *)
LEMMA InitTyped == Init => TypeOK
<1> SUFFICES ASSUME Init PROVE TypeOK
  OBVIOUS
<1>1. 0 \in Ids /\ 1 \in Ids
  BY ReadinessAssumption DEF Ids
<1>2. pc \in [Markers \cup Waiters -> MarkerPc \cup WaiterPc]
  BY DEF Init, MarkerPc, WaiterPc
<1>3. token \in [Markers -> Ids]
  BY <1>1 DEF Init
<1> QED
  BY <1>1, <1>2, <1>3 DEF Init, TypeOK

(* The type invariant is inductive: the counter stays in range because it
   wraps, as fetch_add on an AtomicI32 does. *)
THEOREM TypeCorrect == Spec => []TypeOK
<1>1. Init => TypeOK
  BY InitTyped
<1>2. TypeOK /\ [Next]_vars => TypeOK'
  <2> SUFFICES ASSUME TypeOK, [Next]_vars PROVE TypeOK'
    OBVIOUS
  <2> USE ReadinessAssumption DEF TypeOK, Ids, MarkerPc, WaiterPc, Goto
  <2>1. ASSUME NEW m \in Markers, SubscribeCheck(m) PROVE TypeOK'
    BY <2>1 DEF SubscribeCheck
  <2>2. ASSUME NEW m \in Markers, SubscribeDraw(m) PROVE TypeOK'
    BY <2>2 DEF SubscribeDraw
  <2>3. ASSUME NEW m \in Markers, SubscribeInsert(m) PROVE TypeOK'
    BY <2>3 DEF SubscribeInsert
  <2>4. ASSUME NEW m \in Markers, LockTimeout(m) PROVE TypeOK'
    BY <2>4 DEF LockTimeout
  <2>5. ASSUME NEW m \in Markers, MarkCheck(m) PROVE TypeOK'
    BY <2>5 DEF MarkCheck
  <2>6. ASSUME NEW m \in Markers, MarkRemove(m) PROVE TypeOK'
    BY <2>6 DEF MarkRemove
  <2>7. ASSUME NEW m \in Markers, MarkSend(m) PROVE TypeOK'
    BY <2>7 DEF MarkSend
  <2>8. ASSUME NEW w \in Waiters, Waiter(w) PROVE TypeOK'
    BY <2>8 DEF Waiter, WaitCheck, WaitSubscribe, WaitBorrow, WaitChanged
  <2>9. CASE UNCHANGED vars
    BY <2>9 DEF vars
  <2> QED
    BY <2>1, <2>2, <2>3, <2>4, <2>5, <2>6, <2>7, <2>8, <2>9 DEF Next, Marker
<1> QED
  BY <1>1, <1>2, PTL DEF Spec

(* At most one mark_ready() returns true, and the set bit excludes registered
   tokens, for every number of tasks and every counter width. *)
THEOREM OneMarkerWins == Spec => [](SingleWinner /\ ReadyClosesTokens)
<1>1. Init => IInv
  BY InitTyped DEF Init, IInv, ReadyClosesTokens, SingleWinner
<1>2. IInv /\ TypeOK' /\ [Next]_vars => IInv'
  <2> SUFFICES ASSUME IInv, TypeOK', [Next]_vars PROVE IInv'
    OBVIOUS
  <2> USE DEF IInv, ReadyClosesTokens, SingleWinner
  <2>1. ASSUME NEW m \in Markers, SubscribeInsert(m) PROVE IInv'
    BY <2>1 DEF SubscribeInsert
  <2>2. ASSUME NEW m \in Markers, MarkRemove(m) PROVE IInv'
    <3>1. CASE token[m] \in tokens
      <4>1. marked = {}
        BY <3>1
      <4> QED
        BY <2>2, <3>1, <4>1 DEF MarkRemove
    <3>2. CASE token[m] \notin tokens
      BY <2>2, <3>2 DEF MarkRemove
    <3> QED
      BY <3>1, <3>2
  <2>3. ASSUME NEW m \in Markers,
               \/ SubscribeCheck(m) \/ SubscribeDraw(m) \/ LockTimeout(m)
               \/ MarkCheck(m) \/ MarkSend(m)
        PROVE  IInv'
    BY <2>3 DEF SubscribeCheck, SubscribeDraw, LockTimeout, MarkCheck, MarkSend
  <2>4. ASSUME NEW w \in Waiters, Waiter(w) PROVE IInv'
    BY <2>4 DEF Waiter, WaitCheck, WaitSubscribe, WaitBorrow, WaitChanged
  <2>5. CASE UNCHANGED vars
    BY <2>5 DEF vars
  <2> QED
    BY <2>1, <2>2, <2>3, <2>4, <2>5 DEF Next, Marker
<1>3. IInv => SingleWinner /\ ReadyClosesTokens
  BY DEF IInv
<1> QED
  BY <1>1, <1>2, <1>3, TypeCorrect, PTL DEF Spec

(* No token is ever registered behind the set bit: the recheck under the mutex
   turns away every subscriber that passed its first check too early. *)
THEOREM NoTokenBehindBit == Spec => []ReadyClosesTokens
  BY OneMarkerWins, PTL
=============================================================================
