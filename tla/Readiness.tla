----------------------------- MODULE Readiness -----------------------------
(***************************************************************************)
(* The one-shot readiness flag of utils/readiness: an atomic "ready" bit,  *)
(* a mutex-protected set of authorization tokens, and a tokio watch        *)
(* channel that wakes the asynchronous waiters.                            *)
(*                                                                         *)
(* Markers subscribe() for a token and then mark_ready() with it; waiters  *)
(* wait_ready().  Every step ends where another thread can run: at an      *)
(* atomic access, at a mutex section, or at a channel operation.           *)
(***************************************************************************)
EXTENDS Integers, FiniteSets

CONSTANTS Markers,      \* tasks that subscribe and then mark the flag ready
          Waiters,      \* tasks that wait for the flag
          IdModulus     \* number of values of next_id (2^32 in the code)

ASSUME ReadinessAssumption ==
    /\ IdModulus \in Nat \ {0, 1}
    /\ Markers \cap Waiters = {}

VARIABLES ready,     \* AtomicBool
          next_id,   \* AtomicI32, wrapping
          tokens,    \* Mutex<HashSet<Token>>
          sent,      \* the value stored in the watch channel
          receivers, \* waiters that hold a watch receiver
          pc,        \* where each task is
          token,     \* the token each marker drew (0 before it drew one)
          marked     \* markers whose mark_ready returned Ok(true)

vars == <<ready, next_id, tokens, sent, receivers, pc, token, marked>>

Ids == 0 .. IdModulus - 1

MarkerPc == {"idle", "draw", "insert", "holding", "remove", "send", "done"}
WaiterPc == {"idle", "subscribe", "borrow", "changed", "done"}

TypeOK ==
    /\ ready \in BOOLEAN
    /\ next_id \in Ids
    /\ tokens \subseteq Ids
    /\ sent \in BOOLEAN
    /\ receivers \subseteq Waiters
    /\ pc \in [Markers \cup Waiters -> MarkerPc \cup WaiterPc]
    /\ token \in [Markers -> Ids]
    /\ marked \subseteq Markers

Init ==
    /\ ready = FALSE
    /\ next_id = 1
    /\ tokens = {}
    /\ sent = FALSE
    /\ receivers = {}
    /\ pc = [t \in Markers \cup Waiters |-> "idle"]
    /\ token = [m \in Markers |-> 0]
    /\ marked = {}

Goto(t, from, to) == pc[t] = from /\ pc' = [pc EXCEPT ![t] = to]

-----------------------------------------------------------------------------
(* subscribe(): first check of the atomic bit. *)
SubscribeCheck(m) ==
    /\ Goto(m, "idle", IF ready THEN "done" ELSE "draw")
    /\ UNCHANGED <<ready, next_id, tokens, sent, receivers, token, marked>>

(* Mutation of SubscribeDraw: the counter does not wrap. *)
SubscribeDraw_NoWrap(m) ==
    /\ Goto(m, "draw", "insert")
    /\ token' = [token EXCEPT ![m] = next_id]
    /\ next_id' = next_id + 1
    /\ UNCHANGED <<ready, tokens, sent, receivers, marked>>

(* subscribe(): fetch_add on the wrapping counter. *)
SubscribeDraw(m) ==
    /\ Goto(m, "draw", "insert")
    /\ token' = [token EXCEPT ![m] = next_id]
    /\ next_id' = (next_id + 1) % IdModulus
    /\ UNCHANGED <<ready, tokens, sent, receivers, marked>>

(* Mutation of SubscribeInsert: no recheck of the bit under the lock. *)
SubscribeInsert_NoRecheck(m) ==
    /\ Goto(m, "insert", "holding")
    /\ tokens' = tokens \cup {token[m]}
    /\ UNCHANGED <<ready, next_id, sent, receivers, token, marked>>

(* subscribe(): the section under the token mutex rechecks the bit before it
   registers the token. *)
SubscribeInsert(m) ==
    /\ Goto(m, "insert", IF ready THEN "done" ELSE "holding")
    /\ tokens' = IF ready THEN tokens ELSE tokens \cup {token[m]}
    /\ UNCHANGED <<ready, next_id, sent, receivers, token, marked>>

(* with_tokens() gave up on the mutex after LOCK_TIMEOUT: TokenLockFailed. *)
LockTimeout(m) ==
    /\ \/ Goto(m, "insert", "done")
       \/ Goto(m, "remove", "done")
    /\ UNCHANGED <<ready, next_id, tokens, sent, receivers, token, marked>>

(* mark_ready(): the checks before the lock; token 0 is never authorized. *)
MarkCheck(m) ==
    /\ Goto(m, "holding", IF ready \/ token[m] = 0 THEN "done" ELSE "remove")
    /\ UNCHANGED <<ready, next_id, tokens, sent, receivers, token, marked>>

(* Mutation of MarkRemove: the other tokens are not cleared. *)
MarkRemove_KeepsTokens(m) ==
    \/ /\ token[m] \in tokens
       /\ Goto(m, "remove", "send")
       /\ ready' = TRUE
       /\ tokens' = tokens \ {token[m]}
       /\ marked' = marked \cup {m}
       /\ UNCHANGED <<next_id, sent, receivers, token>>
    \/ /\ token[m] \notin tokens
       /\ Goto(m, "remove", "done")
       /\ UNCHANGED <<ready, next_id, tokens, sent, receivers, token, marked>>

(* mark_ready(): the section under the mutex consumes the token, sets the bit
   and clears the remaining tokens. *)
MarkRemove(m) ==
    \/ /\ token[m] \in tokens
       /\ Goto(m, "remove", "send")
       /\ ready' = TRUE
       /\ tokens' = {}
       /\ marked' = marked \cup {m}
       /\ UNCHANGED <<next_id, sent, receivers, token>>
    \/ /\ token[m] \notin tokens
       /\ Goto(m, "remove", "done")
       /\ UNCHANGED <<ready, next_id, tokens, sent, receivers, token, marked>>

(* Mutation of MarkSend: the broadcast is forgotten. *)
MarkSend_NoBroadcast(m) ==
    /\ Goto(m, "send", "done")
    /\ UNCHANGED <<ready, next_id, tokens, sent, receivers, token, marked>>

(* mark_ready(): watch::Sender::send.  Without a receiver it fails and does
   not store the value. *)
MarkSend(m) ==
    /\ Goto(m, "send", "done")
    /\ sent' = (sent \/ receivers # {})
    /\ UNCHANGED <<ready, next_id, tokens, receivers, token, marked>>

-----------------------------------------------------------------------------
(* wait_ready(): first check of the atomic bit. *)
WaitCheck(w) ==
    /\ Goto(w, "idle", IF ready THEN "done" ELSE "subscribe")
    /\ UNCHANGED <<ready, next_id, tokens, sent, receivers, token, marked>>

(* wait_ready(): watch::Sender::subscribe. *)
WaitSubscribe(w) ==
    /\ Goto(w, "subscribe", "borrow")
    /\ receivers' = receivers \cup {w}
    /\ UNCHANGED <<ready, next_id, tokens, sent, token, marked>>

(* wait_ready(): the fast path, and the loop on changed(); the receiver is
   dropped when the call returns. *)
WaitBorrow(w) ==
    /\ Goto(w, "borrow", IF sent THEN "done" ELSE "changed")
    /\ receivers' = IF sent THEN receivers \ {w} ELSE receivers
    /\ UNCHANGED <<ready, next_id, tokens, sent, token, marked>>

WaitChanged(w) ==
    /\ sent
    /\ Goto(w, "changed", "done")
    /\ receivers' = receivers \ {w}
    /\ UNCHANGED <<ready, next_id, tokens, sent, token, marked>>

-----------------------------------------------------------------------------
Marker(m) ==
    \/ SubscribeCheck(m) \/ SubscribeDraw(m) \/ SubscribeInsert(m)
    \/ LockTimeout(m) \/ MarkCheck(m) \/ MarkRemove(m) \/ MarkSend(m)

Waiter(w) ==
    WaitCheck(w) \/ WaitSubscribe(w) \/ WaitBorrow(w) \/ WaitChanged(w)

Next ==
    \/ \E m \in Markers : Marker(m)
    \/ \E w \in Waiters : Waiter(w)

(* The tokio scheduler runs every task that can run. *)
Fairness ==
    /\ \A m \in Markers : WF_vars(Marker(m))
    /\ \A w \in Waiters : WF_vars(Waiter(w))

Spec == Init /\ [][Next]_vars /\ Fairness

-----------------------------------------------------------------------------
(* mark_ready() answers true to at most one caller, however many hold a token
   and whatever tokens the wrapping counter handed out twice: the set is
   cleared in the section that sets the bit. *)
SingleWinner == \A m, n \in marked : m = n

(* Once the bit is set no token is registered any more, so a subscriber that
   passed its first check before the bit was set is still turned away by the
   recheck under the lock ("so mark_ready can't flip the flag between the check
   above and inserting the token"). *)
ReadyClosesTokens == ready => tokens = {}

(* A waiter that already holds its watch receiver when mark_ready() broadcasts
   is woken: wait_ready() returns, whether the value arrives before or after
   its first borrow. *)
SubscribedWaiterWakes ==
    \A w \in Waiters, m \in Markers :
        (w \in receivers /\ pc[m] = "send") ~> pc[w] = "done"

(* "Asynchronously wait until the flag becomes ready": once the flag is ready
   every call of wait_ready() that has started returns. *)
WaitReadyReturns ==
    \A w \in Waiters : ready ~> pc[w] = "done"
=============================================================================
