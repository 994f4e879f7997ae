------------------------ MODULE SessionInputsProofs ------------------------
(***************************************************************************)
(* Where the inputs of a session are: proofs about SessionTurns that an    *)
(* input starts at most one turn, and is recorded at most once, for any    *)
(* set of tasks and any bounds.                                            *)
(*                                                                         *)
(* Both proofs give every input one place: a function w from the inputs to *)
(* places such that whatever holds an input is at the place that w says.   *)
(* An input that was in two queues, in a queue and in a turn, or in two    *)
(* turns would have two places.  A step changes w only for the inputs that *)
(* it moves.                                                               *)
(***************************************************************************)
EXTENDS SessionTurnsProofs

\* A place: its kind, and the process or turn that it belongs to.
Place(k, x) == <<k, x>>

\* Places of different kinds, or of different owners, are different.
LEMMA PlaceApart ==
    /\ \A x, y : /\ Place("none", x) # Place("queue", y) /\ Place("none", x) # Place("wanted", y)
                /\ Place("none", x) # Place("turn", y) /\ Place("queue", x) # Place("wanted", y)
                /\ Place("queue", x) # Place("turn", y) /\ Place("wanted", x) # Place("turn", y)
    /\ \A k, x, y : Place(k, x) = Place(k, y) => x = y
  BY DEF Place

WantPc == {"hooks", "spawn", "queue"}

\* The processes that are about to start a turn for a message, or to queue it.
Wanting == {p \in Procs : pc[p] \in WantPc /\ arg[p].kind = "user"}

\* The turns that were started for a message.
UserTurns == {t \in Tasks : pc[t] # "unborn" /\ kind[t] = "user"}

\* The queued messages are inputs, all different, and all at the place x.
QueuedAt(w, s, x) ==
    /\ \A i \in DOMAIN s : s[i] \in Inputs /\ w[s[i]] = x
    /\ \A i, j \in DOMAIN s : i # j => s[i] # s[j]

\* What has not arrived yet is nowhere.
FreshAt(w) == \A n \in Inputs : n > Len(ops) => w[n] = Place("none", None)

WantedAt(w) ==
    \A p \in Wanting : arg[p].item \in Inputs /\ w[arg[p].item] = Place("wanted", p)

\* A place for every message: in the queue, on its way to a turn, or that turn.
OwnedTurns(w) ==
    /\ FreshAt(w)
    /\ QueuedAt(w, pending_user_input, Place("queue", None))
    /\ WantedAt(w)
    /\ \A t \in UserTurns : item[t] \in Inputs /\ w[item[t]] = Place("turn", t)

\* Who checks whether the session is idle does not bring a message of its own,
\* and what the loop is about to queue is a message.
Purposes ==
    \A p \in Procs : /\ pc[p] = "idle_check" => arg[p].kind # "user"
                     /\ pc[p] = "queue" => arg[p].kind = "user"

TurnInv == Purposes /\ \E w : OwnedTurns(w)

----------------------------------------------------------------------------
(* The queue of messages. *)

LEMMA QueueTail ==
    ASSUME NEW w, NEW x, NEW s \in Seq(Items), s # <<>>, QueuedAt(w, s, x)
    PROVE  /\ Head(s) \in Inputs /\ w[Head(s)] = x
           /\ \A i \in DOMAIN Tail(s) : Tail(s)[i] # Head(s)
           /\ QueuedAt(w, Tail(s), x)
  <1>1. PICK n \in Nat : n = Len(s)
    OBVIOUS
  <1>2. /\ n >= 1 /\ DOMAIN s = 1..n /\ Head(s) = s[1]
        /\ DOMAIN Tail(s) = 1..n - 1 /\ \A i \in 1..n - 1 : Tail(s)[i] = s[i + 1]
    BY <1>1
  <1>3. 1 \in 1..n /\ \A i \in 1..n - 1 : i + 1 \in 1..n /\ i + 1 # 1
    BY <1>2
  <1>4. \A i, j \in 1..n - 1 : i # j => i + 1 # j + 1
    OBVIOUS
  <1> QED BY <1>2, <1>3, <1>4 DEF QueuedAt

LEMMA QueueAppend ==
    ASSUME NEW w, NEW x, NEW s \in Seq(Items), NEW n \in Inputs, QueuedAt(w, s, x),
           w[n] = x, \A i \in DOMAIN s : s[i] # n
    PROVE  QueuedAt(w, Append(s, n), x)
  <1>1. PICK l \in Nat : l = Len(s)
    OBVIOUS
  <1>2. PICK r : r = Append(s, n)
    OBVIOUS
  <1>3. n \in Items
    BY DEF Items
  <1>4. /\ DOMAIN s = 1..l /\ DOMAIN r = 1..l + 1
        /\ r[l + 1] = n /\ \A i \in 1..l : r[i] = s[i]
    BY <1>1, <1>2, <1>3
  <1>5. \A i \in 1..l + 1 : i \in 1..l \/ i = l + 1
    OBVIOUS
  <1>6. QueuedAt(w, r, x)
    BY <1>4, <1>5 DEF QueuedAt
  <1> QED BY <1>2, <1>6

LEMMA QueueElsewhere ==
    ASSUME NEW w, NEW v, NEW x, NEW s, QueuedAt(w, s, x),
           \A i \in DOMAIN s : v[s[i]] = w[s[i]]
    PROVE  QueuedAt(v, s, x)
  BY DEF QueuedAt

LEMMA QueueEmpty ==
    ASSUME NEW w, NEW x
    PROVE  QueuedAt(w, <<>>, x)
  BY DEF QueuedAt

----------------------------------------------------------------------------
(* Every step keeps a place for every message. *)

\* Steps that bring no message along: what wants or has a message did so before.
LEMMA StillOwned ==
    ASSUME NEW w, OwnedTurns(w), Len(ops) \in Nat, Len(ops') \in Nat, Len(ops') >= Len(ops),
           pending_user_input' \in {pending_user_input, <<>>},
           \A p \in Wanting' : p \in Wanting /\ arg'[p] = arg[p],
           \A t \in UserTurns' : t \in UserTurns /\ item'[t] = item[t]
    PROVE  OwnedTurns(w)'
  <1>1. FreshAt(w)'
    <2>1. \A n \in Inputs : n \in Int
      BY DEF Inputs
    <2> QED BY <2>1 DEF OwnedTurns, FreshAt
  <1>2. QueuedAt(w, pending_user_input', Place("queue", None))
    BY QueueEmpty DEF OwnedTurns
  <1>3. WantedAt(w)'
    BY DEF OwnedTurns, WantedAt
  <1> QED BY <1>1, <1>2, <1>3 DEF OwnedTurns

\* One process moves, and does not want a message that it did not want before.
LEMMA MoveOwned ==
    ASSUME TypeOK, TurnInv, Len(ops') \in Nat, Len(ops') >= Len(ops),
           NEW p \in Procs, NEW to, pc[p] # "unborn", pc' = [pc EXCEPT ![p] = to],
           \A q \in Procs : q # p => arg'[q] = arg[q],
           to \in WantPc /\ arg'[p].kind = "user" => pc[p] \in WantPc /\ arg'[p] = arg[p],
           to = "idle_check" => arg'[p].kind # "user", to # "queue",
           kind' = kind, item' = item,
           pending_user_input' \in {pending_user_input, <<>>}
    PROVE  TurnInv'
  <1>1. PICK w : OwnedTurns(w)
    BY DEF TurnInv
  <1>2. \A q \in Procs : pc'[q] = IF q = p THEN to ELSE pc[q]
    BY DEF TypeOK
  <1>3. Len(ops) \in Nat
    BY DEF TypeOK
  <1>4. \A q \in Wanting' : q \in Wanting /\ arg'[q] = arg[q]
    <2>1. Wanting' = {q \in Procs : pc'[q] \in WantPc /\ arg'[q].kind = "user"}
      BY DEF Wanting
    <2> QED BY <1>2, <2>1 DEF Wanting
  <1>5. \A t \in UserTurns' : t \in UserTurns /\ item'[t] = item[t]
    <2>1. UserTurns' = {t \in Tasks : pc'[t] # "unborn" /\ kind[t] = "user"}
      BY DEF UserTurns
    <2>2. \A t \in Tasks : t \in Procs
      BY DEF Procs
    <2> QED BY <1>2, <2>1, <2>2 DEF UserTurns
  <1>6. OwnedTurns(w)'
    BY <1>1, <1>3, <1>4, <1>5, StillOwned
  <1>7. Purposes'
    BY <1>2 DEF TurnInv, Purposes
  <1> QED BY <1>6, <1>7 DEF TurnInv

\* No process moves.
LEMMA StandOwned ==
    ASSUME TypeOK, TurnInv, Len(ops') \in Nat, Len(ops') >= Len(ops),
           UNCHANGED <<pc, arg, kind, item, pending_user_input>>
    PROVE  TurnInv'
  <1>1. PICK w : OwnedTurns(w)
    BY DEF TurnInv
  <1>2. Wanting' = Wanting /\ UserTurns' = UserTurns /\ Purposes'
    BY DEF Wanting, UserTurns, TurnInv, Purposes
  <1>3. Len(ops) \in Nat
    BY DEF TypeOK
  <1>4. OwnedTurns(w)'
    BY <1>1, <1>2, <1>3, StillOwned
  <1> QED BY <1>2, <1>4 DEF TurnInv

\* A message arrives: the loop has it, and nothing else does.
LEMMA NewOwned ==
    ASSUME TypeOK, TurnInv, NEW n \in Inputs, n = Len(ops) + 1, Len(ops') = n,
           NEW to \in {"hooks", "queue"}, Goto(Loop, "recv", to),
           arg' = [arg EXCEPT ![Loop] = [kind |-> "user", item |-> n]],
           kind' = kind, item' = item, pending_user_input' = pending_user_input
    PROVE  TurnInv'
  <1>1. PICK w : OwnedTurns(w)
    BY DEF TurnInv
  <1> DEFINE v == [m \in Inputs |-> IF m = n THEN Place("wanted", Loop) ELSE w[m]]
  <1>2. Len(ops) \in Nat /\ Loop \in Procs /\ Loop \notin Tasks
    BY SessionAssumption DEF TypeOK, Procs
  <1>3. w[n] = Place("none", None)
    BY <1>1, <1>2 DEF OwnedTurns, FreshAt
  <1>4. v[n] = Place("wanted", Loop) /\ \A m \in Inputs : m # n => v[m] = w[m]
    OBVIOUS
  <1> HIDE DEF v
  <1>5. \A q \in Procs : /\ pc'[q] = IF q = Loop THEN to ELSE pc[q]
                         /\ arg'[q] = IF q = Loop THEN [kind |-> "user", item |-> n] ELSE arg[q]
    BY <1>2 DEF TypeOK, Goto
  <1>6. \A m \in Inputs : m > Len(ops') => m > Len(ops) /\ m # n
    BY <1>2 DEF Inputs
  <1>7. FreshAt(v)'
    BY <1>1, <1>4, <1>6 DEF OwnedTurns, FreshAt
  <1>8. QueuedAt(v, pending_user_input', Place("queue", None))
    <2>1. QueuedAt(w, pending_user_input, Place("queue", None))
      BY <1>1 DEF OwnedTurns
    <2>2. \A i \in DOMAIN pending_user_input : v[pending_user_input[i]] = w[pending_user_input[i]]
      BY <1>3, <1>4, <2>1, PlaceApart DEF QueuedAt
    <2> QED BY <2>1, <2>2, QueueElsewhere
  <1>9. WantedAt(v)'
    <2>1. ASSUME NEW q \in Wanting'
          PROVE  arg'[q].item \in Inputs /\ v[arg'[q].item] = Place("wanted", q)
      <3>1. q \in Procs /\ pc'[q] \in WantPc /\ arg'[q].kind = "user"
        BY <2>1 DEF Wanting
      <3>2. CASE q = Loop
        BY <1>4, <1>5, <3>1, <3>2
      <3>3. CASE q # Loop
        <4>1. q \in Wanting /\ arg'[q] = arg[q]
          BY <1>5, <3>1, <3>3 DEF Wanting
        <4> QED BY <1>1, <1>3, <1>4, <4>1, PlaceApart DEF OwnedTurns, WantedAt
      <3> QED BY <3>2, <3>3
    <2> QED BY <2>1 DEF WantedAt
  <1>10. \A t \in UserTurns' : item'[t] \in Inputs /\ v[item'[t]] = Place("turn", t)
    <2>1. UserTurns' \subseteq UserTurns
      <3>1. UserTurns' = {t \in Tasks : pc'[t] # "unborn" /\ kind[t] = "user"}
        BY DEF UserTurns
      <3>2. \A t \in Tasks : t \in Procs /\ t # Loop
        BY <1>2 DEF Procs
      <3> QED BY <1>5, <3>1, <3>2 DEF UserTurns
    <2> QED BY <1>1, <1>3, <1>4, <2>1, PlaceApart DEF OwnedTurns
  <1>11. Purposes'
    BY <1>5 DEF TurnInv, Purposes
  <1>12. OwnedTurns(v)'
    BY <1>7, <1>8, <1>9, <1>10 DEF OwnedTurns
  <1> QED BY <1>11, <1>12 DEF TurnInv

\* The loop puts its message into the queue.
LEMMA PushOwned ==
    ASSUME TypeOK, TurnInv, QueuePush
    PROVE  TurnInv'
  <1>1. PICK w : OwnedTurns(w)
    BY DEF TurnInv
  <1>2. Loop \in Procs /\ Loop \notin Tasks /\ pc[Loop] = "queue"
    BY SessionAssumption DEF Procs, QueuePush, Goto
  <1>3. PICK n : n = arg[Loop].item
    OBVIOUS
  <1>4. n \in Inputs /\ w[n] = Place("wanted", Loop)
    <2>1. Loop \in Wanting
      BY <1>2 DEF TurnInv, Purposes, Wanting, WantPc
    <2> QED BY <1>1, <1>3, <2>1 DEF OwnedTurns, WantedAt
  <1> DEFINE v == [m \in Inputs |-> IF m = n THEN Place("queue", None) ELSE w[m]]
  <1>5. v[n] = Place("queue", None) /\ \A m \in Inputs : m # n => v[m] = w[m]
    BY <1>4
  <1> HIDE DEF v
  <1>6. /\ pending_user_input' = Append(pending_user_input, n)
        /\ arg' = arg /\ kind' = kind /\ item' = item /\ ops' = ops
        /\ \A q \in Procs : pc'[q] = IF q = Loop THEN "recv" ELSE pc[q]
    BY <1>2, <1>3 DEF QueuePush, Goto, TypeOK, starts, turns
  <1>7. FreshAt(v)'
    <2>1. ~(n > Len(ops))
      BY <1>1, <1>4, PlaceApart DEF OwnedTurns, FreshAt
    <2> QED BY <1>1, <1>5, <1>6, <2>1 DEF OwnedTurns, FreshAt
  <1>8. QueuedAt(v, pending_user_input', Place("queue", None))
    <2>1. QueuedAt(w, pending_user_input, Place("queue", None)) /\ pending_user_input \in Seq(Items)
      BY <1>1 DEF OwnedTurns, TypeOK
    <2>2. \A i \in DOMAIN pending_user_input :
             pending_user_input[i] # n /\ v[pending_user_input[i]] = w[pending_user_input[i]]
      BY <1>4, <1>5, <2>1, PlaceApart DEF QueuedAt
    <2>3. QueuedAt(v, pending_user_input, Place("queue", None))
      BY <2>1, <2>2, QueueElsewhere
    <2> QED BY <1>4, <1>5, <1>6, <2>1, <2>2, <2>3, QueueAppend
  <1>9. WantedAt(v)'
    <2>1. ASSUME NEW q \in Wanting'
          PROVE  arg'[q].item \in Inputs /\ v[arg'[q].item] = Place("wanted", q)
      <3>1. q \in Procs /\ pc'[q] \in WantPc /\ arg[q].kind = "user"
        BY <1>6, <2>1 DEF Wanting
      <3>2. q # Loop /\ q \in Wanting
        BY <1>6, <3>1 DEF Wanting, WantPc
      <3>3. arg[q].item \in Inputs /\ w[arg[q].item] = Place("wanted", q)
        BY <1>1, <3>2 DEF OwnedTurns, WantedAt
      <3> QED BY <1>4, <1>5, <1>6, <3>2, <3>3, PlaceApart
    <2> QED BY <2>1 DEF WantedAt
  <1>10. \A t \in UserTurns' : item'[t] \in Inputs /\ v[item'[t]] = Place("turn", t)
    <2>1. UserTurns' \subseteq UserTurns
      <3>1. UserTurns' = {t \in Tasks : pc'[t] # "unborn" /\ kind[t] = "user"}
        BY <1>6 DEF UserTurns
      <3>2. \A t \in Tasks : t \in Procs /\ t # Loop
        BY <1>2 DEF Procs
      <3> QED BY <1>6, <3>1, <3>2 DEF UserTurns
    <2> QED BY <1>1, <1>4, <1>5, <1>6, <2>1, PlaceApart DEF OwnedTurns
  <1>11. Purposes'
    BY <1>6 DEF TurnInv, Purposes
  <1>12. OwnedTurns(v)'
    BY <1>7, <1>8, <1>9, <1>10 DEF OwnedTurns
  <1> QED BY <1>11, <1>12 DEF TurnInv

\* A finished task takes the first queued message.
LEMMA TakeOwned ==
    ASSUME TypeOK, TurnInv, NEW t \in Tasks, pc[t] = "followup", pending_user_input # <<>>,
           pending_user_input' = Tail(pending_user_input),
           pc' = [pc EXCEPT ![t] = "hooks"],
           arg' = [arg EXCEPT ![t] = [kind |-> "user", item |-> Head(pending_user_input)]],
           kind' = kind, item' = item, ops' = ops
    PROVE  TurnInv'
  <1>1. PICK w : OwnedTurns(w)
    BY DEF TurnInv
  <1>2. t \in Procs
    BY DEF Procs
  <1>3. PICK n : n = Head(pending_user_input)
    OBVIOUS
  <1>4. /\ n \in Inputs /\ w[n] = Place("queue", None)
        /\ \A i \in DOMAIN pending_user_input' : pending_user_input'[i] # n
        /\ QueuedAt(w, pending_user_input', Place("queue", None))
    <2>1. pending_user_input \in Seq(Items) /\ QueuedAt(w, pending_user_input, Place("queue", None))
      BY <1>1 DEF TypeOK, OwnedTurns
    <2> QED BY <1>3, <2>1, QueueTail
  <1> DEFINE v == [m \in Inputs |-> IF m = n THEN Place("wanted", t) ELSE w[m]]
  <1>5. v[n] = Place("wanted", t) /\ \A m \in Inputs : m # n => v[m] = w[m]
    BY <1>4
  <1> HIDE DEF v
  <1>6. /\ \A q \in Procs : pc'[q] = IF q = t THEN "hooks" ELSE pc[q]
        /\ \A q \in Procs : q # t => arg'[q] = arg[q]
        /\ arg'[t] = [kind |-> "user", item |-> n]
    BY <1>2, <1>3 DEF TypeOK
  <1>7. FreshAt(v)'
    <2>1. ~(n > Len(ops))
      BY <1>1, <1>4, PlaceApart DEF OwnedTurns, FreshAt
    <2> QED BY <1>1, <1>5, <2>1 DEF OwnedTurns, FreshAt
  <1>8. QueuedAt(v, pending_user_input', Place("queue", None))
    <2>1. \A i \in DOMAIN pending_user_input' : v[pending_user_input'[i]] = w[pending_user_input'[i]]
      BY <1>4, <1>5 DEF QueuedAt
    <2> QED BY <1>4, <2>1, QueueElsewhere
  <1>9. WantedAt(v)'
    <2>1. ASSUME NEW q \in Wanting'
          PROVE  arg'[q].item \in Inputs /\ v[arg'[q].item] = Place("wanted", q)
      <3>1. q \in Procs /\ pc'[q] \in WantPc /\ arg'[q].kind = "user"
        BY <2>1 DEF Wanting
      <3>2. CASE q = t
        BY <1>4, <1>5, <1>6, <3>2
      <3>3. CASE q # t
        <4>1. q \in Wanting /\ arg'[q] = arg[q]
          BY <1>6, <3>1, <3>3 DEF Wanting
        <4>2. arg[q].item \in Inputs /\ w[arg[q].item] = Place("wanted", q)
          BY <1>1, <4>1 DEF OwnedTurns, WantedAt
        <4> QED BY <1>4, <1>5, <4>1, <4>2, PlaceApart
      <3> QED BY <3>2, <3>3
    <2> QED BY <2>1 DEF WantedAt
  <1>10. \A u \in UserTurns' : item'[u] \in Inputs /\ v[item'[u]] = Place("turn", u)
    <2>1. UserTurns' \subseteq UserTurns
      <3>1. UserTurns' = {u \in Tasks : pc'[u] # "unborn" /\ kind[u] = "user"}
        BY DEF UserTurns
      <3>2. \A u \in Tasks : u \in Procs
        BY DEF Procs
      <3> QED BY <1>6, <3>1, <3>2 DEF UserTurns
    <2> QED BY <1>1, <1>4, <1>5, <2>1, PlaceApart DEF OwnedTurns
  <1>11. Purposes'
    BY <1>6 DEF TurnInv, Purposes
  <1>12. OwnedTurns(v)'
    BY <1>7, <1>8, <1>9, <1>10 DEF OwnedTurns
  <1> QED BY <1>11, <1>12 DEF TurnInv

\* The turn that is spawned has the message of the process that spawns it.
LEMMA SpawnOwned ==
    ASSUME TypeOK, TurnInv, NEW p \in Procs, Spawn(p)
    PROVE  TurnInv'
  <1>1. PICK w : OwnedTurns(w)
    BY DEF TurnInv
  <1>2. PICK t \in Tasks :
           /\ pc[p] = "spawn" /\ pc[t] = "unborn"
           /\ pc' = [pc EXCEPT ![p] = "set", ![t] = "start"]
           /\ kind' = [kind EXCEPT ![t] = arg[p].kind]
           /\ item' = [item EXCEPT ![t] = arg[p].item]
           /\ arg' = arg /\ ops' = ops /\ pending_user_input' = pending_user_input
    BY DEF Spawn, queues
  <1>3. t \in Procs /\ t # p
    BY <1>2 DEF Procs
  <1>4. PICK n : n = arg[p].item
    OBVIOUS
  <1>5. \A q \in Procs : pc'[q] = IF q = t THEN "start" ELSE IF q = p THEN "set" ELSE pc[q]
    BY <1>2, <1>3 DEF TypeOK
  <1>6. \A u \in Tasks : /\ kind'[u] = IF u = t THEN arg[p].kind ELSE kind[u]
                         /\ item'[u] = IF u = t THEN n ELSE item[u]
    BY <1>2, <1>4 DEF TypeOK
  <1>7. \A q \in Wanting' : q \in Wanting /\ q # p /\ arg'[q] = arg[q]
    <2>1. Wanting' = {q \in Procs : pc'[q] \in WantPc /\ arg[q].kind = "user"}
      BY <1>2 DEF Wanting
    <2> QED BY <1>2, <1>5, <2>1 DEF Wanting, WantPc
  <1>8. \A u \in UserTurns' : \/ u = t /\ arg[p].kind = "user" /\ item'[u] = n
                              \/ u # t /\ u \in UserTurns /\ item'[u] = item[u]
    <2>1. UserTurns' = {u \in Tasks : pc'[u] # "unborn" /\ kind'[u] = "user"}
      BY DEF UserTurns
    <2>2. \A u \in Tasks : u \in Procs
      BY DEF Procs
    <2>3. \A u \in Tasks : u # t /\ pc'[u] # "unborn" => pc[u] # "unborn"
      BY <1>2, <1>5, <2>2
    <2> QED BY <1>6, <2>1, <2>3 DEF UserTurns
  <1>9. Purposes'
    <2>1. \A q \in Procs : pc'[q] \in {"idle_check", "queue"} => pc'[q] = pc[q]
      BY <1>5
    <2> QED BY <1>2, <2>1 DEF TurnInv, Purposes
  <1>10. CASE arg[p].kind # "user"
    <2>1. Len(ops) \in Nat
      BY DEF TypeOK
    <2>2. \A u \in UserTurns' : u \in UserTurns /\ item'[u] = item[u]
      BY <1>8, <1>10
    <2>3. OwnedTurns(w)'
      BY <1>1, <1>2, <1>7, <2>1, <2>2, StillOwned
    <2> QED BY <1>9, <2>3 DEF TurnInv
  <1>11. CASE arg[p].kind = "user"
    <2>1. n \in Inputs /\ w[n] = Place("wanted", p)
      <3>1. p \in Wanting
        BY <1>2, <1>11 DEF Wanting, WantPc
      <3> QED BY <1>1, <1>4, <3>1 DEF OwnedTurns, WantedAt
    <2> DEFINE v == [m \in Inputs |-> IF m = n THEN Place("turn", t) ELSE w[m]]
    <2>2. v[n] = Place("turn", t) /\ \A m \in Inputs : m # n => v[m] = w[m]
      BY <2>1
    <2> HIDE DEF v
    <2>3. FreshAt(v)'
      <3>1. ~(n > Len(ops))
        BY <1>1, <2>1, PlaceApart DEF OwnedTurns, FreshAt
      <3> QED BY <1>1, <1>2, <2>2, <3>1 DEF OwnedTurns, FreshAt
    <2>4. QueuedAt(v, pending_user_input', Place("queue", None))
      <3>1. QueuedAt(w, pending_user_input, Place("queue", None))
        BY <1>1 DEF OwnedTurns
      <3>2. \A i \in DOMAIN pending_user_input : v[pending_user_input[i]] = w[pending_user_input[i]]
        BY <2>1, <2>2, <3>1, PlaceApart DEF QueuedAt
      <3> QED BY <1>2, <3>1, <3>2, QueueElsewhere
    <2>5. WantedAt(v)'
      <3>1. ASSUME NEW q \in Wanting'
            PROVE  arg'[q].item \in Inputs /\ v[arg'[q].item] = Place("wanted", q)
        <4>1. q # p /\ arg'[q].item \in Inputs /\ w[arg'[q].item] = Place("wanted", q)
          BY <1>1, <1>7, <3>1 DEF OwnedTurns, WantedAt
        <4> QED BY <2>1, <2>2, <4>1, PlaceApart
      <3> QED BY <3>1 DEF WantedAt
    <2>6. ASSUME NEW u \in UserTurns'
          PROVE  item'[u] \in Inputs /\ v[item'[u]] = Place("turn", u)
      <3>1. CASE u = t
        BY <1>8, <2>1, <2>2, <2>6, <3>1
      <3>2. CASE u # t
        <4>1. item'[u] \in Inputs /\ w[item'[u]] = Place("turn", u)
          BY <1>1, <1>8, <2>6, <3>2 DEF OwnedTurns
        <4> QED BY <2>1, <2>2, <4>1, PlaceApart
      <3> QED BY <3>1, <3>2
    <2>7. OwnedTurns(v)'
      BY <2>3, <2>4, <2>5, <2>6 DEF OwnedTurns
    <2> QED BY <1>9, <2>7 DEF TurnInv
  <1> QED BY <1>10, <1>11

\* The number of the next submission.
LEMMA Received ==
    ASSUME TypeOK, NEW n \in Inputs, NEW op \in AllOps, Receive(op, n)
    PROVE  Len(ops) \in Nat /\ n = Len(ops) + 1 /\ Len(ops') = n
  <1>1. ops \in Seq(AllOps) /\ ops' = Append(ops, op) /\ n = Len(ops) + 1
    BY DEF TypeOK, Receive
  <1> QED BY <1>1

LEMMA SubmitOwned ==
    ASSUME TypeOK, TurnInv, NEW n \in Inputs, Submit(n)
    PROVE  TurnInv'
  <1> USE SessionAssumption
  <1>0. Loop \in Procs /\ Wake \in Procs /\ "recv" # "unborn"
    BY DEF Procs
  <1>1. PICK op \in AllOps : Receive(op, n)
    BY DEF Submit, UserInput, QueueUserInput, Interrupt, Shutdown, ApprovalAbort,
           Developer, AgentWake, PostTurn, Compact, Review, AllOps
  <1>2. Len(ops) \in Nat /\ n = Len(ops) + 1 /\ Len(ops') = n
    BY <1>1, Received
  <1>3. Len(ops') \in Nat /\ Len(ops') >= Len(ops)
    BY <1>2
  <1>4. CASE UserInput(n)
    BY <1>2, <1>4, NewOwned DEF UserInput, queues, turns
  <1>5. CASE QueueUserInput(n)
    <2>1. PICK to \in {"hooks", "queue"} : Goto(Loop, "recv", to)
      BY <1>5 DEF QueueUserInput
    <2> QED BY <1>2, <1>5, <2>1, NewOwned DEF QueueUserInput, queues, turns
  <1>6. CASE Interrupt(n) \/ ApprovalAbort(n)
    BY <1>3, <1>6, StandOwned DEF Interrupt, ApprovalAbort, queues, starts, turns
  <1>7. CASE Shutdown(n)
    BY <1>0, <1>3, <1>7, MoveOwned DEF Shutdown, Goto, queues, starts, turns, WantPc
  <1>8. ASSUME NEW p \in {Loop, Wake}, OutOfTurn(p, n)
        PROVE  TurnInv'
    <2>1. PICK to \in {"spawn", "recv"} : pc[p] = "recv" /\ pc' = [pc EXCEPT ![p] = to]
      BY <1>8 DEF OutOfTurn, Goto
    <2>2. /\ \A q \in Procs : q # p => arg'[q] = arg[q]
          /\ arg'[p].kind = "pending"
          /\ kind' = kind /\ item' = item /\ pending_user_input' = pending_user_input
      BY <1>0, <1>8 DEF OutOfTurn, TypeOK, turns
    <2> QED BY <1>0, <1>3, <2>1, <2>2, MoveOwned
  <1>9. CASE PostTurn(n)
    <2>1. PICK to \in {"post_idle", "recv"} : pc[Loop] = "recv" /\ pc' = [pc EXCEPT ![Loop] = to]
      BY <1>9 DEF PostTurn, Goto
    <2>2. arg' = arg /\ kind' = kind /\ item' = item /\ pending_user_input' = pending_user_input
      BY <1>9 DEF PostTurn, starts, turns
    <2>3. to \notin WantPc /\ to # "idle_check" /\ to # "queue"
      BY <2>1 DEF WantPc
    <2> QED BY <1>0, <1>3, <2>1, <2>2, <2>3, MoveOwned
  <1>10. CASE Compact(n)
    <2>1. PICK to \in {"compact_queue", "spawn"} : pc[Loop] = "recv" /\ pc' = [pc EXCEPT ![Loop] = to]
      BY <1>10 DEF Compact, Goto
    <2>2. /\ \A q \in Procs : q # Loop => arg'[q] = arg[q]
          /\ to = "spawn" => arg'[Loop].kind = "compact"
          /\ kind' = kind /\ item' = item /\ pending_user_input' = pending_user_input
      <3>1. CASE current # None
        <4>1. pc' = [pc EXCEPT ![Loop] = "compact_queue"]
          BY <1>10, <3>1 DEF Compact, Goto
        <4>2. to # "spawn"
          BY <1>0, <2>1, <4>1 DEF TypeOK
        <4> QED BY <1>10, <3>1, <4>2 DEF Compact, turns
      <3>2. CASE current = None
        BY <1>0, <1>10, <3>2 DEF Compact, turns, TypeOK
      <3> QED BY <3>1, <3>2
    <2>3. to \in WantPc => to = "spawn"
      BY <2>1 DEF WantPc
    <2> QED BY <1>0, <1>3, <2>1, <2>2, <2>3, MoveOwned
  <1>11. CASE Review(n)
    <2>1. pc[Loop] = "recv" /\ pc' = [pc EXCEPT ![Loop] = "spawn"]
      BY <1>11 DEF Review, Goto
    <2>2. /\ \A q \in Procs : q # Loop => arg'[q] = arg[q]
          /\ arg'[Loop].kind = "review"
          /\ kind' = kind /\ item' = item /\ pending_user_input' = pending_user_input
      BY <1>0, <1>11 DEF Review, TypeOK, turns, queues
    <2> QED BY <1>0, <1>3, <2>1, <2>2, MoveOwned
  <1> QED BY <1>4, <1>5, <1>6, <1>7, <1>8, <1>9, <1>10, <1>11 DEF Submit, Developer, AgentWake

LEMMA StartOwned ==
    ASSUME TypeOK, TurnInv, NEW p \in Procs, StartTurn(p)
    PROVE  TurnInv'
  <1>1. CASE Spawn(p)
    BY <1>1, SpawnOwned
  <1>2. CASE \/ IdleCheck(p) \/ HooksPass(p) \/ HooksBlock(p) \/ SetTask(p)
             \/ AnnounceReview(p)
    <2>1. /\ arg' = arg /\ kind' = kind /\ item' = item /\ ops' = ops
          /\ pending_user_input' = pending_user_input
      BY <1>2 DEF IdleCheck, HooksPass, HooksBlock, SetTask, AnnounceReview,
                  starts, turns, queues
    <2>rest. Rest(p) \in {"done", "recv"} /\ AfterSet(p) \in {"done", "recv", "entered"}
      BY DEF Rest, AfterSet
    <2>pick. PICK to :
               /\ pc' = [pc EXCEPT ![p] = to]
               /\ \/ pc[p] = "idle_check" /\ to \in {"spawn", "done", "recv"}
                  \/ pc[p] = "hooks" /\ to \in {"spawn", "followup", "recv"}
                  \/ pc[p] \in {"set", "entered"} /\ to \in {"done", "recv", "entered"}
      BY <1>2, <2>rest DEF IdleCheck, HooksPass, HooksBlock, SetTask, AnnounceReview, Goto
    <2>2. /\ pc[p] \in {"idle_check", "hooks", "set", "entered"} /\ pc' = [pc EXCEPT ![p] = to]
          /\ to \in {"spawn", "done", "recv", "followup", "entered"}
          /\ to = "spawn" => pc[p] \in {"idle_check", "hooks"}
      BY <2>pick
    <2>3. Len(ops') \in Nat /\ Len(ops') >= Len(ops)
      BY <2>1 DEF TypeOK
    <2>4. to \in WantPc /\ arg'[p].kind = "user" => pc[p] \in WantPc
      BY <2>1, <2>2 DEF TurnInv, Purposes, WantPc
    <2>5. pc[p] # "unborn" /\ to # "idle_check" /\ to # "queue"
      BY <2>2
    <2> QED BY <2>1, <2>2, <2>3, <2>4, <2>5, MoveOwned
  <1> QED BY <1>1, <1>2 DEF StartTurn

LEMMA LoopOwned ==
    ASSUME TypeOK, TurnInv, QueuePush \/ PostIdle \/ CompactQueue
    PROVE  TurnInv'
  <1>0. Loop \in Procs
    BY DEF Procs
  <1>1. CASE QueuePush
    BY <1>1, PushOwned
  <1>2. CASE PostIdle
    <2>1. /\ pc[Loop] = "post_idle" /\ kind' = kind /\ item' = item /\ ops' = ops
          /\ pending_user_input' = pending_user_input
          /\ \/ pc' = [pc EXCEPT ![Loop] = "recv"] /\ arg' = arg
             \/ /\ pc' = [pc EXCEPT ![Loop] = "idle_check"]
                /\ arg' = [arg EXCEPT ![Loop] = [kind |-> "post", item |-> NoInput]]
      BY <1>2 DEF PostIdle, turns, queues
    <2>2. Len(ops') \in Nat /\ Len(ops') >= Len(ops) /\ pc[Loop] # "unborn"
      BY <2>1 DEF TypeOK
    <2>3. CASE pc' = [pc EXCEPT ![Loop] = "recv"] /\ arg' = arg
      BY <1>0, <2>1, <2>2, <2>3, MoveOwned DEF WantPc
    <2>4. CASE /\ pc' = [pc EXCEPT ![Loop] = "idle_check"]
               /\ arg' = [arg EXCEPT ![Loop] = [kind |-> "post", item |-> NoInput]]
      <3>1. /\ \A q \in Procs : q # Loop => arg'[q] = arg[q]
            /\ arg'[Loop].kind = "post"
        BY <1>0, <2>4 DEF TypeOK
      <3> QED BY <1>0, <2>1, <2>2, <2>4, <3>1, MoveOwned
    <2> QED BY <2>1, <2>3, <2>4
  <1>3. CASE CompactQueue
    <2>1. /\ pc[Loop] = "compact_queue" /\ pc' = [pc EXCEPT ![Loop] = "recv"]
          /\ arg' = arg /\ kind' = kind /\ item' = item /\ ops' = ops
          /\ pending_user_input' = pending_user_input
      BY <1>3 DEF CompactQueue, Goto, starts, turns
    <2>2. Len(ops') \in Nat /\ Len(ops') >= Len(ops) /\ pc[Loop] # "unborn"
      BY <2>1 DEF TypeOK
    <2> QED BY <1>0, <2>1, <2>2, MoveOwned DEF WantPc
  <1> QED BY <1>1, <1>2, <1>3

\* The life of a turn: it holds copies of messages, but brings none back.
LEMMA TaskOwned ==
    ASSUME TypeOK, TurnInv, NEW t \in Tasks,
           \/ Start(t) \/ StartReturns(t) \/ Drain(t) \/ RecordPending(t)
           \/ Ask(t) \/ Answered(t) \/ ModelTools(t)
           \/ ModelContinue(t) \/ ModelEnd(t) \/ Finish(t) \/ RemoveTask(t) \/ Complete(t)
           \/ CompactStart(t) \/ CompactOk(t) \/ CompactFail(t) \/ Die(t)
    PROVE  TurnInv'
  <1>1. /\ arg' = arg /\ kind' = kind /\ item' = item /\ ops' = ops
        /\ pending_user_input' \in {pending_user_input, <<>>}
    BY DEF Start, StartReturns, Ask, Answered, Drain, RecordPending, ModelTools, ModelContinue, ModelEnd, Finish, RemoveTask,
           Complete, CompactStart, CompactOk, CompactFail, Die, starts, turns, queues
  <1>2. PICK to : /\ pc[t] # "unborn" /\ pc' = [pc EXCEPT ![t] = to]
                  /\ to \notin WantPc /\ to # "idle_check" /\ to # "queue"
    BY DEF Start, StartReturns, Ask, Answered, Drain, RecordPending, ModelTools, ModelContinue, ModelEnd, Finish, RemoveTask,
           Complete, CompactStart, CompactOk, CompactFail, Die, Goto, WantPc
  <1>3. Len(ops') \in Nat /\ Len(ops') >= Len(ops) /\ t \in Procs
    BY <1>1 DEF TypeOK, Procs
  <1> QED BY <1>1, <1>2, <1>3, MoveOwned

LEMMA FollowUpOwned ==
    ASSUME TypeOK, TurnInv, NEW t \in Tasks, FollowUp(t)
    PROVE  TurnInv'
  <1>1. pc[t] = "followup" /\ kind' = kind /\ item' = item /\ ops' = ops /\ t \in Procs
    BY DEF FollowUp, turns, Procs
  <1>2. Len(ops') \in Nat /\ Len(ops') >= Len(ops) /\ pc[t] # "unborn"
    BY <1>1 DEF TypeOK
  <1>3. \/ /\ pending_user_input # <<>>
           /\ pending_user_input' = Tail(pending_user_input)
           /\ pc' = [pc EXCEPT ![t] = "hooks"]
           /\ arg' = [arg EXCEPT ![t] = [kind |-> "user", item |-> Head(pending_user_input)]]
        \/ /\ pending_user_input' = pending_user_input
           /\ \E k \in {"post", "compact", "pending"}, to \in {"idle_check", "spawn"} :
                 /\ pc' = [pc EXCEPT ![t] = to]
                 /\ arg' = [arg EXCEPT ![t] = [kind |-> k, item |-> NoInput]]
        \/ /\ pending_user_input' = pending_user_input
           /\ pc' = [pc EXCEPT ![t] = "done"] /\ arg' = arg
    BY DEF FollowUp, queues
  <1>4. CASE /\ pending_user_input # <<>>
             /\ pending_user_input' = Tail(pending_user_input)
             /\ pc' = [pc EXCEPT ![t] = "hooks"]
             /\ arg' = [arg EXCEPT ![t] = [kind |-> "user", item |-> Head(pending_user_input)]]
    BY <1>1, <1>4, TakeOwned
  <1>5. ASSUME NEW k \in {"post", "compact", "pending"}, NEW to \in {"idle_check", "spawn"},
               pending_user_input' = pending_user_input,
               pc' = [pc EXCEPT ![t] = to],
               arg' = [arg EXCEPT ![t] = [kind |-> k, item |-> NoInput]]
        PROVE  TurnInv'
    <2>1. /\ \A q \in Procs : q # t => arg'[q] = arg[q]
          /\ arg'[t].kind # "user"
      BY <1>1, <1>5 DEF TypeOK
    <2> QED BY <1>1, <1>2, <1>5, <2>1, MoveOwned
  <1>6. CASE /\ pending_user_input' = pending_user_input
             /\ pc' = [pc EXCEPT ![t] = "done"] /\ arg' = arg
    BY <1>1, <1>2, <1>6, MoveOwned DEF WantPc
  <1> QED BY <1>3, <1>4, <1>5, <1>6

LEMMA TurnStep == TypeOK /\ TurnInv /\ [Next]_vars => TurnInv'
  <1> SUFFICES ASSUME TypeOK, TurnInv, [Next]_vars
               PROVE  TurnInv'
    OBVIOUS
  <1>1. ASSUME NEW n \in Inputs, Submit(n) PROVE TurnInv'
    BY <1>1, SubmitOwned
  <1>2. ASSUME NEW n \in Inputs, RunInterrupt(n) PROVE TurnInv'
    <2>1. UNCHANGED <<pc, arg, kind, item, pending_user_input, ops>>
      BY <1>2 DEF RunInterrupt, queues, starts, turns
    <2>2. Len(ops') \in Nat /\ Len(ops') >= Len(ops)
      BY <2>1 DEF TypeOK
    <2> QED BY <2>1, <2>2, StandOwned
  <1>7. ASSUME NEW n \in Inputs, NEW t \in Tasks, CancelTaken(n, t) PROVE TurnInv'
    <2>1. UNCHANGED <<pc, arg, kind, item, pending_user_input, ops>>
      BY <1>7 DEF CancelTaken, queues, starts, turns
    <2>2. Len(ops') \in Nat /\ Len(ops') >= Len(ops)
      BY <2>1 DEF TypeOK
    <2> QED BY <2>1, <2>2, StandOwned
  <1>3. ASSUME LoopStep \/ StartTurn(Wake) PROVE TurnInv'
    BY <1>3, LoopOwned, StartOwned DEF LoopStep, Procs
  <1>4. ASSUME NEW t \in Tasks, TaskStep(t) \/ Answered(t) PROVE TurnInv'
    BY <1>4, TaskOwned, FollowUpOwned, StartOwned DEF TaskStep, Procs
  <1>5. ASSUME NEW t \in Tasks, Notify(t) PROVE TurnInv'
    <2>1. UNCHANGED <<pc, arg, kind, item, pending_user_input, ops>>
      BY <1>5 DEF Notify, queues, starts, turns
    <2>2. Len(ops') \in Nat /\ Len(ops') >= Len(ops)
      BY <2>1 DEF TypeOK
    <2> QED BY <2>1, <2>2, StandOwned
  <1>6. CASE UNCHANGED vars
    <2>1. UNCHANGED <<pc, arg, kind, item, pending_user_input, ops>>
      BY <1>6 DEF vars, queues, starts, turns
    <2>2. Len(ops') \in Nat /\ Len(ops') >= Len(ops)
      BY <2>1 DEF TypeOK
    <2> QED BY <2>1, <2>2, StandOwned
  <1> QED BY <1>1, <1>2, <1>3, <1>4, <1>5, <1>6, <1>7 DEF Next, AbortStep

LEMMA TurnStart == Init => TurnInv
  <1> SUFFICES ASSUME Init PROVE TurnInv
    OBVIOUS
  <1> DEFINE w == [n \in Inputs |-> Place("none", None)]
  <1>1. Wanting = {} /\ UserTurns = {} /\ Purposes
    <2>1. \A p \in Procs : pc[p] \in {"unborn", "recv"}
      BY DEF Init
    <2>2. \A t \in Tasks : pc[t] = "unborn"
      BY DEF Init, Procs
    <2> QED BY <2>1, <2>2 DEF Wanting, WantPc, UserTurns, Purposes
  <1>2. FreshAt(w)
    BY DEF FreshAt
  <1>3. QueuedAt(w, pending_user_input, Place("queue", None))
    BY QueueEmpty DEF Init
  <1> HIDE DEF w
  <1>4. OwnedTurns(w)
    BY <1>1, <1>2, <1>3 DEF OwnedTurns, WantedAt
  <1> QED BY <1>1, <1>4 DEF TurnInv

\* A message starts at most one turn, for any set of tasks and any Ops: the loop,
\* the queue and the finished tasks hand it on and never share it.
THEOREM MessageStartsOneTurn == Spec => []OneTurnPerInput
  <1>1. TurnInv => OneTurnPerInput
    <2> SUFFICES ASSUME TurnInv PROVE OneTurnPerInput
      OBVIOUS
    <2>1. PICK w : OwnedTurns(w)
      BY DEF TurnInv
    <2>2. \A t \in UserTurns : w[item[t]] = Place("turn", t)
      BY <2>1 DEF OwnedTurns
    <2> QED BY <2>2, PlaceApart DEF OneTurnPerInput, UserTurns
  <1> QED BY <1>1, TurnStart, TurnStep, TypeCorrect, PTL DEF Spec

----------------------------------------------------------------------------
(* Inputs and the history, when no review and no post-turn input copies the *)
(* queued messages.                                                         *)

NoCopies == OpKinds \cap {"Review", "PostTurn"} = {}

\* There is no review and no post-turn input, and a turn that is about to drain
\* the queues holds nothing from before.
Plain ==
    /\ pending_post_turn_input = <<>>
    /\ \A p \in Procs : arg[p].kind \notin {"review", "post"}
    /\ \A t \in Tasks : kind[t] \notin {"review", "post"}
    /\ \A t \in Tasks : pc[t] \in {"unborn", "start", "drain"} => held[t] = <<>>

\* One process moves; if it gets to drain the queues it holds nothing.
LEMMA MovePlain ==
    ASSUME TypeOK, Plain, NEW p \in Procs, NEW to, pc[p] # "unborn",
           pc' = [pc EXCEPT ![p] = to],
           pending_post_turn_input' = <<>>, kind' = kind,
           \A q \in Procs : q # p => arg'[q] = arg[q],
           arg'[p].kind \notin {"review", "post"},
           \A t \in Tasks : t # p => held'[t] = held[t],
           p \in Tasks /\ to \in {"unborn", "start", "drain"} => held'[p] = <<>>
    PROVE  Plain'
  <1>1. \A q \in Procs : pc'[q] = IF q = p THEN to ELSE pc[q]
    BY DEF TypeOK
  <1>2. \A t \in Tasks : t \in Procs
    BY DEF Procs
  <1> QED BY <1>1, <1>2 DEF Plain

LEMMA PlainStep ==
    ASSUME NoCopies, TypeOK, Plain, [Next]_vars
    PROVE  Plain'
  <1> USE SessionAssumption
  <1>0. Loop \in Procs /\ Wake \in Procs /\ Loop \notin Tasks /\ Wake \notin Tasks /\ Loop # Wake
        /\ \A t \in Tasks : t \in Procs
    BY DEF Procs
  <1>1. ASSUME NEW n \in Inputs, Submit(n) PROVE Plain'
    <2>1. ~Review(n) /\ ~PostTurn(n)
      BY DEF NoCopies, Review, PostTurn, Receive
    <2>2. CASE Interrupt(n) \/ ApprovalAbort(n)
      BY <2>2 DEF Interrupt, ApprovalAbort, queues, starts, turns, Plain
    <2>3. CASE UserInput(n) \/ QueueUserInput(n) \/ Shutdown(n)
      <3>1. PICK to : pc[Loop] = "recv" /\ pc' = [pc EXCEPT ![Loop] = to]
        BY <2>3 DEF UserInput, QueueUserInput, Shutdown, Goto
      <3>2. /\ pending_post_turn_input' = <<>> /\ kind' = kind /\ held' = held
            /\ \/ arg' = arg
               \/ arg' = [arg EXCEPT ![Loop] = [kind |-> "user", item |-> n]]
        BY <2>3 DEF UserInput, QueueUserInput, Shutdown, queues, starts, turns, Plain
      <3>3. /\ \A q \in Procs : q # Loop => arg'[q] = arg[q]
            /\ arg'[Loop].kind \notin {"review", "post"}
        BY <1>0, <3>2 DEF TypeOK, Plain
      <3> QED BY <1>0, <3>1, <3>2, <3>3, MovePlain
    <2>4. ASSUME NEW p \in {Loop, Wake}, OutOfTurn(p, n) PROVE Plain'
      <3>1. PICK to : pc[p] = "recv" /\ pc' = [pc EXCEPT ![p] = to]
        BY <2>4 DEF OutOfTurn, Goto
      <3>2. /\ pending_post_turn_input' = <<>> /\ kind' = kind /\ held' = held
            /\ arg' = [arg EXCEPT ![p] = [kind |-> "pending", item |-> NoInput]]
        BY <2>4 DEF OutOfTurn, turns, Plain
      <3>3. /\ \A q \in Procs : q # p => arg'[q] = arg[q]
            /\ arg'[p].kind \notin {"review", "post"}
        BY <1>0, <3>2 DEF TypeOK
      <3> QED BY <1>0, <3>1, <3>2, <3>3, MovePlain
    <2>5. CASE Compact(n)
      <3>1. PICK to : pc[Loop] = "recv" /\ pc' = [pc EXCEPT ![Loop] = to]
        BY <2>5 DEF Compact, Goto
      <3>2. /\ pending_post_turn_input' = <<>> /\ kind' = kind /\ held' = held
            /\ \/ arg' = arg
               \/ arg' = [arg EXCEPT ![Loop] = [kind |-> "compact", item |-> n]]
        BY <2>5 DEF Compact, turns, Plain
      <3>3. /\ \A q \in Procs : q # Loop => arg'[q] = arg[q]
            /\ arg'[Loop].kind \notin {"review", "post"}
        BY <1>0, <3>2 DEF TypeOK, Plain
      <3> QED BY <1>0, <3>1, <3>2, <3>3, MovePlain
    <2> QED BY <1>1, <2>1, <2>2, <2>3, <2>4, <2>5 DEF Submit, Developer, AgentWake
  <1>2. ASSUME NEW n \in Inputs, RunInterrupt(n) PROVE Plain'
    BY <1>2 DEF RunInterrupt, queues, starts, turns, Plain
  <1>9. ASSUME NEW n \in Inputs, NEW t \in Tasks, CancelTaken(n, t) PROVE Plain'
    BY <1>9 DEF CancelTaken, queues, starts, turns, Plain
  <1>3. ASSUME QueuePush \/ PostIdle \/ CompactQueue PROVE Plain'
    <2>1. PICK to : pc[Loop] # "unborn" /\ pc' = [pc EXCEPT ![Loop] = to]
      BY <1>3 DEF QueuePush, PostIdle, CompactQueue, Goto
    <2>2. pending_post_turn_input' = <<>> /\ kind' = kind /\ held' = held /\ arg' = arg
      BY <1>3 DEF QueuePush, PostIdle, CompactQueue, queues, starts, turns, Plain
    <2>3. arg'[Loop].kind \notin {"review", "post"}
      BY <1>0, <2>2 DEF Plain
    <2> QED BY <1>0, <2>1, <2>2, <2>3, MovePlain
  <1>4. ASSUME NEW p \in Procs, StartTurn(p) PROVE Plain'
    <2>1. CASE Spawn(p)
      <3>1. PICK t \in Tasks :
               /\ pc[p] = "spawn" /\ pc[t] = "unborn"
               /\ pc' = [pc EXCEPT ![p] = "set", ![t] = "start"]
               /\ kind' = [kind EXCEPT ![t] = arg[p].kind]
               /\ arg' = arg /\ held' = held /\ pending_post_turn_input' = <<>>
        BY <2>1 DEF Spawn, queues, Plain
      <3>2. \A q \in Procs : pc'[q] = IF q = t THEN "start" ELSE IF q = p THEN "set" ELSE pc[q]
        BY <1>0, <3>1 DEF TypeOK
      <3>3. \A u \in Tasks : kind'[u] = IF u = t THEN arg[p].kind ELSE kind[u]
        BY <3>1 DEF TypeOK
      <3>4. \A u \in Tasks : kind'[u] \notin {"review", "post"}
        BY <3>3 DEF Plain
      <3>5. \A q \in Procs : arg'[q].kind \notin {"review", "post"}
        BY <3>1 DEF Plain
      <3>6. \A u \in Tasks : pc'[u] \in {"unborn", "start", "drain"} => pc[u] \in {"unborn", "start", "drain"}
        BY <1>0, <3>1, <3>2
      <3>7. \A u \in Tasks : pc'[u] \in {"unborn", "start", "drain"} => held'[u] = <<>>
        BY <3>1, <3>6 DEF Plain
      <3> QED BY <3>1, <3>4, <3>5, <3>7 DEF Plain
    <2>2. CASE \/ IdleCheck(p) \/ HooksPass(p) \/ HooksBlock(p) \/ SetTask(p)
             \/ AnnounceReview(p)
      <3>1. PICK to : /\ pc[p] # "unborn" /\ pc' = [pc EXCEPT ![p] = to]
                      /\ to \notin {"unborn", "start", "drain"}
        BY <2>2 DEF IdleCheck, HooksPass, HooksBlock, SetTask, AnnounceReview, Goto, AfterSet, Rest
      <3>2. pending_post_turn_input' = <<>> /\ kind' = kind /\ held' = held /\ arg' = arg
        BY <2>2 DEF IdleCheck, HooksPass, HooksBlock, SetTask, AnnounceReview, queues, starts,
                    turns, Plain
      <3>3. arg'[p].kind \notin {"review", "post"}
        BY <3>2 DEF Plain
      <3> QED BY <1>0, <3>1, <3>2, <3>3, MovePlain
    <2> QED BY <1>4, <2>1, <2>2 DEF StartTurn
  <1>5. ASSUME NEW t \in Tasks,
               \/ Start(t) \/ StartReturns(t) \/ Drain(t) \/ RecordPending(t)
               \/ Ask(t) \/ Answered(t) \/ ModelTools(t)
               \/ ModelContinue(t) \/ ModelEnd(t) \/ Finish(t) \/ RemoveTask(t) \/ Complete(t)
               \/ CompactStart(t) \/ CompactOk(t) \/ CompactFail(t) \/ Die(t)
        PROVE  Plain'
    <2>1. /\ arg' = arg /\ kind' = kind /\ pending_post_turn_input' = <<>>
      BY <1>5 DEF Start, StartReturns, Ask, Answered, Drain, RecordPending, ModelTools, ModelContinue, ModelEnd, Finish, RemoveTask,
             Complete, CompactStart, CompactOk, CompactFail, Die, starts, turns, queues, Plain
    <2>2. /\ arg'[t].kind \notin {"review", "post"}
          /\ \A u \in Tasks : u # t => held'[u] = held[u]
      <3>1. held' = held \/ \E x : held' = [held EXCEPT ![t] = x]
        BY <1>5 DEF Start, StartReturns, Ask, Answered, Drain, RecordPending, ModelTools, ModelContinue, ModelEnd, Finish, RemoveTask,
             Complete, CompactStart, CompactOk, CompactFail, Die, turns
      <3> QED BY <1>0, <2>1, <3>1 DEF Plain, TypeOK
    <2>3. CASE Start(t)
      <3>1. pc[t] = "start" /\ pc' = [pc EXCEPT ![t] = "drain"] /\ held' = held
        BY <2>3 DEF Start, Goto, turns
      <3>2. held'[t] = <<>>
        BY <3>1 DEF Plain
      <3> QED BY <1>0, <2>1, <2>2, <3>1, <3>2, MovePlain
    <2>4. CASE ModelTools(t) \/ ModelContinue(t) \/ ModelEnd(t)
      <3>1. PICK to : pc[t] = "model" /\ pc' = [pc EXCEPT ![t] = to]
        BY <2>4 DEF ModelTools, ModelContinue, ModelEnd, Goto
      <3>2. held'[t] = <<>>
        BY <2>4 DEF ModelTools, ModelContinue, ModelEnd, TypeOK
      <3> QED BY <1>0, <2>1, <2>2, <3>1, <3>2, MovePlain
    <2>5. CASE \/ StartReturns(t) \/ Ask(t) \/ Answered(t)
               \/ Drain(t) \/ RecordPending(t) \/ Finish(t) \/ RemoveTask(t) \/ Complete(t)
               \/ CompactStart(t) \/ CompactOk(t) \/ CompactFail(t) \/ Die(t)
      <3>1. /\ pc[t] # "unborn"
            /\ \E to \in {"record", "finish", "model", "asking", "remove", "complete",
                          "followup", "done", "returned", "dead"} :
                  pc' = [pc EXCEPT ![t] = to]
        BY <2>5 DEF StartReturns, Ask, Answered, Drain, RecordPending, Finish, RemoveTask, Complete, CompactStart, CompactOk,
                    CompactFail, Die, Goto
      <3>2. PICK to : pc' = [pc EXCEPT ![t] = to] /\ to \notin {"unborn", "start", "drain"}
        BY <3>1
      <3> QED BY <1>0, <2>1, <2>2, <3>1, <3>2, MovePlain
    <2> QED BY <1>5, <2>3, <2>4, <2>5
  <1>6. ASSUME NEW t \in Tasks, FollowUp(t) PROVE Plain'
    <2>1. PICK to : /\ pc[t] = "followup" /\ pc' = [pc EXCEPT ![t] = to]
                    /\ to \notin {"unborn", "start", "drain"}
      BY <1>6 DEF FollowUp
    <2>2. /\ pending_post_turn_input' = <<>> /\ kind' = kind /\ held' = held
          /\ \/ arg' = arg
             \/ \E k \in {"compact", "pending", "user"}, i \in Items :
                   arg' = [arg EXCEPT ![t] = [kind |-> k, item |-> i]]
      <3>1. pending_post_turn_input = <<>> /\ NoInput \in Items
        BY InputsAreItems DEF Plain
      <3>2. pending_user_input # <<>> => Head(pending_user_input) \in Items
        BY DEF TypeOK
      <3> QED BY <1>6, <3>1, <3>2 DEF FollowUp, queues, turns
    <2>3. /\ \A q \in Procs : q # t => arg'[q] = arg[q]
          /\ arg'[t].kind \notin {"review", "post"}
      BY <1>0, <2>2 DEF TypeOK, Plain
    <2> QED BY <1>0, <2>1, <2>2, <2>3, MovePlain
  <1>7. ASSUME NEW t \in Tasks, Notify(t) PROVE Plain'
    BY <1>7 DEF Notify, queues, starts, turns, Plain
  <1>8. CASE UNCHANGED vars
    BY <1>8 DEF vars, queues, starts, turns, Plain
  <1> QED BY <1>0, <1>1, <1>2, <1>3, <1>4, <1>5, <1>6, <1>7, <1>8, <1>9
          DEF Next, AbortStep, LoopStep, TaskStep

\* The input n is in the sequence s.
InSeq(n, s) == \E i \in DOMAIN s : s[i] = n

\* Who has the input n: a process that will start a turn for it or queue it, a
\* turn that will record it first of all, or a turn that drained it.
Wants(n, p) == pc[p] \in WantPc /\ arg[p].kind = "user" /\ arg[p].item = n
Starting(n, t) == pc[t] = "start" /\ kind[t] = "user" /\ item[t] = n
Holds(n, t) == pc[t] = "record" /\ InSeq(n, held[t])

\* The input n is at the place x.
At(n, x) ==
    \/ x = Place("none", None) /\ n > Len(ops)
    \/ x = Place("queue", None) /\ InSeq(n, pending_user_input)
    \/ x = Place("pending", None) /\ InSeq(n, pending_input)
    \/ x = Place("log", None) /\ logged[n] > 0
    \/ \E p \in Procs : x = Place("wanted", p) /\ Wants(n, p)
    \/ \E t \in Tasks : x = Place("start", t) /\ Starting(n, t)
    \/ \E t \in Tasks : x = Place("held", t) /\ Holds(n, t)

OnePlace == \A n \in Inputs : \A x, y : At(n, x) /\ At(n, y) => x = y

Distinct(s) == \A i, j \in DOMAIN s : i # j => s[i] # s[j]

RecordInv == OnePlace /\ Distinct(pending_user_input) /\ NoDuplicateRecords

LEMMA SamePlace == \A k, l, x, y : Place(k, x) = Place(l, y) => k = l /\ x = y
  BY DEF Place

\* What it means to be at each of the places.
LEMMA AtPlaces ==
    ASSUME NEW n
    PROVE  /\ At(n, Place("none", None)) <=> n > Len(ops)
           /\ At(n, Place("queue", None)) <=> InSeq(n, pending_user_input)
           /\ At(n, Place("pending", None)) <=> InSeq(n, pending_input)
           /\ At(n, Place("log", None)) <=> logged[n] > 0
           /\ \A p \in Procs : At(n, Place("wanted", p)) <=> Wants(n, p)
           /\ \A t \in Tasks : At(n, Place("start", t)) <=> Starting(n, t)
           /\ \A t \in Tasks : At(n, Place("held", t)) <=> Holds(n, t)
  BY SamePlace DEF At

LEMMA InAppend ==
    ASSUME NEW s \in Seq(Items), NEW m \in Items, NEW n
    PROVE  InSeq(n, Append(s, m)) <=> InSeq(n, s) \/ n = m
  <1>1. PICK l \in Nat : l = Len(s)
    OBVIOUS
  <1>2. PICK r : r = Append(s, m)
    OBVIOUS
  <1>3. /\ DOMAIN s = 1..l /\ DOMAIN r = 1..l + 1
        /\ r[l + 1] = m /\ \A i \in 1..l : r[i] = s[i]
    BY <1>1, <1>2
  <1>4. \A i : i \in 1..l + 1 <=> i \in 1..l \/ i = l + 1
    OBVIOUS
  <1>5. InSeq(n, r) <=> InSeq(n, s) \/ n = m
    BY <1>3, <1>4 DEF InSeq
  <1> QED BY <1>2, <1>5

LEMMA InConcat ==
    ASSUME NEW s \in Seq(Items), NEW r \in Seq(Items), NEW n, InSeq(n, s \o r)
    PROVE  InSeq(n, s) \/ InSeq(n, r)
  <1>1. PICK l \in Nat, k \in Nat : l = Len(s) /\ k = Len(r)
    OBVIOUS
  <1>2. PICK c : c = s \o r
    OBVIOUS
  <1>3. /\ DOMAIN s = 1..l /\ DOMAIN r = 1..k /\ DOMAIN c = 1..l + k
        /\ \A i \in 1..l + k : c[i] = IF i <= l THEN s[i] ELSE r[i - l]
    BY <1>1, <1>2
  <1>4. PICK i \in 1..l + k : c[i] = n
    BY <1>2, <1>3 DEF InSeq
  <1>5. CASE i <= l
    BY <1>3, <1>4, <1>5 DEF InSeq
  <1>6. CASE ~(i <= l)
    <2>1. i - l \in 1..k /\ r[i - l] = n
      BY <1>3, <1>4, <1>6
    <2> QED BY <1>3, <2>1 DEF InSeq
  <1> QED BY <1>5, <1>6

LEMMA InEmpty ==
    ASSUME NEW n
    PROVE  ~InSeq(n, <<>>)
  BY DEF InSeq

LEMMA DistinctTail ==
    ASSUME NEW s \in Seq(Items), s # <<>>, Distinct(s)
    PROVE  /\ Distinct(Tail(s)) /\ InSeq(Head(s), s) /\ ~InSeq(Head(s), Tail(s))
           /\ \A n : InSeq(n, Tail(s)) => InSeq(n, s)
  <1>1. PICK n \in Nat : n = Len(s)
    OBVIOUS
  <1>2. PICK r : r = Tail(s)
    OBVIOUS
  <1>3. /\ n >= 1 /\ DOMAIN s = 1..n /\ Head(s) = s[1]
        /\ DOMAIN r = 1..n - 1 /\ \A i \in 1..n - 1 : r[i] = s[i + 1]
    BY <1>1, <1>2
  <1>4. 1 \in 1..n /\ \A i \in 1..n - 1 : i + 1 \in 1..n /\ i + 1 # 1
    BY <1>3
  <1>5. \A i, j \in 1..n - 1 : i # j => i + 1 # j + 1
    OBVIOUS
  <1>6. Distinct(r)
    <2> SUFFICES ASSUME NEW i \in 1..n - 1, NEW j \in 1..n - 1, i # j PROVE r[i] # r[j]
      BY <1>3 DEF Distinct
    <2>1. s[i + 1] # s[j + 1]
      BY <1>3, <1>4, <1>5 DEF Distinct
    <2> QED BY <1>3, <2>1
  <1>7. InSeq(Head(s), s) /\ \A m : InSeq(m, r) => InSeq(m, s)
    BY <1>3, <1>4 DEF InSeq
  <1>8. ~InSeq(Head(s), r)
    BY <1>3, <1>4 DEF InSeq, Distinct
  <1> QED BY <1>2, <1>6, <1>7, <1>8

LEMMA DistinctAppend ==
    ASSUME NEW s \in Seq(Items), NEW n \in Items, Distinct(s), ~InSeq(n, s)
    PROVE  Distinct(Append(s, n))
  <1>1. PICK l \in Nat : l = Len(s)
    OBVIOUS
  <1>2. PICK r : r = Append(s, n)
    OBVIOUS
  <1>3. /\ DOMAIN s = 1..l /\ DOMAIN r = 1..l + 1
        /\ r[l + 1] = n /\ \A i \in 1..l : r[i] = s[i]
    BY <1>1, <1>2
  <1>4. \A i \in 1..l + 1 : i \in 1..l \/ i = l + 1
    OBVIOUS
  <1>5. Distinct(r)
    BY <1>3, <1>4 DEF Distinct, InSeq
  <1> QED BY <1>2, <1>5

----------------------------------------------------------------------------
\* The inputs of M leave where they are.
Leave(M) == \A n \in Inputs : n \in M => \E s : At(n, s) /\ ~At(n, s)'

\* No input comes to another place than it was at, but those of M may come to d.
ComeOnlyTo(M, d) == \A n \in Inputs : \A x : At(n, x)' => At(n, x) \/ (n \in M /\ x = d)

LEMMA PlacesMove ==
    ASSUME OnePlace, NEW M, NEW d, Leave(M), ComeOnlyTo(M, d)
    PROVE  OnePlace'
  <1> SUFFICES ASSUME NEW n \in Inputs, NEW x, NEW y, At(n, x)', At(n, y)' PROVE x = y
    BY DEF OnePlace
  <1>1. CASE n \in M
    <2>1. PICK s : At(n, s) /\ ~At(n, s)'
      BY <1>1 DEF Leave
    <2>2. \A z : At(n, z)' => z = d
      <3> SUFFICES ASSUME NEW z, At(n, z)' PROVE z = d
        OBVIOUS
      <3>1. CASE At(n, z)
        <4>1. z = s
          BY <2>1, <3>1 DEF OnePlace
        <4> QED BY <2>1, <4>1
      <3> QED BY <3>1 DEF ComeOnlyTo
    <2> QED BY <2>2
  <1>2. CASE n \notin M
    BY <1>2 DEF OnePlace, ComeOnlyTo
  <1> QED BY <1>1, <1>2

\* The process p moves, and what it brings along or leaves somewhere are inputs
\* of M, all to the place d.
Moves(p, to, M, d) ==
    /\ pc' = [pc EXCEPT ![p] = to] /\ to # "start" /\ kind' = kind /\ item' = item
    /\ \A q \in Procs : q # p => arg'[q] = arg[q]
    /\ \A t \in Tasks : t # p => held'[t] = held[t]
    /\ to \in WantPc /\ arg'[p].kind = "user" =>
          \/ pc[p] \in WantPc /\ arg'[p] = arg[p]
          \/ d = Place("wanted", p) /\ arg'[p].item \in M
    /\ to = "record" /\ p \in Tasks =>
          \A n \in Inputs : InSeq(n, held'[p]) => n \in M /\ d = Place("held", p)
    /\ \A n \in Inputs :
          /\ InSeq(n, pending_user_input') =>
                InSeq(n, pending_user_input) \/ (n \in M /\ d = Place("queue", None))
          /\ InSeq(n, pending_input') =>
                InSeq(n, pending_input) \/ (n \in M /\ d = Place("pending", None))
          /\ logged'[n] > 0 => logged[n] > 0 \/ (n \in M /\ d = Place("log", None))

LEMMA MoveRecords ==
    ASSUME TypeOK, OnePlace, Len(ops') \in Nat, Len(ops') >= Len(ops),
           NEW p \in Procs, NEW to, NEW M, NEW d, Moves(p, to, M, d), Leave(M)
    PROVE  OnePlace'
  <1>1. \A q \in Procs : pc'[q] = IF q = p THEN to ELSE pc[q]
    BY DEF TypeOK, Moves
  <1>2. Len(ops) \in Nat /\ \A t \in Tasks : t \in Procs
    BY DEF TypeOK, Procs
  <1>3. ASSUME NEW n \in Inputs, NEW x, At(n, x)'
        PROVE  At(n, x) \/ (n \in M /\ x = d)
    <2>1. CASE x = Place("none", None) /\ n > Len(ops')
      <3>1. n > Len(ops)
        BY <1>2, <2>1 DEF Inputs
      <3> QED BY <2>1, <3>1 DEF At
    <2>2. CASE x = Place("queue", None) /\ InSeq(n, pending_user_input')
      BY <2>2 DEF At, Moves
    <2>3. CASE x = Place("pending", None) /\ InSeq(n, pending_input')
      BY <2>3 DEF At, Moves
    <2>4. CASE x = Place("log", None) /\ logged'[n] > 0
      BY <2>4 DEF At, Moves
    <2>5. ASSUME NEW q \in Procs, x = Place("wanted", q), Wants(n, q)'
          PROVE  At(n, x) \/ (n \in M /\ x = d)
      <3>1. pc'[q] \in WantPc /\ arg'[q].kind = "user" /\ arg'[q].item = n
        BY <2>5 DEF Wants
      <3>2. Wants(n, q) \/ (n \in M /\ x = d)
        BY <1>1, <2>5, <3>1 DEF Wants, Moves
      <3> QED BY <2>5, <3>2 DEF At
    <2>6. ASSUME NEW t \in Tasks, x = Place("start", t), Starting(n, t)'
          PROVE  At(n, x)
      <3>1. pc'[t] = "start" /\ kind[t] = "user" /\ item[t] = n
        BY <2>6 DEF Starting, Moves
      <3>2. Starting(n, t)
        BY <1>1, <1>2, <3>1 DEF Starting, Moves
      <3> QED BY <2>6, <3>2 DEF At
    <2>7. ASSUME NEW t \in Tasks, x = Place("held", t), Holds(n, t)'
          PROVE  At(n, x) \/ (n \in M /\ x = d)
      <3>1. pc'[t] = "record" /\ InSeq(n, held'[t])
        BY <2>7 DEF Holds
      <3>2. Holds(n, t) \/ (n \in M /\ x = d)
        BY <1>1, <1>2, <2>7, <3>1 DEF Holds, Moves
      <3> QED BY <2>7, <3>2 DEF At
    <2> QED BY <1>3, <2>1, <2>2, <2>3, <2>4, <2>5, <2>6, <2>7 DEF At
  <1>4. ComeOnlyTo(M, d)
    BY <1>3 DEF ComeOnlyTo
  <1> QED BY <1>4, PlacesMove

\* One process moves, and no input does.
LEMMA StillMove ==
    ASSUME TypeOK, RecordInv, Len(ops') \in Nat, Len(ops') >= Len(ops),
           NEW p \in Procs, NEW to,
           pc' = [pc EXCEPT ![p] = to], to # "start", to # "record", kind' = kind, item' = item,
           \A q \in Procs : q # p => arg'[q] = arg[q],
           \A t \in Tasks : t # p => held'[t] = held[t],
           to \in WantPc /\ arg'[p].kind = "user" => pc[p] \in WantPc /\ arg'[p] = arg[p],
           \A n \in Inputs : InSeq(n, pending_input') => InSeq(n, pending_input),
           pending_user_input' = pending_user_input, logged' = logged
    PROVE  RecordInv'
  <1>1. Moves(p, to, {}, Place("none", None)) /\ Leave({})
    BY DEF Moves, Leave
  <1>2. OnePlace'
    BY <1>1, MoveRecords DEF RecordInv
  <1>3. Distinct(pending_user_input')
    BY DEF RecordInv
  <1>4. NoDuplicateRecords'
    BY DEF RecordInv, NoDuplicateRecords
  <1> QED BY <1>2, <1>3, <1>4 DEF RecordInv

\* No process moves.
LEMMA StillStand ==
    ASSUME TypeOK, RecordInv, Len(ops') \in Nat, Len(ops') >= Len(ops),
           UNCHANGED <<pc, arg, kind, item, held, pending_input, pending_user_input, logged>>
    PROVE  RecordInv'
  <1>1. Len(ops) \in Nat
    BY DEF TypeOK
  <1>2. ASSUME NEW n \in Inputs, NEW x, At(n, x)'
        PROVE  At(n, x)
    <2>1. n > Len(ops') => n > Len(ops)
      BY <1>1 DEF Inputs
    <2> QED BY <1>2, <2>1 DEF At, Wants, Starting, Holds
  <1>3. OnePlace'
    BY <1>2 DEF RecordInv, OnePlace
  <1> QED BY <1>3 DEF RecordInv, NoDuplicateRecords

\* A message arrives: the loop has it.
LEMMA RecordsWanted ==
    ASSUME TypeOK, RecordInv, NEW n \in Inputs, n = Len(ops) + 1, Len(ops') = n,
           NEW to \in {"hooks", "queue"}, Goto(Loop, "recv", to),
           arg' = [arg EXCEPT ![Loop] = [kind |-> "user", item |-> n]],
           UNCHANGED <<kind, item, held, pending_input, pending_user_input, logged>>
    PROVE  RecordInv'
  <1>1. Loop \in Procs /\ Len(ops) \in Nat
    BY DEF Procs, TypeOK
  <1>2. Leave({n})
    <2>1. n > Len(ops) /\ ~(n > Len(ops'))
      BY <1>1
    <2>2. At(n, Place("none", None)) /\ ~At(n, Place("none", None))'
      BY <2>1, AtPlaces, SamePlace DEF At
    <2> QED BY <2>2 DEF Leave
  <1>3. Moves(Loop, to, {n}, Place("wanted", Loop))
    BY <1>1 DEF Moves, Goto, TypeOK
  <1>4. OnePlace'
    <2>1. Len(ops') \in Nat /\ Len(ops') >= Len(ops)
      BY <1>1
    <2> QED BY <1>1, <1>2, <1>3, <2>1, MoveRecords DEF RecordInv
  <1> QED BY <1>4 DEF RecordInv, NoDuplicateRecords

\* Something else than a message arrives, as input for the running turn or the
\* turn that p will start.
LEMMA RecordsPending ==
    ASSUME TypeOK, RecordInv, NEW n \in Inputs, n = Len(ops) + 1, Len(ops') = n,
           NEW p \in Procs, NEW to \in {"recv", "spawn", "compact_queue"},
           pc' = [pc EXCEPT ![p] = to],
           \A q \in Procs : q # p => arg'[q] = arg[q],
           to = "spawn" => arg'[p].kind # "user",
           pending_input' = Append(pending_input, n),
           UNCHANGED <<kind, item, held, pending_user_input, logged>>
    PROVE  RecordInv'
  <1>1. Len(ops) \in Nat /\ n \in Items /\ pending_input \in Seq(Items)
    BY DEF TypeOK, Items
  <1>2. Leave({n})
    <2>1. n > Len(ops) /\ ~(n > Len(ops'))
      BY <1>1
    <2>2. At(n, Place("none", None)) /\ ~At(n, Place("none", None))'
      BY <2>1, AtPlaces, SamePlace DEF At
    <2> QED BY <2>2 DEF Leave
  <1>3. Moves(p, to, {n}, Place("pending", None))
    <2>1. \A m \in Inputs : InSeq(m, pending_input') => InSeq(m, pending_input) \/ m = n
      BY <1>1, InAppend
    <2>2. to \in WantPc => to = "spawn"
      BY DEF WantPc
    <2> QED BY <2>1, <2>2 DEF Moves
  <1>4. OnePlace'
    <2>1. Len(ops') \in Nat /\ Len(ops') >= Len(ops)
      BY <1>1
    <2> QED BY <1>2, <1>3, <2>1, MoveRecords DEF RecordInv
  <1> QED BY <1>4 DEF RecordInv, NoDuplicateRecords

\* The loop puts its message into the queue.
LEMMA RecordsPush ==
    ASSUME TypeOK, TurnInv, RecordInv, QueuePush
    PROVE  RecordInv'
  <1>1. Loop \in Procs /\ Len(ops) \in Nat /\ pc[Loop] = "queue" /\ arg[Loop].kind = "user"
        /\ pending_user_input \in Seq(Items)
    BY DEF Procs, TypeOK, QueuePush, Goto, TurnInv, Purposes
  <1>2. PICK n : n = arg[Loop].item /\ n \in Items /\ n \in Inputs
    <2>1. Loop \in Wanting
      BY <1>1 DEF Wanting, WantPc
    <2>2. arg[Loop].item \in Inputs
      BY <2>1 DEF TurnInv, OwnedTurns, WantedAt
    <2> QED BY <2>2 DEF Items
  <1>3. /\ pending_user_input' = Append(pending_user_input, n)
        /\ pc' = [pc EXCEPT ![Loop] = "recv"]
        /\ UNCHANGED <<arg, kind, item, held, pending_input, logged, ops>>
    BY <1>2 DEF QueuePush, Goto, starts, turns
  <1>4. Wants(n, Loop) /\ ~Wants(n, Loop)'
    <2>1. pc'[Loop] = "recv"
      BY <1>1, <1>3 DEF TypeOK
    <2> QED BY <1>1, <1>2, <2>1 DEF Wants, WantPc
  <1>5. At(n, Place("wanted", Loop)) /\ ~At(n, Place("wanted", Loop))'
    BY <1>1, <1>4, SamePlace DEF At
  <1>6. Leave({n})
    BY <1>5 DEF Leave
  <1>7. Moves(Loop, "recv", {n}, Place("queue", None))
    <2>1. \A m \in Inputs : InSeq(m, pending_user_input') => InSeq(m, pending_user_input) \/ m = n
      BY <1>1, <1>2, <1>3, InAppend
    <2> QED BY <1>3, <2>1 DEF Moves, WantPc
  <1>8. OnePlace'
    BY <1>1, <1>3, <1>6, <1>7, MoveRecords DEF RecordInv
  <1>9. Distinct(pending_user_input')
    <2>1. Place("queue", None) # Place("wanted", Loop)
      BY SamePlace
    <2>2. ~At(n, Place("queue", None))
      BY <1>2, <1>5, <2>1 DEF RecordInv, OnePlace
    <2>3. ~InSeq(n, pending_user_input)
      BY <2>2 DEF At
    <2> QED BY <1>1, <1>2, <1>3, <2>3, DistinctAppend DEF RecordInv
  <1> QED BY <1>3, <1>8, <1>9 DEF RecordInv, NoDuplicateRecords

\* A finished task takes the first queued message.
LEMMA RecordsTake ==
    ASSUME TypeOK, RecordInv, NEW t \in Tasks, pending_user_input # <<>>,
           pending_user_input' = Tail(pending_user_input),
           pc' = [pc EXCEPT ![t] = "hooks"],
           arg' = [arg EXCEPT ![t] = [kind |-> "user", item |-> Head(pending_user_input)]],
           UNCHANGED <<kind, item, held, pending_input, logged, ops>>
    PROVE  RecordInv'
  <1>1. t \in Procs /\ Len(ops) \in Nat /\ pending_user_input \in Seq(Items)
    BY DEF Procs, TypeOK
  <1>2. PICK n : n = Head(pending_user_input)
    OBVIOUS
  <1>3. /\ Distinct(pending_user_input') /\ InSeq(n, pending_user_input)
        /\ ~InSeq(n, pending_user_input')
        /\ \A m : InSeq(m, pending_user_input') => InSeq(m, pending_user_input)
    BY <1>1, <1>2, DistinctTail DEF RecordInv
  <1>4. Leave({n})
    <2>1. At(n, Place("queue", None)) /\ ~At(n, Place("queue", None))'
      BY <1>3, SamePlace DEF At
    <2> QED BY <2>1 DEF Leave
  <1>5. Moves(t, "hooks", {n}, Place("wanted", t))
    <2>1. arg'[t].item = n /\ \A q \in Procs : q # t => arg'[q] = arg[q]
      BY <1>1, <1>2 DEF TypeOK
    <2> QED BY <1>3, <2>1 DEF Moves
  <1>6. OnePlace'
    BY <1>1, <1>4, <1>5, MoveRecords DEF RecordInv
  <1> QED BY <1>3, <1>6 DEF RecordInv, NoDuplicateRecords

\* A turn is spawned: it has the message that was wanted.
LEMMA RecordsSpawn ==
    ASSUME TypeOK, RecordInv, NEW p \in Procs, Spawn(p)
    PROVE  RecordInv'
  <1>1. PICK t \in Tasks :
           /\ pc[p] = "spawn" /\ pc[t] = "unborn"
           /\ pc' = [pc EXCEPT ![p] = "set", ![t] = "start"]
           /\ kind' = [kind EXCEPT ![t] = arg[p].kind]
           /\ item' = [item EXCEPT ![t] = arg[p].item]
           /\ UNCHANGED <<arg, held, pending_input, pending_user_input, logged, ops>>
    BY DEF Spawn, queues
  <1>2. /\ \A u \in Tasks : u \in Procs
        /\ \A q \in Procs : pc'[q] = IF q = t THEN "start" ELSE IF q = p THEN "set" ELSE pc[q]
        /\ \A u \in Tasks : /\ kind'[u] = IF u = t THEN arg[p].kind ELSE kind[u]
                            /\ item'[u] = IF u = t THEN arg[p].item ELSE item[u]
    BY <1>1 DEF TypeOK, Procs
  <1>3. PICK M : M = IF arg[p].kind = "user" THEN {arg[p].item} ELSE {}
    OBVIOUS
  <1>4. Leave(M)
    <2> SUFFICES ASSUME NEW n \in Inputs, n \in M
                 PROVE  At(n, Place("wanted", p)) /\ ~At(n, Place("wanted", p))'
      BY DEF Leave
    <2>1. Wants(n, p)
      BY <1>1, <1>3 DEF Wants, WantPc
    <2>2. pc'[p] \in {"set", "start"}
      BY <1>2
    <2>3. ~Wants(n, p)'
      BY <2>2 DEF Wants, WantPc
    <2> QED BY <2>1, <2>3, SamePlace DEF At
  <1>5. ComeOnlyTo(M, Place("start", t))
    <2> SUFFICES ASSUME NEW n \in Inputs, NEW x, At(n, x)'
                 PROVE  At(n, x) \/ (n \in M /\ x = Place("start", t))
      BY DEF ComeOnlyTo
    <2>1. ASSUME NEW q \in Procs, x = Place("wanted", q), Wants(n, q)'
          PROVE  At(n, x)
      <3>1. pc'[q] \in WantPc /\ arg[q].kind = "user" /\ arg[q].item = n
        BY <1>1, <2>1 DEF Wants
      <3>2. Wants(n, q)
        BY <1>2, <3>1 DEF Wants, WantPc
      <3> QED BY <2>1, <3>2 DEF At
    <2>2. ASSUME NEW u \in Tasks, x = Place("start", u), Starting(n, u)'
          PROVE  At(n, x) \/ (n \in M /\ x = Place("start", t))
      <3>1. pc'[u] = "start" /\ kind'[u] = "user" /\ item'[u] = n
        BY <2>2 DEF Starting
      <3>2. CASE u = t
        BY <1>2, <1>3, <2>2, <3>1, <3>2
      <3>3. CASE u # t
        <4>1. Starting(n, u)
          BY <1>2, <3>1, <3>3 DEF Starting
        <4> QED BY <2>2, <4>1 DEF At
      <3> QED BY <3>2, <3>3
    <2>3. ASSUME NEW u \in Tasks, x = Place("held", u), Holds(n, u)'
          PROVE  At(n, x)
      <3>1. pc'[u] = "record" /\ InSeq(n, held[u])
        BY <1>1, <2>3 DEF Holds
      <3>2. Holds(n, u)
        BY <1>2, <3>1 DEF Holds
      <3> QED BY <2>3, <3>2 DEF At
    <2> QED BY <1>1, <2>1, <2>2, <2>3 DEF At
  <1>6. OnePlace'
    BY <1>4, <1>5, PlacesMove DEF RecordInv
  <1> QED BY <1>1, <1>6 DEF RecordInv, NoDuplicateRecords

\* A step that records inputs which were not recorded.
LEMMA RecordOnce ==
    ASSUME TypeOK, NoDuplicateRecords, NEW S, Record(S),
           \A n \in Inputs : n \in S => ~(logged[n] > 0)
    PROVE  /\ NoDuplicateRecords'
           /\ \A n \in Inputs : logged'[n] > 0 => logged[n] > 0 \/ n \in S
  <1>1. ASSUME NEW n \in Inputs
        PROVE  logged'[n] < 2 /\ (logged'[n] > 0 => logged[n] > 0 \/ n \in S)
    <2>1. logged[n] \in 0..2 /\ logged[n] < 2
      BY DEF TypeOK, NoDuplicateRecords
    <2>2. logged'[n] = IF n \in S /\ logged[n] < 2 THEN logged[n] + 1 ELSE logged[n]
      BY DEF Record
    <2> QED BY <2>1, <2>2
  <1> QED BY <1>1 DEF NoDuplicateRecords

\* A turn starts, and records its message.
LEMMA RecordsStart ==
    ASSUME TypeOK, RecordInv, NEW t \in Tasks, Start(t)
    PROVE  RecordInv'
  <1>1. /\ pc[t] = "start" /\ pc' = [pc EXCEPT ![t] = "drain"]
        /\ UNCHANGED <<arg, kind, item, held, pending_input, pending_user_input, ops>>
    BY DEF Start, Goto, queues, starts, turns
  <1>2. t \in Procs /\ Len(ops) \in Nat
    BY DEF Procs, TypeOK
  <1>3. PICK S : S = (IF kind[t] = "user" THEN {item[t]} ELSE {}) /\ Record(S)
    BY DEF Start
  <1>4. ASSUME NEW n \in Inputs, n \in S
        PROVE  /\ At(n, Place("start", t)) /\ ~At(n, Place("start", t))'
               /\ ~(logged[n] > 0)
    <2>1. Starting(n, t)
      BY <1>1, <1>3, <1>4 DEF Starting
    <2>2. pc'[t] = "drain"
      BY <1>1, <1>2 DEF TypeOK
    <2>3. ~Starting(n, t)'
      BY <2>2 DEF Starting
    <2>4. At(n, Place("start", t)) /\ ~At(n, Place("start", t))'
      BY <2>1, <2>3, SamePlace DEF At
    <2>5. ~At(n, Place("log", None))
      <3>1. Place("log", None) # Place("start", t)
        BY SamePlace
      <3> QED BY <2>4, <3>1 DEF RecordInv, OnePlace
    <2> QED BY <2>4, <2>5 DEF At
  <1>5. Leave(S)
    BY <1>4 DEF Leave
  <1>6. NoDuplicateRecords' /\ \A n \in Inputs : logged'[n] > 0 => logged[n] > 0 \/ n \in S
    BY <1>3, <1>4, RecordOnce DEF RecordInv
  <1>7. Moves(t, "drain", S, Place("log", None))
    BY <1>1, <1>6 DEF Moves, WantPc
  <1>8. OnePlace'
    BY <1>1, <1>2, <1>5, <1>7, MoveRecords DEF RecordInv
  <1> QED BY <1>1, <1>6, <1>8 DEF RecordInv

\* A turn takes what is pending and queued.
LEMMA RecordsDrain ==
    ASSUME TypeOK, Plain, RecordInv, NEW t \in Tasks, Drain(t)
    PROVE  RecordInv'
  <1>1. /\ pc[t] = "drain" /\ pc' = [pc EXCEPT ![t] = "record"] /\ pending_input' = <<>>
        /\ UNCHANGED <<arg, kind, item, logged, ops>>
    BY DEF Drain, Goto, starts
  <1>2. t \in Procs /\ Len(ops) \in Nat /\ pending_input \in Seq(Items)
        /\ pending_user_input \in Seq(Items) /\ pending_input \o pending_user_input \in Seq(Items)
    BY DEF Procs, TypeOK
  <1>3. CASE pending_input = <<>>
    <2>1. held' = held /\ pending_user_input' = pending_user_input
      BY <1>3 DEF Drain, Plain
    <2>2. \A n \in Inputs : ~InSeq(n, held'[t]) /\ ~InSeq(n, pending_input')
      BY <1>1, <2>1, InEmpty DEF Plain
    <2>3. Moves(t, "record", {}, Place("held", t)) /\ Leave({})
      BY <1>1, <2>1, <2>2 DEF Moves, Leave, WantPc
    <2>4. OnePlace'
      BY <1>1, <1>2, <2>3, MoveRecords DEF RecordInv
    <2> QED BY <1>1, <2>1, <2>4 DEF RecordInv, NoDuplicateRecords
  <1>4. CASE pending_input # <<>>
    <2>1. /\ held' = [held EXCEPT ![t] = pending_input \o pending_user_input]
          /\ pending_user_input' = <<>>
      BY <1>4 DEF Drain, Plain
    <2>2. /\ held'[t] = pending_input \o pending_user_input
          /\ \A u \in Tasks : u # t => held'[u] = held[u]
      BY <2>1 DEF TypeOK
    <2>3. PICK M : M = {n \in Inputs : InSeq(n, pending_input) \/ InSeq(n, pending_user_input)}
      OBVIOUS
    <2>4. \A n \in Inputs : InSeq(n, held'[t]) => n \in M
      BY <1>2, <2>2, <2>3, InConcat
    <2>5. \A n : ~InSeq(n, pending_input') /\ ~InSeq(n, pending_user_input')
      BY <1>1, <2>1, InEmpty
    <2>6. Moves(t, "record", M, Place("held", t))
      BY <1>1, <2>2, <2>4, <2>5 DEF Moves, WantPc
    <2>7. Leave(M)
      <3> SUFFICES ASSUME NEW n \in Inputs, n \in M
                   PROVE  \E x : At(n, x) /\ ~At(n, x)'
        BY DEF Leave
      <3>1. ~At(n, Place("pending", None))' /\ ~At(n, Place("queue", None))'
        BY <2>5, SamePlace DEF At
      <3>2. At(n, Place("pending", None)) \/ At(n, Place("queue", None))
        BY <2>3 DEF At
      <3> QED BY <3>1, <3>2
    <2>8. OnePlace'
      BY <1>1, <1>2, <2>6, <2>7, MoveRecords DEF RecordInv
    <2>9. Distinct(pending_user_input')
      BY <2>1 DEF Distinct
    <2> QED BY <1>1, <2>8, <2>9 DEF RecordInv, NoDuplicateRecords
  <1> QED BY <1>3, <1>4

\* A turn records what it drained, or part of it.
LEMMA RecordsRecord ==
    ASSUME TypeOK, RecordInv, NEW t \in Tasks, RecordPending(t)
    PROVE  RecordInv'
  <1>1. /\ pc[t] = "record"
        /\ UNCHANGED <<arg, kind, item, held, pending_input, pending_user_input, ops>>
    BY DEF RecordPending, Goto, queues, starts
  <1>2. t \in Procs /\ Len(ops) \in Nat /\ held[t] \in Seq(Items)
    BY DEF Procs, TypeOK
  <1>3. CASE first[t] /\ PendingOnly(t) /\ held[t] = <<>>
    <2>1. pc' = [pc EXCEPT ![t] = "finish"] /\ logged' = logged
      BY <1>3 DEF RecordPending, Goto
    <2>2. Len(ops') \in Nat /\ Len(ops') >= Len(ops)
      BY <1>1, <1>2
    <2>3. "finish" \notin WantPc
      BY DEF WantPc
    <2> QED BY <1>1, <1>2, <2>1, <2>2, <2>3, StillMove
  <1>4. CASE ~(first[t] /\ PendingOnly(t) /\ held[t] = <<>>)
    <2>1. PICK S : S = ToRecord(t) /\ Record(S)
      BY <1>4 DEF RecordPending
    <2>2. pc' = [pc EXCEPT ![t] = "model"]
      BY <1>4 DEF RecordPending, Goto
    <2>3. pc'[t] = "model"
      BY <1>2, <2>2 DEF TypeOK
    <2>4. ASSUME NEW n \in Inputs, n \in S
          PROVE  InSeq(n, held[t])
      <3>1. CASE ~first[t]
        BY <2>1, <2>4, <3>1 DEF ToRecord, ToSet, InSeq
      <3>2. CASE first[t] /\ PendingOnly(t)
        <4>1. n = held[t][1] /\ held[t] # <<>>
          BY <1>4, <2>1, <2>4, <3>2 DEF ToRecord
        <4>2. 1 \in DOMAIN held[t]
          BY <1>2, <4>1
        <4> QED BY <4>1, <4>2 DEF InSeq
      <3>3. CASE first[t] /\ ~PendingOnly(t)
        BY <2>1, <2>4, <3>3 DEF ToRecord
      <3> QED BY <3>1, <3>2, <3>3
    <2>5. ASSUME NEW n \in Inputs, n \in S
          PROVE  /\ At(n, Place("held", t)) /\ ~At(n, Place("held", t))'
                 /\ ~(logged[n] > 0)
      <3>1. Holds(n, t)
        BY <1>1, <2>4, <2>5 DEF Holds
      <3>2. ~Holds(n, t)'
        BY <2>3 DEF Holds
      <3>3. At(n, Place("held", t)) /\ ~At(n, Place("held", t))'
        BY <3>1, <3>2, SamePlace DEF At
      <3>4. ~At(n, Place("log", None))
        <4>1. Place("log", None) # Place("held", t)
          BY SamePlace
        <4> QED BY <3>3, <4>1 DEF RecordInv, OnePlace
      <3> QED BY <3>3, <3>4 DEF At
    <2>6. Leave(S)
      BY <2>5 DEF Leave
    <2>7. NoDuplicateRecords' /\ \A n \in Inputs : logged'[n] > 0 => logged[n] > 0 \/ n \in S
      BY <2>1, <2>5, RecordOnce DEF RecordInv
    <2>8. Moves(t, "model", S, Place("log", None))
      BY <1>1, <2>2, <2>7 DEF Moves, WantPc
    <2>9. OnePlace'
      BY <1>1, <1>2, <2>6, <2>8, MoveRecords DEF RecordInv
    <2> QED BY <1>1, <2>7, <2>9 DEF RecordInv
  <1> QED BY <1>3, <1>4

LEMMA SubmitRecords ==
    ASSUME NoCopies, TypeOK, RecordInv, NEW n \in Inputs, Submit(n)
    PROVE  RecordInv'
  <1> USE SessionAssumption
  <1>0. Loop \in Procs /\ Wake \in Procs
    BY DEF Procs
  <1>1. ~Review(n) /\ ~PostTurn(n)
    BY DEF NoCopies, Review, PostTurn, Receive
  <1>2. PICK op \in AllOps : Receive(op, n)
    BY DEF Submit, UserInput, QueueUserInput, Interrupt, Shutdown, ApprovalAbort,
           Developer, AgentWake, PostTurn, Compact, Review, AllOps
  <1>3. Len(ops) \in Nat /\ n = Len(ops) + 1 /\ Len(ops') = n
    BY <1>2, Received
  <1>4. Len(ops') \in Nat /\ Len(ops') >= Len(ops)
    BY <1>3
  <1>5. CASE UserInput(n)
    BY <1>3, <1>5, RecordsWanted DEF UserInput, queues, turns
  <1>6. CASE QueueUserInput(n)
    <2>1. PICK to \in {"hooks", "queue"} : Goto(Loop, "recv", to)
      BY <1>6 DEF QueueUserInput
    <2> QED BY <1>3, <1>6, <2>1, RecordsWanted DEF QueueUserInput, queues, turns
  <1>7. CASE Interrupt(n) \/ ApprovalAbort(n)
    BY <1>4, <1>7, StillStand DEF Interrupt, ApprovalAbort, queues, starts, turns
  <1>8. CASE Shutdown(n)
    <2>1. /\ pc' = [pc EXCEPT ![Loop] = "stopped"]
          /\ UNCHANGED <<arg, kind, item, held, pending_input, pending_user_input, logged>>
      BY <1>8 DEF Shutdown, Goto, queues, starts, turns
    <2>2. "stopped" \notin WantPc
      BY DEF WantPc
    <2> QED BY <1>0, <1>4, <2>1, <2>2, StillMove
  <1>9. ASSUME NEW p \in {Loop, Wake}, OutOfTurn(p, n)
        PROVE  RecordInv'
    <2>1. PICK to \in {"recv", "spawn", "compact_queue"} : pc' = [pc EXCEPT ![p] = to]
      BY <1>9 DEF OutOfTurn, Goto
    <2>2. /\ \A q \in Procs : q # p => arg'[q] = arg[q]
          /\ arg'[p].kind # "user"
      BY <1>0, <1>9 DEF OutOfTurn, TypeOK
    <2>3. /\ pending_input' = Append(pending_input, n)
          /\ UNCHANGED <<kind, item, held, pending_user_input, logged>>
      BY <1>9 DEF OutOfTurn, turns
    <2> QED BY <1>0, <1>3, <2>1, <2>2, <2>3, RecordsPending
  <1>10. CASE Compact(n)
    <2>1. UNCHANGED <<kind, item, held, pending_user_input, logged>>
      BY <1>10 DEF Compact, turns
    <2>2. CASE current # None
      <3>1. /\ pc' = [pc EXCEPT ![Loop] = "compact_queue"] /\ arg' = arg
            /\ pending_input' = Append(pending_input, n)
        BY <1>10, <2>2 DEF Compact, Goto
      <3> QED BY <1>0, <1>3, <2>1, <3>1, RecordsPending
    <2>3. CASE current = None
      <3>1. /\ pc' = [pc EXCEPT ![Loop] = "spawn"]
            /\ arg' = [arg EXCEPT ![Loop] = [kind |-> "compact", item |-> n]]
            /\ pending_input' = pending_input
        BY <1>10, <2>3 DEF Compact, Goto
      <3>2. /\ \A q \in Procs : q # Loop => arg'[q] = arg[q]
            /\ arg'[Loop].kind # "user"
        BY <1>0, <3>1 DEF TypeOK
      <3> QED BY <1>0, <1>4, <2>1, <3>1, <3>2, StillMove
    <2> QED BY <2>2, <2>3
  <1> QED BY <1>1, <1>5, <1>6, <1>7, <1>8, <1>9, <1>10 DEF Submit, Developer, AgentWake

LEMMA StartRecords ==
    ASSUME TypeOK, Purposes, RecordInv, NEW p \in Procs, StartTurn(p)
    PROVE  RecordInv'
  <1>1. CASE Spawn(p)
    BY <1>1, RecordsSpawn
  <1>2. CASE \/ IdleCheck(p) \/ HooksPass(p) \/ HooksBlock(p) \/ SetTask(p)
             \/ AnnounceReview(p)
    <2>1. UNCHANGED <<arg, kind, item, held, pending_input, pending_user_input, logged, ops>>
      BY <1>2 DEF IdleCheck, HooksPass, HooksBlock, SetTask, AnnounceReview,
                  starts, turns, queues
    <2>2. Rest(p) \in {"done", "recv"} /\ AfterSet(p) \in {"done", "recv", "entered"}
      BY DEF Rest, AfterSet
    <2>3. PICK to :
             /\ pc' = [pc EXCEPT ![p] = to]
             /\ \/ pc[p] = "idle_check" /\ to \in {"spawn", "done", "recv"}
                \/ pc[p] = "hooks" /\ to \in {"spawn", "followup", "recv"}
                \/ pc[p] \in {"set", "entered"} /\ to \in {"done", "recv", "entered"}
      BY <1>2, <2>2 DEF IdleCheck, HooksPass, HooksBlock, SetTask, AnnounceReview, Goto
    <2>4. to # "start" /\ to # "record"
      BY <2>3
    <2>5. to \in WantPc /\ arg'[p].kind = "user" => pc[p] \in WantPc
      BY <2>1, <2>3 DEF Purposes, WantPc
    <2>6. Len(ops') \in Nat /\ Len(ops') >= Len(ops)
      BY <2>1 DEF TypeOK
    <2> QED BY <2>1, <2>3, <2>4, <2>5, <2>6, StillMove
  <1> QED BY <1>1, <1>2 DEF StartTurn

LEMMA TaskRecords ==
    ASSUME TypeOK, Plain, RecordInv, NEW t \in Tasks,
           \/ Start(t) \/ StartReturns(t) \/ Drain(t) \/ RecordPending(t)
           \/ Ask(t) \/ Answered(t) \/ ModelTools(t)
           \/ ModelContinue(t) \/ ModelEnd(t) \/ Finish(t) \/ RemoveTask(t) \/ Complete(t)
           \/ CompactStart(t) \/ CompactOk(t) \/ CompactFail(t) \/ Die(t)
    PROVE  RecordInv'
  <1>0. t \in Procs /\ Len(ops) \in Nat
    BY DEF Procs, TypeOK
  <1>1. CASE Start(t) \/ Drain(t) \/ RecordPending(t)
    BY <1>1, RecordsStart, RecordsDrain, RecordsRecord
  <1>2. CASE ModelTools(t) \/ ModelContinue(t) \/ ModelEnd(t)
    <2>1. /\ \E to \in {"drain", "finish"} : pc' = [pc EXCEPT ![t] = to]
          /\ held' = [held EXCEPT ![t] = <<>>]
          /\ UNCHANGED <<arg, kind, item, pending_user_input, logged, ops>>
          /\ pending_input' \in {pending_input, Append(pending_input, ToolOutput)}
      BY <1>2 DEF ModelTools, ModelContinue, ModelEnd, Goto, starts, turns, queues
    <2>2. PICK to : to \in {"drain", "finish"} /\ pc' = [pc EXCEPT ![t] = to]
      BY <2>1
    <2>3. to # "start" /\ to # "record" /\ to \notin WantPc
      BY <2>2 DEF WantPc
    <2>4. \A u \in Tasks : u # t => held'[u] = held[u]
      BY <2>1 DEF TypeOK
    <2>5. \A n \in Inputs : InSeq(n, pending_input') => InSeq(n, pending_input)
      <3>1. ToolOutput \in Items /\ \A n \in Inputs : n # ToolOutput
        BY DEF Items, ToolOutput, Inputs
      <3>2. pending_input \in Seq(Items)
        BY DEF TypeOK
      <3> QED BY <2>1, <3>1, <3>2, InAppend
    <2>6. Len(ops') \in Nat /\ Len(ops') >= Len(ops)
      BY <1>0, <2>1
    <2> QED BY <1>0, <2>1, <2>2, <2>3, <2>4, <2>5, <2>6, StillMove
  <1>3. CASE \/ StartReturns(t) \/ Ask(t) \/ Answered(t)
             \/ Finish(t) \/ RemoveTask(t) \/ Complete(t)
             \/ CompactStart(t) \/ CompactOk(t) \/ CompactFail(t) \/ Die(t)
    <2>1. UNCHANGED <<arg, kind, item, held, pending_input, pending_user_input, logged, ops>>
      BY <1>3 DEF StartReturns, Ask, Answered, Finish, RemoveTask, Complete, CompactStart,
                  CompactOk, CompactFail, Die,
                  starts, turns, queues
    <2>2. \E to \in {"model", "asking", "remove", "complete", "followup", "done", "returned", "dead"} :
             pc' = [pc EXCEPT ![t] = to]
      BY <1>3 DEF StartReturns, Ask, Answered, Finish, RemoveTask, Complete, CompactStart,
                  CompactOk, CompactFail, Die, Goto
    <2>3. PICK to : to \in {"model", "asking", "remove", "complete", "followup", "done", "returned", "dead"}
                    /\ pc' = [pc EXCEPT ![t] = to]
      BY <2>2
    <2>4. to # "start" /\ to # "record" /\ to \notin WantPc
      BY <2>3 DEF WantPc
    <2>5. Len(ops') \in Nat /\ Len(ops') >= Len(ops)
      BY <1>0, <2>1
    <2> QED BY <1>0, <2>1, <2>3, <2>4, <2>5, StillMove
  <1> QED BY <1>1, <1>2, <1>3

LEMMA FollowUpRecords ==
    ASSUME TypeOK, Plain, RecordInv, NEW t \in Tasks, FollowUp(t)
    PROVE  RecordInv'
  <1>1. UNCHANGED <<kind, item, held, logged, ops>> /\ t \in Procs
    BY DEF FollowUp, turns, Procs
  <1>2. Len(ops') \in Nat /\ Len(ops') >= Len(ops)
    BY <1>1 DEF TypeOK
  <1>3. \/ /\ pending_user_input # <<>>
           /\ pending_user_input' = Tail(pending_user_input)
           /\ pc' = [pc EXCEPT ![t] = "hooks"]
           /\ arg' = [arg EXCEPT ![t] = [kind |-> "user", item |-> Head(pending_user_input)]]
           /\ pending_input' = pending_input
        \/ /\ UNCHANGED <<pending_user_input, pending_input>>
           /\ \E k \in {"compact", "pending"}, to \in {"idle_check", "spawn"} :
                 /\ pc' = [pc EXCEPT ![t] = to]
                 /\ arg' = [arg EXCEPT ![t] = [kind |-> k, item |-> NoInput]]
        \/ /\ UNCHANGED <<pending_user_input, pending_input>>
           /\ pc' = [pc EXCEPT ![t] = "done"] /\ arg' = arg
    BY DEF FollowUp, queues, Plain
  <1>4. CASE /\ pending_user_input # <<>>
             /\ pending_user_input' = Tail(pending_user_input)
             /\ pc' = [pc EXCEPT ![t] = "hooks"]
             /\ arg' = [arg EXCEPT ![t] = [kind |-> "user", item |-> Head(pending_user_input)]]
             /\ pending_input' = pending_input
    BY <1>1, <1>4, RecordsTake
  <1>5. ASSUME NEW k \in {"compact", "pending"}, NEW to \in {"idle_check", "spawn"},
               UNCHANGED <<pending_user_input, pending_input>>,
               pc' = [pc EXCEPT ![t] = to],
               arg' = [arg EXCEPT ![t] = [kind |-> k, item |-> NoInput]]
        PROVE  RecordInv'
    <2>1. /\ \A q \in Procs : q # t => arg'[q] = arg[q]
          /\ arg'[t].kind # "user"
      BY <1>1, <1>5 DEF TypeOK
    <2> QED BY <1>1, <1>2, <1>5, <2>1, StillMove
  <1>6. CASE /\ UNCHANGED <<pending_user_input, pending_input>>
             /\ pc' = [pc EXCEPT ![t] = "done"] /\ arg' = arg
    <2>1. "done" \notin WantPc
      BY DEF WantPc
    <2> QED BY <1>1, <1>2, <1>6, <2>1, StillMove
  <1> QED BY <1>3, <1>4, <1>5, <1>6

LEMMA RecordStep ==
    ASSUME NoCopies, TypeOK, TurnInv, Plain, RecordInv, [Next]_vars
    PROVE  RecordInv'
  <1>0. Loop \in Procs /\ Wake \in Procs /\ Purposes /\ \A t \in Tasks : t \in Procs
    BY DEF Procs, TurnInv
  <1>1. ASSUME NEW n \in Inputs, Submit(n) PROVE RecordInv'
    BY <1>1, SubmitRecords
  <1>2. ASSUME UNCHANGED <<pc, arg, kind, item, held, pending_input, pending_user_input,
                           logged, ops>>
        PROVE  RecordInv'
    <2>1. Len(ops') \in Nat /\ Len(ops') >= Len(ops)
      BY <1>2 DEF TypeOK
    <2> QED BY <1>2, <2>1, StillStand
  <1>3. ASSUME NEW n \in Inputs, RunInterrupt(n) PROVE RecordInv'
    BY <1>2, <1>3 DEF RunInterrupt, queues, starts, turns
  <1>10. ASSUME NEW n \in Inputs, NEW t \in Tasks, CancelTaken(n, t) PROVE RecordInv'
    BY <1>2, <1>10 DEF CancelTaken, queues, starts, turns
  <1>4. ASSUME QueuePush PROVE RecordInv'
    BY <1>4, RecordsPush
  <1>5. ASSUME PostIdle \/ CompactQueue PROVE RecordInv'
    <2>1. /\ pc' = [pc EXCEPT ![Loop] = "recv"]
          /\ UNCHANGED <<arg, kind, item, held, pending_input, pending_user_input, logged, ops>>
      BY <1>5 DEF PostIdle, CompactQueue, Goto, queues, starts, turns, Plain
    <2>2. "recv" \notin WantPc
      BY DEF WantPc
    <2>3. Len(ops') \in Nat /\ Len(ops') >= Len(ops)
      BY <2>1 DEF TypeOK
    <2> QED BY <1>0, <2>1, <2>2, <2>3, StillMove
  <1>6. ASSUME NEW p \in Procs, StartTurn(p) PROVE RecordInv'
    BY <1>0, <1>6, StartRecords
  <1>7. ASSUME NEW t \in Tasks, TaskStep(t) \/ Answered(t) PROVE RecordInv'
    BY <1>0, <1>7, StartRecords, TaskRecords, FollowUpRecords DEF TaskStep
  <1>8. ASSUME NEW t \in Tasks, Notify(t) PROVE RecordInv'
    BY <1>2, <1>8 DEF Notify, queues, starts, turns
  <1>9. CASE UNCHANGED vars
    BY <1>2, <1>9 DEF vars, queues, starts, turns
  <1> QED BY <1>0, <1>1, <1>3, <1>4, <1>5, <1>6, <1>7, <1>8, <1>9, <1>10
          DEF Next, AbortStep, LoopStep

\* Without reviews and post-turn input no input gets into the history twice, for
\* any set of tasks and whatever else the clients send: every input is in one
\* queue, with one process, with one turn or in the history, whoever aborts or
\* overtakes the turn that has it.
THEOREM RecordedOnce == NoCopies => (Spec => []NoDuplicateRecords)
  <1> SUFFICES ASSUME NoCopies PROVE Spec => []NoDuplicateRecords
    OBVIOUS
  <1>1. Init => TurnInv
    BY TurnStart
  <1>2. Init => Plain /\ RecordInv
    <2> SUFFICES ASSUME Init PROVE Plain /\ RecordInv
      OBVIOUS
    <2>1. \A t \in Tasks : t \in Procs
      BY DEF Procs
    <2>2. Plain
      BY <2>1 DEF Init, Plain, NoTurn
    <2>3. /\ \A p \in Procs : pc[p] \in {"unborn", "recv"}
          /\ pending_input = <<>> /\ pending_user_input = <<>>
          /\ \A n \in Inputs : ~(logged[n] > 0) /\ logged[n] < 2
      BY DEF Init
    <2>4. ASSUME NEW n \in Inputs, NEW x, At(n, x) PROVE x = Place("none", None)
      <3>1. ~InSeq(n, pending_input) /\ ~InSeq(n, pending_user_input)
        BY <2>3, InEmpty
      <3>2. /\ \A p \in Procs : ~Wants(n, p)
            /\ \A t \in Tasks : ~Starting(n, t) /\ ~Holds(n, t)
        BY <2>1, <2>3 DEF Wants, WantPc, Starting, Holds
      <3> QED BY <2>3, <2>4, <3>1, <3>2 DEF At
    <2>5. OnePlace
      BY <2>4 DEF OnePlace
    <2>6. Distinct(pending_user_input)
      BY <2>3 DEF Distinct
    <2> QED BY <2>2, <2>3, <2>5, <2>6 DEF RecordInv, NoDuplicateRecords
  <1>3. TypeOK /\ TurnInv /\ Plain /\ RecordInv /\ [Next]_vars => Plain' /\ RecordInv'
    BY PlainStep, RecordStep
  <1>4. RecordInv => NoDuplicateRecords
    BY DEF RecordInv
  <1> QED BY <1>1, <1>2, <1>3, <1>4, TurnStep, TypeCorrect, PTL DEF Spec
============================================================================
