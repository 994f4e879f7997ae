------------------------- MODULE AgentManagerProofs -------------------------
(***************************************************************************)
(* Proofs about AgentManager, for any number of agents and any caps.       *)
(***************************************************************************)
EXTENDS AgentManager, FiniteSetTheorems, SequenceTheorems, WellFoundedInduction, TLAPS

----------------------------------------------------------------------------
(* Sequences: what the two recursive functions of the model compute.       *)

\* A non-empty set of natural numbers has a least element: induction, in the form
\* that the proofs below use it.
LEMMA LeastNatural ==
    ASSUME NEW T, T \subseteq Nat, T # {}
    PROVE  \E x \in T : \A y \in T : x <= y
  <1> DEFINE R == OpToRel(<, Nat)
  <1>1. IsWellFoundedOn(R, Nat)
    BY NatLessThanWellFounded
  <1>2. \A x, y \in Nat : y < x => <<y, x>> \in R
    BY DEF OpToRel
  <1> HIDE DEF R
  <1>3. \E x \in T : \A y \in T : ~(<<y, x>> \in R)
    BY <1>1, WFMin
  <1>4. PICK x \in T : \A y \in T : ~(<<y, x>> \in R)
    BY <1>3
  <1>5. ASSUME NEW y \in T
        PROVE  x <= y
    <2>1. x \in Nat /\ y \in Nat /\ ~(<<y, x>> \in R)
      BY <1>4
    <2>2. ~(y < x)
      BY <1>2, <2>1
    <2> QED BY <2>1, <2>2
  <1> QED BY <1>5

\* g is the recursive function on 0..n that starts with a.
Iterates(g, A, n, a, step) ==
    g \in [0..n -> A] /\ g[0] = a /\ \A i \in 1..n : g[i] = step[i][g[i - 1]]

\* It exists: every step has a value to start from.
LEMMA IterationExists ==
    ASSUME NEW A, NEW n \in Nat, NEW a \in A, NEW step \in [1..n -> [A -> A]]
    PROVE  \E g : Iterates(g, A, n, a, step)
  <1> DEFINE Steps(g, m) == g[0] = a /\ \A i \in 1..m : g[i] = step[i][g[i - 1]]
             Bad == {m \in 0..n : ~\E g \in [0..m -> A] : Steps(g, m)}
  <1>1. Bad = {}
    <2>1. SUFFICES ASSUME Bad # {}
                   PROVE  FALSE
      OBVIOUS
    <2>2. PICK m \in Bad : \A l \in Bad : m <= l
      <3>1. Bad \subseteq Nat
        OBVIOUS
      <3> HIDE DEF Bad
      <3> QED BY <2>1, <3>1, LeastNatural
    <2>3. m # 0
      <3> DEFINE g == [i \in 0..0 |-> a]
      <3>1. g \in [0..0 -> A] /\ g[0] = a
        OBVIOUS
      <3>2. Steps(g, 0)
        BY <3>1
      <3> QED BY <2>2, <3>1, <3>2
    <2>4. /\ m \in 1..n /\ m - 1 \in 0..n /\ ~(m <= m - 1)
          /\ m - 1 \in 0..m - 1 /\ 0 \in 0..m - 1
      BY <2>2, <2>3
    <2>5. m - 1 \notin Bad
      <3> HIDE DEF Bad
      <3> QED BY <2>2, <2>4
    <2>6. PICK g \in [0..m - 1 -> A] : Steps(g, m - 1)
      BY <2>4, <2>5
    <2> DEFINE e == step[m][g[m - 1]]
               h == [i \in 0..m |-> IF i = m THEN e ELSE g[i]]
    <2>7. e \in A
      BY <2>4, <2>6
    <2> HIDE DEF e
    <2>8. \A i \in 0..m : i # m => i \in 0..m - 1
      BY <2>4
    <2>9. h \in [0..m -> A]
      BY <2>6, <2>7, <2>8
    <2>10. h[m] = e /\ \A i \in 0..m - 1 : h[i] = g[i]
      BY <2>4
    <2> HIDE DEF h
    <2>11. ASSUME NEW i \in 1..m
           PROVE  h[i] = step[i][h[i - 1]]
      <3>1. CASE i = m
        BY <2>4, <2>10, <3>1 DEF e
      <3>2. CASE i # m
        <4>1. i \in 1..m - 1 /\ i \in 0..m - 1 /\ i - 1 \in 0..m - 1
          BY <2>4, <3>2
        <4> QED BY <2>6, <2>10, <4>1
      <3> QED BY <3>1, <3>2
    <2>12. Steps(h, m)
      BY <2>4, <2>6, <2>10, <2>11
    <2> QED BY <2>2, <2>9, <2>12
  <1>2. n \in 0..n
    OBVIOUS
  <1>3. PICK g \in [0..n -> A] : Steps(g, n)
    BY <1>1, <1>2
  <1>4. Iterates(g, A, n, a, step)
    BY <1>3 DEF Iterates
  <1> QED BY <1>4

\* What holds at 0 and is kept by every step holds up to n.
LEMMA Iteration ==
    ASSUME NEW n \in Nat, NEW P, 0 \in P, \A i \in 1..n : i - 1 \in P => i \in P
    PROVE  0..n \subseteq P
  <1> DEFINE Bad == 0..n \ P
  <1>1. SUFFICES ASSUME Bad # {}
                 PROVE  FALSE
    OBVIOUS
  <1>2. PICK m \in Bad : \A l \in Bad : m <= l
    <2>1. Bad \subseteq Nat
      OBVIOUS
    <2> HIDE DEF Bad
    <2> QED BY <1>1, <2>1, LeastNatural
  <1>3. m \in 1..n /\ m - 1 \in 0..n /\ ~(m <= m - 1) /\ m \notin P
    BY <1>2
  <1>4. m - 1 \notin Bad
    <2> HIDE DEF Bad
    <2> QED BY <1>2, <1>3
  <1> QED BY <1>3, <1>4

\* One step of Without, the function that it builds, and the steps of that function.
Keep(v, e, S) == IF e \in S THEN v ELSE Append(v, e)
KeepFrom(f, n, s, S) ==
    [i \in 0..n |-> IF i = 0 THEN <<>>
                    ELSE IF s[i] \in S THEN f[i - 1] ELSE Append(f[i - 1], s[i])]
KeepSteps(g, A, n, s, S) ==
    g \in [0..n -> A] /\ g[0] = <<>> /\ \A i \in 1..n : g[i] = Keep(g[i - 1], s[i], S)

LEMMA KeepType ==
    ASSUME NEW X, NEW v \in Seq(X), NEW e \in X, NEW S
    PROVE  Keep(v, e, S) \in Seq(X)
  <1>1. Append(v, e) \in Seq(X)
    OBVIOUS
  <1> QED BY <1>1 DEF Keep

\* The function that Without builds exists.
LEMMA KeepExists ==
    ASSUME NEW X, NEW n \in Nat, NEW s \in [1..n -> X], NEW S
    PROVE  \E g : g = KeepFrom(g, n, s, S)
  <1>1. PICK A : A = Seq(X)
    OBVIOUS
  <1>2. PICK e \in A : e = <<>>
    <2>1. <<>> \in Seq(X)
      OBVIOUS
    <2> QED BY <1>1, <2>1
  <1> DEFINE step == [i \in 1..n |-> [v \in A |-> Keep(v, s[i], S)]]
  <1>3. \A i \in 1..n : \A v \in A : Keep(v, s[i], S) \in A
    BY <1>1, KeepType
  <1>4. step \in [1..n -> [A -> A]]
    BY <1>3
  <1>step. \A i \in 1..n : \A v \in A : step[i][v] = Keep(v, s[i], S)
    BY <1>3
  <1> HIDE DEF step
  <1>it. \E g : Iterates(g, A, n, e, step)
    BY <1>4, IterationExists
  <1>5. PICK g \in [0..n -> A] : g[0] = e /\ \A i \in 1..n : g[i] = step[i][g[i - 1]]
    BY <1>it DEF Iterates
  <1>6. ASSUME NEW i \in 0..n
        PROVE  g[i] = IF i = 0 THEN <<>> ELSE Keep(g[i - 1], s[i], S)
    <2>1. i = 0 \/ (i \in 1..n /\ i - 1 \in 0..n /\ i # 0)
      OBVIOUS
    <2> QED BY <1>2, <1>step, <1>5, <2>1
  <1>7. g = [i \in 0..n |-> g[i]]
    BY <1>5
  <1>8. g = [i \in 0..n |-> IF i = 0 THEN <<>> ELSE Keep(g[i - 1], s[i], S)]
    BY <1>6, <1>7
  <1>9. g = KeepFrom(g, n, s, S)
    BY <1>8 DEF KeepFrom, Keep
  <1> QED BY <1>9

\* It consists of sequences over X.
LEMMA KeepFixed ==
    ASSUME NEW X, NEW n \in Nat, NEW s \in [1..n -> X], NEW S,
           NEW f, f = KeepFrom(f, n, s, S)
    PROVE  KeepSteps(f, Seq(X), n, s, S)
  <1>1. f = [i \in 0..n |-> IF i = 0 THEN <<>> ELSE Keep(f[i - 1], s[i], S)]
    BY DEF KeepFrom, Keep
  <1>2. 0 \in 0..n /\ \A i \in 1..n : i \in 0..n /\ i # 0
    OBVIOUS
  <1>3. f[0] = <<>> /\ \A i \in 1..n : f[i] = Keep(f[i - 1], s[i], S)
    BY <1>1, <1>2
  <1>4. f = [i \in 0..n |-> f[i]]
    BY <1>1
  <1> DEFINE P == {i \in 0..n : f[i] \in Seq(X)}
  <1>5. 0 \in P
    <2>1. <<>> \in Seq(X)
      OBVIOUS
    <2> QED BY <1>2, <1>3, <2>1
  <1>6. ASSUME NEW i \in 1..n, i - 1 \in P
        PROVE  i \in P
    <2>1. i \in 0..n /\ f[i - 1] \in Seq(X) /\ s[i] \in X /\ f[i] = Keep(f[i - 1], s[i], S)
      BY <1>2, <1>3, <1>6
    <2>2. f[i] \in Seq(X)
      BY <2>1, KeepType
    <2> QED BY <2>1, <2>2
  <1>7. 0..n \subseteq P
    <2> HIDE DEF P
    <2> QED BY <1>5, <1>6, Iteration
  <1>8. f \in [0..n -> Seq(X)]
    BY <1>4, <1>7
  <1> QED BY <1>3, <1>8 DEF KeepSteps

\* So Without computes its recursion.
LEMMA WithoutDef ==
    ASSUME NEW X, NEW s \in Seq(X), NEW S
    PROVE  \E g : KeepSteps(g, Seq(X), Len(s), s, S) /\ Without(s, S) = g[Len(s)]
  <1> DEFINE kept == CHOOSE f : f = KeepFrom(f, Len(s), s, S)
  <1>1. Without(s, S) = kept[Len(s)]
    BY DEF Without, KeepFrom
  <1>2. Len(s) \in Nat /\ s \in [1..Len(s) -> X]
    OBVIOUS
  <1>3. \E g : g = KeepFrom(g, Len(s), s, S)
    BY <1>2, KeepExists
  <1>4. kept = KeepFrom(kept, Len(s), s, S)
    BY <1>3
  <1> HIDE DEF kept
  <1>5. KeepSteps(kept, Seq(X), Len(s), s, S)
    BY <1>2, <1>4, KeepFixed
  <1> QED BY <1>1, <1>5

\* Without keeps the type, and a last element that is not to go.
LEMMA WithoutFacts ==
    ASSUME NEW X, NEW s \in Seq(X), NEW S
    PROVE  /\ Without(s, S) \in Seq(X)
           /\ s # <<>> /\ s[Len(s)] \notin S =>
                 /\ Without(s, S) # <<>>
                 /\ Without(s, S)[Len(Without(s, S))] = s[Len(s)]
  <1>1. PICK g : KeepSteps(g, Seq(X), Len(s), s, S) /\ Without(s, S) = g[Len(s)]
    BY WithoutDef
  <1>2. PICK n \in Nat : n = Len(s)
    OBVIOUS
  <1>3. g \in [0..n -> Seq(X)] /\ Without(s, S) = g[n]
    BY <1>1, <1>2 DEF KeepSteps
  <1>4. Without(s, S) \in Seq(X)
    BY <1>3
  <1>5. ASSUME s # <<>>, s[Len(s)] \notin S
        PROVE  /\ Without(s, S) # <<>>
               /\ Without(s, S)[Len(Without(s, S))] = s[Len(s)]
    <2>1. n \in 1..n /\ n - 1 \in 0..n /\ s[n] \in X
      BY <1>2, <1>5
    <2>2. PICK w \in Seq(X) : w = g[n - 1]
      BY <1>3, <2>1
    <2>3. g[n] = Keep(g[n - 1], s[n], S)
      BY <1>1, <1>2, <2>1 DEF KeepSteps
    <2>4. Without(s, S) = Append(w, s[n])
      BY <1>2, <1>3, <1>5, <2>2, <2>3 DEF Keep
    <2> QED BY <1>2, <2>1, <2>2, <2>4
  <1> QED BY <1>4, <1>5

----------------------------------------------------------------------------
(* The inductive invariant. *)

\* Agents and batches are numbered by creation, so the next numbers are free.
Numbered ==
    \E k \in 0..MaxAgents : \E m \in 0..k :
        Created = 1..k /\ {batch_id[a] : a \in Created} = 1..m

\* Nothing is known of an agent that was not created.
Unborn ==
    \A a \in Agents : batch_id[a] = 0 =>
        /\ status[a] = "none" /\ place[a] = "none" /\ pc[a] = "unborn"
        /\ a \notin handles /\ a \notin aborted

\* A task that has not started yet can be cancelled, or was told to abort.
NewIsHeld ==
    \A a \in Agents : pc[a] = "new" /\ place[a] = "live" => a \in handles \/ a \in aborted

\* Only the task itself completes its agent, as its last step.
CompletedIsOver == \A a \in Agents : status[a] = "completed" => pc[a] \in Over

\* The session was woken for b, or an update on its way shows b as ended.
Announced(b) == told[b] > 0 \/ \E i \in DOMAIN updates : b \in updates[i]

\* An announced batch was created and has ended, but for aborted tasks.
AnnouncedHasEnded ==
    \A b \in Batches : Announced(b) =>
        Members(b) # {} /\ Members(b) \cap Running \subseteq aborted

\* A batch whose last agent ended by itself is announced, and the session remembers
\* no wake that it did not have.
DueIsAnnounced == \A b \in due : Announced(b)
WokenWasTold == \A i \in DOMAIN woken : told[woken[i]] > 0

AgentInv ==
    /\ TypeOK
    /\ Numbered
    /\ Unborn
    /\ CancellableWhileActive
    /\ NewIsHeld
    /\ CompletedIsOver
    /\ AnnouncedHasEnded
    /\ DueIsAnnounced
    /\ WokenWasTold

----------------------------------------------------------------------------
(* What the shared parts of the actions do. *)

\* An enumeration of a set of agents or of batches: each element once.
LEMMA EnumerationFacts ==
    ASSUME NEW S, S \subseteq 1..MaxAgents, NEW order \in SetToSeqs(S)
    PROVE  /\ order \in Seq(S)
           /\ \A i, j \in 1..Len(order) : i # j => order[i] # order[j]
           /\ \A x \in S : \E i \in 1..Len(order) : order[i] = x
  <1>1. MaxAgents \in Nat
    BY AgentManagerAssumption
  <1>2. IsFiniteSet(S)
    <2>1. 1 \in Int /\ MaxAgents \in Int
      BY <1>1
    <2>2. IsFiniteSet(1..MaxAgents)
      BY <2>1, FS_Interval
    <2> QED BY <2>2, FS_Subset
  <1>3. PICK n \in Nat : n = Cardinality(S)
    BY <1>2, FS_CardinalityType
  <1>4. order \in [1..n -> S] /\ \A i, j \in 1..n : i # j => order[i] # order[j]
    BY <1>3 DEF SetToSeqs
  <1>5. order \in Seq(S) /\ Len(order) = n
    BY <1>3, <1>4
  <1>6. Cardinality(1..n) = n
    BY <1>3, FS_Interval
  <1>7. order \in Injection(1..n, S)
    BY <1>4 DEF Injection, IsInjective
  <1>8. order \in Surjection(1..n, S)
    BY <1>2, <1>3, <1>6, <1>7, FS_Injection
  <1>9. \A x \in S : \E i \in 1..n : order[i] = x
    BY <1>8 DEF Surjection
  <1> QED BY <1>4, <1>5, <1>9

\* The one that ended last is among the most recent.
LEMMA LastIsRecent ==
    ASSUME NEW X, NEW s \in Seq(X), s # <<>>, NEW T, s[Len(s)] \in T, NEW n \in Nat \ {0}
    PROVE  s[Len(s)] \in MostRecent(s, T, n)
  <1>1. Len(s) \in DOMAIN s /\ \A j \in DOMAIN s : ~(j > Len(s))
    OBVIOUS
  <1>2. {j \in DOMAIN s : j > Len(s) /\ s[j] \in T} = {}
    BY <1>1
  <1>3. Cardinality({j \in DOMAIN s : j > Len(s) /\ s[j] \in T}) < n
    <2>1. Cardinality({}) = 0
      BY FS_EmptySet
    <2>2. Cardinality({j \in DOMAIN s : j > Len(s) /\ s[j] \in T}) = 0
      BY <1>2, <2>1
    <2> QED BY <2>2
  <1> QED BY <1>1, <1>3 DEF MostRecent

LEMMA ConcatLast ==
    ASSUME NEW X, NEW w \in Seq(X), NEW o \in Seq(X), Len(o) = 1
    PROVE  w \o o # <<>> /\ (w \o o)[Len(w \o o)] = o[1]
  <1> DEFINE c == w \o o
             n == Len(w)
  <1>1. /\ c \in Seq(X) /\ Len(c) = n + Len(o)
        /\ \A i \in 1..n + Len(o) : c[i] = IF i <= n THEN w[i] ELSE o[i - n]
    BY ConcatProperties
  <1>2. n \in Nat
    OBVIOUS
  <1> HIDE DEF c, n
  <1>3. n + 1 \in 1..n + Len(o) /\ ~(n + 1 <= n) /\ (n + 1) - n = 1 /\ Len(c) = n + 1
    BY <1>1, <1>2
  <1>4. c[n + 1] = o[1]
    BY <1>1, <1>3
  <1>5. c # <<>>
    BY <1>2, <1>3
  <1> QED BY <1>3, <1>4, <1>5 DEF c

\* Agents that get a terminal status lose their handles, and some terminal agents
\* are archived; an agent that ends alone is the last one of the list.
LEMMA FinalizeEffect ==
    ASSUME ended \in Seq(Agents), handles \subseteq Agents,
           NEW S \in SUBSET Agents, NEW to \in Terminal, finalize_terminal_agents(S, to)
    PROVE  \E pruned \in SUBSET Agents :
              /\ batch_id' = batch_id
              /\ status' = [a \in Agents |-> IF a \in S THEN to ELSE status[a]]
              /\ place' = [a \in Agents |-> IF a \in pruned THEN "archived" ELSE place[a]]
              /\ handles' = handles \ (S \cup pruned)
              /\ \A a \in pruned : status'[a] \in Terminal
              /\ ended' \in Seq(Agents)
              /\ \A a \in S : S = {a} => ended' # <<>> /\ ended'[Len(ended')] = a
  <1> DEFINE st == [a \in Agents |-> IF a \in S THEN to ELSE status[a]]
             All(order) == Without(ended, S) \o order
             Pruned(order) == (Range(All(order)) \cap TerminalIn(st))
                              \ MostRecent(All(order), TerminalIn(st), MaxTracked)
  <1>1. PICK order \in SetToSeqs(S) :
           /\ batch_id' = batch_id
           /\ status' = st
           /\ ended' = Without(All(order), Pruned(order))
           /\ place' = [a \in Agents |-> IF a \in Pruned(order) THEN "archived" ELSE place[a]]
           /\ handles' = handles \ (S \cup Pruned(order))
    BY DEF finalize_terminal_agents
  <1>2. /\ order \in Seq(S)
        /\ \A i, j \in 1..Len(order) : i # j => order[i] # order[j]
        /\ \A x \in S : \E i \in 1..Len(order) : order[i] = x
    BY EnumerationFacts DEF Agents
  <1>3. Without(ended, S) \in Seq(Agents)
    BY WithoutFacts
  <1>4. PICK all \in Seq(Agents) : all = All(order)
    <2>1. order \in Seq(Agents)
      BY <1>2
    <2>2. PICK w \in Seq(Agents) : w = Without(ended, S)
      BY <1>3
    <2>3. w \o order \in Seq(Agents)
      BY <2>1
    <2> QED BY <2>2, <2>3
  <1>5. PICK pruned : pruned = (Range(all) \cap TerminalIn(st)) \ MostRecent(all, TerminalIn(st), MaxTracked)
    OBVIOUS
  <1>6. /\ status' = st
        /\ ended' = Without(all, pruned)
        /\ place' = [a \in Agents |-> IF a \in pruned THEN "archived" ELSE place[a]]
        /\ handles' = handles \ (S \cup pruned)
    BY <1>1, <1>4, <1>5
  <1>7. pruned \subseteq Agents /\ \A a \in pruned : status'[a] \in Terminal
    BY <1>5, <1>6 DEF TerminalIn
  <1>8. ended' \in Seq(Agents)
    BY <1>6, WithoutFacts
  <1>9. ASSUME NEW a \in S, S = {a}
        PROVE  ended' # <<>> /\ ended'[Len(ended')] = a
    <2>1. Len(order) = 1 /\ order[1] = a
      <3>1. PICK l \in Nat : l = Len(order)
        BY <1>2
      <3>2. \A i \in 1..l : order[i] = a
        BY <1>2, <1>9, <3>1
      <3>3. \E i \in 1..l : order[i] = a
        BY <1>2, <3>1
      <3>4. ~(l > 1)
        <4>1. l > 1 => 1 \in 1..l /\ 2 \in 1..l /\ 1 # 2
          OBVIOUS
        <4> QED BY <1>2, <3>1, <3>2, <4>1
      <3>5. l = 1
        BY <3>3, <3>4
      <3> QED BY <3>1, <3>2, <3>5
    <2>2. all # <<>> /\ all[Len(all)] = a
      <3>1. PICK w \in Seq(Agents) : w = Without(ended, S)
        BY <1>3
      <3>2. order \in Seq(Agents)
        BY <1>2
      <3>3. w \o order # <<>> /\ (w \o order)[Len(w \o order)] = order[1]
        BY <2>1, <3>2, ConcatLast
      <3> QED BY <1>4, <2>1, <3>1, <3>3
    <2>3. a \in TerminalIn(st)
      BY <1>9 DEF TerminalIn
    <2>4. MaxTracked \in Nat \ {0}
      BY AgentManagerAssumption
    <2>5. a \notin pruned
      <3>1. all[Len(all)] \in MostRecent(all, TerminalIn(st), MaxTracked)
        BY <2>2, <2>3, <2>4, LastIsRecent
      <3> QED BY <1>5, <2>2, <3>1
    <2> QED BY <1>6, <2>2, <2>5, WithoutFacts
  <1> QED BY <1>1, <1>6, <1>7, <1>8, <1>9

\* An update shows a batch as ended only when it has a member and none that runs.
LEMMA ShownHasEnded ==
    ASSUME NEW b \in EndedBatches'
    PROVE  b \in Batches /\ Members(b)' # {} /\ Members(b)' \cap Running' = {}
  <1>1. /\ b \in Batches
        /\ \E a \in MostRecent(ended', TerminalIn(status'), MaxVisible) : batch_id'[a] = b
        /\ \A a \in Running' : batch_id'[a] # b
    BY DEF EndedBatches
  <1>2. MostRecent(ended', TerminalIn(status'), MaxVisible) \subseteq Agents
    BY DEF MostRecent, TerminalIn
  <1> QED BY <1>1, <1>2 DEF Members

\* An update is added at the end of the channel, unless it shows nothing.
LEMMA SendEffect ==
    ASSUME updates \in Seq(SUBSET Batches), send_agent_status_update
    PROVE  /\ updates' \in Seq(SUBSET Batches)
           /\ \A b \in Batches : (\E i \in DOMAIN updates : b \in updates[i])
                                 => \E i \in DOMAIN updates' : b \in updates'[i]
           /\ \A b \in EndedBatches' : \E i \in DOMAIN updates' : b \in updates'[i]
           /\ \A b \in Batches : (\E i \in DOMAIN updates' : b \in updates'[i])
                                 => b \in EndedBatches' \/ \E i \in DOMAIN updates : b \in updates[i]
  <1>1. PICK E \in SUBSET Batches : E = EndedBatches'
    BY ShownHasEnded
  <1>2. CASE E = {}
    BY <1>1, <1>2 DEF send_agent_status_update
  <1>3. CASE E # {}
    <2>1. updates' = Append(updates, E)
      BY <1>1, <1>3 DEF send_agent_status_update
    <2>2. PICK n \in Nat : n = Len(updates)
      OBVIOUS
    <2>3. Append(updates, E) \in Seq(SUBSET Batches)
      OBVIOUS
    <2>4. /\ DOMAIN updates = 1..n /\ DOMAIN updates' = 1..n + 1
          /\ updates'[n + 1] = E /\ \A i \in 1..n : updates'[i] = updates[i]
      BY <2>1, <2>2
    <2>5. n + 1 \in 1..n + 1 /\ \A i \in 1..n + 1 : i \in 1..n \/ i = n + 1
      OBVIOUS
    <2>6. \A i \in 1..n : i \in 1..n + 1
      OBVIOUS
    <2> QED BY <1>1, <2>1, <2>3, <2>4, <2>5, <2>6
  <1> QED BY <1>2, <1>3

\* So an announcement lasts, and what is newly announced has ended.
LEMMA SendAnnounces ==
    ASSUME updates \in Seq(SUBSET Batches), send_agent_status_update, told' = told,
           \A b \in Batches : Announced(b) =>
               Members(b)' # {} /\ Members(b)' \cap Running' \subseteq aborted'
    PROVE  /\ AnnouncedHasEnded'
           /\ \A b \in Batches : Announced(b) => Announced(b)'
           /\ \A b \in EndedBatches' : Announced(b)'
  <1>1. /\ \A b \in Batches : (\E i \in DOMAIN updates : b \in updates[i])
                              => \E i \in DOMAIN updates' : b \in updates'[i]
        /\ \A b \in EndedBatches' : \E i \in DOMAIN updates' : b \in updates'[i]
        /\ \A b \in Batches : (\E i \in DOMAIN updates' : b \in updates'[i])
                              => b \in EndedBatches' \/ \E i \in DOMAIN updates : b \in updates[i]
    BY SendEffect
  <1>2. ASSUME NEW b \in Batches, Announced(b)'
        PROVE  Members(b)' # {} /\ Members(b)' \cap Running' \subseteq aborted'
    <2>1. Announced(b) \/ b \in EndedBatches'
      BY <1>1, <1>2 DEF Announced
    <2> QED BY <2>1, ShownHasEnded
  <1>3. AnnouncedHasEnded'
    BY <1>2 DEF AnnouncedHasEnded, Batches
  <1> QED BY <1>1, <1>3 DEF Announced

\* Whoever ends the agents S, the bookkeeping stays right.
LEMMA FinalizeKeeps ==
    ASSUME AgentInv, NEW S \in SUBSET Live, NEW to \in Terminal,
           finalize_terminal_agents(S, to),
           aborted \subseteq aborted', aborted' \subseteq aborted \cup S,
           pc' \in [Agents -> Stages],
           \A a \in Agents \ S : pc'[a] = pc[a],
           \A a \in S : pc'[a] \in {pc[a]} \cup Over /\ (pc'[a] = "new" => a \in aborted'),
           to = "completed" => \A a \in S : pc'[a] \in Over
    PROVE  /\ status' \in [Agents -> Active \cup Terminal \cup {"none"}]
           /\ place' \in [Agents -> {"none", "live", "archived"}]
           /\ batch_id' = batch_id /\ ended' \in Seq(Agents)
           /\ handles' \subseteq Agents /\ aborted' \subseteq Agents
           /\ \A a \in S : status'[a] = to
           /\ \A a \in Agents \ S : status'[a] = status[a]
           /\ Running' \subseteq Running
           /\ Numbered' /\ Unborn' /\ CancellableWhileActive' /\ NewIsHeld' /\ CompletedIsOver'
           /\ \A a \in S : S = {a} => ended' # <<>> /\ ended'[Len(ended')] = a
  <1> USE DEF AgentInv
  <1>1. /\ status \in [Agents -> Active \cup Terminal \cup {"none"}]
        /\ place \in [Agents -> {"none", "live", "archived"}]
        /\ ended \in Seq(Agents) /\ handles \subseteq Agents /\ aborted \subseteq Agents
    BY DEF TypeOK
  <1>2. S \in SUBSET Agents /\ \A a \in S : place[a] = "live"
    BY DEF Live
  <1>3. PICK pruned \in SUBSET Agents :
           /\ batch_id' = batch_id
           /\ status' = [a \in Agents |-> IF a \in S THEN to ELSE status[a]]
           /\ place' = [a \in Agents |-> IF a \in pruned THEN "archived" ELSE place[a]]
           /\ handles' = handles \ (S \cup pruned)
           /\ \A a \in pruned : status'[a] \in Terminal
           /\ ended' \in Seq(Agents)
           /\ \A a \in S : S = {a} => ended' # <<>> /\ ended'[Len(ended')] = a
    BY <1>1, <1>2, FinalizeEffect
  <1>4. \A a \in Agents : /\ status'[a] = IF a \in S THEN to ELSE status[a]
                          /\ place'[a] = IF a \in pruned THEN "archived" ELSE place[a]
    BY <1>3
  <1>5. /\ status' \in [Agents -> Active \cup Terminal \cup {"none"}]
        /\ place' \in [Agents -> {"none", "live", "archived"}]
    BY <1>1, <1>3
  <1>6. \A x \in Terminal : x \notin Active /\ x # "none"
    BY DEF Terminal, Active
  <1>7. ASSUME NEW a \in Running'
        PROVE  a \in Running /\ a \notin S /\ a \notin pruned
    <2>1. a \in Agents /\ place'[a] = "live" /\ status'[a] \in Active
      BY <1>7 DEF Running, Live
    <2>2. a \notin S /\ a \notin pruned
      BY <1>3, <1>4, <1>6, <2>1
    <2> QED BY <1>4, <2>1, <2>2 DEF Running, Live
  <1>8. Numbered'
    BY <1>3 DEF Numbered, Created
  <1>9. Unborn'
    <2>1. \A a \in Agents : batch_id[a] = 0 => a \notin S /\ a \notin pruned
      BY <1>2, <1>3, <1>4, <1>6 DEF Unborn
    <2> QED BY <1>3, <1>4, <2>1 DEF Unborn
  <1>10. CancellableWhileActive'
    <2>1. ASSUME NEW a \in handles'
          PROVE  place'[a] = "live" /\ status'[a] \in Active /\ a \notin aborted'
      <3>1. a \in handles /\ a \notin S /\ a \notin pruned /\ a \in Agents
        BY <1>1, <1>3, <2>1
      <3> QED BY <1>4, <3>1 DEF CancellableWhileActive
    <2>2. ASSUME NEW a \in Running'
          PROVE  a \in handles' \/ a \in aborted'
      BY <1>3, <1>7, <2>2 DEF CancellableWhileActive
    <2> QED BY <2>1, <2>2 DEF CancellableWhileActive
  <1>11. NewIsHeld'
    <2>1. ASSUME NEW a \in Agents, pc'[a] = "new", place'[a] = "live"
          PROVE  a \in handles' \/ a \in aborted'
      <3>1. CASE a \in S
        BY <2>1, <3>1
      <3>2. CASE a \notin S
        <4>1. pc[a] = "new" /\ place[a] = "live" /\ a \notin pruned
          BY <1>4, <2>1, <3>2
        <4> QED BY <1>3, <3>2, <4>1 DEF NewIsHeld
      <3> QED BY <3>1, <3>2
    <2> QED BY <2>1 DEF NewIsHeld
  <1>12. CompletedIsOver'
    <2>1. ASSUME NEW a \in Agents, status'[a] = "completed"
          PROVE  pc'[a] \in Over
      <3>1. CASE a \in S
        BY <1>4, <2>1, <3>1
      <3>2. CASE a \notin S
        BY <1>4, <2>1, <3>2 DEF CompletedIsOver
      <3> QED BY <3>1, <3>2
    <2> QED BY <2>1 DEF CompletedIsOver
  <1>13. aborted' \subseteq Agents /\ handles' \subseteq Agents
    BY <1>1, <1>2, <1>3
  <1>14. \A a \in S : status'[a] = to
    BY <1>2, <1>4
  <1> QED BY <1>3, <1>4, <1>5, <1>7, <1>8, <1>9, <1>10, <1>11, <1>12, <1>13, <1>14

----------------------------------------------------------------------------
(* The wakes that the session remembers. *)

Wakes == {w \in Seq(Batches) : Len(w) <= MaxWoken}

\* To remember b adds at most b and keeps the cap.
LEMMA RememberFacts ==
    ASSUME NEW w \in Wakes, NEW b \in Batches
    PROVE  Remember(w, b) \in Wakes /\ Range(Remember(w, b)) \subseteq Range(w) \cup {b}
  <1>1. CASE b \in Range(w)
    BY <1>1 DEF Remember
  <1>2. CASE b \notin Range(w)
    <2>1. MaxWoken \in Nat \ {0}
      BY AgentManagerAssumption
    <2>2. PICK n \in Nat : n = Len(w)
      BY DEF Wakes
    <2>3. w \in Seq(Batches) /\ n <= MaxWoken
      BY <2>2 DEF Wakes
    <2>4. PICK v \in Seq(Batches) : v = Append(w, b)
      <3>1. Append(w, b) \in Seq(Batches)
        BY <2>3
      <3> QED BY <3>1
    <2>5. Len(v) = n + 1 /\ v[n + 1] = b /\ \A i \in 1..n : v[i] = w[i]
      BY <2>2, <2>3, <2>4
    <2>6. \A i \in 1..n + 1 : v[i] \in Range(w) \cup {b} /\ v[i] \in Batches
      <3>1. \A i \in 1..n + 1 : i \in 1..n \/ i = n + 1
        OBVIOUS
      <3>2. \A i \in 1..n : w[i] \in Range(w) /\ w[i] \in Batches
        BY <2>2, <2>3 DEF Range
      <3> QED BY <2>5, <3>1, <3>2
    <2>7. PICK l \in Nat : l = Len(v)
      OBVIOUS
    <2>8. l = n + 1
      BY <2>5, <2>7
    <2>9. Remember(w, b) = IF l <= MaxWoken THEN v ELSE SubSeq(v, l - MaxWoken + 1, l)
      <3>1. Remember(w, b) = LastOf(v, MaxWoken)
        BY <1>2, <2>4 DEF Remember
      <3> QED BY <2>7, <3>1 DEF LastOf
    <2>10. \A i \in 1..l : v[i] \in Range(w) \cup {b} /\ v[i] \in Batches
      BY <2>6, <2>8
    <2>11. CASE l <= MaxWoken
      <3>1. Remember(w, b) = v
        BY <2>9, <2>11
      <3>2. DOMAIN v = 1..l
        BY <2>7
      <3> QED BY <2>7, <2>10, <2>11, <3>1, <3>2 DEF Wakes, Range
    <2>12. CASE ~(l <= MaxWoken)
      <3>1. PICK m \in Int : m = l - MaxWoken + 1
        BY <2>1
      <3>2. 1 <= m /\ m <= l /\ l - m + 1 = MaxWoken
        BY <2>1, <2>12, <3>1
      <3>3. PICK u : u = SubSeq(v, m, l)
        OBVIOUS
      <3>4. \A i \in m..l : v[i] \in Batches
        BY <2>10, <3>2
      <3>5. /\ u \in Seq(Batches)
            /\ Len(u) = IF m <= l THEN l - m + 1 ELSE 0
            /\ \A i \in 1..l - m + 1 : u[i] = v[m + i - 1]
        <4>1. l \in Int
          OBVIOUS
        <4> QED BY <3>3, <3>4, <4>1, SubSeqProperties
      <3>6. Len(u) = MaxWoken /\ DOMAIN u = 1..MaxWoken
        BY <3>2, <3>5
      <3>7. \A i \in 1..MaxWoken : u[i] \in Range(w) \cup {b}
        <4>1. \A i \in 1..MaxWoken : m + i - 1 \in 1..l
          BY <2>1, <3>2
        <4> QED BY <2>10, <3>2, <3>5, <4>1
      <3>8. u \in Wakes /\ Range(u) \subseteq Range(w) \cup {b}
        BY <2>1, <3>5, <3>6, <3>7 DEF Wakes, Range
      <3> QED BY <2>9, <2>12, <3>1, <3>3, <3>8
    <2> QED BY <2>11, <2>12
  <1> QED BY <1>1, <1>2

KnownFrom(f, n, w, order) ==
    [i \in 0..n |-> IF i = 0 THEN w ELSE Remember(f[i - 1], order[i])]

\* What is remembered after i batches was remembered before or is one of them.
LEMMA KnownFixed ==
    ASSUME NEW w \in Wakes, NEW n \in Nat, NEW order \in [1..n -> Batches],
           NEW f, f = KnownFrom(f, n, w, order)
    PROVE  \A i \in 0..n : /\ f[i] \in Wakes
                           /\ Range(f[i]) \subseteq Range(w) \cup {order[j] : j \in 1..i}
  <1>1. 0 \in 0..n /\ \A i \in 1..n : i \in 0..n /\ i # 0
    OBVIOUS
  <1>2. f[0] = w /\ \A i \in 1..n : f[i] = Remember(f[i - 1], order[i])
    BY <1>1 DEF KnownFrom
  <1> DEFINE Good(i) == f[i] \in Wakes /\ Range(f[i]) \subseteq Range(w) \cup {order[j] : j \in 1..i}
             P == {i \in 0..n : Good(i)}
  <1>3. 0 \in P
    BY <1>1, <1>2
  <1>4. ASSUME NEW i \in 1..n, i - 1 \in P
        PROVE  i \in P
    <2>1. Good(i - 1)
      BY <1>4
    <2>2. f[i] \in Wakes /\ Range(f[i]) \subseteq Range(f[i - 1]) \cup {order[i]}
      <3>1. order[i] \in Batches
        OBVIOUS
      <3> QED BY <1>2, <2>1, <3>1, RememberFacts
    <2>3. \A j \in 1..i - 1 : j \in 1..i
      OBVIOUS
    <2>4. i \in 1..i
      OBVIOUS
    <2>5. Good(i)
      BY <2>1, <2>2, <2>3, <2>4
    <2> QED BY <1>1, <2>5
  <1>5. 0..n \subseteq P
    <2> HIDE DEF P
    <2> QED BY <1>3, <1>4, Iteration
  <1> QED BY <1>5

LEMMA KnownExists ==
    ASSUME NEW w \in Wakes, NEW n \in Nat, NEW order \in [1..n -> Batches]
    PROVE  \E f : f = KnownFrom(f, n, w, order)
  <1> DEFINE step == [i \in 1..n |-> [v \in Wakes |-> Remember(v, order[i])]]
  <1>1. \A i \in 1..n : \A v \in Wakes : Remember(v, order[i]) \in Wakes
    <2> TAKE i \in 1..n
    <2> TAKE v \in Wakes
    <2>1. order[i] \in Batches
      OBVIOUS
    <2> QED BY <2>1, RememberFacts
  <1>2. step \in [1..n -> [Wakes -> Wakes]]
    BY <1>1
  <1>3. \A i \in 1..n : \A v \in Wakes : step[i][v] = Remember(v, order[i])
    OBVIOUS
  <1> HIDE DEF step
  <1>4. \E g : Iterates(g, Wakes, n, w, step)
    BY <1>2, IterationExists
  <1>5. PICK g \in [0..n -> Wakes] : g[0] = w /\ \A i \in 1..n : g[i] = step[i][g[i - 1]]
    BY <1>4 DEF Iterates
  <1>6. ASSUME NEW i \in 0..n
        PROVE  g[i] = IF i = 0 THEN w ELSE Remember(g[i - 1], order[i])
    <2>1. i = 0 \/ (i \in 1..n /\ i - 1 \in 0..n /\ i # 0)
      OBVIOUS
    <2> QED BY <1>3, <1>5, <2>1
  <1>7. g = [i \in 0..n |-> g[i]]
    BY <1>5
  <1>8. g = KnownFrom(g, n, w, order)
    BY <1>6, <1>7 DEF KnownFrom
  <1> QED BY <1>8

LEMMA KnownFacts ==
    ASSUME NEW w \in Wakes, NEW order \in Seq(Batches)
    PROVE  \A i \in 0..Len(order) :
              /\ Known(w, order)[i] \in Wakes
              /\ Range(Known(w, order)[i]) \subseteq Range(w) \cup {order[j] : j \in 1..i}
  <1> DEFINE known == CHOOSE f : f = KnownFrom(f, Len(order), w, order)
  <1>1. Known(w, order) = known
    BY DEF Known, KnownFrom
  <1>2. Len(order) \in Nat /\ order \in [1..Len(order) -> Batches]
    OBVIOUS
  <1>3. \E f : f = KnownFrom(f, Len(order), w, order)
    BY <1>2, KnownExists
  <1>4. known = KnownFrom(known, Len(order), w, order)
    BY <1>3
  <1> HIDE DEF known
  <1>5. \A i \in 0..Len(order) : /\ known[i] \in Wakes
                                 /\ Range(known[i]) \subseteq Range(w) \cup {order[j] : j \in 1..i}
    BY <1>2, <1>4, KnownFixed
  <1> QED BY <1>1, <1>5

----------------------------------------------------------------------------
(* Every step keeps the invariant. *)

LEMMA InitInv == Init => AgentInv
  <1> SUFFICES ASSUME Init PROVE AgentInv
    OBVIOUS
  <1> USE DEF Init
  <1>1. MaxAgents \in Nat /\ MaxWoken \in Nat /\ MaxFaults \in Nat
    BY AgentManagerAssumption
  <1>2. TypeOK
    BY <1>1 DEF TypeOK, Agents, Batches, Stages, Over
  <1>3. Numbered
    <2>1. Created = {}
      BY DEF Created
    <2>2. 1..0 = {} /\ 0 \in 0..MaxAgents /\ 0 \in 0..0
      BY <1>1
    <2> QED BY <2>1, <2>2 DEF Numbered
  <1>4. Unborn /\ NewIsHeld /\ CompletedIsOver
    BY DEF Unborn, NewIsHeld, CompletedIsOver
  <1>5. CancellableWhileActive
    BY DEF CancellableWhileActive, Running, Live
  <1>6. \A b \in Batches : ~Announced(b)
    <2>1. \A b \in Batches : ~(told[b] > 0)
      OBVIOUS
    <2> QED BY <2>1 DEF Announced
  <1>7. AnnouncedHasEnded /\ DueIsAnnounced /\ WokenWasTold
    BY <1>6 DEF AnnouncedHasEnded, DueIsAnnounced, WokenWasTold
  <1> QED BY <1>2, <1>3, <1>4, <1>5, <1>7 DEF AgentInv

\* The numbers that the next agents and the next batch get.
LEMMA NextNumbers ==
    ASSUME TypeOK, Numbered, NEW n \in Agents, NextAgents(n) \subseteq Agents
    PROVE  \E k \in Nat : \E m \in 0..k :
              /\ Created = 1..k /\ {batch_id[a] : a \in Created} = 1..m
              /\ k + n <= MaxAgents
              /\ NextAgents(n) = k + 1..k + n /\ NextBatch = m + 1
  <1>1. MaxAgents \in Nat /\ n \in 1..MaxAgents
    BY AgentManagerAssumption DEF Agents
  <1>2. PICK k \in 0..MaxAgents : \E m \in 0..k :
           Created = 1..k /\ {batch_id[a] : a \in Created} = 1..m
    BY DEF Numbered
  <1>3. PICK m \in 0..k : Created = 1..k /\ {batch_id[a] : a \in Created} = 1..m
    BY <1>2
  <1>4. k \in Nat /\ m \in Nat
    BY <1>1, <1>3
  <1>5. Cardinality(1..k) = k /\ Cardinality(1..m) = m
    <2>1. \A l \in Nat : Cardinality(1..l) = l
      <3> TAKE l \in Nat
      <3>1. 1 \in Int /\ l \in Int
        OBVIOUS
      <3>2. Cardinality(1..l) = IF 1 > l THEN 0 ELSE l - 1 + 1
        BY <3>1, FS_Interval
      <3>3. (IF 1 > l THEN 0 ELSE l - 1 + 1) = l
        OBVIOUS
      <3> QED BY <3>2, <3>3
    <2> QED BY <1>4, <2>1
  <1>6. NextBatch = m + 1
    <2>1. PICK B : B = {batch_id[a] : a \in Created}
      OBVIOUS
    <2>2. NextBatch = 1 + Cardinality(B)
      BY <2>1 DEF NextBatch
    <2>3. Cardinality(B) = m
      BY <1>3, <1>5, <2>1
    <2> QED BY <1>4, <2>2, <2>3
  <1>7. NextAgents(n) = {k + i : i \in 1..n}
    BY <1>3, <1>5 DEF NextAgents
  <1>8. NextAgents(n) = k + 1..k + n
    <2>1. \A i \in 1..n : k + i \in k + 1..k + n
      BY <1>1, <1>4
    <2>2. \A x \in k + 1..k + n : x - k \in 1..n /\ x = k + (x - k)
      BY <1>1, <1>4
    <2> QED BY <1>7, <2>1, <2>2
  <1>9. k + n <= MaxAgents
    <2>1. k + n \in k + 1..k + n
      BY <1>1, <1>4
    <2>2. k + n \in 1..MaxAgents
      BY <1>8, <2>1 DEF Agents
    <2> QED BY <2>2
  <1> QED BY <1>3, <1>4, <1>6, <1>8, <1>9

LEMMA RunKeeps ==
    ASSUME AgentInv, NEW n \in Agents, RunAgents(n)
    PROVE  AgentInv'
  <1> USE DEF AgentInv
  <1>1. NextAgents(n) \subseteq Agents /\ Create(NextBatch, NextAgents(n))
    BY DEF RunAgents
  <1>2. PICK k \in Nat : \E m \in 0..k :
              /\ Created = 1..k /\ {batch_id[a] : a \in Created} = 1..m
              /\ k + n <= MaxAgents
              /\ NextAgents(n) = k + 1..k + n /\ NextBatch = m + 1
    BY <1>1, NextNumbers
  <1>3. PICK m \in 0..k :
              /\ Created = 1..k /\ {batch_id[a] : a \in Created} = 1..m
              /\ k + n <= MaxAgents
              /\ NextAgents(n) = k + 1..k + n /\ NextBatch = m + 1
    BY <1>2
  <1>4. PICK S \in SUBSET Agents : S = NextAgents(n)
    BY <1>1
  <1>5. PICK b : b = NextBatch
    OBVIOUS
  <1>6. /\ batch_id' = [a \in Agents |-> IF a \in S THEN b ELSE batch_id[a]]
        /\ status' = [a \in Agents |-> IF a \in S THEN "pending" ELSE status[a]]
        /\ place' = [a \in Agents |-> IF a \in S THEN "live" ELSE place[a]]
        /\ handles' = handles \cup S
        /\ pc' = [a \in Agents |-> IF a \in S THEN "new" ELSE pc[a]]
        /\ UNCHANGED <<ended, aborted, woken, told, faults, due>>
        /\ send_agent_status_update
    BY <1>1, <1>4, <1>5 DEF Create, wakeVars
  <1>7. MaxAgents \in Nat /\ n \in Nat /\ n >= 1 /\ m \in Nat /\ m <= k
    BY <1>3, AgentManagerAssumption DEF Agents
  <1>8. b = m + 1 /\ b \in Batches /\ b # 0 /\ b \notin 1..m
    BY <1>3, <1>5, <1>7 DEF Batches
  <1>9. S = k + 1..k + n
    BY <1>3, <1>4
  <1>10. \A a \in S : batch_id[a] = 0
    <2>1. \A a \in S : a \in Agents /\ a \notin 1..k
      BY <1>9
    <2> QED BY <1>3, <2>1 DEF Created
  <1>11. \A a \in Agents : batch_id[a] # b
    <2>1. \A a \in Created : batch_id[a] \in 1..m
      BY <1>3
    <2> QED BY <1>8, <2>1 DEF Created
  <1>12. \A a \in Agents :
            /\ batch_id'[a] = IF a \in S THEN b ELSE batch_id[a]
            /\ status'[a] = IF a \in S THEN "pending" ELSE status[a]
            /\ place'[a] = IF a \in S THEN "live" ELSE place[a]
            /\ pc'[a] = IF a \in S THEN "new" ELSE pc[a]
    BY <1>6
  <1>13. TypeOK'
    <2>1. /\ batch_id' \in [Agents -> Batches \cup {0}]
          /\ status' \in [Agents -> Active \cup Terminal \cup {"none"}]
          /\ place' \in [Agents -> {"none", "live", "archived"}]
          /\ pc' \in [Agents -> Stages]
      BY <1>6, <1>8 DEF TypeOK, Active, Stages, Over
    <2>2. updates' \in Seq(SUBSET Batches)
      BY <1>6, SendEffect DEF TypeOK
    <2> QED BY <1>6, <2>1, <2>2 DEF TypeOK
  <1>14. Numbered'
    <2>1. PICK l \in 0..MaxAgents : l = k + n
      BY <1>3, <1>7
    <2>2. Created' = Created \cup S
      <3>1. Created' = {a \in Agents : batch_id'[a] # 0}
        BY DEF Created
      <3> QED BY <1>8, <1>12, <3>1 DEF Created
    <2>3. Created' = 1..l
      <3>1. 1..l = 1..k \cup (k + 1..k + n)
        BY <1>7, <2>1
      <3> QED BY <1>3, <1>9, <2>2, <3>1
    <2>4. {batch_id'[a] : a \in Created'} = {batch_id[a] : a \in Created} \cup {b}
      <3>1. \A a \in Created : a \in Agents /\ a \notin S
        BY <1>10 DEF Created
      <3>2. k + 1 \in S
        BY <1>7, <1>9
      <3> QED BY <1>12, <2>2, <3>1, <3>2
    <2>5. 1..m \cup {m + 1} = 1..m + 1 /\ m + 1 \in 0..l
      BY <1>7, <2>1
    <2>6. {batch_id'[a] : a \in Created'} = 1..m + 1
      BY <1>3, <1>8, <2>4, <2>5
    <2> QED BY <2>1, <2>3, <2>5, <2>6 DEF Numbered
  <1>15. Unborn'
    <2>1. \A a \in Agents : batch_id'[a] = 0 => a \notin S
      BY <1>8, <1>12
    <2> QED BY <1>6, <1>12, <2>1 DEF Unborn
  <1>16. CancellableWhileActive'
    <2>1. ASSUME NEW a \in handles'
          PROVE  place'[a] = "live" /\ status'[a] \in Active /\ a \notin aborted'
      <3>1. CASE a \in S
        BY <1>6, <1>10, <1>12, <3>1 DEF Unborn, Active
      <3>2. CASE a \notin S
        <4>1. a \in handles /\ a \in Agents
          BY <1>6, <2>1, <3>2 DEF TypeOK
        <4> QED BY <1>6, <1>12, <3>2, <4>1 DEF CancellableWhileActive
      <3> QED BY <3>1, <3>2
    <2>2. ASSUME NEW a \in Running'
          PROVE  a \in handles' \/ a \in aborted'
      <3>1. a \in Agents /\ place'[a] = "live" /\ status'[a] \in Active
        BY <2>2 DEF Running, Live
      <3>2. CASE a \in S
        BY <1>6, <3>2
      <3>3. CASE a \notin S
        BY <1>6, <1>12, <3>1, <3>3 DEF CancellableWhileActive, Running, Live
      <3> QED BY <3>2, <3>3
    <2> QED BY <2>1, <2>2 DEF CancellableWhileActive
  <1>17. NewIsHeld'
    BY <1>6, <1>12 DEF NewIsHeld
  <1>18. CompletedIsOver'
    BY <1>12 DEF CompletedIsOver
  <1>19. /\ AnnouncedHasEnded'
         /\ \A c \in Batches : Announced(c) => Announced(c)'
    <2>1. ASSUME NEW c \in Batches, Announced(c)
          PROVE  Members(c)' # {} /\ Members(c)' \cap Running' \subseteq aborted'
      <3>1. Members(c) # {} /\ Members(c) \cap Running \subseteq aborted
        BY <2>1 DEF AnnouncedHasEnded
      <3>2. c # b /\ c # 0
        BY <1>11, <3>1, AgentManagerAssumption DEF Members, Batches
      <3>3. Members(c)' = Members(c) /\ \A a \in Members(c) : a \notin S /\ a \in Agents
        <4>1. Members(c)' = {a \in Agents : batch_id'[a] = c}
          BY DEF Members
        <4> QED BY <1>10, <1>12, <3>2, <4>1 DEF Members
      <3>4. Members(c)' \cap Running' \subseteq Members(c) \cap Running
        <4>1. Running' = {a \in Agents : place'[a] = "live" /\ status'[a] \in Active}
          BY DEF Running, Live
        <4> QED BY <1>12, <3>3, <4>1 DEF Running, Live
      <3> QED BY <1>6, <3>1, <3>3, <3>4
    <2>2. updates \in Seq(SUBSET Batches) /\ told' = told /\ send_agent_status_update
      BY <1>6 DEF TypeOK
    <2> QED BY <2>1, <2>2, SendAnnounces
  <1>20. DueIsAnnounced' /\ WokenWasTold'
    BY <1>6, <1>19 DEF DueIsAnnounced, WokenWasTold, TypeOK
  <1> QED BY <1>13, <1>14, <1>15, <1>16, <1>17, <1>18, <1>19, <1>20

\* What is announced stays ended, as long as nothing but aborted tasks revives.
LEMMA StaysEnded ==
    ASSUME AnnouncedHasEnded, batch_id' = batch_id, aborted \subseteq aborted',
           Running' \subseteq Running \cup aborted'
    PROVE  \A b \in Batches : Announced(b) =>
               Members(b)' # {} /\ Members(b)' \cap Running' \subseteq aborted'
  <1> SUFFICES ASSUME NEW b \in Batches, Announced(b)
               PROVE  Members(b)' # {} /\ Members(b)' \cap Running' \subseteq aborted'
    OBVIOUS
  <1>1. Members(b) # {} /\ Members(b) \cap Running \subseteq aborted
    BY DEF AnnouncedHasEnded
  <1>2. Members(b)' = Members(b)
    BY DEF Members
  <1> QED BY <1>1, <1>2

LEMMA CancelKeeps ==
    ASSUME AgentInv, NEW S \in SUBSET Agents, CancelAgents(S)
    PROVE  AgentInv'
  <1> USE DEF AgentInv
  <1>1. /\ S \subseteq handles /\ finalize_terminal_agents(S, "cancelled")
        /\ aborted' = aborted \cup S /\ pc' = pc
        /\ UNCHANGED <<updates, woken, told, due>>
        /\ faults < MaxFaults /\ faults' = faults + 1
    BY DEF CancelAgents, Fault, wakeVars
  <1>2. S \in SUBSET Live
    BY <1>1 DEF CancellableWhileActive, Live
  <1>3. "cancelled" \in Terminal
    BY DEF Terminal
  <1>4. pc' \in [Agents -> Stages] /\ aborted \subseteq aborted' /\ aborted' \subseteq aborted \cup S
    BY <1>1 DEF TypeOK
  <1>5. /\ status' \in [Agents -> Active \cup Terminal \cup {"none"}]
        /\ place' \in [Agents -> {"none", "live", "archived"}]
        /\ batch_id' = batch_id /\ ended' \in Seq(Agents)
        /\ handles' \subseteq Agents /\ aborted' \subseteq Agents
        /\ Running' \subseteq Running
        /\ Numbered' /\ Unborn' /\ CancellableWhileActive' /\ NewIsHeld' /\ CompletedIsOver'
    <2>1. /\ \A a \in Agents \ S : pc'[a] = pc[a]
          /\ \A a \in S : pc'[a] \in {pc[a]} \cup Over /\ (pc'[a] = "new" => a \in aborted')
      BY <1>1
    <2>2. "cancelled" # "completed"
      OBVIOUS
    <2> QED BY <1>1, <1>2, <1>3, <1>4, <2>1, <2>2, FinalizeKeeps
  <1>6. TypeOK'
    <2>1. faults' \in 0..MaxFaults
      BY <1>1, AgentManagerAssumption DEF TypeOK
    <2> QED BY <1>1, <1>4, <1>5, <2>1 DEF TypeOK
  <1>7. \A b \in Batches : Announced(b)' <=> Announced(b)
    BY <1>1 DEF Announced
  <1>8. AnnouncedHasEnded'
    <2>1. \A b \in Batches : Announced(b) =>
               Members(b)' # {} /\ Members(b)' \cap Running' \subseteq aborted'
      BY <1>4, <1>5, StaysEnded
    <2> QED BY <1>7, <2>1 DEF AnnouncedHasEnded, Batches
  <1>9. DueIsAnnounced' /\ WokenWasTold'
    BY <1>1, <1>7 DEF DueIsAnnounced, WokenWasTold, TypeOK
  <1> QED BY <1>5, <1>6, <1>8, <1>9

LEMMA SweepKeeps ==
    ASSUME AgentInv, NEW S \in SUBSET Agents, WatchdogSweep(S)
    PROVE  AgentInv'
  <1> USE DEF AgentInv
  <1>1. /\ S \subseteq Running /\ finalize_terminal_agents(S, "failed")
        /\ aborted' = aborted \cup (S \cap handles) /\ pc' = pc
        /\ send_agent_status_update
        /\ UNCHANGED <<woken, told, due>>
        /\ faults < MaxFaults /\ faults' = faults + 1
    BY DEF WatchdogSweep, Fault, wakeVars
  <1>2. S \in SUBSET Live
    BY <1>1 DEF Running
  <1>3. "failed" \in Terminal
    BY DEF Terminal
  <1>4. /\ pc' \in [Agents -> Stages] /\ aborted \subseteq aborted' /\ aborted' \subseteq aborted \cup S
        /\ S \subseteq aborted'
    BY <1>1 DEF TypeOK, CancellableWhileActive
  <1>5. /\ status' \in [Agents -> Active \cup Terminal \cup {"none"}]
        /\ place' \in [Agents -> {"none", "live", "archived"}]
        /\ batch_id' = batch_id /\ ended' \in Seq(Agents)
        /\ handles' \subseteq Agents /\ aborted' \subseteq Agents
        /\ Running' \subseteq Running
        /\ Numbered' /\ Unborn' /\ CancellableWhileActive' /\ NewIsHeld' /\ CompletedIsOver'
    <2>1. /\ \A a \in Agents \ S : pc'[a] = pc[a]
          /\ \A a \in S : pc'[a] \in {pc[a]} \cup Over /\ (pc'[a] = "new" => a \in aborted')
      BY <1>1, <1>4
    <2>2. "failed" # "completed"
      OBVIOUS
    <2> QED BY <1>1, <1>2, <1>3, <1>4, <2>1, <2>2, FinalizeKeeps
  <1>6. TypeOK'
    <2>1. faults' \in 0..MaxFaults
      BY <1>1, AgentManagerAssumption DEF TypeOK
    <2>2. updates' \in Seq(SUBSET Batches)
      BY <1>1, SendEffect DEF TypeOK
    <2> QED BY <1>1, <1>4, <1>5, <2>1, <2>2 DEF TypeOK
  <1>7. /\ AnnouncedHasEnded'
        /\ \A b \in Batches : Announced(b) => Announced(b)'
    <2>1. \A b \in Batches : Announced(b) =>
               Members(b)' # {} /\ Members(b)' \cap Running' \subseteq aborted'
      BY <1>4, <1>5, StaysEnded
    <2>2. updates \in Seq(SUBSET Batches) /\ told' = told
      BY <1>1 DEF TypeOK
    <2> QED BY <1>1, <2>1, <2>2, SendAnnounces
  <1>8. DueIsAnnounced' /\ WokenWasTold'
    BY <1>1, <1>7 DEF DueIsAnnounced, WokenWasTold, TypeOK
  <1> QED BY <1>5, <1>6, <1>7, <1>8

\* A task that did not end leaves its agent as it is, but for its place in pc.
LEMMA StartKeeps ==
    ASSUME AgentInv, NEW a \in Agents, Start(a)
    PROVE  AgentInv'
  <1> USE DEF AgentInv
  <1>1. /\ pc[a] = "new"
        /\ UNCHANGED <<batch_id, place, ended, handles, aborted, woken, told, faults, due>>
    BY DEF Start, wakeVars
  <1>2. batch_id[a] # 0
    BY <1>1 DEF Unborn
  <1>3. CASE place[a] = "none"
    <2>1. pc' = [pc EXCEPT ![a] = "gone"] /\ status' = status /\ updates' = updates
      BY <1>3 DEF Start, Goto
    <2>2. TypeOK'
      BY <1>1, <2>1 DEF TypeOK, Stages, Over
    <2>3. \A x \in Agents : pc'[x] = IF x = a THEN "gone" ELSE pc[x]
      BY <2>1 DEF TypeOK
    <2>4. Numbered' /\ CancellableWhileActive' /\ AnnouncedHasEnded' /\ DueIsAnnounced' /\ WokenWasTold'
      BY <1>1, <2>1 DEF Numbered, Created, CancellableWhileActive, Running, Live, AnnouncedHasEnded,
                        Members, Announced, DueIsAnnounced, WokenWasTold
    <2>5. Unborn' /\ NewIsHeld' /\ CompletedIsOver'
      BY <1>1, <1>2, <2>1, <2>3 DEF Unborn, NewIsHeld, CompletedIsOver, Over
    <2> QED BY <2>2, <2>4, <2>5
  <1>4. CASE place[a] # "none"
    <2>1. PICK p \in {"late", "working"} : pc' = [pc EXCEPT ![a] = p]
      BY <1>4 DEF Start, Goto
    <2>2. PICK v : v = IF place[a] = "live" THEN "running" ELSE status[a]
      OBVIOUS
    <2>3. status' = [status EXCEPT ![a] = v] /\ send_agent_status_update
      BY <1>4, <2>2 DEF Start
    <2>4. v \in Active \cup Terminal \cup {"none"}
      BY <2>2 DEF TypeOK, Active
    <2>5. \A x \in Agents : /\ pc'[x] = IF x = a THEN p ELSE pc[x]
                            /\ status'[x] = IF x = a THEN v ELSE status[x]
      BY <2>1, <2>3 DEF TypeOK
    <2>6. TypeOK'
      <3>1. updates' \in Seq(SUBSET Batches)
        BY <2>3, SendEffect DEF TypeOK
      <3>2. pc' \in [Agents -> Stages] /\ status' \in [Agents -> Active \cup Terminal \cup {"none"}]
        BY <2>1, <2>3, <2>4 DEF TypeOK, Stages, Over
      <3> QED BY <1>1, <3>1, <3>2 DEF TypeOK
    <2>7. Numbered' /\ WokenWasTold'
      BY <1>1 DEF Numbered, Created, WokenWasTold
    <2>8. Unborn' /\ NewIsHeld'
      BY <1>1, <1>2, <2>5 DEF Unborn, NewIsHeld
    <2>9. status[a] # "completed"
      BY <1>1 DEF CompletedIsOver, Over
    <2>10. CompletedIsOver'
      BY <2>2, <2>5, <2>9 DEF CompletedIsOver
    <2>11. place[a] = "live" => (a \in handles /\ a \in Running) \/ a \in aborted
      BY <1>1 DEF NewIsHeld, CancellableWhileActive, Running, Live
    <2>12. Running' \subseteq Running \cup aborted'
      <3>1. Running' = {x \in Agents : place[x] = "live" /\ status'[x] \in Active}
        BY <1>1 DEF Running, Live
      <3> QED BY <1>1, <2>5, <2>11, <3>1 DEF Running, Live
    <2>13. CancellableWhileActive'
      <3>1. \A x \in handles : x \in Agents /\ status'[x] \in Active
        BY <2>2, <2>5 DEF CancellableWhileActive, TypeOK, Active
      <3>2. \A x \in Running' : x \in handles \/ x \in aborted
        BY <1>1, <2>12 DEF CancellableWhileActive
      <3> QED BY <1>1, <3>1, <3>2 DEF CancellableWhileActive
    <2>14. /\ AnnouncedHasEnded'
           /\ \A b \in Batches : Announced(b) => Announced(b)'
      <3>1. aborted \subseteq aborted' /\ batch_id' = batch_id
        BY <1>1
      <3>2. \A b \in Batches : Announced(b) =>
               Members(b)' # {} /\ Members(b)' \cap Running' \subseteq aborted'
        BY <2>12, <3>1, StaysEnded
      <3>3. updates \in Seq(SUBSET Batches) /\ told' = told
        BY <1>1 DEF TypeOK
      <3> QED BY <2>3, <3>2, <3>3, SendAnnounces
    <2>15. DueIsAnnounced'
      BY <1>1, <2>14 DEF DueIsAnnounced, TypeOK
    <2> QED BY <2>6, <2>7, <2>8, <2>10, <2>13, <2>14, <2>15
  <1> QED BY <1>3, <1>4

LEMMA ProgressKeeps ==
    ASSUME AgentInv, NEW a \in Agents, Progress(a)
    PROVE  AgentInv'
  <1> USE DEF AgentInv
  <1>1. /\ UNCHANGED <<batch_id, status, place, ended, handles, aborted, pc, woken, told, faults, due>>
        /\ send_agent_status_update
    BY DEF Progress, mgrVars, taskVars, wakeVars
  <1>2. TypeOK'
    <2>1. updates' \in Seq(SUBSET Batches)
      BY <1>1, SendEffect DEF TypeOK
    <2> QED BY <1>1, <2>1 DEF TypeOK
  <1>3. Numbered' /\ Unborn' /\ CancellableWhileActive' /\ NewIsHeld' /\ CompletedIsOver' /\ WokenWasTold'
    BY <1>1 DEF Numbered, Created, Unborn, CancellableWhileActive, Running, Live, NewIsHeld,
                CompletedIsOver, WokenWasTold
  <1>4. /\ AnnouncedHasEnded'
        /\ \A b \in Batches : Announced(b) => Announced(b)'
    <2>1. aborted \subseteq aborted' /\ batch_id' = batch_id /\ Running' \subseteq Running \cup aborted'
      BY <1>1 DEF Running, Live
    <2>2. \A b \in Batches : Announced(b) =>
               Members(b)' # {} /\ Members(b)' \cap Running' \subseteq aborted'
      BY <2>1, StaysEnded
    <2>3. updates \in Seq(SUBSET Batches) /\ told' = told
      BY <1>1 DEF TypeOK
    <2> QED BY <1>1, <2>2, <2>3, SendAnnounces
  <1>5. DueIsAnnounced'
    BY <1>1, <1>4 DEF DueIsAnnounced, TypeOK
  <1> QED BY <1>2, <1>3, <1>4, <1>5

\* The update that the last agent of a batch sends shows the batch as ended: the
\* agent itself is the most recent one.
LEMMA LastOneIsShown ==
    ASSUME TypeOK', NEW a \in Agents, batch_id'[a] \in Batches,
           ended' # <<>>, ended'[Len(ended')] = a,
           status'[a] \in Terminal, AllEnded(batch_id[a])'
    PROVE  batch_id'[a] \in EndedBatches'
  <1>1. MaxVisible \in Nat \ {0}
    BY AgentManagerAssumption
  <1>2. ended' \in Seq(Agents)
    BY DEF TypeOK
  <1>3. a \in TerminalIn(status')
    BY DEF TerminalIn
  <1>4. a \in MostRecent(ended', TerminalIn(status'), MaxVisible)
    <2>1. ended'[Len(ended')] \in MostRecent(ended', TerminalIn(status'), MaxVisible)
      BY <1>1, <1>2, <1>3, LastIsRecent
    <2> QED BY <2>1
  <1>5. \A x \in Agents : batch_id'[x] = batch_id'[a] => status'[x] \in Terminal
    BY DEF AllEnded, Members
  <1>6. \A x \in Running' : x \in Agents /\ status'[x] \notin Terminal
    <2>1. \A s \in Active : s \notin Terminal
      BY DEF Active, Terminal
    <2> QED BY <2>1 DEF Running, Live
  <1>7. \A x \in Running' : batch_id'[x] # batch_id'[a]
    BY <1>5, <1>6
  <1> QED BY <1>4, <1>7 DEF EndedBatches

LEMMA FinishKeeps ==
    ASSUME AgentInv, NEW a \in Agents, NEW to \in {"completed", "failed"}, Finish(a, to)
    PROVE  AgentInv'
  <1> USE DEF AgentInv, Over
  <1>1. PICK p \in Over :
        /\ pc[a] \in {"working", "late"}
        /\ pc' = [pc EXCEPT ![a] = p]
        /\ UNCHANGED <<aborted, woken, told, faults>>
    BY DEF Finish, Goto, wakeVars
  <1>2. batch_id[a] # 0 /\ batch_id[a] \in Batches
    BY <1>1 DEF Unborn, TypeOK
  <1>3. \A x \in Agents : pc'[x] = IF x = a THEN p ELSE pc[x]
    BY <1>1 DEF TypeOK
  <1>4. pc' \in [Agents -> Stages]
    BY <1>1 DEF TypeOK, Stages, Over
  <1>5. CASE place[a] # "live"
    <2>1. UNCHANGED <<batch_id, status, place, ended, handles, updates, due>>
      BY <1>5 DEF Finish, mgrVars
    <2>2. TypeOK'
      BY <1>1, <1>4, <2>1 DEF TypeOK
    <2>3. Numbered' /\ CancellableWhileActive' /\ AnnouncedHasEnded' /\ DueIsAnnounced' /\ WokenWasTold'
      BY <1>1, <2>1 DEF Numbered, Created, CancellableWhileActive, Running, Live, AnnouncedHasEnded,
                        Members, Announced, DueIsAnnounced, WokenWasTold
    <2>4. Unborn' /\ NewIsHeld' /\ CompletedIsOver'
      BY <1>1, <1>2, <1>3, <2>1 DEF Unborn, NewIsHeld, CompletedIsOver
    <2> QED BY <2>2, <2>3, <2>4
  <1>6. CASE place[a] = "live"
    <2>1. /\ finalize_terminal_agents({a}, to)
          /\ send_agent_status_update
          /\ due' = IF AllEnded(batch_id[a])' THEN due \cup {batch_id[a]} ELSE due
      BY <1>6 DEF Finish
    <2>2. {a} \in SUBSET Live /\ to \in Terminal
      BY <1>6 DEF Live, Terminal
    <2>3. /\ aborted \subseteq aborted' /\ aborted' \subseteq aborted \cup {a}
          /\ \A x \in Agents \ {a} : pc'[x] = pc[x]
          /\ \A x \in {a} : pc'[x] \in {pc[x]} \cup Over /\ (pc'[x] = "new" => x \in aborted')
          /\ to = "completed" => \A x \in {a} : pc'[x] \in Over
      BY <1>1, <1>3
    <2>4. /\ status' \in [Agents -> Active \cup Terminal \cup {"none"}]
          /\ place' \in [Agents -> {"none", "live", "archived"}]
          /\ batch_id' = batch_id /\ ended' \in Seq(Agents)
          /\ handles' \subseteq Agents /\ aborted' \subseteq Agents
          /\ \A x \in {a} : status'[x] = to
          /\ Running' \subseteq Running
          /\ Numbered' /\ Unborn' /\ CancellableWhileActive' /\ NewIsHeld' /\ CompletedIsOver'
          /\ \A x \in {a} : {a} = {x} => ended' # <<>> /\ ended'[Len(ended')] = x
      BY <1>4, <2>1, <2>2, <2>3, FinalizeKeeps
    <2>5. TypeOK'
      <3>1. updates' \in Seq(SUBSET Batches)
        BY <2>1, SendEffect DEF TypeOK
      <3>2. due' \subseteq Batches
        BY <1>2, <2>1 DEF TypeOK
      <3> QED BY <1>1, <1>4, <2>4, <3>1, <3>2 DEF TypeOK
    <2>6. /\ AnnouncedHasEnded'
          /\ \A b \in Batches : Announced(b) => Announced(b)'
          /\ \A b \in EndedBatches' : Announced(b)'
      <3>1. \A b \in Batches : Announced(b) =>
                 Members(b)' # {} /\ Members(b)' \cap Running' \subseteq aborted'
        BY <2>3, <2>4, StaysEnded
      <3>2. updates \in Seq(SUBSET Batches) /\ told' = told
        BY <1>1 DEF TypeOK
      <3> QED BY <2>1, <3>1, <3>2, SendAnnounces
    <2>7. ASSUME AllEnded(batch_id[a])'
          PROVE  batch_id[a] \in EndedBatches'
      <3>1. batch_id'[a] \in Batches /\ status'[a] \in Terminal
        BY <1>2, <2>2, <2>4
      <3>2. ended' # <<>> /\ ended'[Len(ended')] = a
        BY <2>4
      <3>3. batch_id'[a] \in EndedBatches'
        BY <2>5, <2>7, <3>1, <3>2, LastOneIsShown
      <3> QED BY <2>4, <3>3
    <2>8. DueIsAnnounced'
      <3>1. \A b \in due : b \in Batches /\ Announced(b)
        BY DEF DueIsAnnounced, TypeOK
      <3>2. \A b \in due : Announced(b)'
        BY <2>6, <3>1
      <3>3. CASE AllEnded(batch_id[a])'
        <4>1. Announced(batch_id[a])'
          <5>1. PICK b : b = batch_id[a]
            OBVIOUS
          <5>2. batch_id'[a] = b /\ b \in EndedBatches'
            BY <2>4, <2>7, <3>3, <5>1
          <5>3. Announced(b)'
            BY <2>6, <5>2
          <5> QED BY <5>2, <5>3 DEF Announced
        <4>2. due' = due \cup {batch_id[a]}
          BY <2>1, <3>3
        <4>3. \A b \in due' : Announced(b)'
          BY <2>4, <3>2, <4>1, <4>2 DEF Announced
        <4> QED BY <4>3 DEF DueIsAnnounced
      <3>4. CASE ~AllEnded(batch_id[a])'
        BY <2>1, <3>2, <3>4 DEF DueIsAnnounced
      <3> QED BY <3>3, <3>4
    <2>9. WokenWasTold'
      BY <1>1 DEF WokenWasTold
    <2> QED BY <2>4, <2>5, <2>6, <2>8, <2>9
  <1> QED BY <1>5, <1>6

LEMMA DroppedKeeps ==
    ASSUME AgentInv, NEW a \in Agents, Dropped(a)
    PROVE  AgentInv'
  <1> USE DEF AgentInv, Over
  <1>1. PICK p \in Over :
        /\ pc[a] # "unborn" /\ pc' = [pc EXCEPT ![a] = p]
        /\ UNCHANGED <<batch_id, status, place, ended, handles, aborted, updates, woken, told, faults, due>>
    BY DEF Dropped, Goto, mgrVars, wakeVars
  <1>2. batch_id[a] # 0
    BY <1>1 DEF Unborn
  <1>3. \A x \in Agents : pc'[x] = IF x = a THEN p ELSE pc[x]
    BY <1>1 DEF TypeOK
  <1>4. TypeOK'
    BY <1>1 DEF TypeOK, Stages, Over
  <1>5. Numbered' /\ CancellableWhileActive' /\ AnnouncedHasEnded' /\ DueIsAnnounced' /\ WokenWasTold'
    BY <1>1 DEF Numbered, Created, CancellableWhileActive, Running, Live, AnnouncedHasEnded,
                Members, Announced, DueIsAnnounced, WokenWasTold
  <1>6. Unborn' /\ NewIsHeld' /\ CompletedIsOver'
    BY <1>1, <1>2, <1>3 DEF Unborn, NewIsHeld, CompletedIsOver
  <1> QED BY <1>4, <1>5, <1>6

\* Every batch of the update at hand has woken the session, now or before.
LEMMA DeliverKeeps ==
    ASSUME AgentInv, Deliver
    PROVE  AgentInv'
  <1> USE DEF AgentInv
  <1>1. /\ updates # <<>> /\ updates' = Tail(updates)
        /\ UNCHANGED <<batch_id, status, place, ended, handles, aborted, pc, faults, due>>
    BY DEF Deliver, mgrVars, taskVars
  <1>2. PICK order \in SetToSeqs(Head(updates)) :
           LET known == Known(woken, order)
               wakes == {order[i] : i \in {j \in DOMAIN order : order[j] \notin Range(known[j - 1])}}
           IN  /\ woken' = known[Len(order)]
               /\ told' = [b \in Batches |-> IF b \in wakes THEN UpTo2(told[b]) ELSE told[b]]
    BY DEF Deliver
  <1>3. updates \in Seq(SUBSET Batches) /\ Head(updates) \in SUBSET Batches
    BY <1>1 DEF TypeOK
  <1>4. PICK n \in Nat : n = Len(order)
    <2>1. order \in Seq(Head(updates))
      BY <1>3, EnumerationFacts DEF Batches
    <2> QED BY <2>1
  <1>5. /\ order \in Seq(Batches) /\ DOMAIN order = 1..n
        /\ \A i \in 1..n : order[i] \in Head(updates)
        /\ \A i, j \in 1..n : i # j => order[i] # order[j]
        /\ \A b \in Head(updates) : \E i \in 1..n : order[i] = b
    <2>1. /\ order \in Seq(Head(updates))
          /\ \A i, j \in 1..Len(order) : i # j => order[i] # order[j]
          /\ \A b \in Head(updates) : \E i \in 1..Len(order) : order[i] = b
      BY <1>3, EnumerationFacts DEF Batches
    <2>2. order \in Seq(Batches)
      BY <1>3, <2>1, SeqMonotonic
    <2>3. DOMAIN order = 1..n /\ \A i \in 1..n : order[i] \in Head(updates)
      BY <1>4, <2>1
    <2> QED BY <1>4, <2>1, <2>2, <2>3
  <1>6. PICK known : known = Known(woken, order)
    OBVIOUS
  <1>7. PICK wakes : wakes = {order[i] : i \in {j \in 1..n : order[j] \notin Range(known[j - 1])}}
    OBVIOUS
  <1>8. /\ woken' = known[n]
        /\ told' = [b \in Batches |-> IF b \in wakes THEN UpTo2(told[b]) ELSE told[b]]
    BY <1>2, <1>4, <1>5, <1>6, <1>7
  <1>9. woken \in Wakes
    BY DEF Wakes, TypeOK
  <1>10. \A i \in 0..n : /\ known[i] \in Wakes
                         /\ Range(known[i]) \subseteq Range(woken) \cup {order[j] : j \in 1..i}
    BY <1>4, <1>5, <1>6, <1>9, KnownFacts
  <1>11. told' \in [Batches -> 0..2] /\ \A b \in Batches : told[b] > 0 \/ b \in wakes <=> told'[b] > 0
    <2>1. told \in [Batches -> 0..2]
      BY DEF TypeOK
    <2>2. \A x \in 0..2 : UpTo2(x) \in 0..2 /\ UpTo2(x) > 0
      BY DEF UpTo2
    <2> QED BY <1>8, <2>1, <2>2
  <1>12. wakes \subseteq Head(updates)
    BY <1>5, <1>7
  <1>13. \A b \in Range(woken) : b \in Batches /\ told[b] > 0
    <2>1. woken \in Seq(Batches)
      BY DEF TypeOK
    <2> QED BY <2>1 DEF Range, WokenWasTold
  <1>14. ASSUME NEW b \in Head(updates)
         PROVE  told'[b] > 0
    <2>1. PICK j \in 1..n : order[j] = b
      BY <1>5
    <2>2. b \in Batches
      BY <1>3
    <2>3. CASE b \in Range(known[j - 1])
      <3>1. j - 1 \in 0..n
        OBVIOUS
      <3>2. b \in Range(woken) \/ \E i \in 1..j - 1 : order[i] = b
        BY <1>10, <2>3, <3>1
      <3>3. \A i \in 1..j - 1 : i \in 1..n /\ i # j
        OBVIOUS
      <3>4. b \in Range(woken)
        BY <1>5, <2>1, <3>2, <3>3
      <3> QED BY <1>11, <1>13, <2>2, <3>4
    <2>4. CASE b \notin Range(known[j - 1])
      <3>1. b \in wakes
        BY <1>7, <2>1, <2>4
      <3> QED BY <1>11, <2>2, <3>1
    <2> QED BY <2>3, <2>4
  <1>15. n \in 0..n /\ woken' \in Wakes
    BY <1>8, <1>10
  <1>16. TypeOK'
    <2>1. Tail(updates) \in Seq(SUBSET Batches)
      BY <1>1, <1>3
    <2> QED BY <1>1, <1>11, <1>15, <2>1 DEF TypeOK, Wakes
  <1>17. /\ \A b \in Batches : Announced(b)' => Announced(b)
         /\ \A b \in Batches : Announced(b) => Announced(b)'
    <2>1. PICK l \in Nat : l = Len(updates)
      BY <1>3
    <2>2. /\ l >= 1 /\ DOMAIN updates = 1..l /\ Head(updates) = updates[1]
          /\ DOMAIN updates' = 1..l - 1 /\ \A i \in 1..l - 1 : updates'[i] = updates[i + 1]
      BY <1>1, <1>3, <2>1
    <2>3. 1 \in 1..l /\ \A i \in 1..l - 1 : i + 1 \in 1..l
      BY <2>2
    <2>4. ASSUME NEW b \in Batches, Announced(b)'
          PROVE  Announced(b)
      BY <1>11, <1>12, <2>2, <2>3, <2>4 DEF Announced
    <2>5. ASSUME NEW b \in Batches, Announced(b)
          PROVE  Announced(b)'
      <3>1. CASE told[b] > 0
        BY <1>11, <3>1 DEF Announced
      <3>2. CASE \E i \in DOMAIN updates : b \in updates[i]
        <4>1. PICK i \in 1..l : b \in updates[i]
          BY <2>2, <3>2
        <4>2. CASE i = 1
          BY <1>14, <2>2, <4>1, <4>2 DEF Announced
        <4>3. CASE i # 1
          <5>1. i - 1 \in 1..l - 1 /\ i - 1 + 1 = i
            BY <2>1, <4>1, <4>3
          <5> QED BY <2>2, <4>1, <5>1 DEF Announced
        <4> QED BY <4>2, <4>3
      <3> QED BY <2>5, <3>1, <3>2 DEF Announced
    <2> QED BY <2>4, <2>5
  <1>18. AnnouncedHasEnded'
    <2>1. aborted \subseteq aborted' /\ batch_id' = batch_id /\ Running' \subseteq Running \cup aborted'
      BY <1>1 DEF Running, Live
    <2>2. \A b \in Batches : Announced(b) =>
               Members(b)' # {} /\ Members(b)' \cap Running' \subseteq aborted'
      BY <2>1, StaysEnded
    <2> QED BY <1>17, <2>2 DEF AnnouncedHasEnded, Batches
  <1>19. DueIsAnnounced'
    BY <1>1, <1>17 DEF DueIsAnnounced, TypeOK
  <1>20. WokenWasTold'
    <2>1. ASSUME NEW i \in DOMAIN woken'
          PROVE  told'[woken'[i]] > 0
      <3>1. PICK b : b = woken'[i]
        OBVIOUS
      <3>2. b \in Range(known[n])
        BY <1>8, <2>1, <3>1 DEF Range
      <3>3. b \in Range(woken) \/ \E j \in 1..n : order[j] = b
        BY <1>10, <1>15, <3>2
      <3>4. told'[b] > 0
        BY <1>5, <1>11, <1>13, <1>14, <3>3
      <3> QED BY <3>1, <3>4
    <2> QED BY <2>1 DEF WokenWasTold
  <1>21. Numbered' /\ Unborn' /\ CancellableWhileActive' /\ NewIsHeld' /\ CompletedIsOver'
    BY <1>1 DEF Numbered, Created, Unborn, CancellableWhileActive, Running, Live, NewIsHeld,
                CompletedIsOver
  <1> QED BY <1>16, <1>18, <1>19, <1>20, <1>21

LEMMA NewSessionKeeps ==
    ASSUME AgentInv, NewSession
    PROVE  AgentInv'
  <1> USE DEF AgentInv
  <1>1. /\ place' = [a \in Agents |-> IF place[a] = "archived" THEN "none" ELSE place[a]]
        /\ status' = [a \in Agents |-> IF place[a] = "archived" THEN "none" ELSE status[a]]
        /\ updates' = <<>> /\ woken' = <<>>
        /\ told' = [b \in Batches |-> 0] /\ due' = {}
        /\ UNCHANGED <<batch_id, ended, handles, aborted, pc>>
        /\ faults < MaxFaults /\ faults' = faults + 1
    BY DEF NewSession, Fault, taskVars
  <1>2. \A a \in Agents : /\ place'[a] = IF place[a] = "archived" THEN "none" ELSE place[a]
                          /\ status'[a] = IF place[a] = "archived" THEN "none" ELSE status[a]
    BY <1>1
  <1>3. TypeOK'
    <2>1. /\ place' \in [Agents -> {"none", "live", "archived"}]
          /\ status' \in [Agents -> Active \cup Terminal \cup {"none"}]
      BY <1>1 DEF TypeOK
    <2>2. faults' \in 0..MaxFaults
      BY <1>1, AgentManagerAssumption DEF TypeOK
    <2>3. updates' \in Seq(SUBSET Batches) /\ woken' \in Seq(Batches) /\ Len(woken') <= MaxWoken
      BY <1>1, AgentManagerAssumption
    <2>4. told' \in [Batches -> 0..2] /\ due' \subseteq Batches
      BY <1>1
    <2> QED BY <1>1, <2>1, <2>2, <2>3, <2>4 DEF TypeOK
  <1>4. Numbered' /\ Unborn'
    BY <1>1, <1>2 DEF Numbered, Created, Unborn
  <1>5. Running' \subseteq Running
    <2>1. Running' = {a \in Agents : place'[a] = "live" /\ status'[a] \in Active}
      BY DEF Running, Live
    <2> QED BY <1>2, <2>1 DEF Running, Live
  <1>6. CancellableWhileActive'
    <2>1. \A a \in handles : a \in Agents /\ place'[a] = "live" /\ status'[a] \in Active
      BY <1>2 DEF CancellableWhileActive, TypeOK
    <2> QED BY <1>1, <1>5, <2>1 DEF CancellableWhileActive
  <1>7. NewIsHeld' /\ CompletedIsOver'
    BY <1>1, <1>2 DEF NewIsHeld, CompletedIsOver
  <1>8. \A b \in Batches : ~Announced(b)'
    <2>1. \A b \in Batches : ~(told'[b] > 0)
      BY <1>1
    <2> QED BY <1>1, <2>1 DEF Announced
  <1>9. AnnouncedHasEnded' /\ DueIsAnnounced' /\ WokenWasTold'
    BY <1>1, <1>8 DEF AnnouncedHasEnded, DueIsAnnounced, WokenWasTold, Batches
  <1> QED BY <1>3, <1>4, <1>6, <1>7, <1>9

LEMMA StutterKeeps ==
    ASSUME AgentInv, UNCHANGED vars
    PROVE  AgentInv'
  <1> USE DEF AgentInv, vars
  <1>1. TypeOK'
    BY DEF TypeOK
  <1>2. Numbered' /\ Unborn' /\ CancellableWhileActive' /\ NewIsHeld' /\ CompletedIsOver'
    BY DEF Numbered, Created, Unborn, CancellableWhileActive, Running, Live, NewIsHeld, CompletedIsOver
  <1>3. AnnouncedHasEnded' /\ DueIsAnnounced' /\ WokenWasTold'
    BY DEF AnnouncedHasEnded, Members, Running, Live, Announced, DueIsAnnounced, WokenWasTold
  <1> QED BY <1>1, <1>2, <1>3

LEMMA NextInv == AgentInv /\ [Next]_vars => AgentInv'
  <1> SUFFICES ASSUME AgentInv, [Next]_vars
               PROVE  AgentInv'
    OBVIOUS
  <1>1. ASSUME NEW n \in Agents, RunAgents(n)
        PROVE  AgentInv'
    BY <1>1, RunKeeps
  <1>2. ASSUME NEW S \in SUBSET Agents, CancelAgents(S)
        PROVE  AgentInv'
    BY <1>2, CancelKeeps
  <1>3. ASSUME NEW S \in SUBSET Agents, WatchdogSweep(S)
        PROVE  AgentInv'
    BY <1>3, SweepKeeps
  <1>4. ASSUME NEW a \in Agents, Start(a)
        PROVE  AgentInv'
    BY <1>4, StartKeeps
  <1>5. ASSUME NEW a \in Agents, Progress(a)
        PROVE  AgentInv'
    BY <1>5, ProgressKeeps
  <1>6. ASSUME NEW a \in Agents, Dropped(a)
        PROVE  AgentInv'
    BY <1>6, DroppedKeeps
  <1>7. ASSUME NEW a \in Agents, NEW to \in {"completed", "failed"}, Finish(a, to)
        PROVE  AgentInv'
    BY <1>7, FinishKeeps
  <1>8. CASE Deliver
    BY <1>8, DeliverKeeps
  <1>9. CASE NewSession
    BY <1>9, NewSessionKeeps
  <1>10. CASE UNCHANGED vars
    BY <1>10, StutterKeeps
  <1> QED BY <1>1, <1>2, <1>3, <1>4, <1>5, <1>6, <1>7, <1>8, <1>9, <1>10 DEF Next, Task

----------------------------------------------------------------------------
(* The theorems. *)

\* The inductive invariant holds in every reachable state.
THEOREM Reachable == Spec => []AgentInv
  BY InitInv, NextInv, PTL DEF Spec

\* The manager, the tasks and the session keep their types; the wakes that the
\* session remembers never exceed their cap, whatever the updates show.
THEOREM TypeCorrect == Spec => []TypeOK
  <1>1. AgentInv => TypeOK
    BY DEF AgentInv
  <1> QED BY <1>1, Reachable, PTL

\* An agent can be cancelled exactly while it is active, but for one that its
\* aborted task revived: for any number of agents, whichever of cancel_agent,
\* the watchdog, the task and the pruning ends it.
THEOREM ActiveIsCancellable == Spec => []CancellableWhileActive
  <1>1. AgentInv => CancellableWhileActive
    BY DEF AgentInv
  <1> QED BY <1>1, Reachable, PTL

\* The session is woken for a batch only after all of its agents have ended, but
\* for aborted tasks: whatever else is created, ended and archived between the
\* update and its delivery.
THEOREM WakesAreTrue == Spec => []WokenBatchHasEnded
  <1>1. AgentInv => WokenBatchHasEnded
    BY DEF AgentInv, AnnouncedHasEnded, Announced, WokenBatchHasEnded
  <1> QED BY <1>1, Reachable, PTL

\* The end of a batch whose last agent ended by itself is not lost to the caps:
\* the update that this agent sends shows the batch, and its delivery wakes the
\* session unless it was woken for the batch already.
THEOREM NoCompletionLost == Spec => []FinishedBatchWakes
  <1>1. AgentInv => FinishedBatchWakes
    BY DEF AgentInv, DueIsAnnounced, Announced, FinishedBatchWakes
  <1> QED BY <1>1, Reachable, PTL

\* No step but that of a new session, which clears the archive, changes a result
\* that was recorded.
LEMMA FinalStep ==
    ASSUME AgentInv, Next
    PROVE  \A a \in Agents : status[a] = "completed" => status'[a] \in {"completed", "none"}
  <1> USE DEF AgentInv
  <1> DEFINE Final == \A a \in Agents : status[a] = "completed" => status'[a] \in {"completed", "none"}
  <1>1. "completed" \notin Active
    BY DEF Active
  <1>2. ASSUME NEW n \in Agents, RunAgents(n)
        PROVE  Final
    <2>1. NextAgents(n) \subseteq Agents /\ Create(NextBatch, NextAgents(n))
      BY <1>2 DEF RunAgents
    <2>2. PICK k \in Nat : \E m \in 0..k :
              /\ Created = 1..k /\ {batch_id[a] : a \in Created} = 1..m
              /\ k + n <= MaxAgents
              /\ NextAgents(n) = k + 1..k + n /\ NextBatch = m + 1
      BY <2>1, NextNumbers
    <2>3. \A a \in NextAgents(n) : a \in Agents /\ a \notin 1..k
      BY <2>1, <2>2
    <2>4. \A a \in NextAgents(n) : a \in Agents /\ status[a] = "none"
      BY <2>2, <2>3 DEF Created, Unborn
    <2>5. status' = [a \in Agents |-> IF a \in NextAgents(n) THEN "pending" ELSE status[a]]
      BY <2>1 DEF Create
    <2> QED BY <2>4, <2>5
  <1>3. ASSUME NEW S \in SUBSET Agents, NEW to \in Terminal, finalize_terminal_agents(S, to),
               \A a \in S : status[a] # "completed"
        PROVE  Final
    <2>1. status' = [a \in Agents |-> IF a \in S THEN to ELSE status[a]]
      BY <1>3 DEF finalize_terminal_agents
    <2> QED BY <1>3, <2>1
  <1>4. ASSUME NEW S \in SUBSET Agents, CancelAgents(S)
        PROVE  Final
    <2>1. \A a \in S : status[a] # "completed"
      BY <1>1, <1>4 DEF CancelAgents, CancellableWhileActive
    <2>2. finalize_terminal_agents(S, "cancelled") /\ "cancelled" \in Terminal
      BY <1>4 DEF CancelAgents, Terminal
    <2> QED BY <1>3, <2>1, <2>2
  <1>5. ASSUME NEW S \in SUBSET Agents, WatchdogSweep(S)
        PROVE  Final
    <2>1. \A a \in S : status[a] # "completed"
      BY <1>1, <1>5 DEF WatchdogSweep, Running
    <2>2. finalize_terminal_agents(S, "failed") /\ "failed" \in Terminal
      BY <1>5 DEF WatchdogSweep, Terminal
    <2> QED BY <1>3, <2>1, <2>2
  <1>6. ASSUME NEW a \in Agents, Start(a)
        PROVE  Final
    <2>1. status[a] # "completed"
      BY <1>6 DEF Start, CompletedIsOver, Over
    <2>2. status' = status \/ \E v : status' = [status EXCEPT ![a] = v]
      BY <1>6 DEF Start
    <2> QED BY <2>1, <2>2 DEF TypeOK
  <1>7. ASSUME NEW a \in Agents, NEW to \in {"completed", "failed"}, Finish(a, to)
        PROVE  Final
    <2>1. status[a] # "completed"
      BY <1>7 DEF Finish, CompletedIsOver, Over
    <2>2. {a} \in SUBSET Agents /\ to \in Terminal
      BY DEF Terminal
    <2>3. CASE place[a] = "live"
      <3>1. finalize_terminal_agents({a}, to)
        BY <1>7, <2>3 DEF Finish
      <3> QED BY <1>3, <2>1, <2>2, <3>1
    <2>4. CASE place[a] # "live"
      BY <1>7, <2>4 DEF Finish, mgrVars
    <2> QED BY <2>3, <2>4
  <1>8. ASSUME NEW a \in Agents, Progress(a) \/ Dropped(a)
        PROVE  Final
    BY <1>8 DEF Progress, Dropped, mgrVars
  <1>9. CASE Deliver
    BY <1>9 DEF Deliver, mgrVars
  <1>10. CASE NewSession
    BY <1>10 DEF NewSession
  <1> QED BY <1>2, <1>4, <1>5, <1>6, <1>7, <1>8, <1>9, <1>10 DEF Next, Task

\* A recorded result is final: neither a cancellation, nor the watchdog, nor a task
\* that was aborted too late changes it.
THEOREM ResultsAreFinal == Spec => CompletedIsFinal
  <1>1. AgentInv /\ [Next]_vars =>
            [\A a \in Agents : status[a] = "completed" => status'[a] \in {"completed", "none"}]_vars
    BY FinalStep
  <1> QED BY <1>1, Reachable, PTL DEF Spec, CompletedIsFinal

----------------------------------------------------------------------------
(* The order in which agents ended, as a relation between them.            *)

\* No element occurs twice in s; x occurs in s before y.
Apart(s) == \A i, j \in DOMAIN s : i # j => s[i] # s[j]
Prec(s, x, y) == \E i, j \in DOMAIN s : i < j /\ s[i] = x /\ s[j] = y

\* Of distinct elements, it is a total order.
LEMMA PrecOrder ==
    ASSUME NEW X, NEW s \in Seq(X), Apart(s)
    PROVE  /\ \A x, y : Prec(s, x, y) => x \in Range(s) /\ y \in Range(s) /\ x # y /\ ~Prec(s, y, x)
           /\ \A x, y \in Range(s) : x = y \/ Prec(s, x, y) \/ Prec(s, y, x)
           /\ \A x, y, z : Prec(s, x, y) /\ Prec(s, y, z) => Prec(s, x, z)
  <1>1. PICK n \in Nat : n = Len(s) /\ DOMAIN s = 1..n
    OBVIOUS
  <1>2. \A i, j \in 1..n : s[i] = s[j] => i = j
    BY <1>1 DEF Apart
  <1>3. ASSUME NEW x, NEW y, Prec(s, x, y)
        PROVE  x \in Range(s) /\ y \in Range(s) /\ x # y /\ ~Prec(s, y, x)
    <2>1. PICK i, j \in 1..n : i < j /\ s[i] = x /\ s[j] = y
      BY <1>1, <1>3 DEF Prec
    <2>2. x \in Range(s) /\ y \in Range(s)
      BY <1>1, <2>1 DEF Range
    <2>3. x # y
      BY <1>2, <2>1
    <2>4. ASSUME NEW k \in 1..n, NEW l \in 1..n, k < l, s[k] = y, s[l] = x
          PROVE  FALSE
      <3>1. k = j /\ l = i
        BY <1>2, <2>1, <2>4
      <3> QED BY <2>1, <2>4, <3>1
    <2>5. ~Prec(s, y, x)
      BY <1>1, <2>4 DEF Prec
    <2> QED BY <2>2, <2>3, <2>5
  <1>4. ASSUME NEW x \in Range(s), NEW y \in Range(s)
        PROVE  x = y \/ Prec(s, x, y) \/ Prec(s, y, x)
    <2>1. PICK i \in 1..n : s[i] = x
      BY <1>1 DEF Range
    <2>2. PICK j \in 1..n : s[j] = y
      BY <1>1 DEF Range
    <2>3. i = j \/ i < j \/ j < i
      OBVIOUS
    <2> QED BY <1>1, <2>1, <2>2, <2>3 DEF Prec
  <1>5. ASSUME NEW x, NEW y, NEW z, Prec(s, x, y), Prec(s, y, z)
        PROVE  Prec(s, x, z)
    <2>1. PICK i, j \in 1..n : i < j /\ s[i] = x /\ s[j] = y
      BY <1>1, <1>5 DEF Prec
    <2>2. PICK k, l \in 1..n : k < l /\ s[k] = y /\ s[l] = z
      BY <1>1, <1>5 DEF Prec
    <2>3. j = k
      BY <1>2, <2>1, <2>2
    <2>4. i < l
      BY <2>1, <2>2, <2>3
    <2> QED BY <1>1, <2>1, <2>2, <2>4 DEF Prec
  <1> QED BY <1>3, <1>4, <1>5

LEMMA AppendOrder ==
    ASSUME NEW X, NEW v \in Seq(X), NEW e \in X
    PROVE  /\ Range(Append(v, e)) = Range(v) \cup {e}
           /\ Apart(v) /\ e \notin Range(v) => Apart(Append(v, e))
           /\ \A x, y : Prec(Append(v, e), x, y) <=> Prec(v, x, y) \/ (x \in Range(v) /\ y = e)
  <1>1. PICK n \in Nat : n = Len(v) /\ DOMAIN v = 1..n
    OBVIOUS
  <1>2. PICK w : w = Append(v, e)
    OBVIOUS
  <1>3. DOMAIN w = 1..n + 1 /\ w[n + 1] = e /\ \A i \in 1..n : w[i] = v[i]
    BY <1>1, <1>2
  <1>4. /\ \A i \in 1..n + 1 : i \in 1..n \/ i = n + 1
        /\ \A i \in 1..n : i \in 1..n + 1 /\ i < n + 1 /\ ~(n + 1 < i)
        /\ n + 1 \in 1..n + 1
    OBVIOUS
  <1>5. Range(w) = Range(v) \cup {e}
    BY <1>1, <1>3, <1>4 DEF Range
  <1>6. Apart(v) /\ e \notin Range(v) => Apart(w)
    <2>1. ASSUME Apart(v), e \notin Range(v), NEW i \in 1..n + 1, NEW j \in 1..n + 1, i # j
          PROVE  w[i] # w[j]
      <3>1. \A k \in 1..n : v[k] # e
        BY <1>1, <2>1 DEF Range
      <3> QED BY <1>1, <1>3, <1>4, <2>1, <3>1 DEF Apart
    <2> QED BY <1>3, <2>1 DEF Apart
  <1>7. ASSUME NEW x, NEW y
        PROVE  Prec(w, x, y) <=> Prec(v, x, y) \/ (x \in Range(v) /\ y = e)
    <2>1. ASSUME Prec(w, x, y)
          PROVE  Prec(v, x, y) \/ (x \in Range(v) /\ y = e)
      <3>1. PICK i, j \in 1..n + 1 : i < j /\ w[i] = x /\ w[j] = y
        BY <1>3, <2>1 DEF Prec
      <3>2. i \in 1..n
        BY <3>1
      <3>3. v[i] = x /\ x \in Range(v)
        BY <1>1, <1>3, <3>1, <3>2 DEF Range
      <3>4. CASE j = n + 1
        BY <1>3, <3>1, <3>3, <3>4
      <3>5. CASE j \in 1..n
        BY <1>1, <1>3, <3>1, <3>2, <3>3, <3>5 DEF Prec
      <3> QED BY <1>4, <3>4, <3>5
    <2>2. ASSUME Prec(v, x, y)
          PROVE  Prec(w, x, y)
      <3>1. PICK i, j \in 1..n : i < j /\ v[i] = x /\ v[j] = y
        BY <1>1, <2>2 DEF Prec
      <3> QED BY <1>3, <1>4, <3>1 DEF Prec
    <2>3. ASSUME x \in Range(v), y = e
          PROVE  Prec(w, x, y)
      <3>1. PICK i \in 1..n : v[i] = x
        BY <1>1, <2>3 DEF Range
      <3> QED BY <1>3, <1>4, <2>3, <3>1 DEF Prec
    <2> QED BY <2>1, <2>2, <2>3
  <1> QED BY <1>2, <1>5, <1>6, <1>7

\* Without takes elements out and keeps the order of the others.
Filtered(v, s, n, S) ==
    /\ Apart(v)
    /\ \A x : x \in Range(v) <=> x \notin S /\ \E i \in 1..n : s[i] = x
    /\ \A x, y : Prec(v, x, y) <=>
           x \notin S /\ y \notin S /\ \E i, j \in 1..n : i < j /\ s[i] = x /\ s[j] = y

LEMMA FilteredStep ==
    ASSUME NEW X, NEW s \in Seq(X), Apart(s), NEW S, NEW n \in 1..Len(s),
           NEW v \in Seq(X), Filtered(v, s, n - 1, S)
    PROVE  Filtered(Keep(v, s[n], S), s, n, S)
  <1>1. PICK e \in X : e = s[n]
    OBVIOUS
  <1>2. /\ \A i \in 1..n : i \in 1..n - 1 \/ i = n
        /\ \A i \in 1..n - 1 : i \in 1..n /\ i < n /\ ~(n < i) /\ i \in 1..Len(s) /\ i # n
        /\ n \in 1..n /\ n \in 1..Len(s) /\ ~(n < n)
    OBVIOUS
  <1>3. \A i \in 1..n - 1 : s[i] # e
    <2>1. DOMAIN s = 1..Len(s)
      OBVIOUS
    <2> QED BY <1>1, <1>2, <2>1 DEF Apart
  <1>4. /\ Apart(v)
        /\ \A x : x \in Range(v) <=> x \notin S /\ \E i \in 1..n - 1 : s[i] = x
        /\ \A x, y : Prec(v, x, y) <=>
               x \notin S /\ y \notin S /\ \E i, j \in 1..n - 1 : i < j /\ s[i] = x /\ s[j] = y
    BY DEF Filtered
  <1>5. \A x : (\E i \in 1..n : s[i] = x) <=> x = e \/ \E i \in 1..n - 1 : s[i] = x
    BY <1>1, <1>2
  <1>6. ASSUME NEW x, NEW y
        PROVE  (\E i, j \in 1..n : i < j /\ s[i] = x /\ s[j] = y)
               <=> \/ \E i, j \in 1..n - 1 : i < j /\ s[i] = x /\ s[j] = y
                   \/ y = e /\ \E i \in 1..n - 1 : s[i] = x
    <2>1. ASSUME NEW i \in 1..n, NEW j \in 1..n, i < j, s[i] = x, s[j] = y
          PROVE  \/ \E k, l \in 1..n - 1 : k < l /\ s[k] = x /\ s[l] = y
                 \/ y = e /\ \E k \in 1..n - 1 : s[k] = x
      <3>1. i \in 1..n - 1
        BY <2>1
      <3> QED BY <1>1, <1>2, <2>1, <3>1
    <2>2. (\E i, j \in 1..n - 1 : i < j /\ s[i] = x /\ s[j] = y)
          => \E i, j \in 1..n : i < j /\ s[i] = x /\ s[j] = y
      BY <1>2
    <2>3. (y = e /\ \E i \in 1..n - 1 : s[i] = x)
          => \E i, j \in 1..n : i < j /\ s[i] = x /\ s[j] = y
      BY <1>1, <1>2
    <2> QED BY <2>1, <2>2, <2>3
  <1>7. CASE e \in S
    <2>1. Keep(v, s[n], S) = v
      BY <1>1, <1>7 DEF Keep
    <2>2. \A x : x \in Range(v) <=> x \notin S /\ \E i \in 1..n : s[i] = x
      BY <1>4, <1>5, <1>7
    <2>3. \A x, y : Prec(v, x, y) <=>
               x \notin S /\ y \notin S /\ \E i, j \in 1..n : i < j /\ s[i] = x /\ s[j] = y
      <3> TAKE x, y
      <3>1. Prec(v, x, y) <=>
               x \notin S /\ y \notin S /\ \E i, j \in 1..n - 1 : i < j /\ s[i] = x /\ s[j] = y
        BY <1>4
      <3>2. CASE y = e
        BY <1>7, <3>1, <3>2
      <3>3. CASE y # e
        <4>1. (\E i, j \in 1..n : i < j /\ s[i] = x /\ s[j] = y)
              <=> \E i, j \in 1..n - 1 : i < j /\ s[i] = x /\ s[j] = y
          BY <1>6, <3>3
        <4> QED BY <3>1, <4>1
      <3> QED BY <3>2, <3>3
    <2> QED BY <1>4, <2>1, <2>2, <2>3 DEF Filtered
  <1>8. CASE e \notin S
    <2>1. PICK w : w = Append(v, e)
      OBVIOUS
    <2>2. Keep(v, s[n], S) = w
      BY <1>1, <1>8, <2>1 DEF Keep
    <2>3. e \notin Range(v)
      BY <1>3, <1>4
    <2>4. /\ Range(w) = Range(v) \cup {e} /\ Apart(w)
          /\ \A x, y : Prec(w, x, y) <=> Prec(v, x, y) \/ (x \in Range(v) /\ y = e)
      BY <1>4, <2>1, <2>3, AppendOrder
    <2>5. \A x : x \in Range(w) <=> x \notin S /\ \E i \in 1..n : s[i] = x
      BY <1>4, <1>5, <1>8, <2>4
    <2>6. \A x, y : Prec(w, x, y) <=>
               x \notin S /\ y \notin S /\ \E i, j \in 1..n : i < j /\ s[i] = x /\ s[j] = y
      <3> TAKE x, y
      <3>1. Prec(w, x, y) <=> Prec(v, x, y) \/ (x \in Range(v) /\ y = e)
        BY <2>4
      <3>2. Prec(v, x, y) <=>
               x \notin S /\ y \notin S /\ \E i, j \in 1..n - 1 : i < j /\ s[i] = x /\ s[j] = y
        BY <1>4
      <3>3. (x \in Range(v) /\ y = e) <=>
               x \notin S /\ y \notin S /\ y = e /\ \E i \in 1..n - 1 : s[i] = x
        BY <1>4, <1>8
      <3> QED BY <1>6, <3>1, <3>2, <3>3
    <2> QED BY <2>2, <2>4, <2>5, <2>6 DEF Filtered
  <1> QED BY <1>7, <1>8

LEMMA WithoutOrder ==
    ASSUME NEW X, NEW s \in Seq(X), Apart(s), NEW S
    PROVE  /\ Without(s, S) \in Seq(X) /\ Apart(Without(s, S))
           /\ Range(Without(s, S)) = Range(s) \ S
           /\ \A x, y : Prec(Without(s, S), x, y) <=> Prec(s, x, y) /\ x \notin S /\ y \notin S
  <1>1. PICK g : KeepSteps(g, Seq(X), Len(s), s, S) /\ Without(s, S) = g[Len(s)]
    BY WithoutDef
  <1>2. PICK n \in Nat : n = Len(s) /\ DOMAIN s = 1..n
    OBVIOUS
  <1>3. /\ g \in [0..n -> Seq(X)] /\ g[0] = <<>>
        /\ \A i \in 1..n : g[i] = Keep(g[i - 1], s[i], S)
    BY <1>1, <1>2 DEF KeepSteps
  <1> DEFINE P == {i \in 0..n : Filtered(g[i], s, i, S)}
  <1>4. 0 \in P
    <2>1. Apart(<<>>) /\ Range(<<>>) = {} /\ \A x, y : ~Prec(<<>>, x, y)
      BY DEF Apart, Range, Prec
    <2>2. 1..0 = {} /\ 0 \in 0..n
      OBVIOUS
    <2>3. Filtered(<<>>, s, 0, S)
      BY <2>1, <2>2 DEF Filtered
    <2> QED BY <1>3, <2>2, <2>3
  <1>5. ASSUME NEW i \in 1..n, i - 1 \in P
        PROVE  i \in P
    <2>1. i \in 0..n /\ i - 1 \in 0..n /\ i \in 1..Len(s)
      BY <1>2
    <2>2. PICK v \in Seq(X) : v = g[i - 1]
      BY <1>3, <2>1
    <2>3. Filtered(v, s, i - 1, S)
      BY <1>5, <2>2
    <2>4. Filtered(Keep(v, s[i], S), s, i, S)
      BY <2>1, <2>3, FilteredStep
    <2>5. g[i] = Keep(v, s[i], S)
      BY <1>3, <2>2
    <2> QED BY <2>1, <2>4, <2>5
  <1>6. 0..n \subseteq P
    <2> HIDE DEF P
    <2> QED BY <1>4, <1>5, Iteration
  <1>7. n \in 0..n
    OBVIOUS
  <1>8. Filtered(g[n], s, n, S)
    BY <1>6, <1>7
  <1>9. PICK w : w = Without(s, S)
    OBVIOUS
  <1>10. w \in Seq(X) /\ Filtered(w, s, n, S)
    BY <1>1, <1>2, <1>3, <1>7, <1>8, <1>9
  <1>11. Range(w) = Range(s) \ S
    <2>1. \A x : x \in Range(w) <=> x \notin S /\ \E i \in 1..n : s[i] = x
      BY <1>10 DEF Filtered
    <2>2. \A x : x \in Range(s) <=> \E i \in 1..n : s[i] = x
      BY <1>2 DEF Range
    <2> QED BY <2>1, <2>2
  <1>12. \A x, y : Prec(w, x, y) <=> Prec(s, x, y) /\ x \notin S /\ y \notin S
    <2>1. \A x, y : Prec(w, x, y) <=>
           x \notin S /\ y \notin S /\ \E i, j \in 1..n : i < j /\ s[i] = x /\ s[j] = y
      BY <1>10 DEF Filtered
    <2>2. \A x, y : Prec(s, x, y) <=> \E i, j \in 1..n : i < j /\ s[i] = x /\ s[j] = y
      BY <1>2 DEF Prec
    <2> QED BY <2>1, <2>2
  <1> QED BY <1>9, <1>10, <1>11, <1>12 DEF Filtered

\* What is added at the end comes last.
LEMMA ConcatOrder ==
    ASSUME NEW X, NEW s \in Seq(X), NEW t \in Seq(X), Apart(s), Apart(t),
           Range(s) \cap Range(t) = {}
    PROVE  /\ s \o t \in Seq(X) /\ Apart(s \o t)
           /\ Range(s \o t) = Range(s) \cup Range(t)
           /\ \A x, y : Prec(s \o t, x, y) <=>
                  Prec(s, x, y) \/ Prec(t, x, y) \/ (x \in Range(s) /\ y \in Range(t))
  <1>1. PICK n \in Nat : n = Len(s) /\ DOMAIN s = 1..n
    OBVIOUS
  <1>2. PICK m \in Nat : m = Len(t) /\ DOMAIN t = 1..m
    OBVIOUS
  <1>3. PICK c : c = s \o t
    OBVIOUS
  <1>4. /\ c \in Seq(X) /\ Len(c) = n + m
        /\ \A i \in 1..n + m : c[i] = IF i <= n THEN s[i] ELSE t[i - n]
    BY <1>1, <1>2, <1>3, ConcatProperties
  <1>5. DOMAIN c = 1..n + m
    BY <1>4
  <1>6. /\ \A i \in 1..n + m : i \in 1..n \/ (~(i <= n) /\ i - n \in 1..m /\ i = n + (i - n))
        /\ \A i \in 1..n : i \in 1..n + m /\ i <= n
        /\ \A k \in 1..m : n + k \in 1..n + m /\ ~(n + k <= n) /\ (n + k) - n = k
    OBVIOUS
  <1>7. /\ \A i \in 1..n : c[i] = s[i] /\ i \in DOMAIN c /\ s[i] \in Range(s)
        /\ \A k \in 1..m : c[n + k] = t[k] /\ n + k \in DOMAIN c /\ t[k] \in Range(t)
    <2>1. \A i \in 1..n : s[i] \in Range(s)
      BY <1>1 DEF Range
    <2>2. \A k \in 1..m : t[k] \in Range(t)
      BY <1>2 DEF Range
    <2> QED BY <1>4, <1>5, <1>6, <2>1, <2>2
  <1>8. \A i \in DOMAIN c : i \in 1..n \/ \E k \in 1..m : i = n + k
    BY <1>5, <1>6
  <1>9. /\ \A x \in Range(s) : \E i \in 1..n : s[i] = x
        /\ \A x \in Range(t) : \E i \in 1..m : t[i] = x
        /\ \A x \in Range(c) : \E i \in DOMAIN c : c[i] = x
    BY <1>1, <1>2 DEF Range
  <1>10. Range(c) = Range(s) \cup Range(t)
    <2>1. ASSUME NEW x \in Range(c)
          PROVE  x \in Range(s) \cup Range(t)
      <3>1. PICK i \in DOMAIN c : c[i] = x
        BY <1>9
      <3>2. CASE i \in 1..n
        BY <1>7, <3>1, <3>2
      <3>3. CASE i \notin 1..n
        BY <1>7, <1>8, <3>1, <3>3
      <3> QED BY <3>2, <3>3
    <2>2. \A i \in DOMAIN c : c[i] \in Range(c)
      BY DEF Range
    <2>3. \A x \in Range(s) \cup Range(t) : x \in Range(c)
      BY <1>7, <1>9, <2>2
    <2> QED BY <2>1, <2>3
  <1>11. Apart(c)
    <2>1. ASSUME NEW i \in DOMAIN c, NEW j \in DOMAIN c, i # j
          PROVE  c[i] # c[j]
      <3>1. CASE i \in 1..n /\ j \in 1..n
        BY <1>1, <1>7, <2>1, <3>1 DEF Apart
      <3>2. CASE i \in 1..n /\ j \notin 1..n
        BY <1>7, <1>8, <3>2
      <3>3. CASE i \notin 1..n /\ j \in 1..n
        BY <1>7, <1>8, <3>3
      <3>4. CASE i \notin 1..n /\ j \notin 1..n
        <4>1. PICK k \in 1..m : i = n + k
          BY <1>8, <3>4
        <4>2. PICK l \in 1..m : j = n + l
          BY <1>8, <3>4
        <4>3. k # l
          BY <2>1, <4>1, <4>2
        <4>4. t[k] # t[l]
          BY <1>2, <4>3 DEF Apart
        <4> QED BY <1>7, <4>1, <4>2, <4>4
      <3> QED BY <3>1, <3>2, <3>3, <3>4
    <2> QED BY <2>1 DEF Apart
  <1>12. ASSUME NEW x, NEW y
         PROVE  Prec(c, x, y) <=>
                  Prec(s, x, y) \/ Prec(t, x, y) \/ (x \in Range(s) /\ y \in Range(t))
    <2>1. ASSUME Prec(c, x, y)
          PROVE  Prec(s, x, y) \/ Prec(t, x, y) \/ (x \in Range(s) /\ y \in Range(t))
      <3>1. PICK i, j \in DOMAIN c : i < j /\ c[i] = x /\ c[j] = y
        BY <2>1 DEF Prec
      <3>2. CASE i \in 1..n /\ j \in 1..n
        <4>1. s[i] = x /\ s[j] = y
          BY <1>7, <3>1, <3>2
        <4> QED BY <1>1, <3>1, <3>2, <4>1 DEF Prec
      <3>3. CASE i \in 1..n /\ j \notin 1..n
        BY <1>7, <1>8, <3>1, <3>3
      <3>4. CASE i \notin 1..n
        <4>1. PICK k \in 1..m : i = n + k
          BY <1>8, <3>4
        <4>2. j \notin 1..n
          BY <3>1, <4>1
        <4>3. PICK l \in 1..m : j = n + l
          BY <1>8, <4>2
        <4>4. k < l /\ t[k] = x /\ t[l] = y
          BY <1>7, <3>1, <4>1, <4>3
        <4> QED BY <1>2, <4>4 DEF Prec
      <3> QED BY <3>2, <3>3, <3>4
    <2>2. ASSUME Prec(s, x, y)
          PROVE  Prec(c, x, y)
      <3>1. PICK i, j \in 1..n : i < j /\ s[i] = x /\ s[j] = y
        BY <1>1, <2>2 DEF Prec
      <3> QED BY <1>7, <3>1 DEF Prec
    <2>3. ASSUME Prec(t, x, y)
          PROVE  Prec(c, x, y)
      <3>1. PICK i, j \in 1..m : i < j /\ t[i] = x /\ t[j] = y
        BY <1>2, <2>3 DEF Prec
      <3>2. n + i < n + j
        BY <3>1
      <3> QED BY <1>7, <3>1, <3>2 DEF Prec
    <2>4. ASSUME x \in Range(s), y \in Range(t)
          PROVE  Prec(c, x, y)
      <3>1. PICK i \in 1..n : s[i] = x
        BY <1>9, <2>4
      <3>2. PICK j \in 1..m : t[j] = y
        BY <1>9, <2>4
      <3>3. i < n + j
        OBVIOUS
      <3> QED BY <1>7, <3>1, <3>2, <3>3 DEF Prec
    <2> QED BY <2>1, <2>2, <2>3, <2>4
  <1> QED BY <1>3, <1>4, <1>10, <1>11, <1>12

----------------------------------------------------------------------------
(* Counting. *)

\* A function takes no more values on a set than the set has elements.
LEMMA ImageSize ==
    ASSUME NEW S, IsFiniteSet(S), NEW f
    PROVE  /\ IsFiniteSet({f[x] : x \in S})
           /\ Cardinality({f[x] : x \in S}) <= Cardinality(S)
  <1> DEFINE T == {f[x] : x \in S}
             g == [x \in S |-> f[x]]
  <1>1. g \in Surjection(S, T)
    BY DEF Surjection
  <1> HIDE DEF T, g
  <1>2. IsFiniteSet(T) /\ Cardinality(T) <= Cardinality(S)
    BY <1>1, FS_Surjection
  <1> QED BY <1>2 DEF T

\* A part of a finite set is no larger.
LEMMA SubsetSize ==
    ASSUME NEW S, IsFiniteSet(S), NEW T, T \subseteq S
    PROVE  /\ IsFiniteSet(T) /\ Cardinality(T) \in Nat /\ Cardinality(S) \in Nat
           /\ Cardinality(T) <= Cardinality(S)
  <1>1. T \in SUBSET S
    OBVIOUS
  <1>2. IsFiniteSet(T) /\ Cardinality(T) <= Cardinality(S)
    BY <1>1, FS_Subset
  <1> QED BY <1>2, FS_CardinalityType

\* What two finite sets cover has no more elements than the two together.
LEMMA UnionSize ==
    ASSUME NEW S, NEW T, IsFiniteSet(S), IsFiniteSet(T), NEW U, U \subseteq S \cup T
    PROVE  /\ IsFiniteSet(U)
           /\ Cardinality(U) \in Nat /\ Cardinality(S) \in Nat /\ Cardinality(T) \in Nat
           /\ Cardinality(U) <= Cardinality(S) + Cardinality(T)
  <1>1. /\ IsFiniteSet(S \cup T)
        /\ Cardinality(S \cup T) = Cardinality(S) + Cardinality(T) - Cardinality(S \cap T)
    BY FS_Union
  <1>2. IsFiniteSet(S \cap T) /\ Cardinality(S \cap T) \in Nat
    BY SubsetSize
  <1>3. IsFiniteSet(U) /\ Cardinality(U) \in Nat /\ Cardinality(U) <= Cardinality(S \cup T)
    BY <1>1, SubsetSize
  <1>4. Cardinality(S) \in Nat /\ Cardinality(T) \in Nat
    BY FS_CardinalityType
  <1> QED BY <1>1, <1>2, <1>3, <1>4

LEMMA RangeFinite ==
    ASSUME NEW X, NEW s \in Seq(X)
    PROVE  IsFiniteSet(Range(s)) /\ IsFiniteSet(DOMAIN s)
  <1>1. PICK n \in Nat : n = Len(s) /\ DOMAIN s = 1..n
    OBVIOUS
  <1>2. 1 \in Int /\ n \in Int
    OBVIOUS
  <1>3. IsFiniteSet(1..n)
    BY <1>2, FS_Interval
  <1>4. IsFiniteSet({s[i] : i \in 1..n})
    BY <1>3, ImageSize
  <1> QED BY <1>1, <1>3, <1>4 DEF Range

\* After one of the n most recent elements in T there are fewer than n, and these
\* are among the most recent too.
LEMMA RecentFacts ==
    ASSUME NEW X, NEW s \in Seq(X), Apart(s), NEW T, NEW n \in Nat,
           NEW x \in MostRecent(s, T, n),
           NEW Y, Y = {y \in Range(s) \cap T : Prec(s, x, y)}
    PROVE  /\ x \in T /\ x \in Range(s)
           /\ IsFiniteSet(Y) /\ Cardinality(Y) < n
           /\ \A y \in T : Prec(s, x, y) => y \in MostRecent(s, T, n)
  <1> DEFINE J(i) == {j \in DOMAIN s : j > i /\ s[j] \in T}
  <1>1. PICK i \in DOMAIN s : x = s[i] /\ s[i] \in T /\ Cardinality(J(i)) < n
    BY DEF MostRecent
  <1>2. DOMAIN s \subseteq Nat
    OBVIOUS
  <1>3. \A k \in DOMAIN s : IsFiniteSet(J(k)) /\ Cardinality(J(k)) \in Nat
    <2> TAKE k \in DOMAIN s
    <2>1. IsFiniteSet(DOMAIN s)
      BY RangeFinite
    <2>2. J(k) \subseteq DOMAIN s
      OBVIOUS
    <2> HIDE DEF J
    <2> QED BY <2>1, <2>2, SubsetSize
  <1>4. \A y : Prec(s, x, y) => \E j \in DOMAIN s : j > i /\ s[j] = y
    <2> TAKE y
    <2>1. ASSUME NEW k \in DOMAIN s, NEW j \in DOMAIN s, k < j, s[k] = x, s[j] = y
          PROVE  j > i
      <3>1. k = i
        BY <1>1, <2>1 DEF Apart
      <3> QED BY <1>2, <2>1, <3>1
    <2> QED BY <2>1 DEF Prec
  <1>5. IsFiniteSet(Y) /\ Cardinality(Y) < n
    <2>1. \A y \in Y : \E j \in J(i) : s[j] = y
      BY <1>4
    <2> HIDE DEF J
    <2>2. Y \subseteq {s[j] : j \in J(i)}
      BY <2>1
    <2>3. /\ IsFiniteSet({s[j] : j \in J(i)})
          /\ Cardinality({s[j] : j \in J(i)}) <= Cardinality(J(i))
      BY <1>1, <1>3, ImageSize
    <2>4. /\ IsFiniteSet(Y) /\ Cardinality(Y) \in Nat
          /\ Cardinality({s[j] : j \in J(i)}) \in Nat
          /\ Cardinality(Y) <= Cardinality({s[j] : j \in J(i)})
      BY <2>2, <2>3, SubsetSize
    <2>5. Cardinality(Y) <= Cardinality(J(i))
      BY <1>1, <1>3, <2>3, <2>4
    <2> QED BY <1>1, <1>3, <2>4, <2>5
  <1>6. ASSUME NEW y \in T, Prec(s, x, y)
        PROVE  y \in MostRecent(s, T, n)
    <2>1. PICK j \in DOMAIN s : j > i /\ s[j] = y
      BY <1>4, <1>6
    <2>2. J(j) \subseteq J(i)
      BY <1>2, <2>1
    <2>3. Cardinality(J(j)) < n
      <3> HIDE DEF J
      <3>1. Cardinality(J(j)) <= Cardinality(J(i))
        BY <1>1, <1>3, <2>2, SubsetSize
      <3> QED BY <1>1, <1>3, <2>1, <3>1
    <2> QED BY <1>6, <2>1, <2>3 DEF MostRecent
  <1>7. x \in T /\ x \in Range(s)
    BY <1>1 DEF Range
  <1> QED BY <1>5, <1>6, <1>7

\* At most n elements of U have fewer than n others of U after them.
LEMMA FewRecent ==
    ASSUME NEW X, NEW s \in Seq(X), Apart(s), NEW U, U \subseteq Range(s), NEW n \in Nat,
           NEW R, R = {x \in U : Cardinality({y \in U : Prec(s, x, y)}) < n}
    PROVE  IsFiniteSet(R) /\ Cardinality(R) <= n
  <1> DEFINE Rest(x) == {y \in U : Prec(s, x, y)}
             N == {x \in U : Cardinality(Rest(x)) < n}
             I == {i \in DOMAIN s : s[i] \in N}
  <1> SUFFICES IsFiniteSet(N) /\ Cardinality(N) <= n
    OBVIOUS
  <1>1. N \subseteq U /\ \A x : Rest(x) \subseteq U
    OBVIOUS
  <1>2. IsFiniteSet(U)
    BY RangeFinite, SubsetSize
  <1>3. IsFiniteSet(N) /\ \A x : IsFiniteSet(Rest(x)) /\ Cardinality(Rest(x)) \in Nat
    <2> HIDE DEF N, Rest
    <2> QED BY <1>1, <1>2, SubsetSize
  <1>4. CASE N = {}
    <2> HIDE DEF N
    <2> QED BY <1>4, FS_EmptySet
  <1>5. CASE N # {}
    <2>1. I \subseteq Nat /\ I # {}
      <3>1. PICK x \in N : x \in Range(s)
        BY <1>5
      <3>2. PICK i \in DOMAIN s : s[i] = x
        BY <3>1 DEF Range
      <3>3. DOMAIN s \subseteq Nat
        OBVIOUS
      <3>4. i \in I
        BY <3>1, <3>2
      <3> QED BY <3>3, <3>4
    <2>2. PICK i \in I : \A j \in I : i <= j
      <3> HIDE DEF I
      <3> QED BY <2>1, LeastNatural
    <2>3. PICK x : x = s[i]
      OBVIOUS
    <2>4. ASSUME NEW y \in N, y # x
          PROVE  y \in Rest(x)
      <3>1. PICK j \in DOMAIN s : s[j] = y
        BY <2>4 DEF Range
      <3>2. j \in I /\ i \in DOMAIN s
        BY <2>4, <3>1
      <3>3. i <= j /\ i # j /\ i \in Nat /\ j \in Nat
        <4>1. i # j
          BY <2>3, <2>4, <3>1
        <4> HIDE DEF I
        <4> QED BY <2>1, <2>2, <3>2, <4>1
      <3>4. i < j
        BY <3>3
      <3>5. Prec(s, x, y)
        BY <2>3, <3>1, <3>2, <3>4 DEF Prec
      <3> QED BY <2>4, <3>5
    <2>5. x \in N /\ Cardinality(Rest(x)) < n
      BY <2>2, <2>3
    <2> HIDE DEF N, Rest, I
    <2>6. N \subseteq {x} \cup Rest(x)
      BY <2>4
    <2>7. IsFiniteSet({x}) /\ Cardinality({x}) = 1
      BY FS_Singleton
    <2>8. Cardinality(N) \in Nat /\ Cardinality(N) <= Cardinality({x}) + Cardinality(Rest(x))
      BY <1>3, <2>6, <2>7, UnionSize
    <2>9. Cardinality(Rest(x)) \in Nat
      BY <1>3
    <2> QED BY <1>3, <2>5, <2>7, <2>8, <2>9
  <1> QED BY <1>4, <1>5

----------------------------------------------------------------------------
(* When a wake is forgotten. *)

\* The wakes that are newer than that for b.
Newer(w, b) == {c \in Range(w) : Prec(w, b, c)}

LEMMA TailOrder ==
    ASSUME NEW X, NEW n \in Nat, NEW v \in Seq(X), Len(v) = n + 1, Apart(v),
           NEW u \in Seq(X), Len(u) = n, \A i \in 1..n : u[i] = v[i + 1]
    PROVE  /\ Apart(u) /\ Range(u) = Range(v) \ {v[1]}
           /\ \A x, y : Prec(u, x, y) => Prec(v, x, y)
  <1>1. DOMAIN v = 1..n + 1 /\ DOMAIN u = 1..n
    OBVIOUS
  <1>2. /\ \A i \in 1..n : i + 1 \in 1..n + 1 /\ i + 1 # 1
        /\ \A i \in 1..n + 1 : i # 1 => i - 1 \in 1..n /\ (i - 1) + 1 = i
        /\ \A i, j \in 1..n : (i # j => i + 1 # j + 1) /\ (i < j => i + 1 < j + 1)
        /\ 1 \in 1..n + 1
    OBVIOUS
  <1>3. Apart(u)
    <2>1. ASSUME NEW i \in 1..n, NEW j \in 1..n, i # j
          PROVE  u[i] # u[j]
      <3>1. i + 1 \in 1..n + 1 /\ j + 1 \in 1..n + 1 /\ i + 1 # j + 1
        BY <1>2, <2>1
      <3>2. v[i + 1] # v[j + 1]
        BY <1>1, <3>1 DEF Apart
      <3> QED BY <3>2
    <2> QED BY <1>1, <2>1 DEF Apart
  <1>4. ASSUME NEW x \in Range(u)
        PROVE  x \in Range(v) /\ x # v[1]
    <2>1. PICK i \in 1..n : u[i] = x
      BY <1>1 DEF Range
    <2>2. x = v[i + 1] /\ i + 1 \in 1..n + 1 /\ i + 1 # 1
      BY <1>2, <2>1
    <2> QED BY <1>1, <1>2, <2>2 DEF Apart, Range
  <1>5. ASSUME NEW x \in Range(v), x # v[1]
        PROVE  x \in Range(u)
    <2>1. PICK i \in 1..n + 1 : v[i] = x
      BY <1>1 DEF Range
    <2>2. i # 1
      BY <1>5, <2>1
    <2>3. i - 1 \in 1..n /\ u[i - 1] = x
      BY <1>2, <2>1, <2>2
    <2> QED BY <1>1, <2>3 DEF Range
  <1>6. ASSUME NEW x, NEW y, Prec(u, x, y)
        PROVE  Prec(v, x, y)
    <2>1. PICK i, j \in 1..n : i < j /\ u[i] = x /\ u[j] = y
      BY <1>1, <1>6 DEF Prec
    <2>2. i + 1 < j + 1 /\ v[i + 1] = x /\ v[j + 1] = y /\ i + 1 \in 1..n + 1 /\ j + 1 \in 1..n + 1
      BY <1>2, <2>1
    <2> QED BY <1>1, <2>2 DEF Prec
  <1>7. Range(u) = Range(v) \ {v[1]}
    BY <1>4, <1>5
  <1> QED BY <1>3, <1>6, <1>7

\* Distinct elements: as many as positions.
LEMMA ApartSize ==
    ASSUME NEW X, NEW w \in Seq(X), Apart(w)
    PROVE  Cardinality(Range(w)) \in Nat /\ Len(w) <= Cardinality(Range(w))
  <1>1. PICK n \in Nat : n = Len(w) /\ DOMAIN w = 1..n
    OBVIOUS
  <1>2. w \in Injection(1..n, Range(w))
    <2>1. w \in [1..n -> Range(w)]
      BY <1>1 DEF Range
    <2>2. \A i, j \in 1..n : w[i] = w[j] => i = j
      BY <1>1 DEF Apart
    <2> QED BY <2>1, <2>2 DEF Injection, IsInjective
  <1>3. IsFiniteSet(Range(w)) /\ Cardinality(Range(w)) \in Nat
    BY RangeFinite, FS_CardinalityType
  <1>4. Cardinality(1..n) <= Cardinality(Range(w))
    BY <1>2, <1>3, FS_Injection
  <1>5. 1 \in Int /\ n \in Int
    OBVIOUS
  <1>6. Cardinality(1..n) = IF 1 > n THEN 0 ELSE n - 1 + 1
    BY <1>5, FS_Interval
  <1>7. Cardinality(1..n) = n
    BY <1>6
  <1> QED BY <1>1, <1>3, <1>4, <1>7

\* To remember c forgets b only when MaxWoken wakes are newer, that of c included.
LEMMA RememberOrder ==
    ASSUME NEW w \in Wakes, Apart(w), NEW b \in Batches, NEW c \in Batches
    PROVE  /\ Apart(Remember(w, c)) /\ c \in Range(Remember(w, c))
           /\ Newer(Remember(w, c), b) \subseteq Newer(w, b) \cup {c}
           /\ b \in Range(w) /\ b \notin Range(Remember(w, c)) =>
                  MaxWoken <= Cardinality(Newer(w, b) \cup {c})
  <1>1. MaxWoken \in Nat \ {0}
    BY AgentManagerAssumption
  <1>2. w \in Seq(Batches) /\ Len(w) <= MaxWoken
    BY DEF Wakes
  <1>3. CASE c \in Range(w)
    <2>1. Remember(w, c) = w
      BY <1>3 DEF Remember
    <2> QED BY <1>3, <2>1
  <1>4. CASE c \notin Range(w)
    <2>1. PICK n \in Nat : n = Len(w) /\ DOMAIN w = 1..n
      BY <1>2
    <2>2. PICK v \in Seq(Batches) : v = Append(w, c)
      <3>1. Append(w, c) \in Seq(Batches)
        BY <1>2
      <3> QED BY <3>1
    <2>3. /\ Range(v) = Range(w) \cup {c} /\ Apart(v)
          /\ \A x, y : Prec(v, x, y) <=> Prec(w, x, y) \/ (x \in Range(w) /\ y = c)
      BY <1>2, <1>4, <2>2, AppendOrder
    <2>4. Len(v) = n + 1 /\ v[n + 1] = c /\ \A i \in 1..n : v[i] = w[i]
      BY <1>2, <2>1, <2>2
    <2>5. Newer(v, b) \subseteq Newer(w, b) \cup {c}
      BY <2>3 DEF Newer
    <2>l. PICK l \in Nat : l = Len(v) /\ l = n + 1
      BY <2>4
    <2>6. Remember(w, c) = IF l <= MaxWoken THEN v ELSE SubSeq(v, l - MaxWoken + 1, l)
      <3>1. Remember(w, c) = LastOf(v, MaxWoken)
        BY <1>4, <2>2 DEF Remember
      <3> QED BY <2>l, <3>1 DEF LastOf
    <2>7. CASE l <= MaxWoken
      <3>1. Remember(w, c) = v
        BY <2>6, <2>7
      <3> QED BY <2>3, <2>5, <3>1
    <2>8. CASE ~(l <= MaxWoken)
      <3>1. n = MaxWoken /\ n >= 1 /\ l - MaxWoken + 1 = 2
        BY <1>1, <1>2, <2>1, <2>l, <2>8
      <3>2. PICK u : u = SubSeq(v, 2, l)
        OBVIOUS
      <3>3. Remember(w, c) = u
        BY <2>6, <2>8, <3>1, <3>2
      <3>4. u \in Seq(Batches) /\ Len(u) = n /\ \A i \in 1..n : u[i] = v[i + 1]
        <4>1. 2 \in Int /\ n + 1 \in Int /\ 2 <= n + 1 /\ (n + 1) - 2 + 1 = n
          BY <3>1
        <4>2. \A i \in 2..n + 1 : v[i] \in Batches
          BY <2>4
        <4>3. /\ u \in Seq(Batches)
              /\ Len(u) = IF 2 <= n + 1 THEN (n + 1) - 2 + 1 ELSE 0
              /\ \A i \in 1..(n + 1) - 2 + 1 : u[i] = v[2 + i - 1]
          <5>1. u = SubSeq(v, 2, n + 1)
            BY <2>l, <3>2
          <5> QED BY <4>1, <4>2, <5>1, SubSeqProperties
        <4>4. \A i \in 1..n : 2 + i - 1 = i + 1
          OBVIOUS
        <4>5. Len(u) = n
          BY <4>1, <4>3
        <4>6. \A i \in 1..n : u[i] = v[i + 1]
          BY <4>1, <4>3, <4>4
        <4> QED BY <4>3, <4>5, <4>6
      <3>5. /\ Apart(u) /\ Range(u) = Range(v) \ {v[1]}
            /\ \A x, y : Prec(u, x, y) => Prec(v, x, y)
        BY <2>3, <2>4, <3>4, TailOrder
      <3>6. v[1] = w[1] /\ w[1] \in Range(w)
        <4>1. 1 \in 1..n
          BY <3>1
        <4> QED BY <2>1, <2>4, <4>1 DEF Range
      <3>7. c \in Range(u)
        BY <1>4, <2>3, <3>5, <3>6
      <3>8. Newer(u, b) \subseteq Newer(w, b) \cup {c}
        BY <2>5, <3>5 DEF Newer
      <3>9. ASSUME b \in Range(w), b \notin Range(u)
            PROVE  MaxWoken <= Cardinality(Newer(w, b) \cup {c})
        <4>1. b = w[1]
          BY <2>3, <3>5, <3>6, <3>9
        <4>2. ASSUME NEW y \in Range(w), y # b
              PROVE  Prec(w, b, y)
          <5>1. PICK j \in 1..n : w[j] = y
            BY <2>1 DEF Range
          <5>2. 1 \in 1..n /\ 1 < j
            BY <3>1, <4>1, <4>2, <5>1
          <5> QED BY <2>1, <4>1, <5>1, <5>2 DEF Prec
        <4>3. PICK N : N = Newer(w, b)
          OBVIOUS
        <4>4. Range(w) \subseteq {b} \cup N /\ N \subseteq Range(w)
          BY <4>2, <4>3 DEF Newer
        <4>5. IsFiniteSet(Range(w)) /\ IsFiniteSet(N)
          <5>1. IsFiniteSet(Range(w))
            BY <1>2, RangeFinite
          <5> QED BY <4>4, <5>1, SubsetSize
        <4>6. IsFiniteSet({b}) /\ Cardinality({b}) = 1
          BY FS_Singleton
        <4>7. /\ Cardinality(N) \in Nat /\ Cardinality(Range(w)) \in Nat
              /\ Cardinality(Range(w)) <= 1 + Cardinality(N)
          BY <4>4, <4>5, <4>6, UnionSize
        <4>8. n <= Cardinality(Range(w))
          BY <1>2, <2>1, ApartSize
        <4>9. Cardinality(N \cup {c}) = Cardinality(N) + 1
          <5>1. c \notin N
            BY <1>4, <4>4
          <5> QED BY <4>5, <5>1, FS_AddElement
        <4> QED BY <3>1, <4>3, <4>7, <4>8, <4>9
      <3> QED BY <3>3, <3>5, <3>7, <3>8, <3>9
    <2> QED BY <2>7, <2>8
  <1> QED BY <1>3, <1>4

\* Known computes its recursion.
LEMMA KnownSteps ==
    ASSUME NEW w \in Wakes, NEW order \in Seq(Batches)
    PROVE  /\ Known(w, order)[0] = w
           /\ \A i \in 1..Len(order) :
                 Known(w, order)[i] = Remember(Known(w, order)[i - 1], order[i])
  <1> DEFINE known == CHOOSE f : f = KnownFrom(f, Len(order), w, order)
  <1>1. Known(w, order) = known
    BY DEF Known, KnownFrom
  <1>2. Len(order) \in Nat /\ order \in [1..Len(order) -> Batches]
    OBVIOUS
  <1>3. \E f : f = KnownFrom(f, Len(order), w, order)
    BY <1>2, KnownExists
  <1>4. known = KnownFrom(known, Len(order), w, order)
    BY <1>3
  <1> HIDE DEF known
  <1>5. 0 \in 0..Len(order) /\ \A i \in 1..Len(order) : i \in 0..Len(order) /\ i # 0
    OBVIOUS
  <1>6. known[0] = w /\ \A i \in 1..Len(order) : known[i] = Remember(known[i - 1], order[i])
    BY <1>4, <1>5 DEF KnownFrom
  <1> QED BY <1>1, <1>6

\* The batches of one update: b is forgotten among them only when MaxWoken others
\* are newer or in that update.
LEMMA KnownOrder ==
    ASSUME NEW w \in Wakes, Apart(w), NEW order \in Seq(Batches), NEW b \in Batches
    PROVE  \A i \in 0..Len(order) :
              /\ Apart(Known(w, order)[i])
              /\ Newer(Known(w, order)[i], b) \subseteq Newer(w, b) \cup Range(order)
              /\ /\ Cardinality((Newer(w, b) \cup Range(order)) \ {b}) < MaxWoken
                 /\ b \in Range(w) \/ \E k \in 1..i : order[k] = b
                 => b \in Range(Known(w, order)[i])
  <1>1. PICK n \in Nat : n = Len(order) /\ DOMAIN order = 1..n
    OBVIOUS
  <1>2. PICK f : f = Known(w, order)
    OBVIOUS
  <1>3. f[0] = w /\ \A i \in 1..n : f[i] = Remember(f[i - 1], order[i])
    BY <1>1, <1>2, KnownSteps
  <1>4. \A i \in 0..n : f[i] \in Wakes
    BY <1>1, <1>2, KnownFacts
  <1>5. PICK Y : Y = (Newer(w, b) \cup Range(order)) \ {b}
    OBVIOUS
  <1>6. IsFiniteSet(Y)
    <2>1. w \in Seq(Batches)
      BY DEF Wakes
    <2>2. IsFiniteSet(Range(w)) /\ IsFiniteSet(Range(order))
      BY <2>1, RangeFinite
    <2>3. Y \subseteq Range(w) \cup Range(order)
      BY <1>5 DEF Newer
    <2> QED BY <2>2, <2>3, UnionSize
  <1> DEFINE Good(i) ==
          /\ Apart(f[i])
          /\ Newer(f[i], b) \subseteq Newer(w, b) \cup Range(order)
          /\ Cardinality(Y) < MaxWoken /\ (b \in Range(w) \/ \E k \in 1..i : order[k] = b)
             => b \in Range(f[i])
             P == {i \in 0..n : Good(i)}
  <1>7. 0 \in P
    <2>1. 0 \in 0..n /\ 1..0 = {}
      OBVIOUS
    <2> QED BY <1>3, <2>1
  <1>8. ASSUME NEW i \in 1..n, i - 1 \in P
        PROVE  i \in P
    <2>1. i - 1 \in 0..n /\ i \in 0..n /\ \A k \in 1..i : k \in 1..i - 1 \/ k = i
      OBVIOUS
    <2>2. PICK v : v = f[i - 1]
      OBVIOUS
    <2>3. v \in Wakes /\ Apart(v) /\ Newer(v, b) \subseteq Newer(w, b) \cup Range(order)
      BY <1>4, <1>8, <2>1, <2>2
    <2>4. PICK c \in Batches : c = order[i]
      BY <1>1
    <2>5. c \in Range(order)
      BY <1>1, <2>4 DEF Range
    <2>6. f[i] = Remember(v, c)
      BY <1>3, <2>2, <2>4
    <2>7. /\ Apart(f[i]) /\ c \in Range(f[i])
          /\ Newer(f[i], b) \subseteq Newer(v, b) \cup {c}
          /\ b \in Range(v) /\ b \notin Range(f[i]) =>
                  MaxWoken <= Cardinality(Newer(v, b) \cup {c})
      <3>1. v \in Wakes /\ Apart(v)
        BY <2>3
      <3>2. /\ Apart(Remember(v, c)) /\ c \in Range(Remember(v, c))
            /\ Newer(Remember(v, c), b) \subseteq Newer(v, b) \cup {c}
            /\ b \in Range(v) /\ b \notin Range(Remember(v, c)) =>
                  MaxWoken <= Cardinality(Newer(v, b) \cup {c})
        BY <3>1, RememberOrder
      <3> QED BY <2>6, <3>2
    <2>8. Newer(f[i], b) \subseteq Newer(w, b) \cup Range(order)
      BY <2>3, <2>5, <2>7
    <2>9. ASSUME Cardinality(Y) < MaxWoken, b \in Range(w) \/ \E k \in 1..i : order[k] = b
          PROVE  b \in Range(f[i])
      <3>1. CASE b = c
        BY <2>7, <3>1
      <3>2. CASE b # c
        <4>1. b \in Range(v)
          <5>1. b \in Range(w) \/ \E k \in 1..i - 1 : order[k] = b
            BY <2>1, <2>4, <2>9, <3>2
          <5> QED BY <1>8, <2>2, <2>9, <5>1
        <4>2. b \notin Newer(v, b)
          <5>1. v \in Seq(Batches)
            BY <2>3 DEF Wakes
          <5>2. ~Prec(v, b, b)
            BY <2>3, <5>1, PrecOrder
          <5> QED BY <5>2 DEF Newer
        <4>3. Newer(v, b) \cup {c} \subseteq Y
          BY <1>5, <2>3, <2>5, <3>2, <4>2
        <4>4. PICK Z : Z = Newer(v, b) \cup {c}
          OBVIOUS
        <4>5. Cardinality(Z) <= Cardinality(Y) /\ Cardinality(Z) \in Nat /\ Cardinality(Y) \in Nat
          BY <1>6, <4>3, <4>4, SubsetSize
        <4>6. ~(MaxWoken <= Cardinality(Z))
          BY <2>9, <4>5, AgentManagerAssumption
        <4> QED BY <2>7, <4>1, <4>4, <4>6
      <3> QED BY <3>1, <3>2
    <2>10. Good(i)
      BY <2>7, <2>8, <2>9
    <2> QED BY <2>1, <2>10
  <1>9. 0..n \subseteq P
    <2> HIDE DEF P
    <2> QED BY <1>7, <1>8, Iteration
  <1>10. \A i \in 0..n : Good(i)
    BY <1>9
  <1> QED BY <1>1, <1>2, <1>5, <1>10

----------------------------------------------------------------------------
(* A batch with the agents M in the list s of those that ended; D are the  *)
(* aborted ones, which may move in the list.                               *)

\* The others up to the last of M, of these the last MaxVisible, and those after M.
UpTo(s, D, M) == {x \in Range(s) \ D : \E y \in M \cap Range(s) : x = y \/ Prec(s, x, y)}
Near(s, D, M) ==
    {x \in UpTo(s, D, M) : Cardinality({y \in UpTo(s, D, M) : Prec(s, x, y)}) < MaxVisible}
Past(s, D, M) == {x \in Range(s) \ D : \A y \in M \cap Range(s) : Prec(s, y, x)}

\* The list t with the aborted agents E follows s with D: the agents K keep their
\* order, others come last, and no agent is dropped before an older one.
Follows(s, D, t, E, K, M) ==
    /\ s \in Seq(Agents) /\ t \in Seq(Agents) /\ Apart(s) /\ Apart(t)
    /\ D \subseteq E /\ M \cap E = {}
    /\ Range(s) \ D \subseteq K /\ K \subseteq Range(s) /\ K \cap E \subseteq D
    /\ M \cap Range(t) \subseteq K
    /\ \A x, y \in K : Prec(t, x, y) <=> Prec(s, x, y) /\ x \in Range(t) /\ y \in Range(t)
    /\ \A x \in (Range(s) \ D) \cap Range(t), y \in Range(s) \ D : Prec(s, x, y) => y \in Range(t)
    /\ \A x \in Range(t) \ K, y \in K \cap Range(t) : Prec(t, y, x)

LEMMA FollowsKeeps ==
    ASSUME NEW s, NEW D, NEW t, NEW E, NEW K, NEW M, Follows(s, D, t, E, K, M)
    PROVE  /\ M \cap Range(t) \subseteq M \cap Range(s)
           /\ M \cap Range(t) # {} => Past(s, D, M) \subseteq Past(t, E, M)
           /\ Near(t, E, M) \subseteq Near(s, D, M)
  <1>1. /\ s \in Seq(Agents) /\ t \in Seq(Agents) /\ Apart(s) /\ Apart(t)
        /\ D \subseteq E /\ M \cap E = {}
        /\ Range(s) \ D \subseteq K /\ K \subseteq Range(s) /\ K \cap E \subseteq D
        /\ M \cap Range(t) \subseteq K
    BY DEF Follows
  <1>2. \A x, y \in K : Prec(t, x, y) <=> Prec(s, x, y) /\ x \in Range(t) /\ y \in Range(t)
    BY DEF Follows
  <1>3. \A x \in (Range(s) \ D) \cap Range(t), y \in Range(s) \ D : Prec(s, x, y) => y \in Range(t)
    BY DEF Follows
  <1>4. \A x \in Range(t) \ K, y \in K \cap Range(t) : Prec(t, y, x)
    BY DEF Follows
  <1>5. M \cap Range(t) \subseteq M \cap Range(s)
    BY <1>1
  <1>6. M \cap D = {}
    BY <1>1
  <1>7. ASSUME NEW m \in M \cap Range(t), NEW x \in Past(s, D, M)
        PROVE  x \in Past(t, E, M)
    <2>1. x \in Range(s) \ D /\ x \in K /\ x \notin E /\ \A y \in M \cap Range(s) : Prec(s, y, x)
      BY <1>1, <1>7 DEF Past
    <2>2. m \in (Range(s) \ D) \cap Range(t)
      BY <1>5, <1>6, <1>7
    <2>3. x \in Range(t)
      BY <1>3, <2>1, <2>2
    <2>4. ASSUME NEW y \in M \cap Range(t)
          PROVE  Prec(t, y, x)
      <3>1. y \in K /\ y \in M \cap Range(s)
        BY <1>1, <1>5
      <3> QED BY <1>2, <2>1, <2>3, <3>1
    <2> QED BY <2>1, <2>3, <2>4 DEF Past
  <1>8. ASSUME NEW x \in UpTo(t, E, M)
        PROVE  x \in UpTo(s, D, M) /\ x \in Range(t)
    <2>1. x \in Range(t) \ E
      BY <1>8 DEF UpTo
    <2>2. PICK y \in M \cap Range(t) : x = y \/ Prec(t, x, y)
      BY <1>8 DEF UpTo
    <2>3. y \in K /\ y \in M \cap Range(s) /\ y \in Range(t)
      BY <1>1, <1>5, <2>2
    <2>4. x \in K
      <3>1. CASE x = y
        BY <2>3, <3>1
      <3>2. CASE Prec(t, x, y) /\ x \notin K
        <4>1. Prec(t, y, x)
          BY <1>4, <2>1, <2>3, <3>2
        <4>2. ~Prec(t, y, x)
          BY <1>1, <3>2, PrecOrder
        <4> QED BY <4>1, <4>2
      <3> QED BY <2>2, <3>1, <3>2
    <2>5. x \in Range(s) \ D
      BY <1>1, <2>1, <2>4
    <2>6. x = y \/ Prec(s, x, y)
      BY <1>2, <2>2, <2>3, <2>4
    <2> QED BY <2>1, <2>3, <2>5, <2>6 DEF UpTo
  <1>9. ASSUME NEW x \in UpTo(t, E, M), NEW z \in UpTo(s, D, M), Prec(s, x, z)
        PROVE  z \in UpTo(t, E, M) /\ Prec(t, x, z)
    <2>1. x \in (Range(s) \ D) \cap Range(t) /\ x \in K
      BY <1>1, <1>8 DEF UpTo
    <2>2. z \in Range(s) \ D /\ z \in K /\ z \notin E
      BY <1>1 DEF UpTo
    <2>3. z \in Range(t)
      BY <1>3, <1>9, <2>1, <2>2
    <2>4. Prec(t, x, z)
      BY <1>2, <1>9, <2>1, <2>2, <2>3
    <2>5. PICK y \in M \cap Range(s) : z = y \/ Prec(s, z, y)
      BY DEF UpTo
    <2>6. Prec(s, x, y)
      <3>1. Prec(s, x, z) /\ Prec(s, z, y) => Prec(s, x, y)
        BY <1>1, PrecOrder
      <3> QED BY <1>9, <2>5, <3>1
    <2>7. y \in Range(s) \ D /\ y \in K
      BY <1>1, <1>6, <2>5
    <2>8. y \in Range(t)
      BY <1>3, <2>1, <2>6, <2>7
    <2>9. z = y \/ Prec(t, z, y)
      BY <1>2, <2>2, <2>3, <2>5, <2>7, <2>8
    <2> QED BY <2>2, <2>3, <2>4, <2>5, <2>8, <2>9 DEF UpTo
  <1>10. ASSUME NEW x \in Near(t, E, M)
         PROVE  x \in Near(s, D, M)
    <2>1. x \in UpTo(t, E, M) /\ Cardinality({y \in UpTo(t, E, M) : Prec(t, x, y)}) < MaxVisible
      BY <1>10 DEF Near
    <2>2. PICK A : A = {y \in UpTo(s, D, M) : Prec(s, x, y)}
      OBVIOUS
    <2>3. PICK B : B = {y \in UpTo(t, E, M) : Prec(t, x, y)}
      OBVIOUS
    <2>4. A \subseteq B /\ B \subseteq Range(t)
      BY <1>9, <2>1, <2>2, <2>3 DEF UpTo
    <2>5. IsFiniteSet(B)
      BY <1>1, <2>4, RangeFinite, SubsetSize
    <2>6. Cardinality(A) <= Cardinality(B) /\ Cardinality(A) \in Nat /\ Cardinality(B) \in Nat
      BY <2>4, <2>5, SubsetSize
    <2>7. Cardinality(A) < MaxVisible
      BY <2>1, <2>3, <2>6, AgentManagerAssumption
    <2> QED BY <1>8, <2>1, <2>2, <2>7 DEF Near
  <1> QED BY <1>5, <1>7, <1>10

\* Of the agents that an update shows, one that was not aborted is near M or past
\* it; when it is one of M, then fewer than MaxVisible are past M.
LEMMA ShownPlace ==
    ASSUME NEW s \in Seq(Agents), Apart(s), NEW D, NEW T, Range(s) \ D \subseteq T,
           NEW M, M \cap D = {}, NEW x \in MostRecent(s, T, MaxVisible), x \notin D
    PROVE  /\ x \in Range(s)
           /\ x \in Near(s, D, M) \cup Past(s, D, M)
           /\ x \in M => /\ x \in Near(s, D, M)
                         /\ IsFiniteSet(Past(s, D, M)) /\ Cardinality(Past(s, D, M)) < MaxVisible
  <1>1. MaxVisible \in Nat
    BY AgentManagerAssumption
  <1>y. PICK Y : Y = {y \in Range(s) \cap T : Prec(s, x, y)}
    OBVIOUS
  <1> DEFINE U == {y \in UpTo(s, D, M) : Prec(s, x, y)}
  <1>2. x \in T /\ x \in Range(s) /\ IsFiniteSet(Y) /\ Cardinality(Y) < MaxVisible
    BY <1>1, <1>y, RecentFacts
  <1>3. U \subseteq Y
    BY <1>y DEF UpTo
  <1>4. /\ \A y : Prec(s, x, y) => ~Prec(s, y, x)
        /\ \A y \in Range(s) : x = y \/ Prec(s, x, y) \/ Prec(s, y, x)
    BY <1>2, PrecOrder
  <1>5. x \in UpTo(s, D, M) => x \in Near(s, D, M)
    <2>1. Cardinality(U) < MaxVisible
      <3> HIDE DEF U
      <3>1. Cardinality(U) <= Cardinality(Y) /\ Cardinality(U) \in Nat /\ Cardinality(Y) \in Nat
        BY <1>2, <1>3, SubsetSize
      <3> QED BY <1>1, <1>2, <3>1
    <2> QED BY <2>1 DEF Near
  <1>6. x \notin UpTo(s, D, M) => x \in Past(s, D, M)
    BY <1>2, <1>4 DEF UpTo, Past
  <1>7. ASSUME x \in M
        PROVE  /\ x \in Near(s, D, M)
               /\ IsFiniteSet(Past(s, D, M)) /\ Cardinality(Past(s, D, M)) < MaxVisible
    <2>1. x \in UpTo(s, D, M)
      BY <1>2, <1>7 DEF UpTo
    <2>2. PICK P : P = Past(s, D, M)
      OBVIOUS
    <2>3. P \subseteq Y
      BY <1>2, <1>7, <1>y, <2>2 DEF Past
    <2>4. IsFiniteSet(P) /\ Cardinality(P) < MaxVisible
      <3>1. /\ IsFiniteSet(P)
            /\ Cardinality(P) <= Cardinality(Y) /\ Cardinality(P) \in Nat /\ Cardinality(Y) \in Nat
        BY <1>2, <2>3, SubsetSize
      <3> QED BY <1>1, <1>2, <3>1
    <2> QED BY <1>5, <2>1, <2>2, <2>4
  <1> QED BY <1>2, <1>5, <1>6, <1>7

\* At most MaxVisible agents are near M.
LEMMA NearSize ==
    ASSUME NEW s \in Seq(Agents), Apart(s), NEW D, NEW M
    PROVE  IsFiniteSet(Near(s, D, M)) /\ Cardinality(Near(s, D, M)) <= MaxVisible
  <1>1. MaxVisible \in Nat
    BY AgentManagerAssumption
  <1>2. PICK U : U = UpTo(s, D, M)
    OBVIOUS
  <1>3. U \subseteq Range(s)
    BY <1>2 DEF UpTo
  <1>4. Near(s, D, M) = {x \in U : Cardinality({y \in U : Prec(s, x, y)}) < MaxVisible}
    BY <1>2 DEF Near
  <1>5. PICK N : N = Near(s, D, M)
    OBVIOUS
  <1>6. N = {x \in U : Cardinality({y \in U : Prec(s, x, y)}) < MaxVisible}
    BY <1>4, <1>5
  <1>7. IsFiniteSet(N) /\ Cardinality(N) <= MaxVisible
    BY ONLY s \in Seq(Agents), Apart(s), <1>1, <1>3, <1>6, FewRecent
  <1> QED BY <1>5, <1>7

----------------------------------------------------------------------------
(* The invariant of the list and of the wakes. *)

\* Batches without and with an aborted agent; the agents of b in the list, and the
\* batches of the agents near b and past it.
Clean(b) == Members(b) \cap aborted = {}
Disturbed == {batch_id[a] : a \in aborted}
Listed(b) == Members(b) \cap Range(ended)
PastOf(b) == Past(ended, aborted, Members(b))
NearBatches(b) == {batch_id[x] : x \in Near(ended, aborted, Members(b))}
PastBatches(b) == {batch_id[x] : x \in PastOf(b)}

\* An agent ends once by itself, and then stays as it is in the list; an agent whose
\* task was not aborted has its handle as long as the task is there.
EndedOnce == Apart(ended)
OwnEndIsFinal ==
    \A x \in Range(ended) \ aborted : status[x] \in Terminal /\ pc[x] \in Over /\ place[x] = "live"
HeldUnlessAborted ==
    \A a \in Agents \ aborted : pc[a] \notin {"unborn"} \cup Over => a \in handles /\ pc[a] # "late"

ListInv == EndedOnce /\ OwnEndIsFinal /\ HeldUnlessAborted

\* What a step leaves of the neighbourhood of batch b in the list.
Kept(b) ==
    /\ Clean(b)
    /\ Listed(b)' \subseteq Listed(b)
    /\ Listed(b)' # {} => PastOf(b) \subseteq PastOf(b)' /\ PastBatches(b) \subseteq PastBatches(b)'
    /\ NearBatches(b)' \subseteq NearBatches(b)

LEMMA KeptFollows ==
    ASSUME NEW b \in Batches, Clean(b)', Members(b)' = Members(b), batch_id' = batch_id,
           NEW K, Follows(ended, aborted, ended', aborted', K, Members(b))
    PROVE  Kept(b)
  <1>1. /\ Members(b) \cap Range(ended') \subseteq Members(b) \cap Range(ended)
        /\ Members(b) \cap Range(ended') # {} =>
               Past(ended, aborted, Members(b)) \subseteq Past(ended', aborted', Members(b))
        /\ Near(ended', aborted', Members(b)) \subseteq Near(ended, aborted, Members(b))
    BY FollowsKeeps
  <1>2. aborted \subseteq aborted'
    BY DEF Follows
  <1>3. Clean(b)
    BY <1>2 DEF Clean
  <1>4. Listed(b)' = Members(b) \cap Range(ended')
    BY DEF Listed
  <1>5. PastOf(b)' = Past(ended', aborted', Members(b))
    BY DEF PastOf
  <1>6. /\ NearBatches(b)' = {batch_id[x] : x \in Near(ended', aborted', Members(b))}
        /\ PastBatches(b)' = {batch_id[x] : x \in PastOf(b)'}
    BY DEF NearBatches, PastBatches
  <1>7. Listed(b)' \subseteq Listed(b)
    BY <1>1, <1>4 DEF Listed
  <1>8. Listed(b)' # {} => PastOf(b) \subseteq PastOf(b)' /\ PastBatches(b) \subseteq PastBatches(b)'
    <2>1. Listed(b)' # {} => PastOf(b) \subseteq PastOf(b)'
      BY <1>1, <1>4, <1>5 DEF PastOf
    <2> QED BY <1>6, <2>1 DEF PastBatches
  <1>9. NearBatches(b)' \subseteq NearBatches(b)
    BY <1>1, <1>6 DEF NearBatches
  <1> QED BY <1>3, <1>7, <1>8, <1>9 DEF Kept

\* A step that leaves the list alone leaves its order.
LEMMA KeptSame ==
    ASSUME NEW b \in Batches, Clean(b)', Members(b)' = Members(b), ended' = ended, aborted' = aborted,
           \A x \in Range(ended) \ aborted : batch_id'[x] = batch_id[x]
    PROVE  Kept(b)
  <1>1. Clean(b) /\ Listed(b)' = Listed(b) /\ PastOf(b)' = PastOf(b)
    BY DEF Clean, Listed, PastOf
  <1>2. PICK N : N = Near(ended, aborted, Members(b))
    OBVIOUS
  <1>3. PICK P : P = PastOf(b)
    OBVIOUS
  <1>4. NearBatches(b) = {batch_id[x] : x \in N} /\ NearBatches(b)' = {batch_id'[x] : x \in N}
    BY <1>2 DEF NearBatches
  <1>5. PastBatches(b) = {batch_id[x] : x \in P} /\ PastBatches(b)' = {batch_id'[x] : x \in P}
    BY <1>1, <1>3 DEF PastBatches
  <1>6. N \subseteq Range(ended) \ aborted /\ P \subseteq Range(ended) \ aborted
    BY <1>2, <1>3 DEF Near, UpTo, PastOf, Past
  <1>7. NearBatches(b)' = NearBatches(b) /\ PastBatches(b)' = PastBatches(b)
    BY <1>4, <1>5, <1>6
  <1> QED BY <1>1, <1>7 DEF Kept

\* The agents S end, none of which is in the list unless it is one of D; K are the rest.
Ending(S, to, D, K) ==
    /\ ended \in Seq(Agents) /\ Apart(ended)
    /\ S \in SUBSET Agents /\ to \in Terminal /\ finalize_terminal_agents(S, to)
    /\ \A x \in Range(ended) \ D : x \notin S /\ status[x] \in Terminal
    /\ K = Range(ended) \ S

\* Whoever ends the agents S: those that were not aborted keep their place in the
\* list, S come last, and what is archived are the oldest.
LEMMA FinalizeOrder ==
    ASSUME NEW S, NEW to, NEW D, NEW K, Ending(S, to, D, K)
    PROVE  /\ ended' \in Seq(Agents) /\ Apart(ended') /\ Range(ended') \subseteq Range(ended) \cup S
           /\ \A x \in Range(ended') : place'[x] = place[x]
           /\ \A x, y \in K : Prec(ended', x, y) <=>
                  Prec(ended, x, y) /\ x \in Range(ended') /\ y \in Range(ended')
           /\ \A x \in (Range(ended) \ D) \cap Range(ended'), y \in Range(ended) \ D :
                  Prec(ended, x, y) => y \in Range(ended')
           /\ \A x \in Range(ended') \ K, y \in K \cap Range(ended') : Prec(ended', y, x)
  <1> USE DEF Ending
  <1> DEFINE st == [a \in Agents |-> IF a \in S THEN to ELSE status[a]]
             All(order) == Without(ended, S) \o order
             Pruned(order) == (Range(All(order)) \cap TerminalIn(st))
                              \ MostRecent(All(order), TerminalIn(st), MaxTracked)
  <1>1. PICK order \in SetToSeqs(S) :
           /\ ended' = Without(All(order), Pruned(order))
           /\ place' = [a \in Agents |-> IF a \in Pruned(order) THEN "archived" ELSE place[a]]
    BY DEF finalize_terminal_agents
  <1>2. order \in Seq(Agents) /\ Apart(order) /\ Range(order) = S
    <2>1. /\ order \in Seq(S)
          /\ \A i, j \in 1..Len(order) : i # j => order[i] # order[j]
          /\ \A x \in S : \E i \in 1..Len(order) : order[i] = x
      BY EnumerationFacts DEF Agents
    <2>2. DOMAIN order = 1..Len(order) /\ \A i \in 1..Len(order) : order[i] \in S
      BY <2>1
    <2>3. order \in Seq(Agents)
      BY <2>1, SeqMonotonic
    <2> QED BY <2>1, <2>2, <2>3 DEF Apart, Range
  <1>3. PICK w : w = Without(ended, S)
    OBVIOUS
  <1>4. /\ w \in Seq(Agents) /\ Apart(w) /\ Range(w) = K
        /\ \A x, y : Prec(w, x, y) <=> Prec(ended, x, y) /\ x \notin S /\ y \notin S
    BY <1>3, WithoutOrder
  <1>5. PICK all : all = w \o order
    OBVIOUS
  <1>6. /\ all \in Seq(Agents) /\ Apart(all) /\ Range(all) = K \cup S
        /\ \A x, y : Prec(all, x, y) <=>
               Prec(w, x, y) \/ Prec(order, x, y) \/ (x \in Range(w) /\ y \in Range(order))
    <2>1. Range(w) \cap Range(order) = {}
      BY <1>2, <1>4
    <2>2. /\ w \o order \in Seq(Agents) /\ Apart(w \o order)
          /\ Range(w \o order) = Range(w) \cup Range(order)
          /\ \A x, y : Prec(w \o order, x, y) <=>
               Prec(w, x, y) \/ Prec(order, x, y) \/ (x \in Range(w) /\ y \in Range(order))
      BY <1>2, <1>4, <2>1, ConcatOrder
    <2> QED BY <1>2, <1>4, <1>5, <2>2
  <1>7. PICK T : T = TerminalIn(st)
    OBVIOUS
  <1>8. PICK pruned : pruned = (Range(all) \cap T) \ MostRecent(all, T, MaxTracked)
    OBVIOUS
  <1>9. /\ ended' = Without(all, pruned)
        /\ place' = [a \in Agents |-> IF a \in pruned THEN "archived" ELSE place[a]]
    BY <1>1, <1>3, <1>5, <1>7, <1>8
  <1>10. /\ ended' \in Seq(Agents) /\ Apart(ended') /\ Range(ended') = Range(all) \ pruned
         /\ \A x, y : Prec(ended', x, y) <=> Prec(all, x, y) /\ x \notin pruned /\ y \notin pruned
    BY <1>6, <1>9, WithoutOrder
  <1>11. \A x \in Range(ended') : place'[x] = place[x]
    <2>1. Range(all) \subseteq Agents
      BY <1>6 DEF Range
    <2> QED BY <1>9, <1>10, <2>1
  <1>12. \A x, y : Prec(order, x, y) => x \in S /\ y \in S
    BY <1>2, PrecOrder
  <1>13. \A x, y \in K : Prec(all, x, y) <=> Prec(ended, x, y)
    <2> TAKE x, y \in K
    <2>1. x \notin S /\ y \notin S
      OBVIOUS
    <2> QED BY <1>2, <1>4, <1>6, <1>12, <2>1
  <1>14. \A x, y \in K : Prec(ended', x, y) <=>
                  Prec(ended, x, y) /\ x \in Range(ended') /\ y \in Range(ended')
    BY <1>6, <1>10, <1>13
  <1>15. ASSUME NEW x \in (Range(ended) \ D) \cap Range(ended'), NEW y \in Range(ended) \ D, Prec(ended, x, y)
         PROVE  y \in Range(ended')
    <2>1. x \in K /\ y \in K
      OBVIOUS
    <2>2. x \in T /\ y \in T
      <3>1. Range(ended) \subseteq Agents
        BY DEF Range
      <3> QED BY <1>7, <3>1 DEF TerminalIn
    <2>3. x \in MostRecent(all, T, MaxTracked)
      BY <1>6, <1>8, <1>10, <2>1, <2>2
    <2>4. Prec(all, x, y)
      BY <1>13, <1>15, <2>1
    <2>5. MaxTracked \in Nat
      BY AgentManagerAssumption
    <2>6. PICK Y : Y = {z \in Range(all) \cap T : Prec(all, x, z)}
      OBVIOUS
    <2>7. \A z \in T : Prec(all, x, z) => z \in MostRecent(all, T, MaxTracked)
      BY <1>6, <2>3, <2>5, <2>6, RecentFacts
    <2> QED BY <1>6, <1>8, <1>10, <2>1, <2>2, <2>4, <2>7
  <1>16. ASSUME NEW x \in Range(ended') \ K, NEW y \in K \cap Range(ended')
         PROVE  Prec(ended', y, x)
    <2>1. x \in S
      BY <1>6, <1>10
    <2>2. Prec(all, y, x)
      BY <1>2, <1>4, <1>6, <2>1
    <2> QED BY <1>10, <2>2
  <1>17. Range(ended') \subseteq Range(ended) \cup S
    BY <1>6, <1>10
  <1> QED BY <1>10, <1>11, <1>14, <1>15, <1>16, <1>17

----------------------------------------------------------------------------
(* The list of ended agents: every step keeps its invariant, and the       *)
(* neighbourhood of a batch that was announced.                            *)

\* The step leaves the neighbourhood of every announced batch that stays clean.
KeepsOrder == \A b \in Batches : Announced(b) /\ Clean(b)' => Kept(b)

\* Agents lose their handle when they end or are archived.
LEMMA FinalizeHandles ==
    ASSUME TypeOK, NEW S \in SUBSET Agents, NEW to \in Terminal, finalize_terminal_agents(S, to)
    PROVE  handles' \subseteq handles /\ \A a \in handles \ handles' : a \in S \/ status'[a] \in Terminal
  <1>1. ended \in Seq(Agents) /\ handles \subseteq Agents
    BY DEF TypeOK
  <1>2. PICK pruned \in SUBSET Agents :
           handles' = handles \ (S \cup pruned) /\ \A a \in pruned : status'[a] \in Terminal
    BY <1>1, FinalizeEffect
  <1> QED BY <1>2

LEMMA FinalizeList ==
    ASSUME AgentInv, ListInv, NEW S \in SUBSET Live, NEW to \in Terminal,
           finalize_terminal_agents(S, to), handles' \subseteq handles,
           \A a \in handles \ handles' : a \in S \/ status'[a] \in Terminal,
           aborted \subseteq aborted', aborted' \subseteq aborted \cup S,
           \A x \in S : x \in aborted \/ x \in handles,
           \A a \in Agents \ S : pc'[a] = pc[a],
           \A a \in S : pc'[a] \in Over \/ a \in aborted'
    PROVE  ListInv' /\ KeepsOrder
  <1> USE DEF AgentInv, ListInv
  <1>1. ended \in Seq(Agents) /\ Apart(ended) /\ Range(ended) \subseteq Agents
    BY DEF TypeOK, EndedOnce, Range
  <1>2. S \in SUBSET Agents /\ \A x \in S : place[x] = "live"
    BY DEF Live
  <1>3. \A x \in Terminal : x \notin Active
    BY DEF Terminal, Active
  <1>4. \A x \in Range(ended) \ aborted : x \notin S /\ status[x] \in Terminal
    BY <1>3 DEF OwnEndIsFinal, CancellableWhileActive
  <1>5. PICK K : K = Range(ended) \ S
    OBVIOUS
  <1>6. /\ ended' \in Seq(Agents) /\ Apart(ended') /\ Range(ended') \subseteq Range(ended) \cup S
        /\ \A x \in Range(ended') : place'[x] = place[x]
        /\ \A x, y \in K : Prec(ended', x, y) <=>
               Prec(ended, x, y) /\ x \in Range(ended') /\ y \in Range(ended')
        /\ \A x \in (Range(ended) \ aborted) \cap Range(ended'), y \in Range(ended) \ aborted :
               Prec(ended, x, y) => y \in Range(ended')
        /\ \A x \in Range(ended') \ K, y \in K \cap Range(ended') : Prec(ended', y, x)
    <2>1. PICK D : D = aborted
      OBVIOUS
    <2>2. Ending(S, to, D, K)
      BY <1>1, <1>2, <1>4, <1>5, <2>1 DEF Ending
    <2>3. /\ ended' \in Seq(Agents) /\ Apart(ended') /\ Range(ended') \subseteq Range(ended) \cup S
          /\ \A x \in Range(ended') : place'[x] = place[x]
          /\ \A x, y \in K : Prec(ended', x, y) <=>
                 Prec(ended, x, y) /\ x \in Range(ended') /\ y \in Range(ended')
          /\ \A x \in (Range(ended) \ D) \cap Range(ended'), y \in Range(ended) \ D :
                 Prec(ended, x, y) => y \in Range(ended')
          /\ \A x \in Range(ended') \ K, y \in K \cap Range(ended') : Prec(ended', y, x)
      BY <2>2, FinalizeOrder
    <2> QED BY <2>1, <2>3
  <1>7. batch_id' = batch_id /\ status' = [a \in Agents |-> IF a \in S THEN to ELSE status[a]]
    BY DEF finalize_terminal_agents
  <1>8. \A a \in Agents : status'[a] = IF a \in S THEN to ELSE status[a]
    BY <1>7
  <1>9. EndedOnce'
    BY <1>6 DEF EndedOnce
  <1>10. OwnEndIsFinal'
    <2>1. ASSUME NEW x \in Range(ended'), x \notin aborted'
          PROVE  status'[x] \in Terminal /\ pc'[x] \in Over /\ place'[x] = "live"
      <3>1. x \in Agents /\ place'[x] = place[x]
        BY <1>1, <1>2, <1>6
      <3>2. CASE x \in S
        BY <1>2, <1>8, <2>1, <3>1, <3>2
      <3>3. CASE x \notin S
        <4>1. x \in Range(ended) \ aborted
          BY <1>6, <2>1, <3>3
        <4> QED BY <1>8, <3>1, <3>3, <4>1 DEF OwnEndIsFinal
      <3> QED BY <3>2, <3>3
    <2> QED BY <2>1 DEF OwnEndIsFinal
  <1>11. HeldUnlessAborted'
    <2>1. ASSUME NEW a \in Agents, a \notin aborted', pc'[a] \notin {"unborn"} \cup Over
          PROVE  a \in handles' /\ pc'[a] # "late"
      <3>1. a \notin S /\ a \notin aborted /\ pc'[a] = pc[a]
        BY <2>1
      <3>2. a \in handles /\ pc[a] # "late"
        BY <2>1, <3>1 DEF HeldUnlessAborted
      <3>3. status'[a] \notin Terminal
        BY <1>3, <1>8, <3>1, <3>2 DEF CancellableWhileActive
      <3> QED BY <3>1, <3>2, <3>3
    <2> QED BY <2>1 DEF HeldUnlessAborted
  <1>12. ASSUME NEW b \in Batches, Announced(b), Clean(b)'
         PROVE  Kept(b)
    <2>1. Members(b)' = Members(b)
      BY <1>7 DEF Members
    <2>2. Members(b) \cap aborted' = {} /\ Members(b) \cap aborted = {}
      BY <1>12, <2>1 DEF Clean
    <2>3. Members(b) \cap S = {}
      <3>1. Members(b) \cap Running = {}
        BY <1>12, <2>2 DEF AnnouncedHasEnded
      <3>2. handles \subseteq Running
        BY DEF CancellableWhileActive, Running, Live, TypeOK
      <3> QED BY <2>2, <3>1, <3>2
    <2>4. Members(b) \cap Range(ended') \subseteq K
      BY <1>5, <1>6, <2>3
    <2>5. Range(ended) \ aborted \subseteq K /\ K \subseteq Range(ended) /\ K \cap aborted' \subseteq aborted
      BY <1>4, <1>5
    <2>6. Follows(ended, aborted, ended', aborted', K, Members(b))
      BY <1>1, <1>6, <2>2, <2>4, <2>5 DEF Follows
    <2> QED BY <1>7, <1>12, <2>1, <2>6, KeptFollows
  <1>13. KeepsOrder
    BY <1>12 DEF KeepsOrder
  <1> QED BY <1>9, <1>10, <1>11, <1>13

\* A step that does not touch the list, nor what is known of the agents in it.
LEMMA SameList ==
    ASSUME AgentInv, ended' = ended, aborted' = aborted,
           \A b \in Batches : Announced(b) => Members(b)' = Members(b),
           \A x \in Range(ended) \ aborted : batch_id'[x] = batch_id[x]
    PROVE  KeepsOrder
  <1> SUFFICES ASSUME NEW b \in Batches, Announced(b), Clean(b)'
               PROVE  Kept(b)
    BY DEF KeepsOrder
  <1> QED BY KeptSame

LEMMA RunList ==
    ASSUME AgentInv, ListInv, NEW n \in Agents, RunAgents(n)
    PROVE  ListInv' /\ KeepsOrder
  <1> USE DEF AgentInv, ListInv
  <1>1. PICK S : S = NextAgents(n)
    OBVIOUS
  <1>2. PICK b : b = NextBatch
    OBVIOUS
  <1>3. /\ S \subseteq Agents
        /\ batch_id' = [a \in Agents |-> IF a \in S THEN b ELSE batch_id[a]]
        /\ status' = [a \in Agents |-> IF a \in S THEN "pending" ELSE status[a]]
        /\ place' = [a \in Agents |-> IF a \in S THEN "live" ELSE place[a]]
        /\ handles' = handles \cup S
        /\ pc' = [a \in Agents |-> IF a \in S THEN "new" ELSE pc[a]]
        /\ ended' = ended /\ aborted' = aborted
    BY <1>1, <1>2 DEF RunAgents, Create
  <1>4. (\A a \in S : batch_id[a] = 0) /\ (\A a \in Agents : batch_id[a] # b) /\ b # 0
    <2>1. PICK k \in Nat : \E m \in 0..k :
              /\ Created = 1..k /\ {batch_id[a] : a \in Created} = 1..m
              /\ k + n <= MaxAgents
              /\ NextAgents(n) = k + 1..k + n /\ NextBatch = m + 1
      BY <1>1, <1>3, NextNumbers
    <2>2. PICK m \in 0..k :
              /\ Created = 1..k /\ {batch_id[a] : a \in Created} = 1..m
              /\ k + n <= MaxAgents
              /\ NextAgents(n) = k + 1..k + n /\ NextBatch = m + 1
      BY <2>1
    <2>3. \A a \in S : a \in Agents /\ a \notin 1..k
      BY <1>1, <1>3, <2>2
    <2>4. b # 0 /\ b \notin 1..m
      BY <1>2, <2>2
    <2>5. \A a \in Created : batch_id[a] \in 1..m
      BY <2>2
    <2> QED BY <2>2, <2>3, <2>4, <2>5 DEF Created
  <1>5. \A x \in Range(ended) \ aborted : x \in Agents /\ x \notin S
    <2>1. Range(ended) \subseteq Agents
      BY DEF TypeOK, Range
    <2>2. \A x \in S : x \in Agents /\ pc[x] = "unborn"
      BY <1>3, <1>4 DEF Unborn
    <2> QED BY <2>1, <2>2 DEF OwnEndIsFinal, Over
  <1>6. EndedOnce' /\ OwnEndIsFinal'
    BY <1>3, <1>5 DEF EndedOnce, OwnEndIsFinal
  <1>7. HeldUnlessAborted'
    BY <1>3 DEF HeldUnlessAborted
  <1>8. ASSUME NEW c \in Batches, Announced(c)
        PROVE  Members(c)' = Members(c)
    <2>1. Members(c) # {}
      BY <1>8 DEF AnnouncedHasEnded
    <2>2. c # b /\ c # 0
      BY <1>4, <2>1, AgentManagerAssumption DEF Members, Batches
    <2>3. Members(c)' = {a \in Agents : batch_id'[a] = c}
      BY DEF Members
    <2> QED BY <1>3, <1>4, <2>2, <2>3 DEF Members
  <1>9. \A x \in Range(ended) \ aborted : batch_id'[x] = batch_id[x]
    BY <1>3, <1>5
  <1>10. KeepsOrder
    BY <1>3, <1>8, <1>9, SameList
  <1> QED BY <1>6, <1>7, <1>10

LEMMA CancelList ==
    ASSUME AgentInv, ListInv, NEW S \in SUBSET Agents, CancelAgents(S)
    PROVE  ListInv' /\ KeepsOrder
  <1>1. /\ S \subseteq handles /\ finalize_terminal_agents(S, "cancelled")
        /\ aborted' = aborted \cup S /\ pc' = pc
    BY DEF CancelAgents
  <1>2. S \in SUBSET Live
    BY <1>1 DEF AgentInv, CancellableWhileActive, Live
  <1>3. "cancelled" \in Terminal
    BY DEF Terminal
  <1>4. handles' \subseteq handles /\ \A a \in handles \ handles' : a \in S \/ status'[a] \in Terminal
    BY <1>1, <1>3, FinalizeHandles DEF AgentInv
  <1>5. /\ aborted \subseteq aborted' /\ aborted' \subseteq aborted \cup S
        /\ \A x \in S : x \in aborted \/ x \in handles
        /\ \A a \in Agents \ S : pc'[a] = pc[a]
        /\ \A a \in S : pc'[a] \in Over \/ a \in aborted'
    BY <1>1
  <1> QED BY <1>1, <1>2, <1>3, <1>4, <1>5, FinalizeList

LEMMA SweepList ==
    ASSUME AgentInv, ListInv, NEW S \in SUBSET Agents, WatchdogSweep(S)
    PROVE  ListInv' /\ KeepsOrder
  <1>1. /\ S \subseteq Running /\ finalize_terminal_agents(S, "failed")
        /\ aborted' = aborted \cup (S \cap handles) /\ pc' = pc
    BY DEF WatchdogSweep
  <1>2. S \in SUBSET Live /\ \A x \in S : x \in aborted \/ x \in handles
    BY <1>1 DEF AgentInv, CancellableWhileActive, Running
  <1>3. "failed" \in Terminal
    BY DEF Terminal
  <1>4. handles' \subseteq handles /\ \A a \in handles \ handles' : a \in S \/ status'[a] \in Terminal
    BY <1>1, <1>3, FinalizeHandles DEF AgentInv
  <1>5. /\ aborted \subseteq aborted' /\ aborted' \subseteq aborted \cup S
        /\ \A a \in Agents \ S : pc'[a] = pc[a]
        /\ \A a \in S : pc'[a] \in Over \/ a \in aborted'
    BY <1>1, <1>2
  <1> QED BY <1>1, <1>2, <1>3, <1>4, <1>5, FinalizeList

LEMMA StartList ==
    ASSUME AgentInv, ListInv, NEW a \in Agents, Start(a)
    PROVE  ListInv' /\ KeepsOrder
  <1> USE DEF AgentInv, ListInv, Over
  <1>1. pc[a] = "new" /\ UNCHANGED <<batch_id, place, ended, handles, aborted>>
    BY DEF Start
  <1>2. \A x \in Agents : x # a => status'[x] = status[x] /\ pc'[x] = pc[x]
    BY DEF Start, Goto, TypeOK
  <1>3. pc'[a] \in Over \/ (pc'[a] = IF a \in aborted THEN "late" ELSE "working")
    BY DEF Start, Goto, TypeOK
  <1>4. \A x \in Range(ended) \ aborted : x \in Agents /\ x # a
    BY <1>1 DEF OwnEndIsFinal, TypeOK, Range
  <1>5. EndedOnce' /\ OwnEndIsFinal'
    BY <1>1, <1>2, <1>4 DEF EndedOnce, OwnEndIsFinal
  <1>6. HeldUnlessAborted'
    <2>1. ASSUME NEW x \in Agents \ aborted, pc'[x] \notin {"unborn"} \cup Over
          PROVE  x \in handles /\ pc'[x] # "late"
      <3>1. CASE x = a
        BY <1>1, <1>3, <2>1, <3>1 DEF HeldUnlessAborted
      <3>2. CASE x # a
        BY <1>2, <2>1, <3>2 DEF HeldUnlessAborted
      <3> QED BY <3>1, <3>2
    <2> QED BY <1>1, <2>1 DEF HeldUnlessAborted
  <1>7. \A b \in Batches : Announced(b) => Members(b)' = Members(b)
    BY <1>1 DEF Members
  <1>8. KeepsOrder
    BY <1>1, <1>7, SameList
  <1> QED BY <1>5, <1>6, <1>8

LEMMA FinishList ==
    ASSUME AgentInv, ListInv, NEW a \in Agents, NEW to \in {"completed", "failed"}, Finish(a, to)
    PROVE  ListInv' /\ KeepsOrder
  <1> USE DEF AgentInv, ListInv, Over
  <1>1. PICK p \in Over :
        pc[a] \in {"working", "late"} /\ pc' = [pc EXCEPT ![a] = p] /\ aborted' = aborted
    BY DEF Finish, Goto
  <1>2. \A x \in Agents : pc'[x] = IF x = a THEN p ELSE pc[x]
    BY <1>1 DEF TypeOK
  <1>3. a \in aborted \/ a \in handles
    BY <1>1 DEF HeldUnlessAborted
  <1>4. CASE place[a] = "live"
    <2>1. PICK S : S = {a}
      OBVIOUS
    <2>2. finalize_terminal_agents(S, to) /\ to \in Terminal /\ S \in SUBSET Live /\ S \in SUBSET Agents
      BY <1>4, <2>1 DEF Finish, Terminal, Live
    <2>3. handles' \subseteq handles /\ \A x \in handles \ handles' : x \in S \/ status'[x] \in Terminal
      BY <2>2, FinalizeHandles
    <2>4. /\ aborted \subseteq aborted' /\ aborted' \subseteq aborted \cup S
          /\ \A x \in S : x \in aborted \/ x \in handles
          /\ \A x \in Agents \ S : pc'[x] = pc[x]
          /\ \A x \in S : pc'[x] \in Over \/ x \in aborted'
      BY <1>1, <1>2, <1>3, <2>1
    <2> QED BY <2>2, <2>3, <2>4, FinalizeList
  <1>5. CASE place[a] # "live"
    <2>1. UNCHANGED <<batch_id, status, place, ended, handles>>
      BY <1>5 DEF Finish, mgrVars
    <2>2. \A x \in Range(ended) \ aborted : x \in Agents
      BY DEF TypeOK, Range
    <2>3. EndedOnce' /\ OwnEndIsFinal' /\ HeldUnlessAborted'
      BY <1>1, <1>2, <2>1, <2>2 DEF EndedOnce, OwnEndIsFinal, HeldUnlessAborted
    <2>4. \A b \in Batches : Announced(b) => Members(b)' = Members(b)
      BY <2>1 DEF Members
    <2>5. KeepsOrder
      BY <1>1, <2>1, <2>4, SameList
    <2> QED BY <2>3, <2>5
  <1> QED BY <1>4, <1>5

\* Steps that change no more than the place of one aborted task in pc.
LEMMA QuietList ==
    ASSUME AgentInv, ListInv, UNCHANGED <<batch_id, ended, aborted, handles>>,
           pc' = pc \/ \E a \in aborted, p \in Over : pc' = [pc EXCEPT ![a] = p],
           \A x \in Range(ended) \ aborted : status'[x] = status[x] /\ place'[x] = place[x]
    PROVE  ListInv' /\ KeepsOrder
  <1> USE DEF AgentInv, ListInv
  <1>1. \A x \in Agents \ aborted : pc'[x] = pc[x]
    BY DEF TypeOK
  <1>2. \A x \in Range(ended) \ aborted : x \in Agents
    BY DEF TypeOK, Range
  <1>3. EndedOnce' /\ OwnEndIsFinal' /\ HeldUnlessAborted'
    BY <1>1, <1>2 DEF EndedOnce, OwnEndIsFinal, HeldUnlessAborted
  <1>4. \A b \in Batches : Announced(b) => Members(b)' = Members(b)
    BY DEF Members
  <1>5. KeepsOrder
    BY <1>4, SameList
  <1> QED BY <1>3, <1>5

----------------------------------------------------------------------------
(* What the session hears of beside a batch. *)

\* Batch b is announced by the i-th update on its way, and the batches that the
\* session was woken for after b or hears of with b, up to the k-th update.
Since(b, i) == told[b] > 0 \/ \E j \in DOMAIN updates : j <= i /\ b \in updates[j]
Seen(b, k) ==
    Newer(woken, b)
    \cup {c \in Batches : \E i \in DOMAIN updates : i <= k /\ Since(b, i) /\ c \in updates[i]}

\* Few enough tasks were aborted for the bound to hold.
Few == Cardinality(aborted) + 2 * MaxVisible <= MaxWoken + 1

\* Of those and of the batches near b, the ones that the list does not show past b.
Spare(b) ==
    (Seen(b, Len(updates)) \cup NearBatches(b)) \ ({b} \cup Disturbed \cup PastBatches(b))

\* A wake is remembered once.  Where b is shown, few batches are beside it: at most
\* MaxVisible - 1 spare ones, and as many past it.
WokenApart == Apart(woken)
SeenFew ==
    \A b \in Batches : Clean(b) => \A k \in DOMAIN updates : b \in updates[k] =>
        Cardinality(Seen(b, k) \ ({b} \cup Disturbed)) <= 2 * (MaxVisible - 1)
SpareFew ==
    \A b \in Batches : Clean(b) /\ Announced(b) /\ Listed(b) # {} =>
        Cardinality(Spare(b)) <= MaxVisible - 1

\* So a batch is told once, and forgotten only when no update shows it any more.
Hidden(b) ==
    /\ \A i \in DOMAIN updates : b \notin updates[i]
    /\ Listed(b) = {} \/ Cardinality(PastOf(b)) >= MaxVisible
Remembered ==
    \A b \in Batches : Clean(b) /\ Few /\ told[b] > 0 =>
        told[b] < 2 /\ (b \in Range(woken) \/ Hidden(b))

CapInv == WokenApart /\ SeenFew /\ SpareFew /\ Remembered

LEMMA FiniteBatches == IsFiniteSet(Batches) /\ IsFiniteSet(Agents)
  <1>1. 1 \in Int /\ MaxAgents \in Int
    BY AgentManagerAssumption
  <1>2. IsFiniteSet(1..MaxAgents)
    BY <1>1, FS_Interval
  <1> QED BY <1>2 DEF Batches, Agents

\* What an update shows is near b, past it, or a batch with an aborted agent; while it
\* shows b, fewer than MaxVisible agents are past b.
LEMMA ShownBatches ==
    ASSUME TypeOK', ListInv', NEW b \in Batches, Clean(b)'
    PROVE  /\ \A c \in EndedBatches' : c \in Disturbed' \cup NearBatches(b)' \cup PastBatches(b)'
           /\ b \in EndedBatches' =>
                 /\ Listed(b)' # {} /\ b \in NearBatches(b)'
                 /\ IsFiniteSet(PastOf(b)') /\ Cardinality(PastOf(b)') < MaxVisible
  <1>1. PICK s : s = ended'
    OBVIOUS
  <1>2. PICK D : D = aborted'
    OBVIOUS
  <1>3. PICK T : T = TerminalIn(status')
    OBVIOUS
  <1>4. PICK M : M = Members(b)'
    OBVIOUS
  <1>5. s \in Seq(Agents) /\ Apart(s) /\ M \cap D = {}
    BY <1>1, <1>2, <1>4 DEF TypeOK, ListInv, EndedOnce, Clean
  <1>6. Range(s) \ D \subseteq T
    <2>1. Range(s) \subseteq Agents
      BY <1>5 DEF Range
    <2>2. \A x \in Range(s) \ D : status'[x] \in Terminal
      BY <1>1, <1>2 DEF ListInv, OwnEndIsFinal
    <2> QED BY <1>3, <2>1, <2>2 DEF TerminalIn
  <1>7. /\ NearBatches(b)' = {batch_id'[x] : x \in Near(s, D, M)}
        /\ PastOf(b)' = Past(s, D, M)
        /\ PastBatches(b)' = {batch_id'[x] : x \in Past(s, D, M)}
        /\ Disturbed' = {batch_id'[x] : x \in D}
        /\ Listed(b)' = M \cap Range(s)
    BY <1>1, <1>2, <1>4 DEF NearBatches, PastOf, PastBatches, Disturbed, Listed
  <1>8. ASSUME NEW c \in EndedBatches'
        PROVE  \E x \in MostRecent(s, T, MaxVisible) : batch_id'[x] = c
    BY <1>1, <1>3, <1>8 DEF EndedBatches
  <1>9. MostRecent(s, T, MaxVisible) \subseteq Agents
    BY <1>3 DEF MostRecent, TerminalIn
  <1>10. ASSUME NEW c \in EndedBatches'
         PROVE  c \in Disturbed' \cup NearBatches(b)' \cup PastBatches(b)'
    <2>1. PICK x \in MostRecent(s, T, MaxVisible) : batch_id'[x] = c
      BY <1>8
    <2>2. CASE x \in D
      BY <1>7, <2>1, <2>2
    <2>3. CASE x \notin D
      <3>1. x \in Near(s, D, M) \cup Past(s, D, M)
        BY <1>5, <1>6, <2>3, ShownPlace
      <3> QED BY <1>7, <2>1, <3>1
    <2> QED BY <2>2, <2>3
  <1>11. ASSUME b \in EndedBatches'
         PROVE  /\ Listed(b)' # {} /\ b \in NearBatches(b)'
                /\ IsFiniteSet(PastOf(b)') /\ Cardinality(PastOf(b)') < MaxVisible
    <2>1. PICK x \in MostRecent(s, T, MaxVisible) : batch_id'[x] = b
      BY <1>8, <1>11
    <2>2. x \in M /\ x \notin D
      BY <1>4, <1>5, <1>9, <2>1 DEF Members
    <2>3. /\ x \in Range(s) /\ x \in Near(s, D, M)
          /\ IsFiniteSet(Past(s, D, M)) /\ Cardinality(Past(s, D, M)) < MaxVisible
      BY <1>5, <1>6, <2>2, ShownPlace
    <2> QED BY <1>7, <2>1, <2>2, <2>3
  <1> QED BY <1>10, <1>11

\* The sizes of what surrounds b, in the state after a step.
LEMMA NearFew ==
    ASSUME TypeOK', ListInv', NEW b \in Batches
    PROVE  /\ IsFiniteSet(NearBatches(b)') /\ Cardinality(NearBatches(b)') <= MaxVisible
           /\ IsFiniteSet(PastOf(b)') /\ IsFiniteSet(PastBatches(b)')
           /\ Cardinality(PastBatches(b)') <= Cardinality(PastOf(b)')
  <1>1. MaxVisible \in Nat
    BY AgentManagerAssumption
  <1>2. PICK s \in Seq(Agents) : s = ended'
    BY DEF TypeOK
  <1>3. PICK N : N = Near(s, aborted', Members(b)')
    OBVIOUS
  <1>4. PICK P : P = Past(s, aborted', Members(b)')
    OBVIOUS
  <1>5. PICK f : f = batch_id'
    OBVIOUS
  <1>6. NearBatches(b)' = {f[x] : x \in N} /\ PastOf(b)' = P /\ PastBatches(b)' = {f[x] : x \in P}
    BY <1>2, <1>3, <1>4, <1>5 DEF NearBatches, PastOf, PastBatches
  <1>7. Apart(s)
    BY <1>2 DEF ListInv, EndedOnce
  <1>8. IsFiniteSet(N) /\ Cardinality(N) <= MaxVisible /\ Cardinality(N) \in Nat
    BY <1>3, <1>7, NearSize, FS_CardinalityType
  <1>9. IsFiniteSet(P)
    <2>1. P \subseteq Range(s)
      BY <1>4 DEF Past
    <2> QED BY <2>1, RangeFinite, SubsetSize
  <1>10. /\ IsFiniteSet({f[x] : x \in N}) /\ Cardinality({f[x] : x \in N}) <= Cardinality(N)
         /\ IsFiniteSet({f[x] : x \in P}) /\ Cardinality({f[x] : x \in P}) <= Cardinality(P)
    BY <1>8, <1>9, ImageSize
  <1>11. Cardinality({f[x] : x \in N}) \in Nat
    BY <1>10, FS_CardinalityType
  <1>12. Cardinality({f[x] : x \in N}) <= MaxVisible
    BY <1>1, <1>8, <1>10, <1>11
  <1> QED BY <1>6, <1>9, <1>10, <1>12

----------------------------------------------------------------------------
(* A step of the manager or of a task, with or without an update. *)

\* The channel after such a step: unchanged, or longer by what it shows.
Sent == updates' = updates \/ updates' = Append(updates, EndedBatches')

\* What is heard of beside b, after such a step.
LEMMA SentSeen ==
    ASSUME TypeOK, TypeOK', Sent, told' = told, woken' = woken, NEW b \in Batches
    PROVE  /\ \A k \in DOMAIN updates : k \in DOMAIN updates' /\ updates'[k] = updates[k]
           /\ \A k \in DOMAIN updates : Seen(b, k)' = Seen(b, k)
           /\ \A k \in DOMAIN updates' : k \in DOMAIN updates \/ (k = Len(updates') /\ updates'[k] = EndedBatches')
           /\ Seen(b, Len(updates))' \subseteq Seen(b, Len(updates)) \cup EndedBatches'
           /\ ~Announced(b) => Seen(b, Len(updates))' \subseteq Newer(woken, b) \cup EndedBatches'
  <1>1. PICK n \in Nat : n = Len(updates) /\ DOMAIN updates = 1..n
    BY DEF TypeOK
  <1>2. PICK m \in Nat : m = Len(updates') /\ DOMAIN updates' = 1..m
    BY DEF TypeOK
  <1>3. /\ \A k \in 1..n : k \in 1..m /\ updates'[k] = updates[k]
        /\ \A k \in 1..m : k \in 1..n \/ (k = m /\ updates'[k] = EndedBatches')
    <2>1. CASE updates' = updates
      BY <1>1, <1>2, <2>1
    <2>2. CASE updates' = Append(updates, EndedBatches')
      <3>1. updates \in Seq(SUBSET Batches)
        BY DEF TypeOK
      <3>2. PICK E \in SUBSET Batches : E = EndedBatches'
        BY ShownHasEnded
      <3>3. /\ m = n + 1 /\ updates'[n + 1] = E
            /\ \A k \in 1..n : updates'[k] = updates[k]
        BY <1>1, <1>2, <2>2, <3>1, <3>2
      <3>4. /\ \A k \in 1..n : k \in 1..m
            /\ \A k \in 1..m : k \in 1..n \/ k = n + 1
        BY <3>3
      <3> QED BY <3>2, <3>3, <3>4
    <2> QED BY <2>1, <2>2 DEF Sent
  <1>4. \A i : Since(b, i) <=> told[b] > 0 \/ \E j \in 1..n : j <= i /\ b \in updates[j]
    BY <1>1 DEF Since
  <1>5. \A i : Since(b, i)' <=> told[b] > 0 \/ \E j \in 1..m : j <= i /\ b \in updates'[j]
    BY <1>2 DEF Since
  <1>6. \A k : Seen(b, k) = Newer(woken, b)
            \cup {c \in Batches : \E i \in 1..n : i <= k /\ Since(b, i) /\ c \in updates[i]}
    BY <1>1 DEF Seen
  <1>7. \A k : Seen(b, k)' = Newer(woken, b)
            \cup {c \in Batches : \E i \in 1..m : i <= k /\ Since(b, i)' /\ c \in updates'[i]}
    BY <1>2 DEF Seen
  <1>8. ASSUME NEW i \in 1..n
        PROVE  Since(b, i)' <=> Since(b, i)
    <2>1. \A j \in 1..m : j <= i => j \in 1..n
      OBVIOUS
    <2> QED BY <1>3, <1>4, <1>5, <2>1
  <1>9. ASSUME NEW k \in 1..n
        PROVE  Seen(b, k)' = Seen(b, k)
    <2>1. \A i \in 1..m : i <= k => i \in 1..n
      OBVIOUS
    <2>2. ASSUME NEW c \in Batches
          PROVE  (\E i \in 1..m : i <= k /\ Since(b, i)' /\ c \in updates'[i])
                 <=> \E i \in 1..n : i <= k /\ Since(b, i) /\ c \in updates[i]
      BY <1>3, <1>8, <2>1
    <2> QED BY <1>6, <1>7, <2>2
  <1>10. \A i \in 1..n : i <= n
    OBVIOUS
  <1>11. Seen(b, m)' \subseteq Seen(b, n) \cup EndedBatches'
    BY <1>3, <1>6, <1>7, <1>8, <1>10
  <1>12. ASSUME ~Announced(b)
         PROVE  Seen(b, m)' \subseteq Newer(woken, b) \cup EndedBatches'
    <2>1. \A i \in 1..n : ~Since(b, i)
      BY <1>1, <1>4, <1>12 DEF Announced
    <2> QED BY <1>3, <1>7, <1>8, <2>1
  <1> QED BY <1>1, <1>2, <1>3, <1>9, <1>11, <1>12

\* Everything heard of is a batch, so these sets are finite.
LEMMA SeenFinite ==
    ASSUME TypeOK, NEW b, NEW k
    PROVE  Seen(b, k) \subseteq Batches /\ IsFiniteSet(Seen(b, k))
  <1>1. Newer(woken, b) \subseteq Batches
    BY DEF Newer, Range, TypeOK
  <1>2. Seen(b, k) \subseteq Batches
    BY <1>1 DEF Seen
  <1> QED BY <1>2, FiniteBatches, SubsetSize

LEMMA SpareFinite ==
    ASSUME TypeOK, NEW b
    PROVE  IsFiniteSet(Spare(b))
  <1>1. Near(ended, aborted, Members(b)) \subseteq Agents
    BY DEF Near, UpTo, Range, TypeOK
  <1>2. NearBatches(b) \subseteq Batches \cup {0}
    BY <1>1 DEF NearBatches, TypeOK
  <1>3. Spare(b) \subseteq Batches \cup {0}
    BY <1>2, SeenFinite DEF Spare
  <1>4. IsFiniteSet(Batches \cup {0})
    BY FiniteBatches, FS_AddElement
  <1> QED BY <1>3, <1>4, SubsetSize

\* A step that keeps the order of the list keeps the spare batches few.
LEMMA SendSpare ==
    ASSUME AgentInv, ListInv, CapInv, TypeOK', ListInv', KeepsOrder, Sent,
           told' = told, woken' = woken, Disturbed \subseteq Disturbed',
           NEW b \in Batches, Clean(b)', Announced(b)', Listed(b)' # {}
    PROVE  Cardinality(Spare(b)') <= MaxVisible - 1
  <1>1. TypeOK /\ MaxVisible \in Nat \ {0}
    BY AgentManagerAssumption DEF AgentInv
  <1>2. PICK R : R = Seen(b, Len(updates))'
    OBVIOUS
  <1>3. Spare(b)' = (R \cup NearBatches(b)') \ ({b} \cup Disturbed' \cup PastBatches(b)')
    BY <1>2 DEF Spare
  <1>4. /\ R \subseteq Seen(b, Len(updates)) \cup EndedBatches'
        /\ ~Announced(b) => R \subseteq Newer(woken, b) \cup EndedBatches'
        /\ \A k \in DOMAIN updates' :
               k \in DOMAIN updates \/ updates'[k] = EndedBatches'
        /\ \A k \in DOMAIN updates : updates'[k] = updates[k]
    BY <1>1, <1>2, SentSeen
  <1>5. \A c \in EndedBatches' : c \in Disturbed' \cup NearBatches(b)' \cup PastBatches(b)'
    BY ShownBatches
  <1>6. CASE Announced(b)
    <2>1. Kept(b)
      BY <1>6 DEF KeepsOrder
    <2>2. /\ Clean(b) /\ Listed(b) # {} /\ PastBatches(b) \subseteq PastBatches(b)'
          /\ NearBatches(b)' \subseteq NearBatches(b)
      BY <2>1 DEF Kept
    <2>3. Spare(b)' \subseteq Spare(b)
      <3>1. Spare(b) = (Seen(b, Len(updates)) \cup NearBatches(b))
                       \ ({b} \cup Disturbed \cup PastBatches(b))
        BY DEF Spare
      <3> QED BY <1>3, <1>4, <1>5, <2>2, <3>1
    <2>4. Cardinality(Spare(b)) <= MaxVisible - 1
      BY <1>6, <2>2 DEF CapInv, SpareFew
    <2>5. IsFiniteSet(Spare(b))
      BY <1>1, SpareFinite
    <2>6. /\ Cardinality(Spare(b)') \in Nat /\ Cardinality(Spare(b)) \in Nat
          /\ Cardinality(Spare(b)') <= Cardinality(Spare(b))
      BY <2>3, <2>5, SubsetSize
    <2> QED BY <1>1, <2>4, <2>6
  <1>7. CASE ~Announced(b)
    <2>1. b \in EndedBatches'
      <3>1. \E k \in DOMAIN updates' : b \in updates'[k]
        BY <1>7 DEF Announced
      <3> QED BY <1>4, <1>7, <3>1 DEF Announced
    <2>2. Newer(woken, b) = {}
      <3>1. b \notin Range(woken)
        BY <1>7 DEF AgentInv, WokenWasTold, Announced, Range
      <3> QED BY <3>1 DEF Newer, Prec, Range
    <2>3. b \in NearBatches(b)'
      BY <2>1, ShownBatches
    <2>4. PICK N : N = NearBatches(b)'
      OBVIOUS
    <2>5. IsFiniteSet(N) /\ Cardinality(N) <= MaxVisible /\ Cardinality(N) \in Nat
      BY <2>4, NearFew, FS_CardinalityType
    <2>6. IsFiniteSet(N \ {b}) /\ Cardinality(N \ {b}) = Cardinality(N) - 1
      BY <2>3, <2>4, <2>5, FS_RemoveElement
    <2>7. Spare(b)' \subseteq N \ {b}
      BY <1>3, <1>4, <1>5, <1>7, <2>2, <2>4
    <2>8. Cardinality(Spare(b)') \in Nat /\ Cardinality(Spare(b)') <= Cardinality(N \ {b})
      BY <2>6, <2>7, SubsetSize
    <2> QED BY <1>1, <2>5, <2>6, <2>8
  <1> QED BY <1>6, <1>7

\* So where an update shows b, few batches were heard of.
LEMMA SendSeen ==
    ASSUME AgentInv, ListInv, CapInv, TypeOK', ListInv', KeepsOrder, Sent,
           told' = told, woken' = woken, Disturbed \subseteq Disturbed',
           NEW b \in Batches, Clean(b)', NEW k \in DOMAIN updates', b \in updates'[k]
    PROVE  Cardinality(Seen(b, k)' \ ({b} \cup Disturbed')) <= 2 * (MaxVisible - 1)
  <1>1. TypeOK /\ MaxVisible \in Nat \ {0}
    BY AgentManagerAssumption DEF AgentInv
  <1>2. /\ \A i \in DOMAIN updates : updates'[i] = updates[i] /\ Seen(b, i)' = Seen(b, i)
        /\ k \in DOMAIN updates \/ (k = Len(updates') /\ updates'[k] = EndedBatches')
    BY <1>1, SentSeen
  <1>3. CASE k \in DOMAIN updates
    <2>1. PICK R : R = Seen(b, k)
      OBVIOUS
    <2>2. Announced(b) /\ b \in updates[k]
      BY <1>2, <1>3 DEF Announced
    <2>3. Clean(b)
      BY <2>2 DEF KeepsOrder, Kept
    <2>4. Cardinality(R \ ({b} \cup Disturbed)) <= 2 * (MaxVisible - 1)
      BY <1>3, <2>1, <2>2, <2>3 DEF CapInv, SeenFew
    <2>5. IsFiniteSet(R)
      BY <1>1, <2>1, SeenFinite
    <2>6. PICK A : A = R \ ({b} \cup Disturbed)
      OBVIOUS
    <2>7. PICK B : B = R \ ({b} \cup Disturbed')
      OBVIOUS
    <2>8. B \subseteq A /\ A \subseteq R
      BY <2>6, <2>7
    <2>9. IsFiniteSet(A)
      BY <2>5, <2>8, SubsetSize
    <2>10. Cardinality(B) <= Cardinality(A) /\ Cardinality(A) \in Nat /\ Cardinality(B) \in Nat
      BY <2>8, <2>9, SubsetSize
    <2>11. Cardinality(B) <= 2 * (MaxVisible - 1)
      BY <1>1, <2>4, <2>6, <2>10
    <2> QED BY <1>2, <1>3, <2>1, <2>7, <2>11
  <1>4. CASE k = Len(updates') /\ updates'[k] = EndedBatches'
    <2>1. b \in EndedBatches'
      BY <1>4
    <2>2. Listed(b)' # {} /\ IsFiniteSet(PastOf(b)') /\ Cardinality(PastOf(b)') < MaxVisible
      BY <2>1, ShownBatches
    <2>3. Announced(b)'
      BY DEF Announced
    <2>4. Cardinality(Spare(b)') <= MaxVisible - 1
      BY <2>2, <2>3, SendSpare
    <2>5. PICK A : A = Spare(b)'
      OBVIOUS
    <2>6. PICK P : P = PastBatches(b)'
      OBVIOUS
    <2>7. PICK R : R = Seen(b, k)'
      OBVIOUS
    <2>8. A = (R \cup NearBatches(b)') \ ({b} \cup Disturbed' \cup P)
      BY <1>4, <2>5, <2>6, <2>7 DEF Spare
    <2>9. PICK B : B = R \ ({b} \cup Disturbed')
      OBVIOUS
    <2>10. B \subseteq A \cup P
      BY <2>8, <2>9
    <2>11. IsFiniteSet(P) /\ Cardinality(P) <= Cardinality(PastOf(b)') /\ Cardinality(P) \in Nat
      BY <2>6, NearFew, FS_CardinalityType
    <2>12. IsFiniteSet(A)
      <3>1. R \subseteq Batches
        <4>1. Newer(woken, b)' \subseteq Batches
          BY DEF Newer, Range, TypeOK
        <4> QED BY <2>7, <4>1 DEF Seen
      <3>2. PICK N : N = NearBatches(b)'
        OBVIOUS
      <3>3. IsFiniteSet(N) /\ IsFiniteSet(R)
        BY <3>1, <3>2, NearFew, FiniteBatches, SubsetSize
      <3>4. A \subseteq R \cup N
        BY <2>8, <3>2
      <3> QED BY <3>3, <3>4, UnionSize
    <2>13. /\ Cardinality(B) <= Cardinality(A) + Cardinality(P)
           /\ Cardinality(B) \in Nat /\ Cardinality(A) \in Nat
      BY <2>10, <2>11, <2>12, UnionSize
    <2>14. Cardinality(PastOf(b)') \in Nat
      BY <2>2, FS_CardinalityType
    <2>15. Cardinality(P) <= MaxVisible - 1
      BY <1>1, <2>2, <2>11, <2>14
    <2>16. Cardinality(B) <= 2 * (MaxVisible - 1)
      BY <1>1, <2>4, <2>5, <2>11, <2>13, <2>15
    <2> QED BY <2>7, <2>9, <2>16
  <1> QED BY <1>2, <1>3, <1>4

\* A batch whose wake was forgotten is not shown again.
LEMMA SendRemembered ==
    ASSUME AgentInv, ListInv, CapInv, TypeOK', ListInv', KeepsOrder, Sent,
           told' = told, woken' = woken, aborted \subseteq aborted',
           NEW b \in Batches, Clean(b)', Few', told'[b] > 0
    PROVE  told'[b] < 2 /\ (b \in Range(woken') \/ Hidden(b)')
  <1>1. TypeOK /\ MaxVisible \in Nat \ {0} /\ MaxWoken \in Nat
    BY AgentManagerAssumption DEF AgentInv
  <1>2. Announced(b)
    BY DEF Announced
  <1>3. Kept(b)
    BY <1>2 DEF KeepsOrder
  <1>4. Clean(b)
    BY <1>3 DEF Kept
  <1>5. Few
    <2>1. IsFiniteSet(aborted')
      BY FiniteBatches, SubsetSize DEF TypeOK
    <2>2. /\ Cardinality(aborted) <= Cardinality(aborted')
          /\ Cardinality(aborted) \in Nat /\ Cardinality(aborted') \in Nat
      BY <2>1, SubsetSize
    <2>3. Cardinality(aborted') + 2 * MaxVisible <= MaxWoken + 1
      BY DEF Few
    <2> QED BY <1>1, <2>2, <2>3 DEF Few
  <1>6. told[b] < 2 /\ (b \in Range(woken) \/ Hidden(b))
    BY <1>4, <1>5 DEF CapInv, Remembered
  <1>7. ASSUME Hidden(b)
        PROVE  Hidden(b)'
    <2>1. Listed(b)' = {} \/ Cardinality(PastOf(b)') >= MaxVisible
      <3>1. CASE Listed(b)' # {}
        <4>1. Listed(b) # {} /\ PastOf(b) \subseteq PastOf(b)'
          BY <1>3, <3>1 DEF Kept
        <4>2. Cardinality(PastOf(b)) >= MaxVisible
          BY <1>7, <4>1 DEF Hidden
        <4>3. PICK P : P = PastOf(b)
          OBVIOUS
        <4>4. PICK Q : Q = PastOf(b)'
          OBVIOUS
        <4>5. IsFiniteSet(Q)
          BY <4>4, NearFew
        <4>6. /\ Cardinality(P) <= Cardinality(Q)
              /\ Cardinality(P) \in Nat /\ Cardinality(Q) \in Nat
          BY <4>1, <4>3, <4>4, <4>5, SubsetSize
        <4>7. Cardinality(Q) >= MaxVisible
          BY <1>1, <4>2, <4>3, <4>6
        <4> QED BY <4>4, <4>7
      <3> QED BY <3>1
    <2>2. b \notin EndedBatches'
      <3>1. CASE b \in EndedBatches'
        <4>1. /\ Listed(b)' # {} /\ IsFiniteSet(PastOf(b)') /\ Cardinality(PastOf(b)') < MaxVisible
          BY <3>1, ShownBatches
        <4>2. Cardinality(PastOf(b)') \in Nat
          BY <4>1, FS_CardinalityType
        <4> QED BY <1>1, <2>1, <4>1, <4>2
      <3> QED BY <3>1
    <2>3. /\ \A i \in DOMAIN updates : updates'[i] = updates[i]
          /\ \A i \in DOMAIN updates' : i \in DOMAIN updates \/ updates'[i] = EndedBatches'
      BY <1>1, SentSeen
    <2>4. \A i \in DOMAIN updates : b \notin updates[i]
      BY <1>7 DEF Hidden
    <2>5. \A i \in DOMAIN updates' : b \notin updates'[i]
      BY <2>2, <2>3, <2>4
    <2> QED BY <2>1, <2>5 DEF Hidden
  <1> QED BY <1>6, <1>7

LEMMA SendCap ==
    ASSUME AgentInv, ListInv, CapInv, TypeOK', ListInv', KeepsOrder, Sent,
           told' = told, woken' = woken, aborted \subseteq aborted', Disturbed \subseteq Disturbed'
    PROVE  CapInv'
  <1>1. WokenApart'
    BY DEF CapInv, WokenApart
  <1>2. SeenFew'
    <2>1. ASSUME NEW b \in Batches, Clean(b)', NEW k \in DOMAIN updates', b \in updates'[k]
          PROVE  Cardinality(Seen(b, k)' \ ({b} \cup Disturbed')) <= 2 * (MaxVisible - 1)
      BY <2>1, SendSeen
    <2> QED BY <2>1 DEF SeenFew, Batches
  <1>3. SpareFew'
    <2>1. ASSUME NEW b \in Batches, Clean(b)', Announced(b)', Listed(b)' # {}
          PROVE  Cardinality(Spare(b)') <= MaxVisible - 1
      BY <2>1, SendSpare
    <2> QED BY <2>1 DEF SpareFew, Batches
  <1>4. Remembered'
    <2>1. ASSUME NEW b \in Batches, Clean(b)', Few', told'[b] > 0
          PROVE  told'[b] < 2 /\ (b \in Range(woken') \/ Hidden(b)')
      BY <2>1, SendRemembered
    <2> QED BY <2>1 DEF Remembered, Batches
  <1> QED BY <1>1, <1>2, <1>3, <1>4 DEF CapInv

----------------------------------------------------------------------------
(* The session handles an update. *)

\* What the handling of the first update does to the wakes.
LEMMA DeliverEffect ==
    ASSUME AgentInv, WokenApart, Deliver
    PROVE  /\ updates # <<>> /\ updates' = Tail(updates) /\ Head(updates) \in SUBSET Batches
           /\ Apart(woken')
           /\ \A b \in Batches :
                 /\ Newer(woken', b) \subseteq Newer(woken, b) \cup Head(updates)
                 /\ told'[b] = told[b] \/ (b \in Head(updates) /\ told'[b] = UpTo2(told[b]))
                 /\ /\ b \in Range(woken) \/ b \in Head(updates)
                    /\ Cardinality((Newer(woken, b) \cup Head(updates)) \ {b}) < MaxWoken
                    => /\ b \in Range(woken')
                       /\ b \in Range(woken) => told'[b] = told[b]
  <1>1. updates # <<>> /\ updates' = Tail(updates)
    BY DEF Deliver
  <1>2. PICK H : H = Head(updates)
    OBVIOUS
  <1>3. H \in SUBSET Batches
    BY <1>1, <1>2 DEF AgentInv, TypeOK
  <1>4. PICK order \in SetToSeqs(H) :
           LET known == Known(woken, order)
               wakes == {order[i] : i \in {j \in DOMAIN order : order[j] \notin Range(known[j - 1])}}
           IN  /\ woken' = known[Len(order)]
               /\ told' = [b \in Batches |-> IF b \in wakes THEN UpTo2(told[b]) ELSE told[b]]
    BY <1>2 DEF Deliver
  <1>5. /\ order \in Seq(H)
        /\ \A i, j \in 1..Len(order) : i # j => order[i] # order[j]
        /\ \A b \in H : \E i \in 1..Len(order) : order[i] = b
    BY <1>3, EnumerationFacts DEF Batches
  <1>6. PICK n \in Nat : n = Len(order) /\ DOMAIN order = 1..n
    BY <1>5
  <1>7. order \in Seq(Batches) /\ Range(order) = H
    <2>1. order \in Seq(Batches)
      BY <1>3, <1>5, SeqMonotonic
    <2>2. \A i \in 1..n : order[i] \in H
      BY <1>5, <1>6
    <2> QED BY <1>5, <1>6, <2>1, <2>2 DEF Range
  <1>8. PICK known : known = Known(woken, order)
    OBVIOUS
  <1>9. PICK wakes : wakes = {order[i] : i \in {j \in 1..n : order[j] \notin Range(known[j - 1])}}
    OBVIOUS
  <1>10. /\ woken' = known[n]
         /\ told' = [b \in Batches |-> IF b \in wakes THEN UpTo2(told[b]) ELSE told[b]]
    BY <1>4, <1>6, <1>8, <1>9
  <1>11. woken \in Wakes /\ Apart(woken)
    BY DEF Wakes, AgentInv, TypeOK, WokenApart
  <1>12. ASSUME NEW b \in Batches
         PROVE  \A i \in 0..n :
                   /\ Apart(known[i])
                   /\ Newer(known[i], b) \subseteq Newer(woken, b) \cup H
                   /\ /\ Cardinality((Newer(woken, b) \cup H) \ {b}) < MaxWoken
                      /\ b \in Range(woken) \/ \E k \in 1..i : order[k] = b
                      => b \in Range(known[i])
    BY <1>6, <1>7, <1>8, <1>11, KnownOrder
  <1>13. n \in 0..n /\ \A i \in 1..n : i - 1 \in 0..n
    OBVIOUS
  <1>14. Apart(woken')
    <2>1. 1 \in Batches
      BY AgentManagerAssumption DEF Batches
    <2> QED BY <1>10, <1>12, <1>13, <2>1
  <1>15. wakes \subseteq H
    BY <1>5, <1>6, <1>9
  <1>16. ASSUME NEW b \in Batches
         PROVE  /\ Newer(woken', b) \subseteq Newer(woken, b) \cup H
                /\ told'[b] = told[b] \/ (b \in H /\ told'[b] = UpTo2(told[b]))
    BY <1>10, <1>12, <1>13, <1>15
  <1>17. ASSUME NEW b \in Batches, b \in Range(woken) \/ b \in H,
                Cardinality((Newer(woken, b) \cup H) \ {b}) < MaxWoken
         PROVE  /\ b \in Range(woken')
                /\ b \in Range(woken) => told'[b] = told[b]
    <2>1. b \in Range(woken')
      <3>1. b \in H => \E k \in 1..n : order[k] = b
        BY <1>5, <1>6
      <3> QED BY <1>10, <1>12, <1>13, <1>17, <3>1
    <2>2. ASSUME b \in Range(woken)
          PROVE  b \notin wakes
      BY <1>9, <1>12, <1>13, <1>17, <2>2
    <2> QED BY <1>10, <2>1, <2>2
  <1> QED BY <1>1, <1>2, <1>3, <1>14, <1>16, <1>17

\* What was heard of beside b is no more than before; what this update shows counts.
LEMMA DeliverSeen ==
    ASSUME AgentInv, AgentInv', CapInv, Deliver, NEW b \in Batches
    PROVE  /\ \A k \in DOMAIN updates' : /\ k + 1 \in DOMAIN updates /\ updates'[k] = updates[k + 1]
                                         /\ Seen(b, k)' \subseteq Seen(b, k + 1)
           /\ Seen(b, Len(updates))' \subseteq Seen(b, Len(updates))
           /\ Announced(b)' => Announced(b)
           /\ \A k \in DOMAIN updates : k > 0 /\ (told[b] > 0 \/ b \in Head(updates) =>
                 Newer(woken, b) \cup Head(updates) \subseteq Seen(b, k))
           /\ Len(updates) \in DOMAIN updates /\ 1 \in DOMAIN updates /\ updates[1] = Head(updates)
  <1>1. /\ updates # <<>> /\ updates' = Tail(updates) /\ Head(updates) \in SUBSET Batches
        /\ Newer(woken', b) \subseteq Newer(woken, b) \cup Head(updates)
        /\ told'[b] = told[b] \/ b \in Head(updates)
    <2>1. WokenApart
      BY DEF CapInv
    <2>2. /\ updates # <<>> /\ updates' = Tail(updates) /\ Head(updates) \in SUBSET Batches
          /\ \A x \in Batches :
                /\ Newer(woken', x) \subseteq Newer(woken, x) \cup Head(updates)
                /\ told'[x] = told[x] \/ (x \in Head(updates) /\ told'[x] = UpTo2(told[x]))
      BY <2>1, DeliverEffect
    <2> QED BY <2>2
  <1>2. updates \in Seq(SUBSET Batches) /\ told[b] \in Nat /\ told'[b] \in Nat
    <2>1. TypeOK /\ TypeOK'
      BY DEF AgentInv
    <2>2. updates \in Seq(SUBSET Batches) /\ told \in [Batches -> 0..2]
      BY <2>1 DEF TypeOK
    <2>3. told' \in [Batches -> 0..2]
      BY <2>1 DEF TypeOK
    <2>4. \A x \in 0..2 : x \in Nat
      OBVIOUS
    <2> QED BY <2>2, <2>3, <2>4
  <1>3. PICK m \in Nat : m + 1 = Len(updates)
    <2>1. Len(updates) \in Nat /\ Len(updates) # 0
      BY <1>1, <1>2
    <2>2. Len(updates) - 1 \in Nat /\ Len(updates) - 1 + 1 = Len(updates)
      BY <2>1
    <2> QED BY <2>2
  <1>4. PICK l \in Nat : l = m + 1
    OBVIOUS
  <1>5. /\ DOMAIN updates = 1..l /\ Head(updates) = updates[1] /\ Len(updates) = l
        /\ DOMAIN updates' = 1..m /\ Len(updates') = m
        /\ \A i \in 1..m : updates'[i] = updates[i + 1]
    BY <1>1, <1>2, <1>3, <1>4
  <1>6. 1 \in 1..l /\ l \in 1..l /\ \A i \in 1..m : i + 1 \in 1..l
    BY <1>4
  <1>7. ASSUME NEW i \in 1..m, Since(b, i)'
        PROVE  Since(b, i + 1)
    <2>1. told'[b] > 0 \/ \E j \in 1..m : j <= i /\ b \in updates'[j]
      BY <1>5, <1>7 DEF Since
    <2>2. CASE told[b] > 0
      BY <2>2 DEF Since
    <2>3. CASE b \in Head(updates)
      <3>1. 1 <= i + 1
        OBVIOUS
      <3> QED BY <1>5, <1>6, <2>3, <3>1 DEF Since
    <2>4. CASE \E j \in 1..m : j <= i /\ b \in updates'[j]
      <3>1. PICK j \in 1..m : j <= i /\ b \in updates'[j]
        BY <2>4
      <3>2. j + 1 <= i + 1 /\ j + 1 \in 1..l /\ b \in updates[j + 1]
        BY <1>5, <1>6, <3>1
      <3> QED BY <1>5, <3>2 DEF Since
    <2> QED BY <1>1, <2>1, <2>2, <2>3, <2>4
  <1>8. ASSUME NEW k \in 1..l
        PROVE  k > 0 /\ (told[b] > 0 \/ b \in Head(updates) =>
                 Newer(woken, b) \cup Head(updates) \subseteq Seen(b, k))
    <2>1. 1 <= k /\ k > 0 /\ 1 <= 1
      OBVIOUS
    <2>2. ASSUME told[b] > 0 \/ b \in Head(updates)
          PROVE  Since(b, 1)
      BY <1>5, <1>6, <2>1, <2>2 DEF Since
    <2> QED BY <1>1, <1>5, <1>6, <2>1, <2>2 DEF Seen
  <1>9. ASSUME NEW k \in 1..l
        PROVE  Newer(woken', b) \subseteq Seen(b, k)
    <2>1. CASE told[b] > 0 \/ b \in Head(updates)
      BY <1>1, <1>8, <2>1
    <2>2. CASE ~(told[b] > 0 \/ b \in Head(updates))
      <3>1. b \notin Range(woken')
        <4>1. ~(told'[b] > 0)
          BY <1>1, <2>2
        <4> QED BY <4>1 DEF AgentInv, WokenWasTold, Range
      <3>2. Newer(woken', b) = {}
        BY <3>1 DEF Newer, Prec, Range
      <3> QED BY <3>2
    <2> QED BY <2>1, <2>2
  <1>10. \A k : Seen(b, k)' = Newer(woken', b)
            \cup {c \in Batches : \E i \in 1..m : i <= k /\ Since(b, i)' /\ c \in updates'[i]}
    BY <1>5 DEF Seen
  <1>11. \A k : Seen(b, k) = Newer(woken, b)
            \cup {c \in Batches : \E i \in 1..l : i <= k /\ Since(b, i) /\ c \in updates[i]}
    BY <1>5 DEF Seen
  <1>12. ASSUME NEW k \in 0..m
         PROVE  Seen(b, k)' \subseteq Seen(b, k + 1)
    <2>1. k + 1 \in 1..l
      BY <1>4
    <2>2. ASSUME NEW c \in Batches, NEW i \in 1..m, i <= k, Since(b, i)', c \in updates'[i]
          PROVE  c \in Seen(b, k + 1)
      <3>1. i + 1 \in 1..l /\ i + 1 <= k + 1 /\ Since(b, i + 1) /\ c \in updates[i + 1]
        BY <1>5, <1>6, <1>7, <2>2
      <3> QED BY <1>11, <3>1
    <2>3. Newer(woken', b) \subseteq Seen(b, k + 1)
      BY <1>9, <2>1
    <2> QED BY <1>10, <2>2, <2>3
  <1>13. Seen(b, Len(updates))' \subseteq Seen(b, Len(updates))
    <2>1. m \in 0..m
      OBVIOUS
    <2>2. Seen(b, m)' \subseteq Seen(b, l)
      BY <1>4, <1>12, <2>1
    <2>3. Seen(b, Len(updates))' = Seen(b, m)'
      BY <1>5
    <2> QED BY <1>5, <2>2, <2>3
  <1>14. ASSUME Announced(b)'
         PROVE  Announced(b)
    BY <1>1, <1>5, <1>6, <1>14 DEF Announced
  <1>15. \A k \in 1..m : k \in 0..m
    OBVIOUS
  <1> QED BY <1>5, <1>6, <1>8, <1>12, <1>13, <1>14, <1>15

LEMMA DisturbedFew ==
    ASSUME TypeOK
    PROVE  /\ IsFiniteSet(Disturbed) /\ IsFiniteSet(aborted)
           /\ Cardinality(Disturbed) \in Nat /\ Cardinality(aborted) \in Nat
           /\ Cardinality(Disturbed) <= Cardinality(aborted)
  <1>1. IsFiniteSet(aborted)
    BY FiniteBatches, SubsetSize DEF TypeOK
  <1>2. /\ IsFiniteSet({batch_id[x] : x \in aborted})
        /\ Cardinality({batch_id[x] : x \in aborted}) <= Cardinality(aborted)
    BY <1>1, ImageSize
  <1> QED BY <1>1, <1>2, FS_CardinalityType DEF Disturbed

\* While an update on its way shows b, the wakes leave room for it.
LEMMA ShownFits ==
    ASSUME AgentInv, CapInv, Few, NEW b \in Batches, Clean(b),
           NEW k \in DOMAIN updates, b \in updates[k], NEW X, X \subseteq Seen(b, k) \ {b}
    PROVE  Cardinality(X) < MaxWoken
  <1>1. TypeOK /\ MaxVisible \in Nat \ {0} /\ MaxWoken \in Nat
    BY AgentManagerAssumption DEF AgentInv
  <1>2. PICK Y : Y = Seen(b, k) \ ({b} \cup Disturbed)
    OBVIOUS
  <1>3. PICK D : D = Disturbed
    OBVIOUS
  <1>4. Cardinality(Y) <= 2 * (MaxVisible - 1)
    BY <1>2 DEF CapInv, SeenFew
  <1>5. IsFiniteSet(Y)
    <2>1. PICK R : R = Seen(b, k)
      OBVIOUS
    <2>2. IsFiniteSet(R)
      BY <1>1, <2>1, SeenFinite
    <2>3. Y \subseteq R
      BY <1>2, <2>1
    <2> QED BY <2>2, <2>3, SubsetSize
  <1>6. /\ IsFiniteSet(D) /\ Cardinality(D) <= Cardinality(aborted)
        /\ Cardinality(D) \in Nat /\ Cardinality(aborted) \in Nat
    BY <1>1, <1>3, DisturbedFew
  <1>7. X \subseteq Y \cup D
    BY <1>2, <1>3
  <1>8. Cardinality(X) <= Cardinality(Y) + Cardinality(D) /\ Cardinality(X) \in Nat /\ Cardinality(Y) \in Nat
    BY <1>5, <1>6, <1>7, UnionSize
  <1>9. Cardinality(aborted) + 2 * MaxVisible <= MaxWoken + 1
    BY DEF Few
  <1> QED BY <1>1, <1>4, <1>6, <1>8, <1>9

\* When more wakes than the cap came after b, MaxVisible agents ended after b.
LEMMA PushedOut ==
    ASSUME AgentInv, ListInv, CapInv, Few, NEW b \in Batches, Clean(b), Announced(b), Listed(b) # {},
           NEW X, X \subseteq Seen(b, Len(updates)) \ {b}, ~(Cardinality(X) < MaxWoken)
    PROVE  Cardinality(PastOf(b)) >= MaxVisible
  <1>1. TypeOK /\ MaxVisible \in Nat \ {0} /\ MaxWoken \in Nat
    BY AgentManagerAssumption DEF AgentInv
  <1>2. PICK A : A = Spare(b)
    OBVIOUS
  <1>3. PICK D : D = Disturbed
    OBVIOUS
  <1>4. PICK P : P = PastBatches(b)
    OBVIOUS
  <1>5. PICK Q : Q = PastOf(b)
    OBVIOUS
  <1>6. PICK R : R = Seen(b, Len(updates))
    OBVIOUS
  <1>7. A = (R \cup NearBatches(b)) \ ({b} \cup D \cup P)
    BY <1>2, <1>3, <1>4, <1>6 DEF Spare
  <1>8. PICK B : B = R \ ({b} \cup D \cup P)
    OBVIOUS
  <1>9. IsFiniteSet(R)
    BY <1>1, <1>6, SeenFinite
  <1>10. IsFiniteSet(Q) /\ Cardinality(Q) \in Nat
    <2>1. Q \subseteq Range(ended) /\ ended \in Seq(Agents)
      BY <1>1, <1>5 DEF PastOf, Past, TypeOK
    <2> QED BY <2>1, RangeFinite, SubsetSize
  <1>11. IsFiniteSet(P) /\ Cardinality(P) <= Cardinality(Q) /\ Cardinality(P) \in Nat
    <2>1. P = {batch_id[x] : x \in Q}
      BY <1>4, <1>5 DEF PastBatches
    <2> QED BY <1>10, <2>1, ImageSize, FS_CardinalityType
  <1>12. /\ IsFiniteSet(D) /\ Cardinality(D) <= Cardinality(aborted)
         /\ Cardinality(D) \in Nat /\ Cardinality(aborted) \in Nat
    BY <1>1, <1>3, DisturbedFew
  <1>13. Cardinality(A) <= MaxVisible - 1
    BY <1>2 DEF CapInv, SpareFew
  <1>14. IsFiniteSet(A)
    BY <1>1, <1>2, SpareFinite
  <1>15. PICK U : U = A \cup D
    OBVIOUS
  <1>16. /\ IsFiniteSet(U) /\ Cardinality(U) <= Cardinality(A) + Cardinality(D)
         /\ Cardinality(U) \in Nat /\ Cardinality(A) \in Nat
    BY <1>12, <1>14, <1>15, UnionSize
  <1>17. X \subseteq U \cup P
    BY <1>6, <1>7, <1>15
  <1>18. Cardinality(X) <= Cardinality(U) + Cardinality(P) /\ Cardinality(X) \in Nat
    BY <1>11, <1>16, <1>17, UnionSize
  <1>19. Cardinality(aborted) + 2 * MaxVisible <= MaxWoken + 1
    BY DEF Few
  <1>20. Cardinality(Q) >= MaxVisible
    BY <1>1, <1>10, <1>11, <1>12, <1>13, <1>16, <1>18, <1>19
  <1> QED BY <1>5, <1>20

LEMMA DeliverRemembered ==
    ASSUME AgentInv, ListInv, CapInv, AgentInv', Deliver,
           NEW b \in Batches, Clean(b), Few, told'[b] > 0
    PROVE  told'[b] < 2 /\ (b \in Range(woken') \/ Hidden(b)')
  <1>1. UNCHANGED <<batch_id, status, place, ended, handles, aborted>>
    BY DEF Deliver, mgrVars, taskVars
  <1>2. Listed(b)' = Listed(b) /\ PastOf(b)' = PastOf(b)
    BY <1>1 DEF Listed, PastOf, Members
  <1>3. PICK H : H = Head(updates)
    OBVIOUS
  <1>4. PICK X : X = (Newer(woken, b) \cup H) \ {b}
    OBVIOUS
  <1>5. told \in [Batches -> 0..2]
    BY DEF AgentInv, TypeOK
  <1>6. told[b] \in 0..2
    BY <1>5
  <1>7. /\ told'[b] = told[b] \/ (b \in H /\ told'[b] = UpTo2(told[b]))
        /\ (b \in Range(woken) \/ b \in H) /\ Cardinality(X) < MaxWoken
           => b \in Range(woken') /\ (b \in Range(woken) => told'[b] = told[b])
    <2>1. WokenApart
      BY DEF CapInv
    <2>2. \A x \in Batches :
                 /\ told'[x] = told[x] \/ (x \in Head(updates) /\ told'[x] = UpTo2(told[x]))
                 /\ /\ x \in Range(woken) \/ x \in Head(updates)
                    /\ Cardinality((Newer(woken, x) \cup Head(updates)) \ {x}) < MaxWoken
                    => /\ x \in Range(woken')
                       /\ x \in Range(woken) => told'[x] = told[x]
      BY <2>1, DeliverEffect
    <2> QED BY <1>3, <1>4, <2>2
  <1>8. /\ \A k \in DOMAIN updates' : k + 1 \in DOMAIN updates /\ updates'[k] = updates[k + 1]
        /\ \A k \in DOMAIN updates : told[b] > 0 \/ b \in H => Newer(woken, b) \cup H \subseteq Seen(b, k)
        /\ Len(updates) \in DOMAIN updates /\ 1 \in DOMAIN updates /\ updates[1] = H
    BY <1>3, DeliverSeen
  <1>9. ASSUME NEW k \in DOMAIN updates, b \in updates[k], told[b] > 0 \/ b \in H
        PROVE  Cardinality(X) < MaxWoken
    <2>1. X \subseteq Seen(b, k) \ {b}
      BY <1>4, <1>8, <1>9
    <2> QED BY <1>9, <2>1, ShownFits
  <1>10. CASE ~(told[b] > 0)
    <2>1. told[b] = 0
      BY <1>6, <1>10
    <2>2. b \in H /\ told'[b] = 1
      BY <1>7, <1>10, <2>1 DEF UpTo2
    <2>3. Cardinality(X) < MaxWoken
      BY <1>8, <1>9, <2>2
    <2> QED BY <1>7, <2>2, <2>3
  <1>11. CASE told[b] > 0 /\ b \notin H
    <2>1. told'[b] = told[b]
      BY <1>7, <1>11
    <2>2. told[b] < 2 /\ (b \in Range(woken) \/ Hidden(b))
      BY <1>11 DEF CapInv, Remembered
    <2>3. CASE Hidden(b)
      <3>1. /\ \A i \in DOMAIN updates : b \notin updates[i]
            /\ Listed(b) = {} \/ Cardinality(PastOf(b)) >= MaxVisible
        BY <2>3 DEF Hidden
      <3>2. \A i \in DOMAIN updates' : b \notin updates'[i]
        BY <1>8, <3>1
      <3>3. Hidden(b)'
        BY <1>2, <3>1, <3>2 DEF Hidden
      <3> QED BY <2>1, <2>2, <3>3
    <2>4. CASE b \in Range(woken) /\ Cardinality(X) < MaxWoken
      BY <1>7, <2>1, <2>2, <2>4
    <2>5. CASE b \in Range(woken) /\ ~(Cardinality(X) < MaxWoken)
      <3>1. \A i \in DOMAIN updates : b \notin updates[i]
        BY <1>9, <1>11, <2>5
      <3>2. \A i \in DOMAIN updates' : b \notin updates'[i]
        BY <1>8, <3>1
      <3>3. X \subseteq Seen(b, Len(updates)) \ {b}
        BY <1>4, <1>8, <1>11
      <3>4. Announced(b)
        BY <1>11 DEF Announced
      <3>5. Listed(b) = {} \/ Cardinality(PastOf(b)) >= MaxVisible
        BY <2>5, <3>3, <3>4, PushedOut
      <3>6. Hidden(b)'
        BY <1>2, <3>2, <3>5 DEF Hidden
      <3> QED BY <2>1, <2>2, <3>6
    <2> QED BY <2>2, <2>3, <2>4, <2>5
  <1>12. CASE told[b] > 0 /\ b \in H
    <2>1. told[b] < 2 /\ (b \in Range(woken) \/ Hidden(b))
      BY <1>12 DEF CapInv, Remembered
    <2>2. ~Hidden(b)
      BY <1>8, <1>12 DEF Hidden
    <2>3. Cardinality(X) < MaxWoken
      BY <1>8, <1>9, <1>12
    <2> QED BY <1>7, <2>1, <2>2, <2>3
  <1> QED BY <1>10, <1>11, <1>12

LEMMA DeliverCap ==
    ASSUME AgentInv, ListInv, CapInv, AgentInv', Deliver
    PROVE  CapInv'
  <1>1. UNCHANGED <<batch_id, status, place, ended, handles, aborted>>
    BY DEF Deliver, mgrVars, taskVars
  <1>2. TypeOK /\ WokenApart /\ MaxVisible \in Nat \ {0}
    BY AgentManagerAssumption DEF AgentInv, CapInv
  <1>3. Disturbed' = Disturbed /\ (Few' <=> Few)
    BY <1>1 DEF Disturbed, Few
  <1>4. ASSUME NEW b \in Batches
        PROVE  /\ Clean(b)' <=> Clean(b)
               /\ Listed(b)' = Listed(b)
               /\ NearBatches(b)' = NearBatches(b) /\ PastBatches(b)' = PastBatches(b)
    BY <1>1 DEF Clean, Members, Listed, NearBatches, PastBatches, PastOf
  <1>5. WokenApart'
    BY <1>2, DeliverEffect DEF WokenApart
  <1>6. ASSUME NEW b \in Batches, Clean(b)', NEW k \in DOMAIN updates', b \in updates'[k]
        PROVE  Cardinality(Seen(b, k)' \ ({b} \cup Disturbed')) <= 2 * (MaxVisible - 1)
    <2>1. k + 1 \in DOMAIN updates /\ b \in updates[k + 1] /\ Seen(b, k)' \subseteq Seen(b, k + 1)
      BY <1>6, DeliverSeen
    <2>2. PICK R : R = Seen(b, k + 1)
      OBVIOUS
    <2>3. PICK A : A = R \ ({b} \cup Disturbed)
      OBVIOUS
    <2>4. PICK B : B = Seen(b, k)' \ ({b} \cup Disturbed')
      OBVIOUS
    <2>5. Cardinality(A) <= 2 * (MaxVisible - 1)
      BY <1>4, <1>6, <2>1, <2>2, <2>3 DEF CapInv, SeenFew
    <2>6. IsFiniteSet(R)
      BY <1>2, <2>2, SeenFinite
    <2>7. A \subseteq R /\ B \subseteq A
      BY <1>3, <2>1, <2>2, <2>3, <2>4
    <2>8. IsFiniteSet(A)
      BY <2>6, <2>7, SubsetSize
    <2>9. Cardinality(B) <= Cardinality(A) /\ Cardinality(A) \in Nat /\ Cardinality(B) \in Nat
      BY <2>7, <2>8, SubsetSize
    <2>10. Cardinality(B) <= 2 * (MaxVisible - 1)
      BY <1>2, <2>5, <2>9
    <2> QED BY <2>4, <2>10
  <1>7. ASSUME NEW b \in Batches, Clean(b)', Announced(b)', Listed(b)' # {}
        PROVE  Cardinality(Spare(b)') <= MaxVisible - 1
    <2>1. Seen(b, Len(updates))' \subseteq Seen(b, Len(updates)) /\ Announced(b)
      BY <1>7, DeliverSeen
    <2>2. Clean(b) /\ Listed(b) # {}
      BY <1>4, <1>7
    <2>3. Cardinality(Spare(b)) <= MaxVisible - 1
      BY <2>1, <2>2 DEF CapInv, SpareFew
    <2>4. PICK R : R = Seen(b, Len(updates))
      OBVIOUS
    <2>5. PICK N : N = NearBatches(b)
      OBVIOUS
    <2>6. PICK A : A = Spare(b)
      OBVIOUS
    <2>7. PICK B : B = Spare(b)'
      OBVIOUS
    <2>8. /\ A = (R \cup N) \ ({b} \cup Disturbed \cup PastBatches(b))
          /\ B = (Seen(b, Len(updates))' \cup N) \ ({b} \cup Disturbed \cup PastBatches(b))
      BY <1>3, <1>4, <2>4, <2>5, <2>6, <2>7 DEF Spare
    <2>9. B \subseteq A
      BY <2>1, <2>4, <2>8
    <2>12. IsFiniteSet(A)
      BY <1>2, <2>6, SpareFinite
    <2>13. Cardinality(B) <= Cardinality(A) /\ Cardinality(A) \in Nat /\ Cardinality(B) \in Nat
      BY <2>9, <2>12, SubsetSize
    <2>14. Cardinality(B) <= MaxVisible - 1
      BY <1>2, <2>3, <2>6, <2>13
    <2> QED BY <2>7, <2>14
  <1>8. ASSUME NEW b \in Batches, Clean(b)', Few', told'[b] > 0
        PROVE  told'[b] < 2 /\ (b \in Range(woken') \/ Hidden(b)')
    <2>1. Clean(b) /\ Few
      BY <1>3, <1>4, <1>8
    <2> QED BY <1>8, <2>1, DeliverRemembered
  <1>9. SeenFew'
    BY <1>6 DEF SeenFew, Batches
  <1>10. SpareFew'
    BY <1>7 DEF SpareFew, Batches
  <1>11. Remembered'
    BY <1>8 DEF Remembered, Batches
  <1> QED BY <1>5, <1>9, <1>10, <1>11 DEF CapInv

----------------------------------------------------------------------------
(* Every step keeps the invariant of the wakes. *)

WakeInv == AgentInv /\ ListInv /\ CapInv

LEMMA WakeInit == Init => WakeInv
  <1> SUFFICES ASSUME Init
               PROVE  WakeInv
    OBVIOUS
  <1>1. AgentInv
    BY InitInv
  <1>2. /\ ended = <<>> /\ updates = <<>> /\ woken = <<>> /\ aborted = {}
        /\ told = [b \in Batches |-> 0] /\ pc = [a \in Agents |-> "unborn"]
    BY DEF Init
  <1>3. ListInv
    BY <1>2 DEF ListInv, EndedOnce, OwnEndIsFinal, HeldUnlessAborted, Apart, Range
  <1>4. \A b \in Batches : ~(told[b] > 0) /\ ~Announced(b)
    BY <1>2 DEF Announced
  <1>5. WokenApart /\ SeenFew
    BY <1>2 DEF WokenApart, Apart, SeenFew
  <1>6. SpareFew /\ Remembered
    BY <1>4 DEF SpareFew, Remembered
  <1> QED BY <1>1, <1>3, <1>5, <1>6 DEF WakeInv, CapInv

\* All steps but those of the session leave the wakes alone.
LEMMA ManagerStep ==
    ASSUME WakeInv, AgentInv', ListInv', KeepsOrder, woken' = woken, told' = told,
           aborted \subseteq aborted', \A a \in aborted : batch_id'[a] = batch_id[a],
           updates' = updates \/ send_agent_status_update
    PROVE  WakeInv'
  <1>1. Disturbed \subseteq Disturbed'
    BY DEF Disturbed
  <1>2. Sent
    BY DEF Sent, send_agent_status_update
  <1>3. TypeOK'
    BY DEF AgentInv
  <1>4. CapInv'
    BY <1>1, <1>2, <1>3, SendCap DEF WakeInv
  <1> QED BY <1>4 DEF WakeInv

LEMMA RunWakes ==
    ASSUME WakeInv, NEW n \in Agents, RunAgents(n)
    PROVE  WakeInv'
  <1>1. AgentInv /\ AgentInv' /\ ListInv' /\ KeepsOrder
    BY RunKeeps, RunList DEF WakeInv
  <1>2. /\ UNCHANGED <<woken, told, aborted>> /\ send_agent_status_update
        /\ batch_id' = [a \in Agents |-> IF a \in NextAgents(n) THEN NextBatch ELSE batch_id[a]]
        /\ NextAgents(n) \subseteq Agents
    BY DEF RunAgents, Create, wakeVars
  <1>3. \A a \in aborted : batch_id'[a] = batch_id[a]
    <2>1. PICK k \in Nat : Created = 1..k /\ NextAgents(n) = k + 1..k + n
      BY <1>1, <1>2, NextNumbers DEF AgentInv
    <2>2. \A a \in aborted : a \in Agents /\ a \in Created
      BY <1>1 DEF AgentInv, TypeOK, Unborn, Created
    <2>3. \A a \in 1..k : a \notin k + 1..k + n
      OBVIOUS
    <2> QED BY <1>2, <2>1, <2>2, <2>3
  <1> QED BY <1>1, <1>2, <1>3, ManagerStep

\* A new session was told nothing yet, and nothing is on its way.
LEMMA NewSessionWakes ==
    ASSUME WakeInv, NewSession
    PROVE  WakeInv'
  <1>1. AgentInv /\ ListInv /\ AgentInv'
    BY NewSessionKeeps DEF WakeInv
  <1>2. /\ place' = [a \in Agents |-> IF place[a] = "archived" THEN "none" ELSE place[a]]
        /\ status' = [a \in Agents |-> IF place[a] = "archived" THEN "none" ELSE status[a]]
        /\ updates' = <<>> /\ woken' = <<>> /\ told' = [b \in Batches |-> 0]
        /\ UNCHANGED <<batch_id, ended, handles, aborted, pc>>
    BY DEF NewSession, taskVars
  <1>3. \A x \in Range(ended) \ aborted : status'[x] = status[x] /\ place'[x] = place[x]
    <2>1. Range(ended) \subseteq Agents
      BY <1>1 DEF AgentInv, TypeOK, Range
    <2> QED BY <1>1, <1>2, <2>1 DEF ListInv, OwnEndIsFinal
  <1>4. ListInv'
    BY <1>1, <1>2, <1>3, QuietList
  <1>5. \A b \in Batches : ~(told'[b] > 0)
    BY <1>2
  <1>6. \A b \in Batches : ~Announced(b)'
    BY <1>2, <1>5 DEF Announced
  <1>7. WokenApart' /\ SeenFew'
    BY <1>2 DEF WokenApart, Apart, SeenFew
  <1>8. SpareFew'
    BY <1>6 DEF SpareFew, Batches
  <1>9. Remembered'
    BY <1>5 DEF Remembered, Batches
  <1> QED BY <1>1, <1>4, <1>7, <1>8, <1>9 DEF WakeInv, CapInv

LEMMA DeliverWakes ==
    ASSUME WakeInv, Deliver
    PROVE  WakeInv'
  <1>1. AgentInv /\ ListInv /\ CapInv /\ AgentInv'
    BY DeliverKeeps DEF WakeInv
  <1>2. UNCHANGED <<batch_id, status, place, ended, handles, aborted, pc>>
    BY DEF Deliver, mgrVars, taskVars
  <1>3. ListInv'
    BY <1>1, <1>2, QuietList
  <1>4. CapInv'
    BY <1>1, DeliverCap
  <1> QED BY <1>1, <1>3, <1>4 DEF WakeInv

LEMMA StutterWakes ==
    ASSUME WakeInv, UNCHANGED vars
    PROVE  WakeInv'
  <1>1. AgentInv /\ AgentInv'
    BY StutterKeeps DEF WakeInv
  <1>2. UNCHANGED <<batch_id, status, place, ended, handles, aborted, pc, updates, woken, told>>
    BY DEF vars
  <1>3. ListInv' /\ KeepsOrder
    BY <1>1, <1>2, QuietList DEF WakeInv
  <1> QED BY <1>1, <1>2, <1>3, ManagerStep

LEMMA WakeNext == WakeInv /\ [Next]_vars => WakeInv'
  <1> SUFFICES ASSUME WakeInv, [Next]_vars
               PROVE  WakeInv'
    OBVIOUS
  <1>a. AgentInv /\ ListInv
    BY DEF WakeInv
  <1>1. ASSUME NEW n \in Agents, RunAgents(n)
        PROVE  WakeInv'
    BY <1>1, RunWakes
  <1>2. ASSUME NEW S \in SUBSET Agents, CancelAgents(S)
        PROVE  WakeInv'
    <2>1. AgentInv' /\ ListInv' /\ KeepsOrder
      BY <1>2, <1>a, CancelKeeps, CancelList
    <2>2. /\ UNCHANGED <<batch_id, woken, told, updates>> /\ aborted \subseteq aborted'
      BY <1>2 DEF CancelAgents, wakeVars, finalize_terminal_agents
    <2> QED BY <2>1, <2>2, ManagerStep
  <1>3. ASSUME NEW S \in SUBSET Agents, WatchdogSweep(S)
        PROVE  WakeInv'
    <2>1. AgentInv' /\ ListInv' /\ KeepsOrder
      BY <1>3, <1>a, SweepKeeps, SweepList
    <2>2. /\ UNCHANGED <<batch_id, woken, told>> /\ send_agent_status_update
          /\ aborted \subseteq aborted'
      BY <1>3 DEF WatchdogSweep, wakeVars, finalize_terminal_agents
    <2> QED BY <2>1, <2>2, ManagerStep
  <1>4. ASSUME NEW a \in Agents, Start(a)
        PROVE  WakeInv'
    <2>1. AgentInv' /\ ListInv' /\ KeepsOrder
      BY <1>4, <1>a, StartKeeps, StartList
    <2>2. UNCHANGED <<batch_id, woken, told, aborted>>
      BY <1>4 DEF Start, wakeVars
    <2>3. updates' = updates \/ send_agent_status_update
      BY <1>4 DEF Start
    <2> QED BY <2>1, <2>2, <2>3, ManagerStep
  <1>5. ASSUME NEW a \in Agents, Progress(a)
        PROVE  WakeInv'
    <2>1. /\ UNCHANGED <<batch_id, status, place, ended, handles, aborted, pc, woken, told>>
          /\ send_agent_status_update
      BY <1>5 DEF Progress, mgrVars, taskVars, wakeVars
    <2>2. AgentInv'
      BY <1>5, <1>a, ProgressKeeps
    <2>3. ListInv' /\ KeepsOrder
      BY <1>a, <2>1, QuietList
    <2> QED BY <2>1, <2>2, <2>3, ManagerStep
  <1>6. ASSUME NEW a \in Agents, Dropped(a)
        PROVE  WakeInv'
    <2>1. PICK p \in Over :
          /\ UNCHANGED <<batch_id, status, place, ended, handles, aborted, updates, woken, told>>
          /\ a \in aborted /\ pc' = [pc EXCEPT ![a] = p]
      BY <1>6 DEF Dropped, Goto, mgrVars, wakeVars, Over
    <2>2. AgentInv'
      BY <1>6, <1>a, DroppedKeeps
    <2>3. ListInv' /\ KeepsOrder
      BY <1>a, <2>1, QuietList
    <2> QED BY <2>1, <2>2, <2>3, ManagerStep
  <1>7. ASSUME NEW a \in Agents, NEW to \in {"completed", "failed"}, Finish(a, to)
        PROVE  WakeInv'
    <2>1. AgentInv' /\ ListInv' /\ KeepsOrder
      BY <1>7, <1>a, FinishKeeps, FinishList
    <2>2. UNCHANGED <<batch_id, woken, told, aborted>>
      BY <1>7 DEF Finish, wakeVars, mgrVars, finalize_terminal_agents
    <2>3. updates' = updates \/ send_agent_status_update
      BY <1>7 DEF Finish
    <2> QED BY <2>1, <2>2, <2>3, ManagerStep
  <1>8. CASE Deliver
    BY <1>8, DeliverWakes
  <1>9. CASE NewSession
    BY <1>9, NewSessionWakes
  <1>10. CASE UNCHANGED vars
    BY <1>10, StutterWakes
  <1> QED BY <1>1, <1>2, <1>3, <1>4, <1>5, <1>6, <1>7, <1>8, <1>9, <1>10 DEF Next, Task

\* A batch none of whose tasks was aborted wakes a session once, as long as few
\* enough tasks were aborted: agent_completion_wake_messages forgets a wake only
\* when no later status update can show the batch again.
THEOREM OneWakePerBatch == Spec => []WokenOnce
  <1>1. WakeInv => WokenOnce
    <2> SUFFICES ASSUME WakeInv, NEW b \in Batches,
                        ~(told[b] < 2), Members(b) \cap aborted = {}
                 PROVE  Cardinality(aborted) + 2 * MaxVisible > MaxWoken + 1
      BY DEF WokenOnce
    <2>1. TypeOK /\ MaxVisible \in Nat /\ MaxWoken \in Nat
      BY AgentManagerAssumption DEF WakeInv, AgentInv
    <2>2. told[b] \in 0..2
      BY <2>1 DEF TypeOK
    <2>3. told[b] > 0
      BY <2>2
    <2>4. ~Few
      BY <2>3 DEF WakeInv, CapInv, Remembered, Clean
    <2>5. Cardinality(aborted) \in Nat
      BY <2>1, DisturbedFew
    <2> QED BY <2>1, <2>4, <2>5 DEF Few
  <1> QED BY <1>1, WakeInit, WakeNext, PTL DEF Spec
=============================================================================
