------------------------- MODULE ReviewCoordProofs -------------------------
(***************************************************************************)
(* The review lock is sound, for any number of processes that hold it,     *)
(* clear it and end anywhere, as long as no lock is created in the middle  *)
(* of a clear; and the epoch tells every review of every bump as long as   *)
(* bumps neither overlap nor are cut short.                                *)
(***************************************************************************)
EXTENDS ReviewCoord, FiniteSetTheorems, TLAPS

(* Everything about the lock that the proof uses of the types. *)
LockTypes ==
    /\ lock \in [by : Procs \cup {None}, written : BOOLEAN]
    /\ lock.written => lock.by # None
    /\ held \subseteq Procs
    /\ pc \in [Procs -> States]
    /\ seen \in [Procs -> Procs \cup {None}]

(* A dead process holds no guard, and a process that is writing the body of a
   lock has none yet. *)
GuardsAlive == \A p \in held : pc[p] \notin {"dead", "body"}

Owned == \A p \in Procs : pc[p] = "body" \/ p \in held => lock.by = p

(* From its read to its removal a clear knows the lock: it is the one that was
   read or gone, and after the check of the pid its owner is dead. *)
ClearKnows ==
    \A c \in Procs :
        /\ pc[c] = "check" => seen[c] # None /\ lock.by \in {None, seen[c]}
        /\ pc[c] = "remove" => lock.by = None \/ pc[lock.by] = "dead"

LockInv == LockTypes /\ GuardsAlive /\ (~raced => Owned /\ ClearKnows)

LEMMA LockTypesKept ==
    ASSUME LockTypes, [Next]_vars
    PROVE  LockTypes'
<1> USE ReviewAssumption DEF LockTypes, Goto, States, Reviewing, Clearing, Bumping, NoLock
<1>1. ASSUME NEW p \in Procs, Create(p) PROVE LockTypes'
  BY <1>1 DEF Create
<1>2. ASSUME NEW p \in Procs, WriteBody(p) PROVE LockTypes'
  <2>1. lock' \in [by : Procs \cup {None}, written : BOOLEAN] /\ lock'.by = lock.by
    BY <1>2 DEF WriteBody
  <2>2. lock'.written => lock'.by # None
    BY <1>2 DEF WriteBody
  <2>3. held' \subseteq Procs /\ seen' = seen /\ pc' \in [Procs -> States]
    BY <1>2 DEF WriteBody
  <2> QED
    BY <2>1, <2>2, <2>3
<1>3. ASSUME NEW p \in Procs, BeginReview(p) \/ Compare(p) \/ ClearStart(p)
      PROVE LockTypes'
  BY <1>3 DEF BeginReview, Compare, ClearStart, locks
<1>4. ASSUME NEW p \in Procs, Release(p) \/ ClearRemove(p) PROVE LockTypes'
  <2>1. lock' = NoLock /\ held' \subseteq held /\ seen' = seen
    BY <1>4 DEF Release, ClearRemove
  <2>2. pc' \in [Procs -> States]
    BY <1>4 DEF Release, ClearRemove
  <2> QED
    BY <2>1, <2>2
<1>5. ASSUME NEW p \in Procs, ClearRead(p) PROVE LockTypes'
  BY <1>5 DEF ClearRead
<1>6. ASSUME NEW p \in Procs, ClearCheck(p) PROVE LockTypes'
  BY <1>6 DEF ClearCheck
<1>7. ASSUME NEW p \in Procs,
             Bump(p) \/ Snapshot(p) \/ BumpRead(p) \/ BumpTruncate(p) \/ BumpWrite(p)
      PROVE LockTypes'
  BY <1>7 DEF Bump, Snapshot, BumpRead, BumpTruncate, BumpWrite, locks
<1>8. ASSUME NEW p \in Procs, Exit(p) PROVE LockTypes'
  BY <1>8 DEF Exit
<1>9. CASE UNCHANGED vars
  BY <1>9 DEF vars, locks
<1> QED
  BY <1>1, <1>2, <1>3, <1>4, <1>5, <1>6, <1>7, <1>8, <1>9 DEF Next

LEMMA LockInductive ==
    ASSUME LockInv, [Next]_vars
    PROVE  LockInv'
<1> USE ReviewAssumption DEF LockInv, LockTypes, GuardsAlive, Owned, ClearKnows, Goto,
        Reviewing, Clearing, Bumping, NoLock
<1>0. LockTypes'
  BY LockTypesKept
<1>1. ASSUME NEW p \in Procs, Create(p) PROVE LockInv'
  BY <1>0, <1>1 DEF Create
<1>2. ASSUME NEW p \in Procs, WriteBody(p) PROVE LockInv'
  <2>1. lock'.by = lock.by
    BY <1>2 DEF WriteBody
  <2>2. /\ UNCHANGED <<seen, raced>> /\ held' = held \cup {p}
        /\ pc[p] = "body" /\ pc'[p] = "idle"
        /\ \A q \in Procs : q # p => pc'[q] = pc[q]
    BY <1>2 DEF WriteBody
  <2>3. GuardsAlive'
    BY <1>0, <2>2
  <2>4. ~raced => Owned' /\ ClearKnows'
    BY <1>0, <2>1, <2>2
  <2> QED
    BY <1>0, <2>2, <2>3, <2>4
<1>3. ASSUME NEW p \in Procs, BeginReview(p) \/ Compare(p) \/ ClearStart(p)
      PROVE LockInv'
  BY <1>0, <1>3 DEF BeginReview, Compare, ClearStart, locks
<1>4. ASSUME NEW p \in Procs, Release(p) PROVE LockInv'
  <2>1. raced' = raced /\ held' = held \ {p} /\ lock' = NoLock /\ seen' = seen
    BY <1>4 DEF Release
  <2>2. /\ GuardsAlive'
        /\ \A q \in Procs : pc'[q] \in {"body", "check", "remove", "dead"} => pc'[q] = pc[q]
    BY <1>4, <2>1 DEF Release
  <2>3. ~raced => Owned'
    <3>1. \A q \in Procs : (q \in held \/ pc[q] = "body") /\ ~raced => q = p
      BY <1>4 DEF Release
    <3>2. pc'[p] # "body" /\ p \notin held'
      BY <1>4, <2>1 DEF Release
    <3> QED
      BY <2>1, <2>2, <3>1, <3>2
  <2>4. ~raced => ClearKnows'
    BY <2>1, <2>2
  <2> QED
    BY <1>0, <2>1, <2>2, <2>3, <2>4
<1>5. ASSUME NEW p \in Procs, ClearRead(p) PROVE LockInv'
  BY <1>0, <1>5 DEF ClearRead
<1>6. ASSUME NEW p \in Procs, ClearCheck(p) PROVE LockInv'
  <2>1. /\ UNCHANGED <<lock, held, raced>>
        /\ \A q \in Procs : q # p => pc'[q] = pc[q] /\ seen'[q] = seen[q]
        /\ pc[p] = "check" /\ pc'[p] \in {"idle", "remove"}
        /\ pc'[p] = "remove" => seen[p] = None \/ pc[seen[p]] = "dead"
    BY <1>6 DEF ClearCheck, Alive
  <2>2. GuardsAlive' /\ (~raced => Owned')
    BY <1>0, <2>1
  <2>3. \A q \in Procs : pc[q] = "dead" => pc'[q] = "dead"
    BY <1>0, <2>1
  <2>4. ~raced => ClearKnows'
    BY <1>0, <2>1, <2>3
  <2> QED
    BY <1>0, <2>1, <2>2, <2>4
<1>7. ASSUME NEW p \in Procs, ClearRemove(p) PROVE LockInv'
  BY <1>0, <1>7 DEF ClearRemove
<1>8. ASSUME NEW p \in Procs,
             Bump(p) \/ Snapshot(p) \/ BumpRead(p) \/ BumpTruncate(p) \/ BumpWrite(p)
      PROVE LockInv'
  BY <1>0, <1>8 DEF Bump, Snapshot, BumpRead, BumpTruncate, BumpWrite, locks
<1>9. ASSUME NEW p \in Procs, Exit(p) PROVE LockInv'
  BY <1>0, <1>9 DEF Exit
<1>10. CASE UNCHANGED vars
  BY <1>0, <1>10 DEF vars, locks
<1> QED
  BY <1>1, <1>2, <1>3, <1>4, <1>5, <1>6, <1>7, <1>8, <1>9, <1>10 DEF Next

(* With any number of processes that clear stale locks and end anywhere, the file
   of a process that holds or is acquiring the lock is never removed by another,
   and so no two live processes hold a ReviewGuard, as long as no lock is created
   between the read of a clear and its removal. *)
THEOREM LockExclusive == Spec => [](LiveLockStays /\ (~raced => OneReviewAtATime))
<1>1. Init => LockInv
  BY ReviewAssumption DEF Init, LockInv, LockTypes, GuardsAlive, Owned, ClearKnows,
     NoLock, States
<1>2. LockInv /\ [Next]_vars => LockInv'
  BY LockInductive
<1>3. LockInv => LiveLockStays /\ (~raced => OneReviewAtATime)
  BY DEF LockInv, LockTypes, Owned, LiveLockStays, OneReviewAtATime
<1>4. QED
  BY <1>1, <1>2, <1>3, PTL DEF Spec

-----------------------------------------------------------------------------
(* The epoch. *)
Open == {p \in Procs : pc[p] \in {"bump_read"} \cup Bumping}
Owed == Cardinality(Open) + Cardinality(again)

(* The epoch, and what a bump has read of it, stay below the number of bumps by
   as many as are not written yet. *)
EpochBounded ==
    /\ IsFiniteSet(Open) /\ again \subseteq Open
    /\ epoch + Owed <= bumps
    /\ \A p \in Procs : pc[p] \in Bumping => base[p] + Owed <= bumps

LEMMA StillBelow ==
    ASSUME NEW k \in Nat, NEW m \in Nat, NEW n \in Nat, NEW b \in Nat,
           k + m <= b, n <= m
    PROVE  k + n <= b
OBVIOUS

LEMMA OwedIsNat ==
    ASSUME IsFiniteSet(Open), again \subseteq Open
    PROVE  /\ IsFiniteSet(again) /\ Owed \in Nat
           /\ Cardinality(Open) \in Nat /\ Cardinality(again) \in Nat
<1>1. IsFiniteSet(again)
  BY FS_Subset
<1> QED
  BY <1>1, FS_CardinalityType DEF Owed

(* The steps that are not those of a bump. *)
Quiet(p) ==
    \/ Create(p) \/ WriteBody(p) \/ BeginReview(p) \/ Release(p) \/ Compare(p)
    \/ ClearStart(p) \/ ClearRead(p) \/ ClearCheck(p) \/ ClearRemove(p)

LEMMA QuietTypes ==
    ASSUME TypeOK, NEW p \in Procs, Quiet(p)
    PROVE  TypeOK'
<1> USE ReviewAssumption DEF TypeOK, Goto, States, Reviewing, Clearing
<1>1. CASE WriteBody(p)
  <2>1. lock' \in [by : Procs \cup {None}, written : BOOLEAN]
    BY <1>1 DEF WriteBody
  <2> QED
    BY <1>1, <2>1 DEF WriteBody, epochs
<1>2. CASE Create(p)
  BY <1>2 DEF Create, epochs
<1>3. CASE BeginReview(p)
  BY <1>3 DEF BeginReview, locks
<1>4. CASE Compare(p)
  BY <1>4 DEF Compare, locks
<1>5. CASE ClearStart(p)
  BY <1>5 DEF ClearStart, locks, epochs
<1>6. CASE ClearRead(p)
  BY <1>6 DEF ClearRead, epochs
<1>7. CASE ClearCheck(p)
  BY <1>7 DEF ClearCheck, epochs
<1>8. CASE ClearRemove(p)
  BY <1>8 DEF ClearRemove, epochs, NoLock
<1>9. CASE Release(p)
  <2>1. lock' = NoLock /\ held' \subseteq Procs /\ UNCHANGED <<seen, raced, epochs>>
    BY <1>9 DEF Release
  <2>2. pc' \in [Procs -> States]
    BY <1>9 DEF Release
  <2> QED
    BY <2>1, <2>2 DEF NoLock, epochs
<1> QED
  BY <1>1, <1>2, <1>3, <1>4, <1>5, <1>6, <1>7, <1>8, <1>9 DEF Quiet

(* No step of another kind starts, ends or moves a bump. *)
LEMMA QuietBumps ==
    ASSUME TypeOK, NEW p \in Procs, Quiet(p)
    PROVE  /\ Open' = Open /\ UNCHANGED <<epoch, bumps, again, disturbed>>
           /\ \A q \in Procs : (pc[q] \in Bumping \/ pc'[q] \in Bumping) =>
                                 pc'[q] = pc[q] /\ base'[q] = base[q]
<1>1. /\ pc[p] \notin {"bump_read"} \cup Bumping
      /\ pc'[p] \notin {"bump_read"} \cup Bumping
      /\ \A q \in Procs : q # p => pc'[q] = pc[q]
  BY DEF TypeOK, Quiet, Create, WriteBody, BeginReview, Release, Compare, ClearStart,
         ClearRead, ClearCheck, ClearRemove, Goto, Bumping
<1>2. /\ UNCHANGED <<epoch, bumps, again, disturbed>>
      /\ \A q \in Procs : q # p => base'[q] = base[q]
  BY DEF TypeOK, Quiet, Create, WriteBody, BeginReview, Release, Compare, ClearStart,
         ClearRead, ClearCheck, ClearRemove, epochs
<1> QED
  BY <1>1, <1>2 DEF Open

(* The state keeps its types: no lost update or crash makes the epoch exceed the
   number of bumps, although each bump writes what it read plus one. *)
THEOREM TypeCorrect == Spec => []TypeOK
<1> USE ReviewAssumption
<1>1. Init => TypeOK /\ EpochBounded
  <2> SUFFICES ASSUME Init PROVE TypeOK /\ EpochBounded
    OBVIOUS
  <2>1. TypeOK
    <3>1. /\ lock \in [by : Procs \cup {None}, written : BOOLEAN]
          /\ seen \in [Procs -> Procs \cup {None}] /\ pc \in [Procs -> States]
      BY DEF Init, NoLock, States
    <3>2. epoch \in 0 .. MaxBumps /\ bumps \in 0 .. MaxBumps /\ base \in [Procs -> 0 .. MaxBumps]
      BY DEF Init
    <3> QED
      BY <3>1, <3>2 DEF Init, TypeOK
  <2>2. Open = {} /\ again = {}
    BY DEF Init, Open, Bumping
  <2> QED
    BY <2>1, <2>2, FS_EmptySet DEF EpochBounded, Init, Owed, Bumping
<1>2. TypeOK /\ EpochBounded /\ [Next]_vars => TypeOK' /\ EpochBounded'
  <2> SUFFICES ASSUME TypeOK, EpochBounded, [Next]_vars
               PROVE  TypeOK' /\ EpochBounded'
    OBVIOUS
  <2>0. /\ IsFiniteSet(again) /\ Owed \in Nat
        /\ Cardinality(Open) \in Nat /\ Cardinality(again) \in Nat
    BY OwedIsNat DEF EpochBounded
  <2>a. ASSUME NEW p \in Procs, Quiet(p) PROVE TypeOK' /\ EpochBounded'
    <3>1. TypeOK'
      BY <2>a, QuietTypes
    <3>2. /\ Open' = Open /\ UNCHANGED <<epoch, bumps, again>>
          /\ \A q \in Procs : pc'[q] \in Bumping => pc'[q] = pc[q] /\ base'[q] = base[q]
      BY <2>a, QuietBumps
    <3> QED
      BY <3>1, <3>2 DEF EpochBounded, Owed
  <2>1. ASSUME NEW p \in Procs, Bump(p) PROVE TypeOK' /\ EpochBounded'
    <3>1. TypeOK'
      BY <2>1 DEF TypeOK, Bump, Goto, States, locks
    <3>2. p \notin Open /\ Open' = Open \cup {p}
      BY <2>1 DEF TypeOK, Bump, Goto, Open, Bumping
    <3>3. IsFiniteSet(Open') /\ Cardinality(Open') = Cardinality(Open) + 1
      BY <3>2, FS_AddElement DEF EpochBounded
    <3>4. again' = again /\ Owed' = Owed + 1
      BY <2>0, <2>1, <3>3 DEF Bump, Owed
    <3> QED
      BY <2>0, <2>1, <3>1, <3>2, <3>3, <3>4 DEF TypeOK, EpochBounded, Bump, Goto, Bumping
  <2>2. ASSUME NEW p \in Procs, Snapshot(p) PROVE TypeOK' /\ EpochBounded'
    <3>1. TypeOK'
      BY <2>2 DEF TypeOK, Snapshot, Goto, States, locks
    <3>2. p \notin Open /\ Open' = Open \cup {p}
      BY <2>2 DEF TypeOK, Snapshot, Goto, Open, Bumping
    <3>3. IsFiniteSet(Open') /\ Cardinality(Open') = Cardinality(Open) + 1
      BY <3>2, FS_AddElement DEF EpochBounded
    <3>4. p \notin again /\ again' = again \cup {p}
      BY <2>2, <3>2 DEF Snapshot, EpochBounded
    <3>5. Cardinality(again') = Cardinality(again) + 1
      BY <2>0, <3>4, FS_AddElement
    <3>6. Owed' = Owed + 2
      BY <2>0, <3>3, <3>5 DEF Owed
    <3>7. again' \subseteq Open'
      BY <3>2, <3>4 DEF EpochBounded
    <3> QED
      BY <2>0, <2>2, <3>1, <3>3, <3>6, <3>7
         DEF TypeOK, EpochBounded, Snapshot, Goto, Bumping
  <2>3. ASSUME NEW p \in Procs, BumpRead(p) PROVE TypeOK' /\ EpochBounded'
    <3>1. TypeOK'
      BY <2>3 DEF TypeOK, BumpRead, Goto, States, Bumping, locks
    <3>2. Open' = Open /\ again' = again /\ Owed' = Owed
      BY <2>3 DEF TypeOK, BumpRead, Goto, Open, Bumping, Owed
    <3> QED
      BY <2>0, <2>3, <3>1, <3>2 DEF TypeOK, EpochBounded, BumpRead, Goto
  <2>4. ASSUME NEW p \in Procs, BumpTruncate(p) PROVE TypeOK' /\ EpochBounded'
    <3>1. TypeOK'
      BY <2>4 DEF TypeOK, BumpTruncate, Goto, States, Bumping, locks
    <3>2. Open' = Open /\ again' = again /\ Owed' = Owed
      BY <2>4 DEF TypeOK, BumpTruncate, Goto, Open, Bumping, Owed
    <3>3. \A q \in Procs : pc'[q] \in Bumping => pc[q] \in Bumping
      BY <2>4 DEF TypeOK, BumpTruncate, Goto, Bumping
    <3> QED
      BY <2>0, <2>4, <3>1, <3>2, <3>3 DEF TypeOK, EpochBounded, BumpTruncate
  <2>5. ASSUME NEW p \in Procs, BumpWrite(p) PROVE TypeOK' /\ EpochBounded'
    <3>1. /\ p \in Open /\ base[p] + Owed <= bumps
          /\ epoch' = base[p] + 1 /\ bumps' = bumps /\ again' = again \ {p}
          /\ \A q \in Procs : pc'[q] \in Bumping => q # p /\ pc[q] \in Bumping
          /\ \A q \in Procs : q # p => base'[q] = base[q]
      BY <2>5 DEF TypeOK, EpochBounded, BumpWrite, Goto, Open, Bumping
    <3>n. /\ bumps \in Nat /\ \A q \in Procs : base[q] \in Nat
          /\ \A q \in Procs : pc[q] \in Bumping => base[q] + Owed <= bumps
      BY DEF TypeOK, EpochBounded
    <3>m. ASSUME Owed' = Owed - 1 PROVE
            /\ (epoch + Owed <= bumps)'
            /\ \A q \in Procs : pc'[q] \in Bumping => base'[q] + Owed' <= bumps'
      BY <2>0, <3>1, <3>n, <3>m
    <3>2. ASSUME p \in again PROVE EpochBounded'
      <4>1. Open' = Open
        BY <2>5, <3>2 DEF TypeOK, BumpWrite, Goto, Open, Bumping
      <4>2. Cardinality(again') = Cardinality(again) - 1
        BY <2>0, <3>1, <3>2, FS_RemoveElement
      <4>3. Owed' = Owed - 1
        BY <2>0, <4>1, <4>2 DEF Owed
      <4>4. IsFiniteSet(Open') /\ again' \subseteq Open'
        BY <3>1, <4>1 DEF EpochBounded
      <4> QED
        BY <3>m, <4>3, <4>4 DEF EpochBounded, Bumping
    <3>3. ASSUME p \notin again PROVE EpochBounded'
      <4>1. Open' = Open \ {p} /\ again' = again
        BY <2>5, <3>1, <3>3 DEF TypeOK, BumpWrite, Goto, Open, Bumping
      <4>2. IsFiniteSet(Open') /\ Cardinality(Open') = Cardinality(Open) - 1
        BY <3>1, <4>1, FS_RemoveElement DEF EpochBounded
      <4>3. Owed' = Owed - 1
        BY <2>0, <4>1, <4>2 DEF Owed
      <4>4. again' \subseteq Open'
        BY <3>3, <4>1 DEF EpochBounded
      <4> QED
        BY <3>m, <4>2, <4>3, <4>4 DEF EpochBounded, Bumping
    <3>4. EpochBounded'
      BY <3>2, <3>3
    <3>5. Owed' \in Nat
      <4>1. IsFiniteSet(Open') /\ IsFiniteSet(again')
        BY <3>4, FS_Subset DEF EpochBounded
      <4> QED
        BY <4>1, FS_CardinalityType DEF Owed
    <3>6. epoch' \in 0 .. MaxBumps
      BY <3>1, <3>4, <3>5 DEF TypeOK, EpochBounded
    <3>7. TypeOK'
      BY <2>5, <3>6 DEF TypeOK, BumpWrite, Goto, States, locks
    <3> QED
      BY <3>4, <3>7
  <2>6. ASSUME NEW p \in Procs, Exit(p) PROVE TypeOK' /\ EpochBounded'
    <3>1. TypeOK'
      BY <2>6 DEF TypeOK, Exit, States
    <3>2. Open' \subseteq Open /\ again' \subseteq again /\ again' \subseteq Open'
      BY <2>6 DEF TypeOK, EpochBounded, Exit, Open, Bumping
    <3>3. /\ IsFiniteSet(Open') /\ Cardinality(Open') <= Cardinality(Open)
          /\ Cardinality(Open') \in Nat
      BY <3>2, FS_Subset, FS_CardinalityType DEF EpochBounded
    <3>4. Cardinality(again') <= Cardinality(again) /\ Cardinality(again') \in Nat
      BY <2>0, <3>2, FS_Subset, FS_CardinalityType
    <3>5. Owed' <= Owed /\ Owed' \in Nat
      BY <2>0, <3>3, <3>4 DEF Owed
    <3>6. /\ UNCHANGED <<epoch, bumps>>
          /\ \A q \in Procs : pc'[q] \in Bumping => pc[q] \in Bumping /\ base'[q] = base[q]
      BY <2>6 DEF TypeOK, Exit, Bumping
    <3>7. /\ epoch \in Nat /\ bumps \in Nat /\ \A q \in Procs : base[q] \in Nat
          /\ epoch + Owed <= bumps
          /\ \A q \in Procs : pc[q] \in Bumping => base[q] + Owed <= bumps
      BY DEF TypeOK, EpochBounded
    <3>8. /\ epoch' + Owed' <= bumps'
          /\ \A q \in Procs : pc'[q] \in Bumping => base'[q] + Owed' <= bumps'
      <4>1. epoch' + Owed' <= bumps'
        <5>1. /\ epoch' = epoch /\ bumps' = bumps
              /\ epoch \in Nat /\ bumps \in Nat /\ epoch + Owed <= bumps
          BY <3>6, <3>7
        <5>2. Owed \in Nat /\ Owed' \in Nat /\ Owed' <= Owed
          BY <2>0, <3>5
        <5>3. epoch + Owed' <= bumps
          BY <5>1, <5>2, StillBelow
        <5> QED
          BY <5>1, <5>3
      <4>2. ASSUME NEW q \in Procs, pc'[q] \in Bumping PROVE base'[q] + Owed' <= bumps'
        <5>1. base'[q] = base[q] /\ base[q] \in Nat /\ base[q] + Owed <= bumps
          BY <4>2, <3>6, <3>7
        <5> QED
          BY <5>1, <2>0, <3>5, <3>6, <3>7
      <4> QED
        BY <4>1, <4>2
    <3> QED
      BY <3>1, <3>2, <3>3, <3>8 DEF EpochBounded, Bumping
  <2>7. CASE UNCHANGED vars
    <3>1. TypeOK' /\ Open' = Open
      BY <2>7 DEF vars, locks, epochs, TypeOK, Open
    <3> QED
      BY <2>7, <3>1 DEF vars, epochs, EpochBounded, Owed
  <2> QED
    BY <2>a, <2>1, <2>2, <2>3, <2>4, <2>5, <2>6, <2>7 DEF Next, Quiet
<1> QED
  BY <1>1, <1>2, PTL DEF Spec

-----------------------------------------------------------------------------
(* As long as bumps neither overlap nor are cut short there is one at most between
   its read and its write, and what the file says, or said before that bump
   truncated it, is no less than what any reviewer has noted, and more than what
   one has noted during whose review a bump completed. *)
Counted(n) ==
    \A q \in Procs : pc[q] \in Reviewing =>
        base[q] <= n /\ (q \in moved => base[q] < n)

OrderlyBumps ==
    /\ \A p, q \in Procs : pc[p] \in Bumping /\ pc[q] \in Bumping => p = q
    /\ \A p \in Procs : /\ pc[p] = "bump_truncate" => base[p] = epoch
                        /\ pc[p] = "bump_write" => epoch = 0 /\ Counted(base[p])
    /\ ~Truncated => Counted(epoch)

NotYetAccepted == \A q \in Procs : pc[q] \in Reviewing => q \notin accepted

NoticeInv == NotYetAccepted /\ (~disturbed => OrderlyBumps /\ accepted \cap moved \subseteq torn)

LEMMA NotYetAcceptedKept ==
    ASSUME TypeOK, NotYetAccepted, [Next]_vars
    PROVE  NotYetAccepted'
<1> USE DEF TypeOK, NotYetAccepted, Goto, Reviewing, Clearing, Bumping
<1>1. ASSUME NEW p \in Procs,
             Create(p) \/ WriteBody(p) \/ BeginReview(p) \/ Release(p) \/ Compare(p)
      PROVE NotYetAccepted'
  BY <1>1 DEF Create, WriteBody, BeginReview, Release, Compare, epochs
<1>2. ASSUME NEW p \in Procs,
             ClearStart(p) \/ ClearRead(p) \/ ClearCheck(p) \/ ClearRemove(p)
      PROVE NotYetAccepted'
  BY <1>2 DEF ClearStart, ClearRead, ClearCheck, ClearRemove, epochs
<1>3. ASSUME NEW p \in Procs,
             \/ Bump(p) \/ Snapshot(p) \/ BumpRead(p) \/ BumpTruncate(p) \/ BumpWrite(p)
             \/ Exit(p)
      PROVE NotYetAccepted'
  BY <1>3 DEF Bump, Snapshot, BumpRead, BumpTruncate, BumpWrite, Exit
<1>4. CASE UNCHANGED vars
  BY <1>4 DEF vars, epochs
<1> QED
  BY <1>1, <1>2, <1>3, <1>4 DEF Next

(* Every bump completed during a review is noticed by it, for any number of
   processes, bumps, reviews and exits, until two bumps overlap or one is cut
   short; only a comparison with a truncated file can miss it. *)
THEOREM BumpIsNoticed == Spec => []BumpNoticed
<1> USE ReviewAssumption
<1>1. Init => NoticeInv
  BY DEF Init, NoticeInv, NotYetAccepted, OrderlyBumps, Counted, Bumping, Reviewing
<1>2. TypeOK /\ NoticeInv /\ [Next]_vars => NoticeInv'
  <2> SUFFICES ASSUME TypeOK, NoticeInv, [Next]_vars PROVE NoticeInv'
    OBVIOUS
  <2>0. NotYetAccepted'
    BY NotYetAcceptedKept DEF NoticeInv
  <2>2. SUFFICES ASSUME ~disturbed'
                 PROVE  OrderlyBumps' /\ (accepted \cap moved \subseteq torn)'
    BY <2>0 DEF NoticeInv
  <2>3. ~disturbed
    BY <2>2 DEF Next, vars, epochs, Create, WriteBody, BeginReview, Release, Compare,
       ClearStart, ClearRead, ClearCheck, ClearRemove, Bump, Snapshot, BumpRead,
       BumpTruncate, BumpWrite, Exit
  <2>4. OrderlyBumps /\ accepted \cap moved \subseteq torn
    BY <2>3 DEF NoticeInv
  <2> USE DEF TypeOK, OrderlyBumps, Counted, Truncated, Goto, Reviewing, Clearing, Bumping
  <2>5. ASSUME NEW p \in Procs,
               \/ Create(p) \/ WriteBody(p) \/ Release(p)
               \/ ClearStart(p) \/ ClearRead(p) \/ ClearCheck(p) \/ ClearRemove(p)
        PROVE  OrderlyBumps' /\ (accepted \cap moved \subseteq torn)'
    <3>1. /\ UNCHANGED <<epoch, base, moved, accepted, torn>>
          /\ \A q \in Procs : /\ pc'[q] \in Reviewing => pc[q] \in Reviewing
                              /\ pc'[q] \in Bumping \/ pc[q] \in Bumping => pc'[q] = pc[q]
      BY <2>5 DEF Create, WriteBody, Release, ClearStart, ClearRead, ClearCheck,
                  ClearRemove, epochs
    <3> QED
      BY <2>4, <3>1
  <2>6. ASSUME NEW p \in Procs, BeginReview(p)
        PROVE  OrderlyBumps' /\ (accepted \cap moved \subseteq torn)'
    <3>1. \A q \in Procs : pc[q] = "bump_write" => 0 <= base[q]
      OBVIOUS
    <3> QED
      BY <2>4, <2>6, <3>1 DEF BeginReview
  <2>7. ASSUME NEW p \in Procs, Compare(p)
        PROVE  OrderlyBumps' /\ (accepted \cap moved \subseteq torn)'
    BY <2>4, <2>7 DEF Compare
  <2>8. ASSUME NEW p \in Procs, Bump(p) \/ Snapshot(p)
        PROVE  OrderlyBumps' /\ (accepted \cap moved \subseteq torn)'
    BY <2>4, <2>8 DEF Bump, Snapshot
  <2>9. ASSUME NEW p \in Procs, BumpRead(p)
        PROVE  OrderlyBumps' /\ (accepted \cap moved \subseteq torn)'
    BY <2>2, <2>4, <2>9 DEF BumpRead
  <2>10. ASSUME NEW p \in Procs, BumpTruncate(p)
        PROVE  OrderlyBumps' /\ (accepted \cap moved \subseteq torn)'
    BY <2>4, <2>10 DEF BumpTruncate
  <2>11. ASSUME NEW p \in Procs, BumpWrite(p)
        PROVE  OrderlyBumps' /\ (accepted \cap moved \subseteq torn)'
    <3>1. /\ pc[p] = "bump_write" /\ pc'[p] \notin Bumping \cup Reviewing
          /\ \A q \in Procs : q # p => pc'[q] = pc[q] /\ base'[q] = base[q]
          /\ epoch' = base[p] + 1
      BY <2>11 DEF BumpWrite
    <3>2. \A q \in Procs : pc'[q] \notin Bumping
      BY <2>4, <3>1
    <3>3. \A q \in Procs : pc'[q] \in Reviewing => base'[q] < epoch'
      BY <2>4, <3>1
    <3>4. \A q \in Procs : pc'[q] \in Reviewing => base'[q] <= epoch'
      BY <3>1, <3>3
    <3>5. OrderlyBumps'
      BY <3>2, <3>3, <3>4
    <3>6. \A q \in accepted : q \in Procs /\ pc[q] \notin Reviewing
      BY DEF NoticeInv, NotYetAccepted
    <3>7. (accepted \cap moved \subseteq torn)'
      BY <2>4, <2>11, <3>6 DEF BumpWrite
    <3> QED
      BY <3>5, <3>7
  <2>12. ASSUME NEW p \in Procs, Exit(p)
        PROVE  OrderlyBumps' /\ (accepted \cap moved \subseteq torn)'
    BY <2>2, <2>4, <2>12 DEF Exit
  <2>13. CASE UNCHANGED vars
    BY <2>4, <2>13 DEF vars, epochs
  <2> QED
    BY <2>5, <2>6, <2>7, <2>8, <2>9, <2>10, <2>11, <2>12, <2>13 DEF Next
<1>3. NoticeInv => BumpNoticed
  BY DEF NoticeInv, BumpNoticed
<1> QED
  BY <1>1, <1>2, <1>3, TypeCorrect, PTL DEF Spec
=============================================================================
