---------------------------- MODULE ReviewCoord ----------------------------
(***************************************************************************)
(* Coordination of reviews between processes through two files of the      *)
(* state directory (core/src/review_coord.rs, used by exec and tui): the   *)
(* lock file review.lock, which records the pid of its holder, and the     *)
(* counter snapshot.epoch, which is bumped after every git mutation and    *)
(* tells a reviewer that the snapshot it reviewed is out of date.          *)
(*                                                                         *)
(* Every action is one system call on a file, because any other process    *)
(* can run between two of them.  A process can end anywhere, with or       *)
(* without its guard dropped; pids are not reused, and pid_alive is the    *)
(* one of Unix.  The threads of a TUI that review, bump or clear at the    *)
(* same time are processes here.                                           *)
(***************************************************************************)
EXTENDS Naturals, FiniteSets

CONSTANTS Procs,     \* processes: TUI instances, exec runs
          MaxBumps,  \* bound on bumps of the epoch
          MaxExits,  \* bound on processes that end
          None

ASSUME ReviewAssumption ==
    /\ None \notin Procs
    /\ MaxBumps \in Nat /\ MaxExits \in Nat

VARIABLES lock,      \* review.lock: its creator and whether its body is written
          held,      \* processes with a ReviewGuard
          epoch,     \* snapshot.epoch; 0 also while the file is missing or empty
          pc,
          seen,      \* local: the pid that a clear has read
          base,      \* local: the epoch that a review or a bump has read
          bumps,     \* bumps asked for so far
          again,     \* processes whose snapshot has its second bump to come
          \* history, for the properties only
          raced,     \* has a lock been created in the middle of a clear?
          disturbed, \* did two bumps overlap, or one end on a truncated file?
          moved,     \* processes during whose last review a bump completed
          accepted,  \* processes that found the epoch unchanged after it
          torn       \* processes that compared with a truncated file

locks  == <<lock, held, seen, raced>>
epochs == <<epoch, base, bumps, again, disturbed, moved, accepted, torn>>
vars   == <<pc, locks, epochs>>

Bumping   == {"bump_truncate", "bump_write"}   \* between its read and its write
Clearing  == {"check", "remove"}               \* between its read and its removal
Reviewing == {"review", "compare"}
States    == {"idle", "body", "clear", "bump_read", "dead"}
             \cup Reviewing \cup Clearing \cup Bumping

NoLock == [by |-> None, written |-> FALSE]
Alive(p) == p # None /\ pc[p] # "dead"
Truncated == \E q \in Procs : pc[q] = "bump_write"

TypeOK ==
    /\ lock \in [by : Procs \cup {None}, written : BOOLEAN]
    /\ held \subseteq Procs
    /\ epoch \in 0 .. MaxBumps
    /\ pc \in [Procs -> States]
    /\ seen \in [Procs -> Procs \cup {None}]
    /\ base \in [Procs -> 0 .. MaxBumps]
    /\ bumps \in 0 .. MaxBumps
    /\ again \subseteq Procs
    /\ raced \in BOOLEAN /\ disturbed \in BOOLEAN
    /\ moved \subseteq Procs /\ accepted \subseteq Procs /\ torn \subseteq Procs

Init ==
    /\ lock = NoLock /\ held = {}
    /\ epoch = 0
    /\ pc = [p \in Procs |-> "idle"]
    /\ seen = [p \in Procs |-> None]
    /\ base = [p \in Procs |-> 0]
    /\ bumps = 0 /\ again = {}
    /\ raced = FALSE /\ disturbed = FALSE
    /\ moved = {} /\ accepted = {} /\ torn = {}

Goto(p, from, to) == pc[p] = from /\ pc' = [pc EXCEPT ![p] = to]

-----------------------------------------------------------------------------
(* try_acquire_lock: the file is opened with create_new; if it exists the
   review is skipped. *)
Create(p) ==
    /\ lock = NoLock /\ p \notin held
    /\ Goto(p, "idle", "body")
    /\ lock' = [by |-> p, written |-> FALSE]
    /\ raced' = (raced \/ \E c \in Procs : pc[c] \in Clearing)
    /\ UNCHANGED <<held, seen, epochs>>

(* try_acquire_lock: the body with the pid goes to the file that was created,
   which is out of reach if somebody removed it meanwhile. *)
WriteBody(p) ==
    /\ Goto(p, "body", "idle")
    /\ lock' = IF lock.by = p THEN [lock EXCEPT !.written = TRUE] ELSE lock
    /\ held' = held \cup {p}
    /\ UNCHANGED <<seen, raced, epochs>>

(* The reviewer notes the epoch of its snapshot (last_review_epoch). *)
BeginReview(p) ==
    /\ p \in held
    /\ Goto(p, "idle", "review")
    /\ base' = [base EXCEPT ![p] = epoch]
    /\ moved' = moved \ {p} /\ accepted' = accepted \ {p} /\ torn' = torn \ {p}
    /\ UNCHANGED <<locks, epoch, bumps, again, disturbed>>

(* Mutation of Release: the epoch is noted when the review ends. *)
Release_NotesEpoch(p) ==
    /\ p \in held
    /\ Goto(p, "idle", "idle") \/ Goto(p, "review", "compare")
    /\ lock' = NoLock
    /\ held' = held \ {p}
    /\ base' = [base EXCEPT ![p] = epoch]
    /\ UNCHANGED <<seen, raced, epoch, bumps, again, disturbed, moved, accepted, torn>>

(* Dropping the guard, when the review ends or when there is none, removes the
   file at its path. *)
Release(p) ==
    /\ p \in held
    /\ Goto(p, "idle", "idle") \/ Goto(p, "review", "compare")
    /\ lock' = NoLock
    /\ held' = held \ {p}
    /\ UNCHANGED <<seen, raced, epochs>>

(* "detect stale snapshot epoch": the result is used only if the epoch is the
   one noted. *)
Compare(p) ==
    /\ Goto(p, "compare", "idle")
    /\ accepted' = IF epoch = base[p] THEN accepted \cup {p} ELSE accepted
    /\ torn' = IF Truncated THEN torn \cup {p} ELSE torn
    /\ base' = [base EXCEPT ![p] = 0]
    /\ UNCHANGED <<locks, epoch, bumps, again, disturbed, moved>>

-----------------------------------------------------------------------------
(* clear_stale_lock_if_dead, which every exec run and every TUI calls. *)
ClearStart(p) ==
    /\ Goto(p, "idle", "clear")
    /\ UNCHANGED <<locks, epochs>>

(* read_lock_info: a missing file or an empty body ends the call. *)
ClearRead(p) ==
    /\ Goto(p, "clear", IF lock.written THEN "check" ELSE "idle")
    /\ seen' = IF lock.written THEN [seen EXCEPT ![p] = lock.by] ELSE seen
    /\ UNCHANGED <<lock, held, raced, epochs>>

(* Mutation of ClearCheck: the pid is not checked. *)
ClearCheck_AnyPid(p) ==
    /\ Goto(p, "check", "remove")
    /\ seen' = [seen EXCEPT ![p] = None]
    /\ UNCHANGED <<lock, held, raced, epochs>>

(* pid_alive of the pid that was read. *)
ClearCheck(p) ==
    /\ Goto(p, "check", IF Alive(seen[p]) THEN "idle" ELSE "remove")
    /\ seen' = [seen EXCEPT ![p] = None]
    /\ UNCHANGED <<lock, held, raced, epochs>>

(* The file at the path is removed, whoever created it. *)
ClearRemove(p) ==
    /\ Goto(p, "remove", "idle")
    /\ lock' = NoLock
    /\ UNCHANGED <<held, seen, raced, epochs>>

-----------------------------------------------------------------------------
(* bump_snapshot_epoch_for, called after a git command that changed something. *)
Bump(p) ==
    /\ bumps < MaxBumps
    /\ Goto(p, "idle", "bump_read")
    /\ bumps' = bumps + 1
    /\ UNCHANGED <<locks, epoch, base, again, disturbed, moved, accepted, torn>>

(* A ghost commit bumps twice: in its post_commit_hook and when it is done. *)
Snapshot(p) ==
    /\ bumps + 1 < MaxBumps
    /\ Goto(p, "idle", "bump_read")
    /\ bumps' = bumps + 2
    /\ again' = again \cup {p}
    /\ UNCHANGED <<locks, epoch, base, disturbed, moved, accepted, torn>>

BumpRead(p) ==
    /\ Goto(p, "bump_read", "bump_truncate")
    /\ base' = [base EXCEPT ![p] = epoch]
    /\ disturbed' = (disturbed \/ \E q \in Procs : pc[q] \in Bumping)
    /\ UNCHANGED <<locks, epoch, bumps, again, moved, accepted, torn>>

(* fs::write truncates the file, then writes it. *)
BumpTruncate(p) ==
    /\ Goto(p, "bump_truncate", "bump_write")
    /\ epoch' = 0
    /\ UNCHANGED <<locks, base, bumps, again, disturbed, moved, accepted, torn>>

(* Mutation of BumpWrite: the counter is incremented twice. *)
BumpWrite_Twice(p) ==
    /\ Goto(p, "bump_write", IF p \in again THEN "bump_read" ELSE "idle")
    /\ again' = again \ {p}
    /\ epoch' = base[p] + 2
    /\ base' = [base EXCEPT ![p] = 0]
    /\ moved' = moved \cup {q \in Procs : pc[q] \in Reviewing}
    /\ UNCHANGED <<locks, bumps, disturbed, accepted, torn>>

BumpWrite(p) ==
    /\ Goto(p, "bump_write", IF p \in again THEN "bump_read" ELSE "idle")
    /\ again' = again \ {p}
    /\ epoch' = base[p] + 1
    /\ base' = [base EXCEPT ![p] = 0]
    /\ moved' = moved \cup {q \in Procs : pc[q] \in Reviewing}
    /\ UNCHANGED <<locks, bumps, disturbed, accepted, torn>>

-----------------------------------------------------------------------------
(* A process ends: it is killed, and no guard is dropped, or it has nothing to
   do any more. *)
Exit(p) ==
    /\ Cardinality({q \in Procs : pc[q] = "dead"}) < MaxExits
    /\ pc[p] # "dead"
    /\ pc' = [pc EXCEPT ![p] = "dead"]
    /\ held' = held \ {p}
    /\ again' = again \ {p}
    /\ disturbed' = (disturbed \/ pc[p] = "bump_write")
    /\ seen' = [seen EXCEPT ![p] = None] /\ base' = [base EXCEPT ![p] = 0]
    /\ UNCHANGED <<lock, raced, epoch, bumps, moved, accepted, torn>>

Next ==
    \E p \in Procs :
        \/ Create(p) \/ WriteBody(p) \/ BeginReview(p) \/ Release(p) \/ Compare(p)
        \/ ClearStart(p) \/ ClearRead(p) \/ ClearCheck(p) \/ ClearRemove(p)
        \/ Bump(p) \/ Snapshot(p) \/ BumpRead(p) \/ BumpTruncate(p) \/ BumpWrite(p)
        \/ Exit(p)

Spec == Init /\ [][Next]_vars

-----------------------------------------------------------------------------
(* "TUI should be blocked while exec holds lock": at most one live process holds
   a ReviewGuard, although processes end with the lock and others remove what
   they left. *)
OneReviewAtATime == \A p, q \in held : p = q

(* The file of a process that is still writing it or holds its guard stays, with
   any number of processes that clear stale locks: none takes an empty or a live
   lock for a stale one, and removing one stale lock twice does no harm.  So it is
   until a lock is created between a clear's read and its removal. *)
LiveLockStays ==
    ~raced => \A p \in Procs : pc[p] = "body" \/ p \in held => lock.by = p

(* "A follow-up caller comparing epochs would notice the mismatch": every bump
   completed while a review runs makes it be rejected, unless the comparison
   itself meets the file truncated.  So it is until two bumps overlap or one is
   cut short after its truncation, which may lose an update. *)
BumpNoticed == ~disturbed => accepted \cap moved \subseteq torn
=============================================================================
