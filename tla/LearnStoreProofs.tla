-------------------------- MODULE LearnStoreProofs --------------------------
(***************************************************************************)
(* Theorems of LearnStore, for any menu of commands and kills anywhere.    *)
(* Four inductive invariants, each resting on the ones before it:          *)
(*                                                                         *)
(*   IInv    lengths only.  A process that holds the write lock has read   *)
(*           the ledger after every commit so far, so what it has read is  *)
(*           at least as long as what the database has applied; and a      *)
(*           command reads again after its own append.                     *)
(*   TabInv  what the tables hold: every fold in progress is accounted for *)
(*           by the events it has read, each number once.                  *)
(*   FoldInv what they were folded from, when no command moves a dial.     *)
(*   NowInv  and LogInv: commands one at a time, where what the one        *)
(*           process has read is still so.                                 *)
(***************************************************************************)
EXTENDS LearnStore, LearnLogProofs

Fields == {"pc", "op", "body", "targets", "seq", "mine", "snap", "work", "page", "text"}

Publishing == {"render1", "empty1", "write1", "render2", "empty2", "write2"}

IsSequence(s) == Len(s) \in Nat /\ \E S : s \in Seq(S)

Shape ==
    /\ IsSequence(ledger)
    /\ db.applied \in Nat
    /\ DOMAIN proc = Procs
    /\ \A p \in Procs : DOMAIN proc[p] = Fields /\ proc[p].pc \in Pcs

\* Whoever folds holds the lock, and nobody else does.
LockInv == \A p \in Procs : Folding(p) <=> lock = p

\* A reader under the lock is never behind the database.
ReadInv ==
    \A p \in Procs : Folding(p) =>
        /\ proc[p].work.applied \in Nat /\ Len(proc[p].snap) \in Nat
        /\ proc[p].work.applied <= Len(proc[p].snap)
        /\ db.applied <= Len(proc[p].snap)
        /\ Len(proc[p].snap) <= Len(ledger)

\* How far a command's own events have got.
MineInv ==
    \A p \in Procs : \A n \in proc[p].mine :
        /\ n \in Nat
        /\ n <= Len(ledger)
        /\ At(p, "refold") => n <= Len(proc[p].snap)
        /\ proc[p].pc \in Publishing => n <= db.applied

AckedInv == acked \subseteq Nat /\ AckedIsCommitted

DbBehind == db.applied <= Len(ledger)

IInv == Shape /\ LockInv /\ ReadInv /\ MineInv /\ AckedInv /\ DbBehind

-----------------------------------------------------------------------------

LEMMA AppendLonger ==
    ASSUME NEW s, IsSequence(s), NEW e
    PROVE  IsSequence(Append(s, e)) /\ Len(Append(s, e)) = Len(s) + 1
<1>1. PICK S : s \in Seq(S)
  BY DEF IsSequence
<1>2. s \in Seq(S \cup {e})
  BY <1>1
<1>3. Append(s, e) \in Seq(S \cup {e}) /\ Len(Append(s, e)) = Len(s) + 1
  BY <1>2
<1>. QED
  BY <1>3 DEF IsSequence

LEMMA InitIInv == Init => IInv
<1>. SUFFICES ASSUME Init PROVE IInv
  OBVIOUS
<1>1. IsSequence(<< >>)
  <2>1. << >> \in Seq({}) /\ Len(<< >>) = 0
    OBVIOUS
  <2>. QED
    BY <2>1 DEF IsSequence
<1>2. \A p \in Procs : proc[p] = Idle /\ proc[p].pc = "idle" /\ proc[p].mine = {}
  BY DEF Init, Idle
<1>3. DOMAIN Idle = Fields
  BY DEF Idle, Fields
<1>4. Shape
  BY <1>1, <1>2, <1>3 DEF Init, Shape, EmptyProjection, Pcs
<1>5. LockInv
  BY <1>2, StoreAssumption DEF Init, LockInv, Folding
<1>. QED
  BY <1>2, <1>4, <1>5 DEF Init, IInv, ReadInv, MineInv, AckedInv, AckedIsCommitted,
                          DbBehind, EmptyProjection, Folding, At, Publishing

-----------------------------------------------------------------------------
(* Steps that change process p and at most the lock.                       *)

\* What the invariant asks of the local state r of a process.
Local(r) ==
    /\ DOMAIN r = Fields /\ r.pc \in Pcs
    /\ r.pc \in {"fold", "refold"} =>
          /\ r.work.applied \in Nat /\ Len(r.snap) \in Nat
          /\ r.work.applied <= Len(r.snap)
          /\ db.applied <= Len(r.snap)
          /\ Len(r.snap) <= Len(ledger)
    /\ \A n \in r.mine :
          /\ n \in Nat
          /\ n <= Len(ledger)
          /\ r.pc = "refold" => n <= Len(r.snap)
          /\ r.pc \in Publishing => n <= db.applied

OnlyProc(p) == DOMAIN proc' = Procs /\ \A q \in Procs \ {p} : proc'[q] = proc[q]

LEMMA LocalInv == ASSUME IInv, NEW p \in Procs PROVE Local(proc[p])
BY DEF IInv, Shape, ReadInv, MineInv, Local, Folding, At

LEMMA LocalStep ==
    ASSUME IInv, NEW p \in Procs, OnlyProc(p), Local(proc'[p]),
           UNCHANGED <<ledger, db, acked>>,
           proc'[p].pc \in {"fold", "refold"} <=> lock' = p,
           \A q \in Procs \ {p} : lock' = q <=> lock = q
    PROVE  IInv'
<1>1. Shape'
  BY DEF IInv, Shape, OnlyProc, Local
<1>2. LockInv'
  BY DEF IInv, LockInv, Folding, OnlyProc
<1>3. ReadInv'
  BY DEF IInv, ReadInv, Folding, OnlyProc, Local
<1>4. MineInv'
  BY DEF IInv, MineInv, At, OnlyProc, Local
<1>. QED
  BY <1>1, <1>2, <1>3, <1>4 DEF IInv, AckedInv, AckedIsCommitted, DbBehind

LEMMA LocalIdle == Local(Idle) /\ Idle.pc = "idle" /\ Idle.mine = {}
BY DEF Local, Idle, Fields, Pcs, Publishing

LEMMA LeaveStep ==
    ASSUME IInv, NEW p \in Procs, Leave(p)
    PROVE  OnlyProc(p) /\ proc'[p] = Idle
BY DEF IInv, Shape, Leave, OnlyProc

\* A step of p between two places that need nothing of what is being read.
Plain == Pcs \ ({"fold", "refold"} \cup Publishing)

LEMMA PlainStep ==
    ASSUME IInv, NEW p \in Procs, OnlyProc(p),
           proc[p].pc \in Plain, proc'[p].pc \in Plain,
           DOMAIN proc'[p] = Fields, proc'[p].mine = proc[p].mine,
           UNCHANGED <<ledger, db, lock, acked>>
    PROVE  IInv'
<1>1. lock # p
  BY DEF IInv, LockInv, Folding, Plain
<1>2. Local(proc'[p])
  BY LocalInv DEF Local, Plain
<1>. QED
  BY <1>1, <1>2, LocalStep DEF Plain

LEMMA StartStep ==
    ASSUME IInv, NEW p \in Procs, Start(p)
    PROVE  IInv'
<1>1. PICK c \in Commands :
          proc' = [proc EXCEPT ![p].pc = FirstStep(c.op), ![p].op = c.op, ![p].body = c.body]
  BY DEF Start
<1>2. FirstStep(c.op) \in Plain
  BY DEF FirstStep, Plain, Pcs, Publishing
<1>3. /\ OnlyProc(p) /\ proc'[p].pc \in Plain /\ DOMAIN proc'[p] = Fields
      /\ proc'[p].mine = proc[p].mine
  BY <1>1, <1>2 DEF IInv, Shape, OnlyProc, Fields
<1>. QED
  BY <1>3, PlainStep DEF Start, At, Plain, Pcs, Publishing, files

\* The process ends, and the lock with it if it held it.
LEMMA EndStep ==
    ASSUME IInv, NEW p \in Procs, Leave(p),
           lock' = (IF lock = p THEN None ELSE lock),
           UNCHANGED <<ledger, db, acked>>
    PROVE  IInv'
<1>1. OnlyProc(p) /\ proc'[p] = Idle
  BY LeaveStep
<1>2. lock' # p /\ \A q \in Procs \ {p} : lock' = q <=> lock = q
  BY StoreAssumption
<1>. QED
  BY <1>1, <1>2, LocalIdle, LocalStep

LEMMA NotHolding ==
    ASSUME IInv, NEW p \in Procs, ~Folding(p)
    PROVE  lock # p
BY DEF IInv, LockInv

LEMMA CrashStep ==
    ASSUME IInv, NEW p \in Procs, Crash(p)
    PROVE  IInv'
BY EndStep DEF Crash, files

LEMMA TimeoutStep ==
    ASSUME IInv, NEW p \in Procs, BusyTimeout(p)
    PROVE  IInv'
BY EndStep DEF BusyTimeout, files

LEMMA FoldFailsStep ==
    ASSUME IInv, NEW p \in Procs, FoldFails(p)
    PROVE  IInv'
BY EndStep DEF FoldFails, files, IInv, LockInv

-----------------------------------------------------------------------------
(* The transaction.                                                        *)

LEMMA BeginStep ==
    ASSUME IInv, NEW p \in Procs, BeginSync(p)
    PROVE  IInv'
<1>1. /\ OnlyProc(p) /\ DOMAIN proc'[p] = Fields
      /\ proc'[p].pc \in {"fold", "refold"}
      /\ proc'[p].snap = ledger /\ proc'[p].work = EmptyProjection
      /\ proc'[p].mine = proc[p].mine
  BY DEF BeginSync, IInv, Shape, OnlyProc, Fields
<1>2. UNCHANGED <<ledger, db, acked>> /\ lock = None /\ lock' = p
  BY DEF BeginSync, files
<1>3. /\ Len(ledger) \in Nat /\ 0 <= Len(ledger)
      /\ db.applied \in Nat
  BY DEF IInv, Shape, IsSequence
<1>4. db.applied <= Len(ledger)
  BY DEF IInv, DbBehind
<1>5. EmptyProjection.applied = 0
  BY DEF EmptyProjection
<1>6. Local(proc'[p])
  BY <1>1, <1>3, <1>4, <1>5, LocalInv DEF Local, Pcs, Publishing
<1>7. \A q \in Procs \ {p} : lock' = q <=> lock = q
  BY <1>2, StoreAssumption
<1>. QED
  BY <1>1, <1>2, <1>6, <1>7, LocalStep

LEMMA FoldOneStep ==
    ASSUME IInv, NEW p \in Procs, FoldOne(p)
    PROVE  IInv'
<1>. DEFINE more == Apply(proc[p].work, proc[p].snap[FoldNext(p)], config)
<1>1. more.applied = proc[p].work.applied + 1
  BY ApplyCounts
<1>. HIDE DEF more
<1>2. proc' = [proc EXCEPT ![p].work = more] /\ HasNext(p) /\ Folding(p)
  BY DEF FoldOne, more
<1>3. /\ OnlyProc(p) /\ DOMAIN proc'[p] = Fields
      /\ proc'[p].pc = proc[p].pc /\ proc'[p].snap = proc[p].snap
      /\ proc'[p].mine = proc[p].mine /\ proc'[p].work = more
  BY <1>2 DEF IInv, Shape, OnlyProc, Fields
<1>4. Local(proc'[p])
  BY <1>1, <1>2, <1>3, LocalInv DEF Local, HasNext, FoldNext, Folding
<1>5. lock = p /\ UNCHANGED <<ledger, db, acked, lock>>
  BY <1>2 DEF IInv, LockInv, FoldOne, files
<1>. QED
  BY <1>2, <1>3, <1>4, <1>5, LocalStep DEF Folding

\* The commit publishes everything the process has read: at least what the
\* database had, and the process's own events.
LEMMA CommitStep ==
    ASSUME IInv, NEW p \in Procs, Commit(p)
    PROVE  IInv' /\ db.applied <= db'.applied
<1>1. /\ lock = p /\ lock' = None /\ db' = proc[p].work
      /\ Folding(p) /\ ~HasNext(p)
      /\ UNCHANGED <<ledger, acked>>
  BY DEF Commit, IInv, LockInv
<1>2. /\ db'.applied \in Nat /\ db'.applied = Len(proc[p].snap)
      /\ db.applied <= db'.applied
      /\ db'.applied <= Len(ledger)
  BY <1>1 DEF IInv, Shape, IsSequence, ReadInv, HasNext, FoldNext
<1>. DEFINE to == IF At(p, "refold") THEN "render1" ELSE AfterSync(proc[p].op)
<1>3. to \in {"render1", "allocate", "select", "idle"} /\ (to = "render1" <=> At(p, "refold"))
  BY DEF AfterSync
<1>4. /\ OnlyProc(p) /\ DOMAIN proc'[p] = Fields
      /\ proc'[p].pc = to
      /\ proc'[p].mine = proc[p].mine \/ proc'[p].mine = {}
  <2>1. CASE to = "idle"
    BY <2>1, LeaveStep, LocalIdle DEF Commit, Local
  <2>2. CASE to # "idle"
    <3>. HIDE DEF to
    <3>1. proc' = [proc EXCEPT ![p].pc = to, ![p].snap = << >>, ![p].work = EmptyProjection]
      BY <2>2 DEF Commit, to
    <3>. QED
      BY <3>1 DEF IInv, Shape, OnlyProc, Fields
  <2>. QED
    BY <2>1, <2>2
<1>. HIDE DEF to
<1>5. Shape'
  BY <1>1, <1>2, <1>3, <1>4 DEF IInv, Shape, OnlyProc, Pcs
<1>6. LockInv'
  BY <1>1, <1>3, <1>4, StoreAssumption DEF IInv, LockInv, Folding, OnlyProc
<1>7. ReadInv'
  BY <1>1, <1>3, <1>4 DEF IInv, LockInv, ReadInv, Folding, OnlyProc
<1>8. MineInv'
  <2>. SUFFICES ASSUME NEW q \in Procs, NEW n \in proc'[q].mine
                PROVE  /\ n \in Nat /\ n <= Len(ledger)
                       /\ proc'[q].pc = "refold" => n <= Len(proc'[q].snap)
                       /\ proc'[q].pc \in Publishing => n <= db'.applied
    BY <1>1 DEF MineInv, At
  <2>1. CASE q = p
    BY <1>1, <1>2, <1>3, <1>4, <2>1 DEF IInv, MineInv, At, Publishing
  <2>2. CASE q # p
    BY <1>2, <1>4, <2>2 DEF IInv, Shape, MineInv, At, OnlyProc
  <2>. QED
    BY <2>1, <2>2
<1>9. AckedInv' /\ DbBehind'
  <2>1. \A n \in acked : n \in Nat /\ n <= db.applied
    BY DEF IInv, AckedInv, AckedIsCommitted
  <2>2. acked' = acked /\ ledger' = ledger /\ db.applied \in Nat /\ Len(ledger) \in Nat
    BY <1>1 DEF IInv, Shape, IsSequence
  <2>3. \A n \in acked' : n \in Nat /\ n <= db'.applied
    BY <1>2, <2>1, <2>2
  <2>. QED
    BY <1>2, <2>2, <2>3 DEF AckedInv, AckedIsCommitted, DbBehind
<1>. QED
  BY <1>2, <1>5, <1>6, <1>7, <1>8, <1>9 DEF IInv

-----------------------------------------------------------------------------
(* The command's own reads and writes.                                     *)

LEMMA AllocateStep ==
    ASSUME IInv, NEW p \in Procs, Allocate(p)
    PROVE  IInv'
<1>1. /\ OnlyProc(p) /\ proc'[p].pc = "guard" /\ DOMAIN proc'[p] = Fields
      /\ proc'[p].mine = proc[p].mine
  BY DEF Allocate, IInv, Shape, OnlyProc, Fields
<1>. QED
  BY <1>1, PlainStep DEF Allocate, At, Plain, Pcs, Publishing, files

LEMMA SelectStep ==
    ASSUME IInv, NEW p \in Procs, Select(p)
    PROVE  IInv'
<1>1. /\ OnlyProc(p) /\ proc'[p].pc \in {"guard", "rebegin"} /\ DOMAIN proc'[p] = Fields
      /\ proc'[p].mine = proc[p].mine
  BY DEF Select, IInv, Shape, OnlyProc, Fields
<1>. QED
  BY <1>1, PlainStep DEF Select, At, Plain, Pcs, Publishing, files

LEMMA GuardStep ==
    ASSUME IInv, NEW p \in Procs, GuardRefuses(p)
    PROVE  IInv'
<1>1. CASE proc[p].op = "verify"
  <2>1. /\ OnlyProc(p) /\ proc'[p].pc \in {"guard", "rebegin"} /\ DOMAIN proc'[p] = Fields
        /\ proc'[p].mine = proc[p].mine
    BY <1>1 DEF GuardRefuses, IInv, Shape, OnlyProc, Fields
  <2>. QED
    BY <2>1, PlainStep DEF GuardRefuses, At, Plain, Pcs, Publishing, files
<1>2. CASE proc[p].op # "verify"
  <2>1. ~Folding(p)
    BY DEF GuardRefuses, At, Folding
  <2>. QED
    BY <1>2, <2>1, NotHolding, EndStep DEF GuardRefuses, files
<1>. QED
  BY <1>1, <1>2

LEMMA CountStep ==
    ASSUME IInv, NEW p \in Procs, CountLedger(p)
    PROVE  IInv'
<1>1. /\ OnlyProc(p) /\ proc'[p].pc = "write" /\ DOMAIN proc'[p] = Fields
      /\ proc'[p].mine = proc[p].mine
  BY DEF CountLedger, IInv, Shape, OnlyProc, Fields
<1>. QED
  BY <1>1, PlainStep DEF CountLedger, At, Plain, Pcs, Publishing, files

\* A longer ledger disturbs nothing that was read from a shorter one.
LEMMA LongerLedger ==
    ASSUME IInv, IsSequence(ledger'), Len(ledger') = Len(ledger) + 1,
           UNCHANGED <<db, lock, acked, proc>>
    PROVE  IInv'
<1>1. Len(ledger) \in Nat
  BY DEF IInv, Shape, IsSequence
<1>2. Shape' /\ LockInv' /\ AckedInv'
  BY DEF IInv, Shape, LockInv, Folding, AckedInv, AckedIsCommitted
<1>3. ReadInv'
  BY <1>1 DEF IInv, ReadInv, Folding
<1>4. MineInv'
  BY <1>1 DEF IInv, MineInv, At
<1>5. DbBehind'
  BY <1>1 DEF IInv, Shape, DbBehind
<1>. QED
  BY <1>2, <1>3, <1>4, <1>5 DEF IInv

LEMMA PullStep ==
    ASSUME IInv, Pull
    PROVE  IInv'
<1>1. PICK e : ledger' = Append(ledger, e)
  BY DEF Pull
<1>. QED
  BY <1>1, AppendLonger, LongerLedger DEF Pull, IInv, Shape

LEMMA AppendStep ==
    ASSUME IInv, NEW p \in Procs, AppendLine(p)
    PROVE  IInv'
<1>1. PICK e : ledger' = Append(ledger, e)
  BY DEF AppendLine
<1>2. IsSequence(ledger') /\ Len(ledger') = Len(ledger) + 1 /\ Len(ledger) \in Nat
  BY <1>1, AppendLonger DEF IInv, Shape, IsSequence
<1>3. /\ OnlyProc(p) /\ proc'[p].pc \in {"guard", "rebegin"} /\ DOMAIN proc'[p] = Fields
      /\ proc'[p].mine = proc[p].mine \cup {Len(ledger) + 1}
  BY DEF AppendLine, IInv, Shape, OnlyProc, Fields
<1>4. UNCHANGED <<db, lock, acked>> /\ lock # p
  BY DEF AppendLine, At, IInv, LockInv, Folding
<1>5. Shape'
  BY <1>2, <1>3, <1>4 DEF IInv, Shape, OnlyProc, Pcs
<1>6. LockInv'
  BY <1>3, <1>4 DEF IInv, LockInv, Folding, OnlyProc
<1>7. ReadInv'
  BY <1>2, <1>3, <1>4 DEF IInv, ReadInv, Folding, OnlyProc
<1>8. MineInv'
  <2>. SUFFICES ASSUME NEW q \in Procs, NEW n \in proc'[q].mine
                PROVE  /\ n \in Nat /\ n <= Len(ledger')
                       /\ proc'[q].pc = "refold" => n <= Len(proc'[q].snap)
                       /\ proc'[q].pc \in Publishing => n <= db'.applied
    BY DEF MineInv, At
  <2>1. CASE q = p
    BY <1>2, <1>3, <2>1 DEF IInv, MineInv, Publishing
  <2>2. CASE q # p
    BY <1>2, <1>3, <1>4, <2>2 DEF IInv, MineInv, At, OnlyProc
  <2>. QED
    BY <2>1, <2>2
<1>9. AckedInv' /\ DbBehind'
  BY <1>2, <1>4 DEF IInv, Shape, AckedInv, AckedIsCommitted, DbBehind
<1>. QED
  BY <1>5, <1>6, <1>7, <1>8, <1>9 DEF IInv

LEMMA SettingsStep ==
    ASSUME IInv, NEW p \in Procs, EditSettings(p) \/ Truncate(p) \/ Rewrite(p)
    PROVE  IInv'
<1>1. CASE EditSettings(p) /\ config = None
  <2>1. ~Folding(p)
    BY <1>1 DEF EditSettings, At, Folding
  <2>. QED
    BY <1>1, <2>1, NotHolding, EndStep DEF EditSettings, files
<1>2. CASE EditSettings(p) /\ config # None
  <2>1. /\ OnlyProc(p) /\ proc'[p].pc = "truncate" /\ DOMAIN proc'[p] = Fields
        /\ proc'[p].mine = proc[p].mine
    BY <1>2 DEF EditSettings, IInv, Shape, OnlyProc, Fields
  <2>. QED
    BY <1>2, <2>1, PlainStep DEF EditSettings, At, Plain, Pcs, Publishing, files
<1>3. CASE Truncate(p)
  <2>1. /\ OnlyProc(p) /\ proc'[p].pc = "rewrite" /\ DOMAIN proc'[p] = Fields
        /\ proc'[p].mine = proc[p].mine
    BY <1>3 DEF Truncate, Goto, IInv, Shape, OnlyProc, Fields
  <2>. QED
    BY <1>3, <2>1, PlainStep DEF Truncate, At, Plain, Pcs, Publishing
<1>4. CASE Rewrite(p)
  <2>1. /\ OnlyProc(p) /\ proc'[p].pc = "guard" /\ DOMAIN proc'[p] = Fields
        /\ proc'[p].mine = proc[p].mine
    BY <1>4 DEF Rewrite, IInv, Shape, OnlyProc, Fields
  <2>. QED
    BY <1>4, <2>1, PlainStep DEF Rewrite, At, Plain, Pcs, Publishing
<1>. QED
  BY <1>1, <1>2, <1>3, <1>4

\* A step from one place of write_views to the next.
LEMMA PublishingStep ==
    ASSUME IInv, NEW p \in Procs, OnlyProc(p),
           proc[p].pc \in Publishing, proc'[p].pc \in Publishing,
           DOMAIN proc'[p] = Fields, proc'[p].mine = proc[p].mine,
           UNCHANGED <<ledger, db, lock, acked>>
    PROVE  IInv'
<1>1. lock # p
  BY DEF IInv, LockInv, Folding, Publishing
<1>2. Local(proc'[p])
  BY LocalInv DEF Local, Publishing, Pcs
<1>. QED
  BY <1>1, <1>2, LocalStep DEF Publishing

LEMMA RenderStep ==
    ASSUME IInv, NEW p \in Procs,
           \/ RenderIndex(p) \/ EmptyIndex(p) \/ WriteIndex(p)
           \/ RenderCalibration(p) \/ EmptyCalibration(p)
    PROVE  IInv'
<1>1. CASE RenderIndex(p)
  <2>1. /\ OnlyProc(p) /\ proc'[p].pc = "empty1" /\ DOMAIN proc'[p] = Fields
        /\ proc'[p].mine = proc[p].mine
    BY <1>1 DEF RenderIndex, IInv, Shape, OnlyProc, Fields
  <2>. QED
    BY <1>1, <2>1, PublishingStep DEF RenderIndex, At, Publishing, files
<1>2. CASE WriteIndex(p)
  <2>1. /\ OnlyProc(p) /\ proc'[p].pc = "render2" /\ DOMAIN proc'[p] = Fields
        /\ proc'[p].mine = proc[p].mine
    BY <1>2 DEF WriteIndex, Goto, IInv, Shape, OnlyProc, Fields
  <2>. QED
    BY <1>2, <2>1, PublishingStep DEF WriteIndex, At, Publishing
<1>3. CASE RenderCalibration(p) /\ proc[p].text = None
  <2>1. ~Folding(p)
    BY <1>3 DEF RenderCalibration, At, Folding
  <2>. QED
    BY <1>3, <2>1, NotHolding, EndStep DEF RenderCalibration, files
<1>4. CASE RenderCalibration(p) /\ proc[p].text # None
  <2>1. /\ OnlyProc(p) /\ proc'[p].pc = "empty2" /\ DOMAIN proc'[p] = Fields
        /\ proc'[p].mine = proc[p].mine
    BY <1>4 DEF RenderCalibration, IInv, Shape, OnlyProc, Fields
  <2>. QED
    BY <1>4, <2>1, PublishingStep DEF RenderCalibration, At, Publishing, files
<1>5. CASE EmptyIndex(p)
  <2>1. /\ OnlyProc(p) /\ proc'[p].pc = "write1" /\ DOMAIN proc'[p] = Fields
        /\ proc'[p].mine = proc[p].mine
    BY <1>5 DEF EmptyIndex, Goto, IInv, Shape, OnlyProc, Fields
  <2>. QED
    BY <1>5, <2>1, PublishingStep DEF EmptyIndex, At, Publishing
<1>6. CASE EmptyCalibration(p)
  <2>1. /\ OnlyProc(p) /\ proc'[p].pc = "write2" /\ DOMAIN proc'[p] = Fields
        /\ proc'[p].mine = proc[p].mine
    BY <1>6 DEF EmptyCalibration, Goto, IInv, Shape, OnlyProc, Fields
  <2>. QED
    BY <1>6, <2>1, PublishingStep DEF EmptyCalibration, At, Publishing
<1>. QED
  BY <1>1, <1>2, <1>3, <1>4, <1>5, <1>6

\* Success is reported for events the database has.
LEMMA AckStep ==
    ASSUME IInv, NEW p \in Procs, WriteCalibration(p)
    PROVE  IInv'
<1>1. OnlyProc(p) /\ proc'[p] = Idle
  BY LeaveStep DEF WriteCalibration
<1>2. UNCHANGED <<ledger, db, lock>> /\ acked' = acked \cup proc[p].mine
  BY DEF WriteCalibration
<1>3. lock # p
  BY DEF WriteCalibration, At, IInv, LockInv, Folding
<1>4. AckedInv'
  BY <1>2 DEF WriteCalibration, At, Publishing, IInv, MineInv, AckedInv, AckedIsCommitted
<1>5. Shape'
  BY <1>1, <1>2, LocalIdle DEF IInv, Shape, OnlyProc, Local
<1>6. LockInv'
  BY <1>1, <1>2, <1>3, LocalIdle DEF IInv, LockInv, Folding, OnlyProc
<1>7. ReadInv'
  BY <1>1, <1>2, LocalIdle DEF IInv, ReadInv, Folding, OnlyProc
<1>8. MineInv'
  BY <1>1, <1>2, LocalIdle DEF IInv, MineInv, At, OnlyProc
<1>9. DbBehind'
  BY <1>2 DEF IInv, DbBehind
<1>. QED
  BY <1>4, <1>5, <1>6, <1>7, <1>8, <1>9 DEF IInv

-----------------------------------------------------------------------------
(* Together.                                                               *)

LEMMA NextIInv == IInv /\ [Next]_vars => IInv'
<1>. SUFFICES ASSUME IInv, [Next]_vars PROVE IInv'
  OBVIOUS
<1>1. ASSUME NEW p \in Procs, Start(p) \/ Crash(p) PROVE IInv'
  BY <1>1, StartStep, CrashStep
<1>2. ASSUME NEW p \in Procs, Step(p) PROVE IInv'
  BY <1>2, BeginStep, TimeoutStep, FoldOneStep, FoldFailsStep, CommitStep, AllocateStep,
     SelectStep, GuardStep, CountStep, AppendStep, SettingsStep, RenderStep, AckStep DEF Step
<1>3. CASE Pull
  BY <1>3, PullStep
<1>4. CASE UNCHANGED vars
  BY <1>4 DEF vars, IInv, Shape, LockInv, ReadInv, MineInv, AckedInv, AckedIsCommitted,
              DbBehind, Folding, At
<1>. QED
  BY <1>1, <1>2, <1>3, <1>4 DEF Next

LEMMA SpecIInv == Spec => []IInv
BY InitIInv, NextIInv, PTL DEF Spec

\* What a command reported is in the database, and stays there.
THEOREM AckedStaysCommitted == Spec => []AckedIsCommitted
<1>1. IInv => AckedIsCommitted
  BY DEF IInv, AckedInv
<1>. QED
  BY <1>1, SpecIInv, PTL

\* No commit takes the database back to a shorter history.
THEOREM CommitsForward == Spec => CommitsNeverGoBack
<1>1. IInv /\ [Next]_vars => [db.applied <= db'.applied]_vars
  <2>. SUFFICES ASSUME IInv, [Next]_vars PROVE db.applied <= db'.applied
    OBVIOUS
  <2>1. ASSUME NEW p \in Procs, Commit(p) PROVE db.applied <= db'.applied
    BY <2>1, CommitStep
  <2>2. CASE UNCHANGED db
    BY <2>2 DEF IInv, Shape
  <2>3. ASSUME NEW p \in Procs, Start(p) \/ Crash(p) PROVE UNCHANGED db
    BY <2>3 DEF Start, Crash, files
  <2>4. ASSUME NEW p \in Procs, Step(p), ~Commit(p) PROVE UNCHANGED db
    BY <2>4 DEF Step, BeginSync, BusyTimeout, FoldOne, FoldFails, Allocate, Select,
                GuardRefuses, CountLedger, AppendLine, EditSettings, Truncate, Rewrite,
                RenderIndex, EmptyIndex, WriteIndex,
                RenderCalibration, EmptyCalibration, WriteCalibration, files
  <2>. QED
    BY <2>1, <2>2, <2>3, <2>4 DEF Next, Pull, vars
<1>. QED
  BY <1>1, SpecIInv, PTL DEF Spec, CommitsNeverGoBack

-----------------------------------------------------------------------------
(* What the tables hold, for any menu of commands, moving dials and merged *)
(* lines included.                                                         *)

\* No event is numbered past its position.
Numbered(s) == \A k \in 1..Len(s) : s[k].seq \in 1..k

\* Finitely many ids, so that there is a last one to count from.
Bounded(p) == \E b \in Nat : Ids(p) \subseteq 0..b

\* A projection that has folded the first events of s, each number once.
Accounted(p, s) ==
    /\ IsProjection(p) /\ Bounded(p) /\ TablesAgree(p)
    /\ \A u \in p.usage : \E m \in 1..p.applied : m <= Len(s) /\ u.seq = s[m].seq

LedgerInv == ledger \in Seq(Event) /\ Numbered(ledger)

\* What the invariant asks of the local state r of a process.
LocalTab(r) ==
    /\ r.pc # "idle" => r.body \in Body
    /\ r.pc = "allocate" => r.op = "record"
    /\ r.pc = "select" => r.op = "verify"
    /\ r.pc \in {"edit", "truncate", "rewrite"} => r.op = "calibrate_set"
    /\ r.pc \in {"truncate", "rewrite"} => r.text \in Config
    /\ r.targets \subseteq Nat
    /\ (r.pc \in {"guard", "write"} /\ r.op = "verify") => r.targets # {}
    /\ r.pc = "write" => r.seq \in 1..Len(ledger)+1
    /\ r.pc \in {"fold", "refold"} =>
          r.snap \in Seq(Event) /\ Numbered(r.snap) /\ Accounted(r.work, r.snap)

TabInv ==
    /\ LedgerInv
    /\ config \in Config \cup {None}
    /\ IsProjection(db) /\ Bounded(db) /\ TablesAgree(db)
    /\ \A p \in Procs : LocalTab(proc[p])

LEMMA EmptyAccounted ==
    ASSUME NEW s
    PROVE  Accounted(EmptyProjection, s)
<1>1. IsProjection(EmptyProjection) /\ EmptyProjection.usage = {} /\ Ids(EmptyProjection) = {}
  BY FS_EmptySet DEF IsProjection, EmptyProjection, Ids
<1>. QED
  BY <1>1 DEF Accounted, Bounded, TablesAgree

\* One more event of s, inserted without a refusal.
LEMMA OneMoreAccounted ==
    ASSUME NEW s \in Seq(Event), Numbered(s), NEW p, Accounted(p, s),
           p.applied < Len(s), ~Refused(s, p.applied + 1), NEW cfg \in Config
    PROVE  Accounted(Apply(p, s[p.applied+1], cfg), s)
<1>. DEFINE n == p.applied + 1
            e == s[n]
            q == Apply(p, e, cfg)
<1>1. /\ p.applied \in Nat /\ n \in 1..Len(s) /\ e \in Event /\ e.seq \in 1..n
      /\ IsProjection(p) /\ e.body.ref \in Nat
  <2>1. p.applied \in Nat /\ IsProjection(p)
    BY DEF Accounted, IsProjection
  <2>2. n \in 1..Len(s) /\ e \in Event
    BY <2>1
  <2>3. e.seq \in 1..n
    BY <2>2 DEF Numbered
  <2>. QED
    BY <2>1, <2>2, <2>3 DEF Event, Body
<1>2. \A u \in p.usage : u.seq # e.seq
  BY <1>1 DEF Accounted, Refused
<1>3. IsProjection(q) /\ q.applied = n
  BY <1>1, ApplyType
<1>4. TablesAgree(q)
  BY <1>1, <1>2, ApplyTables DEF Accounted
<1>5. Bounded(q)
  <2>1. PICK b \in Nat : Ids(p) \subseteq 0..b
    BY DEF Accounted, Bounded
  <2>2. Ids(q) \subseteq Ids(p) \cup {e.body.ref}
    BY <1>1, ApplyIds
  <2>3. b + e.body.ref \in Nat /\ 0..b \subseteq 0..(b + e.body.ref)
        /\ e.body.ref \in 0..(b + e.body.ref)
    BY <1>1
  <2>. HIDE DEF q, e
  <2>4. Ids(q) \subseteq 0..(b + e.body.ref)
    BY <2>1, <2>2, <2>3
  <2>. QED
    BY <2>3, <2>4 DEF Bounded
<1>6. ASSUME NEW u \in q.usage
      PROVE  \E m \in 1..q.applied : m <= Len(s) /\ u.seq = s[m].seq
  <2>1. u \in p.usage \/ u = NewUsage(e)
    BY <1>1, ApplyUsage
  <2>2. CASE u \in p.usage
    <3>1. PICK m \in 1..p.applied : m <= Len(s) /\ u.seq = s[m].seq
      BY <2>2 DEF Accounted
    <3>2. m \in 1..n
      BY <1>1
    <3>. HIDE DEF q, n
    <3>. QED
      BY <1>3, <3>1, <3>2
  <2>3. CASE u = NewUsage(e)
    <3>1. u.seq = s[n].seq /\ n \in 1..n /\ n <= Len(s)
      BY <1>1, <2>3 DEF NewUsage
    <3>. HIDE DEF q, n, e
    <3>. QED
      BY <1>3, <3>1
  <2>. QED
    BY <2>1, <2>2, <2>3
<1>. QED
  BY <1>3, <1>4, <1>5, <1>6 DEF Accounted

\* refute_failures always has a first id to go to.
LEMMA TargetIn ==
    ASSUME NEW p, proc[p].targets \subseteq Nat, proc[p].targets # {}
    PROVE  Target(p) \in proc[p].targets
BY NatMin DEF Target

LEMMA InitTab == Init => TabInv
<1>. SUFFICES ASSUME Init PROVE TabInv
  OBVIOUS
<1>1. LedgerInv
  BY DEF Init, LedgerInv, Numbered
<1>2. config \in Config
  BY StoreAssumption DEF Init
<1>3. IsProjection(db) /\ Bounded(db) /\ TablesAgree(db)
  BY EmptyAccounted DEF Init, Accounted
<1>4. \A p \in Procs : LocalTab(proc[p])
  BY DEF Init, Idle, LocalTab
<1>. QED
  BY <1>1, <1>2, <1>3, <1>4 DEF TabInv

\* A step that changes process p alone.
LEMMA TabLocal ==
    ASSUME IInv, TabInv, NEW p \in Procs, OnlyProc(p), LocalTab(proc'[p]),
           UNCHANGED <<ledger, config, db>>
    PROVE  TabInv'
<1>1. \A q \in Procs : LocalTab(proc'[q])
  BY DEF TabInv, OnlyProc
<1>. QED
  BY <1>1 DEF TabInv, LedgerInv, LocalTab

LEMMA TabEnd ==
    ASSUME IInv, TabInv, NEW p \in Procs, Leave(p), UNCHANGED <<ledger, config, db>>
    PROVE  TabInv'
<1>1. LocalTab(Idle)
  BY DEF LocalTab, Idle
<1>. QED
  BY <1>1, LeaveStep, TabLocal

LEMMA TabHas ==
    ASSUME TabInv, NEW p \in Procs
    PROVE  LocalTab(proc[p])
BY DEF TabInv

LEMMA TabStart ==
    ASSUME IInv, TabInv, NEW p \in Procs, Start(p)
    PROVE  TabInv'
<1>1. PICK c \in Commands :
          proc' = [proc EXCEPT ![p].pc = FirstStep(c.op), ![p].op = c.op, ![p].body = c.body]
  BY DEF Start
<1>2. c.body \in Body
  BY StoreAssumption
<1>3. /\ FirstStep(c.op) \in {"begin", "guard", "edit", "rebegin"}
      /\ c.op = "verify" => FirstStep(c.op) = "begin"
      /\ FirstStep(c.op) = "edit" => c.op = "calibrate_set"
  BY DEF FirstStep
<1>4. /\ OnlyProc(p) /\ proc'[p].pc = FirstStep(c.op) /\ proc'[p].op = c.op
      /\ proc'[p].body = c.body /\ proc'[p].targets = proc[p].targets
  BY <1>1 DEF IInv, Shape, OnlyProc, Fields
<1>5. LocalTab(proc'[p])
  BY <1>2, <1>3, <1>4, TabHas DEF LocalTab
<1>. QED
  BY <1>4, <1>5, TabLocal DEF Start, files

LEMMA TabBegin ==
    ASSUME IInv, TabInv, NEW p \in Procs, BeginSync(p)
    PROVE  TabInv'
<1>1. /\ OnlyProc(p) /\ proc'[p].pc \in {"fold", "refold"}
      /\ proc'[p].snap = ledger /\ proc'[p].work = EmptyProjection
      /\ proc'[p].body = proc[p].body /\ proc'[p].targets = proc[p].targets
  BY DEF BeginSync, IInv, Shape, OnlyProc, Fields
<1>2. proc[p].pc # "idle"
  BY DEF BeginSync
<1>3. LocalTab(proc'[p])
  BY <1>1, <1>2, TabHas, EmptyAccounted DEF LocalTab, TabInv, LedgerInv
<1>. QED
  BY <1>1, <1>3, TabLocal DEF BeginSync, files

LEMMA TabFoldOne ==
    ASSUME IInv, TabInv, NEW p \in Procs, FoldOne(p)
    PROVE  TabInv'
<1>. DEFINE s == proc[p].snap
            w == proc[p].work
            e == s[w.applied + 1]
            more == Apply(w, e, config)
<1>1. s \in Seq(Event) /\ Numbered(s) /\ Accounted(w, s)
  BY TabHas DEF FoldOne, Folding, LocalTab
<1>2. w.applied < Len(s) /\ ~Refused(s, w.applied + 1)
  BY <1>1 DEF FoldOne, HasNext, FoldNext, CannotFold, Accounted, IsProjection
<1>3. \E cfg \in Config : more = Apply(w, e, cfg)
  <2>1. CASE config \in Config
    BY <2>1
  <2>2. CASE config = None
    <3>1. ~NeedsConfig(w, e)
      BY <2>2 DEF FoldOne, CannotFold, FoldNext
    <3>2. more = Apply(w, e, InitialConfig)
      BY <3>1, ApplyIgnoresConfig
    <3>. QED
      BY <3>2, StoreAssumption
  <2>. QED
    BY <2>1, <2>2 DEF TabInv
<1>4. Accounted(more, s)
  BY <1>1, <1>2, <1>3, OneMoreAccounted
<1>5. proc' = [proc EXCEPT ![p].work = more] /\ proc[p].pc \in {"fold", "refold"}
  BY DEF FoldOne, FoldNext, Folding
<1>. HIDE DEF more
<1>6. /\ OnlyProc(p) /\ proc'[p].pc = proc[p].pc /\ proc'[p].snap = s
      /\ proc'[p].work = more /\ proc'[p].body = proc[p].body
      /\ proc'[p].targets = proc[p].targets
  BY <1>5 DEF IInv, Shape, OnlyProc, Fields
<1>7. LocalTab(proc'[p])
  BY <1>1, <1>4, <1>5, <1>6, TabHas DEF LocalTab
<1>. QED
  BY <1>6, <1>7, TabLocal DEF FoldOne, files

LEMMA TabCommit ==
    ASSUME IInv, TabInv, NEW p \in Procs, Commit(p)
    PROVE  TabInv'
<1>1. db' = proc[p].work /\ UNCHANGED <<ledger, config>> /\ proc[p].pc \in {"fold", "refold"}
  BY DEF Commit, Folding
<1>2. IsProjection(db') /\ Bounded(db') /\ TablesAgree(db')
  BY <1>1, TabHas DEF LocalTab, Accounted
<1>. DEFINE to == IF At(p, "refold") THEN "render1" ELSE AfterSync(proc[p].op)
<1>3. /\ to \in {"render1", "allocate", "select", "idle"}
      /\ to = "allocate" => proc[p].op = "record"
      /\ to = "select" => proc[p].op = "verify"
  BY DEF AfterSync
<1>4. OnlyProc(p) /\ LocalTab(proc'[p])
  <2>1. CASE to = "idle"
    <3>1. LocalTab(Idle)
      BY DEF LocalTab, Idle
    <3>. QED
      BY <2>1, <3>1, LeaveStep DEF Commit
  <2>2. CASE to # "idle"
    <3>1. proc' = [proc EXCEPT ![p].pc = to, ![p].snap = << >>, ![p].work = EmptyProjection]
      BY <2>2 DEF Commit
    <3>. HIDE DEF to
    <3>2. /\ OnlyProc(p) /\ proc'[p].pc = to /\ proc'[p].op = proc[p].op
          /\ proc'[p].body = proc[p].body /\ proc'[p].targets = proc[p].targets
      BY <3>1 DEF IInv, Shape, OnlyProc, Fields
    <3>. QED
      BY <1>1, <1>3, <3>2, TabHas DEF LocalTab
  <2>. QED
    BY <2>1, <2>2
<1>5. \A q \in Procs : LocalTab(proc'[q])
  BY <1>4, TabHas DEF OnlyProc
<1>. QED
  BY <1>1, <1>2, <1>5 DEF TabInv, LedgerInv, LocalTab

LEMMA TabAllocate ==
    ASSUME IInv, TabInv, NEW p \in Procs, Allocate(p)
    PROVE  TabInv'
<1>. DEFINE n == NextLearningId(Ids(db))
<1>1. n \in Nat
  BY NextIdNat DEF TabInv, Bounded
<1>2. proc' = [proc EXCEPT ![p].body.ref = n, ![p].pc = "guard"]
  BY DEF Allocate
<1>. HIDE DEF n
<1>3. /\ OnlyProc(p) /\ proc'[p].pc = "guard" /\ proc'[p].op = proc[p].op
      /\ proc'[p].body = [proc[p].body EXCEPT !.ref = n]
      /\ proc'[p].targets = proc[p].targets
  BY <1>2 DEF IInv, Shape, OnlyProc, Fields
<1>4. proc'[p].body \in Body
  <2>1. proc[p].body \in Body
    BY TabHas DEF Allocate, At, LocalTab
  <2>. QED
    BY <1>1, <1>3, <2>1 DEF Body
<1>5. proc[p].op = "record" /\ proc[p].targets \subseteq Nat
  BY TabHas DEF Allocate, At, LocalTab
<1>6. LocalTab(proc'[p])
  BY <1>3, <1>4, <1>5 DEF LocalTab
<1>. QED
  BY <1>3, <1>6, TabLocal DEF Allocate, files

LEMMA TabSelect ==
    ASSUME IInv, TabInv, NEW p \in Procs, Select(p)
    PROVE  TabInv'
<1>1. PICK failed \in SUBSET {id \in LiveIds(db) : db.learning[id].verified} :
          proc' = [proc EXCEPT ![p].targets = failed,
                               ![p].pc = IF failed = {} THEN "rebegin" ELSE "guard"]
  BY DEF Select
<1>2. failed \subseteq Nat
  BY DEF TabInv, IsProjection, LiveIds, Ids
<1>3. /\ OnlyProc(p) /\ proc'[p].pc = (IF failed = {} THEN "rebegin" ELSE "guard")
      /\ proc'[p].body = proc[p].body /\ proc'[p].targets = failed
  BY <1>1 DEF IInv, Shape, OnlyProc, Fields
<1>4. LocalTab(proc'[p])
  BY <1>2, <1>3, TabHas DEF LocalTab, Select, At
<1>. QED
  BY <1>3, <1>4, TabLocal DEF Select, files

LEMMA TabGuard ==
    ASSUME IInv, TabInv, NEW p \in Procs, GuardRefuses(p)
    PROVE  TabInv'
<1>1. CASE proc[p].op = "verify"
  <2>. DEFINE rest == proc[p].targets \ {Target(p)}
  <2>1. proc' = [proc EXCEPT ![p].targets = rest,
                             ![p].pc = IF rest = {} THEN "rebegin" ELSE "guard"]
    BY <1>1 DEF GuardRefuses
  <2>2. rest \subseteq Nat
    BY TabHas DEF LocalTab
  <2>. HIDE DEF rest
  <2>3. /\ OnlyProc(p) /\ proc'[p].pc = (IF rest = {} THEN "rebegin" ELSE "guard")
        /\ proc'[p].body = proc[p].body /\ proc'[p].targets = rest
    BY <2>1 DEF IInv, Shape, OnlyProc, Fields
  <2>4. LocalTab(proc'[p])
    BY <2>2, <2>3, TabHas DEF LocalTab, GuardRefuses, At
  <2>. QED
    BY <2>3, <2>4, TabLocal DEF GuardRefuses, files
<1>2. CASE proc[p].op # "verify"
  BY <1>2, TabEnd DEF GuardRefuses, files
<1>. QED
  BY <1>1, <1>2

LEMMA TabCount ==
    ASSUME IInv, TabInv, NEW p \in Procs, CountLedger(p)
    PROVE  TabInv'
<1>1. /\ OnlyProc(p) /\ proc'[p].pc = "write" /\ proc'[p].seq = Len(ledger) + 1
      /\ proc'[p].op = proc[p].op /\ proc'[p].body = proc[p].body
      /\ proc'[p].targets = proc[p].targets
  BY DEF CountLedger, IInv, Shape, OnlyProc, Fields
<1>2. Len(ledger) + 1 \in 1..Len(ledger)+1
  BY DEF TabInv, LedgerInv
<1>3. LocalTab(proc'[p])
  BY <1>1, <1>2, TabHas DEF LocalTab, CountLedger, At
<1>. QED
  BY <1>1, <1>3, TabLocal DEF CountLedger, files

\* One more line, numbered no later than where it stands.
LEMMA TabLonger ==
    ASSUME IInv, TabInv, NEW e \in Event, e.seq \in 1..Len(ledger)+1,
           ledger' = Append(ledger, e), UNCHANGED <<config, db>>,
           \A q \in Procs : LocalTab(proc'[q])
    PROVE  TabInv'
<1>1. ledger \in Seq(Event) /\ Len(ledger) \in Nat
  BY DEF TabInv, LedgerInv
<1>2. /\ ledger' \in Seq(Event) /\ Len(ledger') = Len(ledger) + 1
      /\ \A k \in 1..Len(ledger) : ledger'[k] = ledger[k]
      /\ ledger'[Len(ledger)+1] = e
  BY <1>1
<1>3. Numbered(ledger')
  BY <1>1, <1>2 DEF Numbered, TabInv, LedgerInv
<1>4. \A q \in Procs : LocalTab(proc[q])'
  BY <1>1, <1>2 DEF LocalTab
<1>. QED
  BY <1>2, <1>3, <1>4 DEF TabInv, LedgerInv

LEMMA NewBodyType ==
    ASSUME TabInv, NEW p \in Procs, At(p, "write")
    PROVE  NewBody(p) \in Body
<1>1. proc[p].body \in Body
  BY TabHas DEF LocalTab, At
<1>2. CASE proc[p].op = "verify"
  <2>1. Target(p) \in Nat
    BY <1>2, TabHas, TargetIn DEF LocalTab, At
  <2>2. "refute" \in Kinds
    BY DEF Kinds, Known, Retiring
  <2>. QED
    BY <1>1, <1>2, <2>1, <2>2 DEF NewBody, Body
<1>3. CASE proc[p].op # "verify"
  BY <1>1, <1>3 DEF NewBody
<1>. QED
  BY <1>2, <1>3

LEMMA TabAppend ==
    ASSUME IInv, TabInv, NEW p \in Procs, AppendLine(p)
    PROVE  TabInv'
<1>. DEFINE e == [seq |-> proc[p].seq, body |-> NewBody(p)]
            rest == IF proc[p].op = "verify" THEN proc[p].targets \ {Target(p)} ELSE {}
<1>1. e \in Event /\ e.seq \in 1..Len(ledger)+1
  <2>1. proc[p].seq \in 1..Len(ledger)+1 /\ Len(ledger) \in Nat
    BY TabHas DEF AppendLine, At, LocalTab, TabInv, LedgerInv
  <2>. QED
    BY <2>1, NewBodyType DEF AppendLine, Event
<1>2. rest \subseteq Nat
  BY TabHas DEF LocalTab
<1>3. /\ ledger' = Append(ledger, e) /\ UNCHANGED <<config, db>>
      /\ proc' = [proc EXCEPT ![p].mine = @ \cup {Len(ledger) + 1},
                              ![p].targets = rest, ![p].seq = 0,
                              ![p].pc = IF rest = {} THEN "rebegin" ELSE "guard"]
  BY DEF AppendLine
<1>. HIDE DEF e, rest
<1>4. /\ OnlyProc(p) /\ proc'[p].pc = (IF rest = {} THEN "rebegin" ELSE "guard")
      /\ proc'[p].body = proc[p].body /\ proc'[p].targets = rest
  BY <1>3 DEF IInv, Shape, OnlyProc, Fields
<1>5. LocalTab(proc'[p])
  <2>1. proc[p].pc = "write" /\ proc[p].body \in Body
    BY TabHas DEF LocalTab, AppendLine, At
  <2>. QED
    BY <1>2, <1>4, <2>1 DEF LocalTab
<1>6. \A q \in Procs : LocalTab(proc'[q])
  BY <1>4, <1>5, TabHas DEF OnlyProc
<1>. QED
  BY <1>1, <1>3, <1>6, TabLonger

LEMMA TabPull ==
    ASSUME IInv, TabInv, Pull
    PROVE  TabInv'
<1>1. PICK n \in 0..Len(ledger), body \in Pulls :
          ledger' = Append(ledger, [seq |-> n + 1, body |-> body])
  BY DEF Pull
<1>. DEFINE e == [seq |-> n + 1, body |-> body]
<1>2. e \in Event /\ e.seq \in 1..Len(ledger)+1
  BY StoreAssumption DEF Event, TabInv, LedgerInv
<1>3. UNCHANGED <<config, db>> /\ \A q \in Procs : LocalTab(proc'[q])
  BY TabHas DEF Pull
<1>. HIDE DEF e
<1>. QED
  BY <1>1, <1>2, <1>3, TabLonger DEF e

LEMMA TabSettings ==
    ASSUME IInv, TabInv, NEW p \in Procs, EditSettings(p) \/ Truncate(p) \/ Rewrite(p)
    PROVE  TabInv'
<1>0. proc[p].pc \in {"edit", "truncate", "rewrite"} /\ LocalTab(proc[p])
  BY TabHas DEF EditSettings, Truncate, Rewrite, At
<1>1. CASE EditSettings(p) /\ config = None
  BY <1>1, TabEnd DEF EditSettings, files
<1>2. CASE EditSettings(p) /\ config # None
  <2>. DEFINE text == [config EXCEPT ![proc[p].body.key] = proc[p].body.value]
  <2>1. text \in Config
    <3>1. config \in Config /\ proc[p].body.key \in Keys /\ proc[p].body.value \in Int
      BY <1>0, <1>2 DEF TabInv, LocalTab, Body
    <3>. QED
      BY <3>1 DEF Config
  <2>2. proc' = [proc EXCEPT ![p].text = text, ![p].pc = "truncate"]
    BY <1>2 DEF EditSettings
  <2>. HIDE DEF text
  <2>3. /\ OnlyProc(p) /\ proc'[p].pc = "truncate" /\ proc'[p].text = text
        /\ proc'[p].op = proc[p].op
        /\ proc'[p].body = proc[p].body /\ proc'[p].targets = proc[p].targets
    BY <2>2 DEF IInv, Shape, OnlyProc, Fields
  <2>4. LocalTab(proc'[p])
    BY <1>0, <2>1, <2>3 DEF LocalTab
  <2>. QED
    BY <1>2, <2>3, <2>4, TabLocal DEF EditSettings, files
<1>3. CASE Truncate(p)
  <2>1. /\ OnlyProc(p) /\ proc'[p].pc = "rewrite" /\ proc'[p].text = proc[p].text
        /\ proc'[p].op = proc[p].op
        /\ proc'[p].body = proc[p].body /\ proc'[p].targets = proc[p].targets
    BY <1>3 DEF Truncate, Goto, IInv, Shape, OnlyProc, Fields
  <2>2. LocalTab(proc'[p])
    BY <1>0, <1>3, <2>1 DEF LocalTab, Truncate, At
  <2>3. \A q \in Procs : LocalTab(proc'[q])
    BY <2>1, <2>2, TabHas DEF OnlyProc
  <2>. QED
    BY <1>3, <2>3 DEF Truncate, TabInv, LedgerInv, LocalTab
<1>4. CASE Rewrite(p)
  <2>1. /\ OnlyProc(p) /\ proc'[p].pc = "guard" /\ proc'[p].op = proc[p].op
        /\ proc'[p].body = proc[p].body /\ proc'[p].targets = proc[p].targets
    BY <1>4 DEF Rewrite, IInv, Shape, OnlyProc, Fields
  <2>2. LocalTab(proc'[p])
    BY <1>0, <1>4, <2>1 DEF LocalTab, Rewrite, At
  <2>3. \A q \in Procs : LocalTab(proc'[q])
    BY <2>1, <2>2, TabHas DEF OnlyProc
  <2>4. config' \in Config
    BY <1>0, <1>4 DEF Rewrite, At, LocalTab
  <2>. QED
    BY <1>4, <2>3, <2>4 DEF Rewrite, TabInv, LedgerInv, LocalTab
<1>. QED
  BY <1>1, <1>2, <1>3, <1>4

\* Rendering touches neither the tables nor what they are folded from.
LEMMA TabRender ==
    ASSUME IInv, TabInv, NEW p \in Procs,
           \/ RenderIndex(p) \/ EmptyIndex(p) \/ WriteIndex(p)
           \/ RenderCalibration(p) \/ EmptyCalibration(p) \/ WriteCalibration(p)
    PROVE  TabInv'
<1>1. proc[p].pc \in Publishing /\ UNCHANGED <<ledger, config, db>>
  BY DEF RenderIndex, EmptyIndex, WriteIndex, RenderCalibration, EmptyCalibration,
         WriteCalibration, At, Publishing, files
<1>2. CASE Leave(p)
  BY <1>1, <1>2, TabEnd
<1>3. CASE ~Leave(p)
  <2>1. /\ OnlyProc(p) /\ proc'[p].pc \in Publishing
        /\ proc'[p].body = proc[p].body /\ proc'[p].targets = proc[p].targets
    BY <1>3 DEF RenderIndex, EmptyIndex, WriteIndex, RenderCalibration, EmptyCalibration,
                WriteCalibration, Goto, Publishing, IInv, Shape, OnlyProc, Fields
  <2>2. LocalTab(proc'[p])
    BY <1>1, <2>1, TabHas DEF LocalTab, Publishing
  <2>. QED
    BY <1>1, <2>1, <2>2, TabLocal
<1>. QED
  BY <1>2, <1>3

LEMMA NextTab == IInv /\ TabInv /\ [Next]_vars => TabInv'
<1>. SUFFICES ASSUME IInv, TabInv, [Next]_vars PROVE TabInv'
  OBVIOUS
<1>1. ASSUME NEW p \in Procs, Start(p) \/ Crash(p) PROVE TabInv'
  BY <1>1, TabStart, TabEnd DEF Crash, files
<1>2. ASSUME NEW p \in Procs, BusyTimeout(p) \/ FoldFails(p) PROVE TabInv'
  BY <1>2, TabEnd DEF BusyTimeout, FoldFails, files
<1>3. ASSUME NEW p \in Procs, Step(p) PROVE TabInv'
  BY <1>2, <1>3, TabBegin, TabFoldOne, TabCommit, TabAllocate, TabSelect, TabGuard, TabCount,
     TabAppend, TabSettings, TabRender DEF Step
<1>4. CASE Pull
  BY <1>4, TabPull
<1>5. CASE UNCHANGED vars
  BY <1>5 DEF vars, TabInv, LedgerInv, LocalTab
<1>. QED
  BY <1>1, <1>3, <1>4, <1>5 DEF Next

LEMMA SpecTab == Spec => [](IInv /\ TabInv)
<1>1. Init => IInv /\ TabInv
  BY InitIInv, InitTab
<1>2. IInv /\ TabInv /\ [Next]_vars => (IInv /\ TabInv)'
  BY NextIInv, NextTab
<1>. QED
  BY <1>1, <1>2, PTL DEF Spec

\* The committed tables agree with one another, whatever is merged and
\* whichever dials move meanwhile.
THEOREM TablesAlwaysAgree == Spec => []DbTablesAgree
<1>1. TabInv => DbTablesAgree
  BY DEF TabInv, DbTablesAgree
<1>. QED
  BY <1>1, SpecTab, PTL

-----------------------------------------------------------------------------
(* What a commit publishes, when no command moves a dial: with the dials   *)
(* fixed, folding again gives the same tables, so what stands in the       *)
(* database is determined by the ledger.                                   *)

DialsFixed == \A c \in Commands : c.op # "calibrate_set"

FoldOf(n) == Fold(SubSeq(ledger, 1, n), InitialConfig)

LocalFold(r) ==
    /\ r.pc # "idle" => r.op # "calibrate_set"
    /\ r.pc \in {"fold", "refold"} =>
          /\ \A k \in 1..Len(r.snap) : r.snap[k] = ledger[k]
          /\ r.work = FoldOf(r.work.applied)

FoldInv ==
    /\ config = InitialConfig
    /\ db = FoldOf(db.applied)
    /\ \A p \in Procs : LocalFold(proc[p])

LEMMA EmptyFoldOf ==
    ASSUME ledger \in Seq(Event)
    PROVE  EmptyProjection = FoldOf(EmptyProjection.applied)
<1>1. SubSeq(ledger, 1, 0) = << >> /\ EmptyProjection.applied = 0
  BY DEF EmptyProjection
<1>. QED
  BY <1>1, FoldEmpty DEF FoldOf

LEMMA InitFold == Init => FoldInv
<1>. SUFFICES ASSUME Init PROVE FoldInv
  OBVIOUS
<1>1. db = FoldOf(db.applied)
  BY EmptyFoldOf DEF Init
<1>2. \A p \in Procs : LocalFold(proc[p])
  BY DEF Init, Idle, LocalFold
<1>. QED
  BY <1>1, <1>2 DEF Init, FoldInv

LEMMA FoldLocal ==
    ASSUME FoldInv, NEW p \in Procs, OnlyProc(p), LocalFold(proc'[p]),
           UNCHANGED <<ledger, config, db>>
    PROVE  FoldInv'
<1>1. \A q \in Procs : LocalFold(proc'[q])
  BY DEF FoldInv, OnlyProc
<1>. QED
  BY <1>1 DEF FoldInv, LocalFold, FoldOf

\* Steps of p that neither read the ledger nor fold, append or commit.
Aside(p) ==
    \/ BusyTimeout(p) \/ FoldFails(p) \/ Crash(p)
    \/ Allocate(p) \/ Select(p) \/ GuardRefuses(p) \/ CountLedger(p)
    \/ RenderIndex(p) \/ EmptyIndex(p) \/ WriteIndex(p)
    \/ RenderCalibration(p) \/ EmptyCalibration(p) \/ WriteCalibration(p)

LEMMA AsideEffect ==
    ASSUME IInv, NEW p \in Procs, Aside(p)
    PROVE  /\ OnlyProc(p) /\ UNCHANGED <<ledger, config, db>>
           /\ \/ proc'[p] = Idle
              \/ /\ proc[p].pc \notin {"idle", "fold", "refold", "begin", "rebegin"}
                 /\ proc'[p].pc \notin {"idle", "fold", "refold"}
                 /\ proc'[p].op = proc[p].op
<1>1. UNCHANGED <<ledger, config, db>>
  BY DEF Aside, BusyTimeout, FoldFails, Crash, Allocate, Select, GuardRefuses, CountLedger,
         RenderIndex, EmptyIndex, WriteIndex, RenderCalibration, EmptyCalibration,
         WriteCalibration, files
<1>2. CASE Leave(p)
  BY <1>1, <1>2, LeaveStep
<1>3. CASE Allocate(p)
  BY <1>1, <1>3 DEF Allocate, At, IInv, Shape, OnlyProc, Fields
<1>4. CASE Select(p)
  BY <1>1, <1>4 DEF Select, At, IInv, Shape, OnlyProc, Fields
<1>5. CASE GuardRefuses(p) /\ ~Leave(p)
  BY <1>1, <1>5 DEF GuardRefuses, At, IInv, Shape, OnlyProc, Fields
<1>6. CASE CountLedger(p)
  BY <1>1, <1>6 DEF CountLedger, At, IInv, Shape, OnlyProc, Fields
<1>7. CASE RenderIndex(p) \/ EmptyIndex(p) \/ WriteIndex(p)
  BY <1>1, <1>7 DEF RenderIndex, EmptyIndex, WriteIndex, Goto, At, IInv, Shape, OnlyProc, Fields
<1>8. CASE (RenderCalibration(p) \/ EmptyCalibration(p)) /\ ~Leave(p)
  BY <1>1, <1>8 DEF RenderCalibration, EmptyCalibration, Goto, At, IInv, Shape, OnlyProc, Fields
<1>. QED
  BY <1>2, <1>3, <1>4, <1>5, <1>6, <1>7, <1>8
     DEF Aside, BusyTimeout, FoldFails, Crash, WriteCalibration

LEMMA FoldAside ==
    ASSUME IInv, FoldInv, NEW p \in Procs, Aside(p)
    PROVE  FoldInv'
<1>1. LocalFold(proc'[p])
  BY AsideEffect DEF FoldInv, LocalFold, Idle
<1>. QED
  BY <1>1, AsideEffect, FoldLocal

LEMMA FoldStart ==
    ASSUME DialsFixed, IInv, FoldInv, NEW p \in Procs, Start(p)
    PROVE  FoldInv'
<1>1. PICK c \in Commands :
          proc' = [proc EXCEPT ![p].pc = FirstStep(c.op), ![p].op = c.op, ![p].body = c.body]
  BY DEF Start
<1>2. OnlyProc(p) /\ proc'[p].pc \in {"begin", "guard", "edit", "rebegin"} /\ proc'[p].op = c.op
  BY <1>1 DEF FirstStep, IInv, Shape, OnlyProc, Fields
<1>3. LocalFold(proc'[p])
  BY <1>2 DEF DialsFixed, LocalFold
<1>. QED
  BY <1>2, <1>3, FoldLocal DEF Start, files

LEMMA FoldBegin ==
    ASSUME IInv, TabInv, FoldInv, NEW p \in Procs, BeginSync(p)
    PROVE  FoldInv'
<1>1. /\ OnlyProc(p) /\ proc'[p].pc \in {"fold", "refold"}
      /\ proc'[p].snap = ledger /\ proc'[p].work = EmptyProjection
      /\ proc'[p].op = proc[p].op
  BY DEF BeginSync, IInv, Shape, OnlyProc, Fields
<1>2. proc[p].op # "calibrate_set"
  BY DEF BeginSync, FoldInv, LocalFold
<1>3. LocalFold(proc'[p])
  BY <1>1, <1>2, EmptyFoldOf DEF LocalFold, TabInv, LedgerInv
<1>. QED
  BY <1>1, <1>3, FoldLocal DEF BeginSync, files

LEMMA FoldFoldOne ==
    ASSUME IInv, TabInv, FoldInv, NEW p \in Procs, FoldOne(p)
    PROVE  FoldInv'
<1>. DEFINE s == proc[p].snap
            w == proc[p].work
            n == w.applied
            more == Apply(w, s[n + 1], config)
<1>1. LocalFold(proc[p]) /\ proc[p].pc \in {"fold", "refold"}
  BY DEF FoldInv, FoldOne, Folding
<1>2. n \in Nat /\ n < Len(s) /\ Len(s) <= Len(ledger) /\ Len(s) \in Nat /\ ledger \in Seq(Event)
  BY DEF FoldOne, IInv, ReadInv, HasNext, FoldNext, TabInv, LedgerInv
<1>3. s[n+1] = ledger[n+1] /\ w = FoldOf(n) /\ config = InitialConfig
  <2>1. n + 1 \in 1..Len(s)
    BY <1>2
  <2>. QED
    BY <1>1, <2>1 DEF LocalFold, FoldInv
<1>4. n < Len(ledger)
  BY <1>2
<1>5. more = FoldOf(n + 1)
  BY <1>2, <1>3, <1>4, FoldPrefix DEF FoldOf
<1>6. more.applied = n + 1
  BY ApplyCounts
<1>7. proc' = [proc EXCEPT ![p].work = more]
  BY DEF FoldOne, FoldNext
<1>. HIDE DEF more
<1>8. /\ OnlyProc(p) /\ proc'[p].pc = proc[p].pc /\ proc'[p].snap = s
      /\ proc'[p].work = more /\ proc'[p].op = proc[p].op
  BY <1>7 DEF IInv, Shape, OnlyProc, Fields
<1>9. LocalFold(proc'[p])
  BY <1>1, <1>5, <1>6, <1>8 DEF LocalFold
<1>. QED
  BY <1>8, <1>9, FoldLocal DEF FoldOne, files

LEMMA FoldCommit ==
    ASSUME IInv, FoldInv, NEW p \in Procs, Commit(p)
    PROVE  FoldInv'
<1>1. db' = proc[p].work /\ UNCHANGED <<ledger, config>> /\ Folding(p)
  BY DEF Commit
<1>2. db' = FoldOf(db'.applied)
  BY <1>1 DEF FoldInv, LocalFold, Folding
<1>. DEFINE to == IF At(p, "refold") THEN "render1" ELSE AfterSync(proc[p].op)
<1>3. to \in {"render1", "allocate", "select", "idle"}
  BY DEF AfterSync
<1>4. OnlyProc(p) /\ LocalFold(proc'[p])
  <2>1. CASE to = "idle"
    BY <2>1, LeaveStep DEF Commit, LocalFold, Idle
  <2>2. CASE to # "idle"
    <3>1. proc' = [proc EXCEPT ![p].pc = to, ![p].snap = << >>, ![p].work = EmptyProjection]
      BY <2>2 DEF Commit
    <3>. HIDE DEF to
    <3>2. OnlyProc(p) /\ proc'[p].pc = to /\ proc'[p].op = proc[p].op
      BY <3>1 DEF IInv, Shape, OnlyProc, Fields
    <3>. QED
      BY <1>1, <1>3, <3>2 DEF FoldInv, LocalFold, Folding
  <2>. QED
    BY <2>1, <2>2
<1>5. \A q \in Procs : LocalFold(proc'[q])
  BY <1>4 DEF FoldInv, OnlyProc
<1>. QED
  BY <1>1, <1>2, <1>5 DEF FoldInv, FoldOf, LocalFold

\* A longer ledger folds alike up to where it was.
LEMMA FoldLonger ==
    ASSUME IInv, TabInv, FoldInv, NEW e \in Event, ledger' = Append(ledger, e),
           UNCHANGED <<config, db>>,
           \A q \in Procs : \/ proc'[q] = proc[q]
                            \/ /\ proc'[q].pc \notin {"fold", "refold"}
                               /\ proc'[q].op # "calibrate_set"
    PROVE  FoldInv'
<1>1. ledger \in Seq(Event) /\ Len(ledger) \in Nat
  BY DEF TabInv, LedgerInv
<1>2. ASSUME NEW n \in Nat, n <= Len(ledger) PROVE FoldOf(n) = FoldOf(n)'
  <2>1. SubSeq(ledger', 1, n) = SubSeq(ledger, 1, n)
    BY <1>1, <1>2
  <2>. QED
    BY <2>1 DEF FoldOf
<1>3. db' = FoldOf(db.applied)'
  BY <1>2 DEF IInv, Shape, DbBehind, FoldInv
<1>4. ASSUME NEW q \in Procs PROVE LocalFold(proc[q])'
  <2>1. CASE proc'[q] = proc[q] /\ Folding(q)
    <3>. DEFINE s == proc[q].snap
                w == proc[q].work
    <3>1. /\ Len(s) \in Nat /\ Len(s) <= Len(ledger)
          /\ w.applied \in Nat /\ w.applied <= Len(ledger)
      BY <1>1, <2>1 DEF IInv, ReadInv
    <3>2. w = FoldOf(w.applied)'
      BY <1>2, <2>1, <3>1 DEF FoldInv, LocalFold, Folding
    <3>3. \A k \in 1..Len(s) : s[k] = ledger'[k]
      BY <1>1, <2>1, <3>1 DEF FoldInv, LocalFold, Folding
    <3>. QED
      BY <2>1, <3>2, <3>3 DEF FoldInv, LocalFold
  <2>2. CASE proc'[q] = proc[q] /\ ~Folding(q)
    BY <2>2 DEF FoldInv, LocalFold, Folding
  <2>3. CASE proc'[q].pc \notin {"fold", "refold"} /\ proc'[q].op # "calibrate_set"
    BY <2>3 DEF LocalFold
  <2>. QED
    BY <2>1, <2>2, <2>3
<1>. QED
  BY <1>3, <1>4 DEF FoldInv

\* The event an append adds, and where it leaves its process.
LEMMA AppendEffect ==
    ASSUME IInv, TabInv, NEW p \in Procs, AppendLine(p)
    PROVE  LET e == [seq |-> proc[p].seq, body |-> NewBody(p)]
               rest == IF proc[p].op = "verify" THEN proc[p].targets \ {Target(p)} ELSE {}
           IN  /\ e \in Event /\ ledger' = Append(ledger, e)
               /\ OnlyProc(p) /\ proc[p].pc = "write"
               /\ proc'[p].pc = (IF rest = {} THEN "rebegin" ELSE "guard")
               /\ proc'[p].op = proc[p].op /\ proc'[p].body = proc[p].body
               /\ proc'[p].targets = rest
               /\ UNCHANGED <<config, db, index, calibration>>
<1>. DEFINE e == [seq |-> proc[p].seq, body |-> NewBody(p)]
            rest == IF proc[p].op = "verify" THEN proc[p].targets \ {Target(p)} ELSE {}
<1>1. e \in Event
  <2>1. proc[p].seq \in 1..Len(ledger)+1 /\ Len(ledger) \in Nat
    BY TabHas DEF AppendLine, At, LocalTab, TabInv, LedgerInv
  <2>. QED
    BY <2>1, NewBodyType DEF AppendLine, Event
<1>2. /\ ledger' = Append(ledger, e) /\ proc[p].pc = "write"
      /\ UNCHANGED <<config, db, index, calibration>>
      /\ proc' = [proc EXCEPT ![p].mine = @ \cup {Len(ledger) + 1},
                              ![p].targets = rest, ![p].seq = 0,
                              ![p].pc = IF rest = {} THEN "rebegin" ELSE "guard"]
  BY DEF AppendLine, At
<1>. HIDE DEF e, rest
<1>3. /\ OnlyProc(p) /\ proc'[p].pc = (IF rest = {} THEN "rebegin" ELSE "guard")
      /\ proc'[p].op = proc[p].op /\ proc'[p].body = proc[p].body
      /\ proc'[p].targets = rest
  BY <1>2 DEF IInv, Shape, OnlyProc, Fields
<1>. QED
  BY <1>1, <1>2, <1>3 DEF e, rest

LEMMA FoldAppendStep ==
    ASSUME IInv, TabInv, FoldInv, NEW p \in Procs, AppendLine(p)
    PROVE  FoldInv'
<1>1. PICK e \in Event : ledger' = Append(ledger, e)
  BY AppendEffect
<1>2. /\ OnlyProc(p) /\ UNCHANGED <<config, db>> /\ proc[p].pc = "write"
      /\ proc'[p].pc \in {"guard", "rebegin"} /\ proc'[p].op = proc[p].op
  BY AppendEffect
<1>3. proc'[p].op # "calibrate_set"
  BY <1>2 DEF FoldInv, LocalFold
<1>. QED
  BY <1>1, <1>2, <1>3, FoldLonger DEF OnlyProc

LEMMA FoldPull ==
    ASSUME IInv, TabInv, FoldInv, Pull
    PROVE  FoldInv'
<1>1. PICK n \in 0..Len(ledger), body \in Pulls :
          ledger' = Append(ledger, [seq |-> n + 1, body |-> body])
  BY DEF Pull
<1>2. [seq |-> n + 1, body |-> body] \in Event
  BY StoreAssumption DEF Event, TabInv, LedgerInv
<1>. QED
  BY <1>1, <1>2, FoldLonger DEF Pull

\* No process is ever rewriting the dials.
LEMMA NoSettings ==
    ASSUME TabInv, FoldInv, NEW p \in Procs
    PROVE  proc[p].pc \notin {"edit", "truncate", "rewrite"}
BY DEF TabInv, LocalTab, FoldInv, LocalFold

LEMMA NextFold == DialsFixed => (IInv /\ TabInv /\ FoldInv /\ [Next]_vars => FoldInv')
<1>. SUFFICES ASSUME DialsFixed, IInv, TabInv, FoldInv, [Next]_vars PROVE FoldInv'
  OBVIOUS
<1>1. ASSUME NEW p \in Procs, Start(p) \/ Crash(p) PROVE FoldInv'
  BY <1>1, FoldStart, FoldAside DEF Aside
<1>2. ASSUME NEW p \in Procs, Step(p) PROVE FoldInv'
  <2>1. ~(EditSettings(p) \/ Truncate(p) \/ Rewrite(p))
    BY NoSettings DEF EditSettings, Truncate, Rewrite, At
  <2>. QED
    BY <1>2, <2>1, FoldBegin, FoldFoldOne, FoldCommit, FoldAppendStep, FoldAside DEF Step, Aside
<1>3. CASE Pull
  BY <1>3, FoldPull
<1>4. CASE UNCHANGED vars
  BY <1>4 DEF vars, FoldInv, LocalFold, FoldOf
<1>. QED
  BY <1>1, <1>2, <1>3, <1>4 DEF Next

LEMMA SpecFold == DialsFixed => (Spec => [](IInv /\ TabInv /\ FoldInv))
<1>. SUFFICES ASSUME DialsFixed PROVE Spec => [](IInv /\ TabInv /\ FoldInv)
  OBVIOUS
<1>1. Init => IInv /\ TabInv /\ FoldInv
  BY InitIInv, InitTab, InitFold
<1>2. IInv /\ TabInv /\ FoldInv /\ [Next]_vars => (IInv /\ TabInv /\ FoldInv)'
  BY NextIInv, NextTab, NextFold
<1>. QED
  BY <1>1, <1>2, PTL DEF Spec

\* What is committed is the fold of a prefix of the ledger.
THEOREM CommitsAreFolds == DialsFixed => (Spec => []CommittedIsAFold)
<1>. SUFFICES ASSUME DialsFixed PROVE Spec => []CommittedIsAFold
  OBVIOUS
<1>1. IInv /\ TabInv /\ FoldInv => CommittedIsAFold
  BY DEF IInv, DbBehind, FoldInv, FoldOf, CommittedIsAFold
<1>. QED
  BY <1>1, SpecFold, PTL

-----------------------------------------------------------------------------
(* Commands one at a time, killed anywhere, dials fixed and nothing merged *)
(* meanwhile: what the one process has read is still so.                   *)

Serial ==
    /\ \E p : Procs = {p}
    /\ Pulls = {}
    /\ DialsFixed

Whole == Fold(ledger, InitialConfig)

LocalNow(r) ==
    /\ r.pc \in {"fold", "refold"} => r.snap = ledger
    /\ r.pc \in {"allocate", "select"} \cup Publishing => db.applied = Len(ledger)
    /\ r.pc \in {"empty1", "write1", "empty2", "write2"} => r.page = db
    /\ r.pc \in {"render2", "empty2", "write2"} => index = db
    /\ (r.pc \in {"guard", "write"} /\ r.op = "verify") => r.targets \subseteq LiveIds(Whole)

NowInv == \A p \in Procs : LocalNow(proc[p])

SerialInv == IInv /\ TabInv /\ FoldInv /\ NowInv

\* A database that has applied the whole ledger is its fold.
LEMMA AppliedAll ==
    ASSUME SerialInv, db.applied = Len(ledger)
    PROVE  db = Whole
<1>1. SubSeq(ledger, 1, Len(ledger)) = ledger
  BY DEF SerialInv, TabInv, LedgerInv
<1>. QED
  BY <1>1 DEF SerialInv, FoldInv, FoldOf, Whole

LEMMA InitNow == Init => NowInv
BY DEF Init, Idle, NowInv, LocalNow, Publishing

LEMMA Alone ==
    ASSUME Serial, NEW p \in Procs, LocalNow(proc[p])'
    PROVE  NowInv'
BY DEF Serial, NowInv

LEMMA NowIdle == ASSUME NEW p, proc'[p] = Idle PROVE LocalNow(proc[p])'
BY DEF LocalNow, Idle, Publishing

LEMMA NowHas == ASSUME SerialInv, NEW p \in Procs PROVE LocalNow(proc[p]) /\ LocalTab(proc[p])
BY DEF SerialInv, NowInv, TabInv

LEMMA NowStart ==
    ASSUME SerialInv, NEW p \in Procs, Start(p)
    PROVE  LocalNow(proc[p])'
<1>1. PICK c \in Commands :
          proc' = [proc EXCEPT ![p].pc = FirstStep(c.op), ![p].op = c.op, ![p].body = c.body]
  BY DEF Start
<1>2. /\ FirstStep(c.op) \in {"begin", "guard", "edit", "rebegin"}
      /\ c.op = "verify" => FirstStep(c.op) = "begin"
  BY DEF FirstStep
<1>3. proc'[p].pc = FirstStep(c.op) /\ proc'[p].op = c.op
  BY <1>1 DEF SerialInv, IInv, Shape, Fields
<1>. QED
  BY <1>2, <1>3 DEF LocalNow, Publishing

LEMMA NowBegin ==
    ASSUME SerialInv, NEW p \in Procs, BeginSync(p)
    PROVE  LocalNow(proc[p])'
<1>1. proc'[p].pc \in {"fold", "refold"} /\ proc'[p].snap = ledger /\ ledger' = ledger
  BY DEF BeginSync, SerialInv, IInv, Shape, Fields, files
<1>. QED
  BY <1>1 DEF LocalNow, Publishing

LEMMA NowFoldOne ==
    ASSUME SerialInv, NEW p \in Procs, FoldOne(p)
    PROVE  LocalNow(proc[p])'
<1>. DEFINE more == Apply(proc[p].work, proc[p].snap[FoldNext(p)], config)
<1>1. /\ proc' = [proc EXCEPT ![p].work = more] /\ ledger' = ledger
      /\ proc[p].pc \in {"fold", "refold"}
  BY DEF FoldOne, Folding, files
<1>. HIDE DEF more
<1>2. proc'[p].pc = proc[p].pc /\ proc'[p].snap = proc[p].snap
  BY <1>1 DEF SerialInv, IInv, Shape, Fields
<1>. QED
  BY <1>1, <1>2, NowHas DEF LocalNow, Publishing

LEMMA NowCommit ==
    ASSUME SerialInv, NEW p \in Procs, Commit(p)
    PROVE  LocalNow(proc[p])'
<1>1. /\ db' = proc[p].work /\ ledger' = ledger /\ Folding(p) /\ ~HasNext(p)
  BY DEF Commit
<1>2. proc[p].snap = ledger
  BY <1>1, NowHas DEF LocalNow, Folding
<1>3. db'.applied = Len(ledger')
  BY <1>1, <1>2 DEF SerialInv, IInv, ReadInv, HasNext, FoldNext
<1>. DEFINE to == IF At(p, "refold") THEN "render1" ELSE AfterSync(proc[p].op)
<1>4. to \in {"render1", "allocate", "select", "idle"}
  BY DEF AfterSync
<1>5. CASE to = "idle"
  <2>1. proc'[p] = Idle
    BY <1>5, LeaveStep DEF Commit, SerialInv
  <2>. QED
    BY <2>1, NowIdle
<1>6. CASE to # "idle"
  <2>1. proc' = [proc EXCEPT ![p].pc = to, ![p].snap = << >>, ![p].work = EmptyProjection]
    BY <1>6 DEF Commit
  <2>. HIDE DEF to
  <2>2. proc'[p].pc = to
    BY <2>1 DEF SerialInv, IInv, Shape, Fields
  <2>. QED
    BY <1>3, <1>4, <1>6, <2>2 DEF LocalNow
<1>. QED
  BY <1>5, <1>6

LEMMA NowReads ==
    ASSUME SerialInv, NEW p \in Procs, Allocate(p) \/ Select(p) \/ CountLedger(p)
    PROVE  LocalNow(proc[p])'
<1>0. UNCHANGED <<ledger, db, index>> /\ Whole' = Whole
  BY DEF Allocate, Select, CountLedger, files, Whole
<1>1. CASE Allocate(p)
  <2>1. proc'[p].pc = "guard" /\ proc'[p].op = proc[p].op
    BY <1>1 DEF Allocate, SerialInv, IInv, Shape, Fields
  <2>2. proc[p].op = "record"
    BY <1>1, NowHas DEF Allocate, At, LocalTab
  <2>. QED
    BY <2>1, <2>2 DEF LocalNow, Publishing
<1>2. CASE Select(p)
  <2>1. PICK failed \in SUBSET {id \in LiveIds(db) : db.learning[id].verified} :
            proc' = [proc EXCEPT ![p].targets = failed,
                                 ![p].pc = IF failed = {} THEN "rebegin" ELSE "guard"]
    BY <1>2 DEF Select
  <2>2. proc'[p].pc \in {"guard", "rebegin"} /\ proc'[p].targets = failed
    BY <2>1 DEF SerialInv, IInv, Shape, Fields
  <2>3. db = Whole
    BY <1>2, NowHas, AppliedAll DEF Select, At, LocalNow
  <2>. QED
    BY <1>0, <2>2, <2>3 DEF LocalNow, Publishing
<1>3. CASE CountLedger(p)
  <2>1. /\ proc'[p].pc = "write" /\ proc'[p].op = proc[p].op
        /\ proc'[p].targets = proc[p].targets /\ proc[p].pc = "guard"
    BY <1>3 DEF CountLedger, At, SerialInv, IInv, Shape, Fields
  <2>. QED
    BY <1>0, <2>1, NowHas DEF LocalNow, Publishing
<1>. QED
  BY <1>1, <1>2, <1>3

LEMMA NowGuard ==
    ASSUME SerialInv, NEW p \in Procs, GuardRefuses(p)
    PROVE  LocalNow(proc[p])'
<1>1. CASE proc[p].op = "verify"
  <2>. DEFINE rest == proc[p].targets \ {Target(p)}
  <2>1. proc' = [proc EXCEPT ![p].targets = rest,
                             ![p].pc = IF rest = {} THEN "rebegin" ELSE "guard"]
    BY <1>1 DEF GuardRefuses
  <2>2. rest \subseteq LiveIds(Whole)
    BY <1>1, NowHas DEF LocalNow, GuardRefuses, At
  <2>. HIDE DEF rest
  <2>3. proc'[p].pc \in {"rebegin", "guard"} /\ proc'[p].targets = rest
    BY <2>1 DEF SerialInv, IInv, Shape, Fields
  <2>4. Whole' = Whole
    BY DEF GuardRefuses, files, Whole
  <2>. QED
    BY <2>2, <2>3, <2>4 DEF LocalNow, Publishing
<1>2. CASE proc[p].op # "verify"
  <2>1. proc'[p] = Idle
    BY <1>2, LeaveStep DEF GuardRefuses, SerialInv
  <2>. QED
    BY <2>1, NowIdle
<1>. QED
  BY <1>1, <1>2

\* One more event in the ledger is one more event in its fold.
LEMMA WholeAppend ==
    ASSUME SerialInv, NEW e \in Event, ledger' = Append(ledger, e)
    PROVE  Whole' = Apply(Whole, e, InitialConfig)
BY FoldAppend DEF SerialInv, TabInv, LedgerInv, Whole

LEMMA WholeType ==
    ASSUME SerialInv
    PROVE  IsProjection(Whole)
BY FoldType, StoreAssumption DEF SerialInv, TabInv, LedgerInv, Whole

LEMMA NowAppend ==
    ASSUME SerialInv, NEW p \in Procs, AppendLine(p)
    PROVE  LocalNow(proc[p])'
<1>. DEFINE e == [seq |-> proc[p].seq, body |-> NewBody(p)]
            rest == IF proc[p].op = "verify" THEN proc[p].targets \ {Target(p)} ELSE {}
<1>1. /\ e \in Event /\ ledger' = Append(ledger, e) /\ proc[p].pc = "write"
      /\ proc'[p].pc = (IF rest = {} THEN "rebegin" ELSE "guard")
      /\ proc'[p].op = proc[p].op
      /\ proc'[p].targets = rest
  BY AppendEffect DEF SerialInv
<1>2. Whole' = Apply(Whole, e, InitialConfig)
  BY <1>1, WholeAppend
<1>3. ASSUME proc[p].op = "verify" PROVE rest \subseteq LiveIds(Whole')
  <2>1. e.body.kind = "refute" /\ e.body.ref = Target(p)
    <3>1. proc[p].body \in Body
      BY <1>1, NowHas DEF LocalTab
    <3>. QED
      BY <1>3, <3>1 DEF NewBody, Body
  <2>2. LiveIds(Whole) \ {Target(p)} \subseteq LiveIds(Whole')
    <3>. HIDE DEF e
    <3>. QED
      BY <1>2, <2>1, RefuteLive, WholeType
  <2>3. proc[p].targets \subseteq LiveIds(Whole)
    BY <1>1, <1>3, NowHas DEF LocalNow
  <2>. QED
    BY <1>3, <2>2, <2>3
<1>. HIDE DEF e, rest
<1>. QED
  BY <1>1, <1>3 DEF LocalNow, Publishing

LEMMA NowRender ==
    ASSUME SerialInv, NEW p \in Procs,
           \/ RenderIndex(p) \/ EmptyIndex(p) \/ WriteIndex(p)
           \/ RenderCalibration(p) \/ EmptyCalibration(p) \/ WriteCalibration(p)
    PROVE  LocalNow(proc[p])'
<1>0. /\ proc[p].pc \in Publishing /\ UNCHANGED <<ledger, db>>
      /\ db.applied = Len(ledger)
  BY NowHas DEF LocalNow, RenderIndex, EmptyIndex, WriteIndex, RenderCalibration,
         EmptyCalibration, WriteCalibration, At, Publishing, files
<1>1. CASE RenderIndex(p)
  <2>1. proc'[p].pc = "empty1" /\ proc'[p].page = db
    BY <1>1 DEF RenderIndex, SerialInv, IInv, Shape, Fields
  <2>. QED
    BY <1>0, <2>1 DEF LocalNow
<1>2. CASE EmptyIndex(p)
  <2>1. proc'[p].pc = "write1" /\ proc'[p].page = proc[p].page
    BY <1>2 DEF EmptyIndex, Goto, SerialInv, IInv, Shape, Fields
  <2>. QED
    BY <1>0, <1>2, <2>1, NowHas DEF EmptyIndex, At, LocalNow
<1>3. CASE WriteIndex(p)
  <2>1. proc'[p].pc = "render2" /\ index' = proc[p].page
    BY <1>3 DEF WriteIndex, Goto, SerialInv, IInv, Shape, Fields
  <2>. QED
    BY <1>0, <1>3, <2>1, NowHas DEF WriteIndex, At, LocalNow
<1>4. CASE RenderCalibration(p) /\ proc[p].text # None
  <2>1. proc'[p].pc = "empty2" /\ proc'[p].page = db /\ index' = index
    BY <1>4 DEF RenderCalibration, SerialInv, IInv, Shape, Fields, files
  <2>. QED
    BY <1>0, <1>4, <2>1, NowHas DEF RenderCalibration, At, LocalNow
<1>5. CASE EmptyCalibration(p)
  <2>1. proc'[p].pc = "write2" /\ proc'[p].page = proc[p].page /\ index' = index
    BY <1>5 DEF EmptyCalibration, Goto, SerialInv, IInv, Shape, Fields
  <2>. QED
    BY <1>0, <1>5, <2>1, NowHas DEF EmptyCalibration, At, LocalNow
<1>6. CASE Leave(p)
  <2>1. proc'[p] = Idle
    BY <1>6, LeaveStep DEF SerialInv
  <2>. QED
    BY <2>1, NowIdle
<1>. QED
  BY <1>1, <1>2, <1>3, <1>4, <1>5, <1>6 DEF RenderCalibration, WriteCalibration

LEMMA NextNow == Serial => (SerialInv /\ [Next]_vars => NowInv')
<1>. SUFFICES ASSUME Serial, SerialInv, [Next]_vars PROVE NowInv'
  OBVIOUS
<1>1. ASSUME NEW p \in Procs, Leave(p) PROVE LocalNow(proc[p])'
  BY <1>1, LeaveStep, NowIdle DEF SerialInv
<1>2. ASSUME NEW p \in Procs, Start(p) \/ Crash(p) PROVE NowInv'
  BY <1>1, <1>2, NowStart, Alone DEF Crash
<1>3. ASSUME NEW p \in Procs, Step(p) PROVE NowInv'
  <2>1. ~(EditSettings(p) \/ Truncate(p) \/ Rewrite(p))
    BY NoSettings DEF SerialInv, EditSettings, Truncate, Rewrite, At
  <2>2. BusyTimeout(p) \/ FoldFails(p) => Leave(p)
    BY DEF BusyTimeout, FoldFails
  <2>3. LocalNow(proc[p])'
    BY <1>1, <1>3, <2>1, <2>2, NowBegin, NowFoldOne, NowCommit, NowReads, NowGuard, NowAppend,
       NowRender DEF Step
  <2>. QED
    BY <2>3, Alone
<1>4. ~Pull
  BY DEF Serial, Pull
<1>5. CASE UNCHANGED vars
  BY <1>5 DEF vars, SerialInv, NowInv, LocalNow, Whole
<1>. QED
  BY <1>2, <1>3, <1>4, <1>5 DEF Next

LEMMA SpecSerial == Serial => (Spec => []SerialInv)
<1>. SUFFICES ASSUME Serial PROVE Spec => []SerialInv
  OBVIOUS
<1>1. Init => SerialInv
  BY InitIInv, InitTab, InitFold, InitNow DEF SerialInv
<1>2. SerialInv /\ [Next]_vars => SerialInv'
  BY NextIInv, NextTab, NextFold, NextNow DEF SerialInv, Serial
<1>. QED
  BY <1>1, <1>2, PTL DEF Spec

\* When a command reports success, ledger, database and both views agree.
THEOREM SuccessAlwaysAgrees == Serial => (Spec => SuccessMeansAgreement)
<1>. SUFFICES ASSUME Serial PROVE Spec => SuccessMeansAgreement
  OBVIOUS
<1>1. SerialInv /\ [Next]_vars =>
        [\A p \in Procs : WriteCalibration(p) =>
            \A made \in {db, index', calibration'} : made = Fold(ledger, InitialConfig)]_vars
  <2>. SUFFICES ASSUME SerialInv, NEW p \in Procs, WriteCalibration(p)
                PROVE  db = Whole /\ index' = Whole /\ calibration' = Whole
    BY DEF Whole
  <2>1. db = Whole
    BY NowHas, AppliedAll DEF WriteCalibration, At, LocalNow, Publishing
  <2>2. index = db /\ proc[p].page = db
    BY NowHas DEF WriteCalibration, At, LocalNow
  <2>. QED
    BY <2>1, <2>2 DEF WriteCalibration
<1>. QED
  BY <1>1, SpecSerial, PTL DEF Spec, SuccessMeansAgreement

\* verify refutes nothing that is already retired.
THEOREM RefutesOnlyLive == Serial => (Spec => RefutesLiveOnly)
<1>. SUFFICES ASSUME Serial PROVE Spec => RefutesLiveOnly
  OBVIOUS
<1>1. SerialInv /\ [Next]_vars =>
        [\A p \in Procs : (AppendLine(p) /\ proc[p].op = "verify") =>
            Target(p) \in LiveIds(Fold(ledger, InitialConfig))]_vars
  <2>. SUFFICES ASSUME SerialInv, NEW p \in Procs, AppendLine(p), proc[p].op = "verify"
                PROVE  Target(p) \in LiveIds(Whole)
    BY DEF Whole
  <2>1. proc[p].targets \subseteq LiveIds(Whole)
    BY NowHas DEF AppendLine, At, LocalNow
  <2>2. Target(p) \in proc[p].targets
    BY NowHas, TargetIn DEF AppendLine, At, LocalTab
  <2>. QED
    BY <2>1, <2>2
<1>. QED
  BY <1>1, SpecSerial, PTL DEF Spec, RefutesLiveOnly

-----------------------------------------------------------------------------
(* The refinement.  Commands one at a time, on a ledger that stays shorter *)
(* than the first id that outgrows its padding, implement LearnLog.        *)

ShortLedger == MaxEvents <= Limit

\* The places where a command has its own event still to append.
Before == {"begin", "fold", "allocate", "select", "guard", "write"}

\* The command that was typed, with the id record gave it.
FromMenu(r) ==
    \E c \in Commands :
        /\ c.op = r.op
        /\ \/ r.body = c.body
           \/ r.op = "record" /\ r.body = [c.body EXCEPT !.ref = r.body.ref]

\* An id no event of the ledger has used, in the range the ledger allows.
FreshRef(n) == n \in 1..Len(ledger)+1 /\ n \notin Ids(Whole)

LocalLog(r) ==
    /\ r.pc = "idle" => r = Idle
    /\ r.pc # "idle" => FromMenu(r)
    /\ (r.pc # "idle" /\ r.op = "verify") =>
          IsFiniteSet(r.targets) /\ Len(ledger) + Cardinality(r.targets) <= MaxEvents
    /\ (r.pc \in Before /\ r.op \in Appending) => Len(ledger) < MaxEvents
    /\ r.pc \in {"guard", "write"} => r.op \in Appending \cup {"verify"}
    /\ (r.pc \in {"guard", "write"} /\ r.op = "record") => FreshRef(r.body.ref)
    /\ r.pc = "write" => r.seq = Len(ledger) + 1

\* Every event has its position as its number, every id that was ever
\* recorded is in the tables, and none was recorded twice.
LedgerLog ==
    /\ \A k \in 1..Len(ledger) :
          /\ ledger[k].seq = k
          /\ ledger[k].body.kind = "learn" => ledger[k].body.ref \in Ids(Whole)
    /\ Ids(Whole) \subseteq 1..Len(ledger)
    /\ FreshEntriesNeverCollide

LogInv == LedgerLog /\ \A p \in Procs : LocalLog(proc[p])

\* The operators the instance sees are the operators seen here.
LEMMA SameApply ==
    ASSUME NEW p, NEW e, NEW cfg
    PROVE  Log!Apply(p, e, cfg) = Apply(p, e, cfg)
<1>1. Log!Ids(p) = Ids(p)
  BY DEF Log!Ids, Ids
<1>2. ASSUME NEW usage, NEW id
      PROVE  /\ Log!UsageOf(usage, id) = UsageOf(usage, id)
             /\ Log!SessionsOf(usage, id) = SessionsOf(usage, id)
  BY DEF Log!UsageOf, UsageOf, Log!SessionsOf, SessionsOf
<1>3. ASSUME NEW row PROVE Log!IsActive(row, cfg) = IsActive(row, cfg)
  BY DEF Log!IsActive, IsActive
<1>4. ASSUME NEW row PROVE Log!Restatus(row, cfg) = Restatus(row, cfg)
  BY <1>3 DEF Log!Restatus, Restatus, Log!Retired, Retired
<1>5. Log!NewRow(e, cfg) = NewRow(e, cfg)
  BY DEF Log!NewRow, NewRow, Log!BaseConfidence, BaseConfidence
<1>6. ASSUME NEW c PROVE Log!Clamp(c, cfg) = Clamp(c, cfg)
  BY DEF Log!Clamp, Clamp
<1>7. ASSUME NEW row, NEW usage PROVE Log!Touch(row, e, usage, cfg) = Touch(row, e, usage, cfg)
  <2>. DEFINE helps == e.body.outcome = "helped"
              delta == IF helps THEN cfg["helped_delta"] ELSE cfg["noise_delta"]
              helped == IF helps THEN row.helped + 1 ELSE row.helped
              noise == IF helps THEN row.noise ELSE row.noise + 1
              With(n, c) == [row EXCEPT !.helped = helped, !.noise = noise,
                                        !.sessions = n, !.confidence = c]
  <2>1. Touch(row, e, usage, cfg)
          = With(Cardinality(SessionsOf(usage, e.body.ref)), Clamp(row.confidence + delta, cfg))
    BY DEF Touch
  <2>2. Log!Touch(row, e, usage, cfg)
          = With(Log!Cardinality(Log!SessionsOf(usage, e.body.ref)),
                 Log!Clamp(row.confidence + delta, cfg))
    BY DEF Log!Touch
  <2>3. ASSUME NEW S PROVE Log!Cardinality(S) = Cardinality(S)
    BY DEF Log!Cardinality, Cardinality
  <2>. HIDE DEF With
  <2>. QED
    BY <1>2, <1>6, <2>1, <2>2, <2>3
<1>8. Log!ApplyLearn(p, e, cfg) = ApplyLearn(p, e, cfg)
  BY <1>1, <1>2, <1>4, <1>5 DEF Log!ApplyLearn, ApplyLearn, Log!Learned, Learned
<1>9. Log!ApplyUse(p, e, cfg) = ApplyUse(p, e, cfg)
  BY <1>4, <1>7 DEF Log!ApplyUse, ApplyUse
<1>10. Log!ApplyRetire(p, e) = ApplyRetire(p, e)
  BY DEF Log!ApplyRetire, ApplyRetire, Log!Retire, Retire, Log!StatusAfter, StatusAfter
<1>. QED
  BY <1>1, <1>8, <1>9, <1>10
     DEF Log!Apply, Apply, Log!ApplyNothing, ApplyNothing, Log!Retiring, Retiring

\* One process alone owes what all of them owe.
LEMMA SumOne ==
    ASSUME NEW p, Procs = {p}
    PROVE  MapThenSumSet(Owed, Procs) = Owed(p) + 0
<1>. DEFINE pick(s) == CHOOSE x \in s : TRUE
            Eq(g) == g = [s \in SUBSET Procs |->
                             IF s = {} THEN 0 ELSE Owed(pick(s)) + g[s \ {pick(s)}]]
            iter == CHOOSE g : Eq(g)
<1>1. SUBSET Procs = {{}, {p}} /\ pick({p}) = p /\ {p} \ {p} = {}
  OBVIOUS
<1>2. \E g : Eq(g)
  <2>. DEFINE h == [s \in SUBSET Procs |-> IF s = {} THEN 0 ELSE Owed(p) + 0]
  <2>1. h[{}] = 0
    OBVIOUS
  <2>2. Eq(h)
    BY <1>1, <2>1
  <2>. QED
    BY <2>2
<1>3. Eq(iter)
  <2>. HIDE DEF Eq
  <2>. QED
    BY <1>2
<1>4. iter[{}] = 0 /\ iter[{p}] = Owed(p) + iter[{}]
  <2>. HIDE DEF iter
  <2>1. ASSUME NEW s \in SUBSET Procs
        PROVE  iter[s] = IF s = {} THEN 0 ELSE Owed(pick(s)) + iter[s \ {pick(s)}]
    BY <1>3
  <2>2. {} \in SUBSET Procs /\ {p} \in SUBSET Procs /\ {p} # {}
    OBVIOUS
  <2>3. iter[{p}] = Owed(pick({p})) + iter[{p} \ {pick({p})}]
    BY <2>1, <2>2
  <2>4. iter[{}] = 0
    BY <2>1, <2>2
  <2>. QED
    BY <1>1, <2>3, <2>4
<1>5. MapThenSumSet(Owed, Procs) = iter[Procs]
  BY DEF MapThenSumSet, MapThenFoldSet
<1>. QED
  BY <1>4, <1>5

LEMMA SameEmpty == Log!EmptyProjection = EmptyProjection
BY DEF Log!EmptyProjection, EmptyProjection

LEMMA InitLog == Init => LogInv
<1>. SUFFICES ASSUME Init PROVE LogInv
  OBVIOUS
<1>1. Len(ledger) = 0 /\ Ids(Whole) = {}
  BY FoldEmpty DEF Init, Whole, EmptyProjection, Ids
<1>2. LedgerLog
  BY <1>1 DEF Init, LedgerLog, FreshEntriesNeverCollide
<1>3. \A p \in Procs : LocalLog(proc[p])
  BY DEF Init, Idle, LocalLog, Before
<1>. QED
  BY <1>2, <1>3 DEF LogInv

LEMMA LogHas ==
    ASSUME LogInv, NEW p \in Procs
    PROVE  LocalLog(proc[p])
BY DEF LogInv

LEMMA LengthNat ==
    ASSUME SerialInv
    PROVE  Len(ledger) \in Nat /\ MaxEvents \in Nat /\ ledger \in Seq(Event)
BY StoreAssumption DEF SerialInv, TabInv, LedgerInv

\* A step that appends nothing.
LEMMA LogLocal ==
    ASSUME Serial, LogInv, NEW p \in Procs, LocalLog(proc'[p]), ledger' = ledger
    PROVE  LogInv'
<1>1. \A q \in Procs : q = p
  BY DEF Serial
<1>2. LocalLog(proc[p])' /\ LedgerLog'
  BY DEF LogInv, LedgerLog, LocalLog, FreshRef, Whole, FreshEntriesNeverCollide
<1>. QED
  BY <1>1, <1>2 DEF LogInv

LEMMA LogEnd ==
    ASSUME Serial, SerialInv, LogInv, NEW p \in Procs, Leave(p), ledger' = ledger
    PROVE  LogInv'
<1>1. proc'[p] = Idle
  BY LeaveStep DEF SerialInv
<1>2. LocalLog(Idle)
  BY DEF LocalLog, Idle, Before
<1>. QED
  BY <1>1, <1>2, LogLocal

\* A step between two places, with the command's own work untouched.
LEMMA LogKeep ==
    ASSUME Serial, LogInv, NEW p \in Procs, ledger' = ledger,
           proc'[p].op = proc[p].op, proc'[p].body = proc[p].body,
           proc'[p].targets = proc[p].targets,
           proc[p].pc # "idle", proc'[p].pc \notin {"idle", "guard", "write"},
           proc'[p].pc \in Before => proc[p].pc \in Before
    PROVE  LogInv'
<1>1. LocalLog(proc'[p])
  BY LogHas DEF LocalLog, FromMenu
<1>. QED
  BY <1>1, LogLocal

LEMMA LogStart ==
    ASSUME Serial, SerialInv, LogInv, NEW p \in Procs, Start(p)
    PROVE  LogInv'
<1>1. PICK c \in Commands :
          /\ Room(Wanted(c.op))
          /\ proc' = [proc EXCEPT ![p].pc = FirstStep(c.op), ![p].op = c.op,
                                  ![p].body = c.body]
  BY DEF Start
<1>2. proc[p] = Idle
  BY LogHas DEF Start, At, LocalLog
<1>3. /\ proc'[p].pc = FirstStep(c.op) /\ proc'[p].op = c.op /\ proc'[p].body = c.body
      /\ proc'[p].targets = {}
  BY <1>1, <1>2 DEF SerialInv, IInv, Shape, Fields, Idle
<1>4. Len(ledger) + Wanted(c.op) <= MaxEvents
  <2>1. MapThenSumSet(Owed, Procs) = Owed(p) + 0
    BY SumOne DEF Serial
  <2>2. Owed(p) \in {0, 1}
    BY <1>2, FS_EmptySet DEF Owed, Idle, Wanted
  <2>3. Wanted(c.op) \in {0, 1}
    BY DEF Wanted
  <2>. QED
    BY <1>1, <2>1, <2>2, <2>3, LengthNat DEF Room
<1>5. /\ FirstStep(c.op) \in {"begin", "guard", "edit", "rebegin"}
      /\ FirstStep(c.op) = "guard" => c.op \in {"outcome", "session"}
  BY StoreAssumption DEF FirstStep
<1>6. FromMenu(proc'[p])
  BY <1>3 DEF FromMenu
<1>7. c.op \in Appending => Len(ledger) < MaxEvents
  BY <1>4, LengthNat DEF Wanted
<1>8. IsFiniteSet({}) /\ Len(ledger) + Cardinality({}) <= MaxEvents
  BY <1>4, LengthNat, FS_EmptySet DEF Wanted
<1>9. LocalLog(proc'[p])
  <2>1. proc'[p].pc \notin {"idle", "write"}
    BY <1>3, <1>5
  <2>2. proc'[p].pc = "guard" => proc'[p].op \in {"outcome", "session"}
    BY <1>3, <1>5
  <2>3. proc'[p].op = "verify" => IsFiniteSet(proc'[p].targets)
                               /\ Len(ledger) + Cardinality(proc'[p].targets) <= MaxEvents
    BY <1>3, <1>8
  <2>4. proc'[p].op \in Appending => Len(ledger) < MaxEvents
    BY <1>3, <1>7
  <2>. QED
    BY <1>6, <2>1, <2>2, <2>3, <2>4 DEF LocalLog, Appending
<1>. QED
  BY <1>9, LogLocal DEF Start, files

LEMMA LogSync ==
    ASSUME Serial, SerialInv, LogInv, NEW p \in Procs,
           BeginSync(p) \/ FoldOne(p) \/ Commit(p)
    PROVE  LogInv'
<1>1. CASE BeginSync(p)
  <2>1. /\ proc'[p].pc = (IF proc[p].pc = "begin" THEN "fold" ELSE "refold")
        /\ proc[p].pc \in {"begin", "rebegin"}
        /\ proc'[p].op = proc[p].op /\ proc'[p].body = proc[p].body
        /\ proc'[p].targets = proc[p].targets
    BY <1>1 DEF BeginSync, SerialInv, IInv, Shape, Fields
  <2>2. /\ proc[p].pc # "idle" /\ proc'[p].pc \notin {"idle", "guard", "write"}
        /\ proc'[p].pc \in Before => proc[p].pc \in Before
    BY <2>1 DEF Before
  <2>3. ledger' = ledger
    BY <1>1 DEF BeginSync, files
  <2>. QED
    BY <2>1, <2>2, <2>3, LogKeep
<1>2. CASE FoldOne(p)
  <2>. DEFINE more == Apply(proc[p].work, proc[p].snap[FoldNext(p)], config)
  <2>1. proc' = [proc EXCEPT ![p].work = more] /\ proc[p].pc \in {"fold", "refold"}
    BY <1>2 DEF FoldOne, Folding
  <2>. HIDE DEF more
  <2>2. /\ proc'[p].pc = proc[p].pc
        /\ proc'[p].op = proc[p].op /\ proc'[p].body = proc[p].body
        /\ proc'[p].targets = proc[p].targets
    BY <2>1 DEF SerialInv, IInv, Shape, Fields
  <2>. QED
    BY <1>2, <2>1, <2>2, LogKeep DEF FoldOne, files
<1>3. CASE Commit(p)
  <2>. DEFINE to == IF At(p, "refold") THEN "render1" ELSE AfterSync(proc[p].op)
  <2>1. /\ to \in {"render1", "allocate", "select", "idle"}
        /\ to \in {"allocate", "select"} => proc[p].pc \in Before
    BY <1>3 DEF AfterSync, Commit, Folding, At, Before
  <2>2. CASE to = "idle"
    BY <1>3, <2>2, LogEnd DEF Commit
  <2>3. CASE to # "idle"
    <3>1. proc' = [proc EXCEPT ![p].pc = to, ![p].snap = << >>, ![p].work = EmptyProjection]
      BY <1>3, <2>3 DEF Commit
    <3>. HIDE DEF to
    <3>2. /\ proc'[p].pc = to
          /\ proc'[p].op = proc[p].op /\ proc'[p].body = proc[p].body
          /\ proc'[p].targets = proc[p].targets
      BY <3>1 DEF SerialInv, IInv, Shape, Fields
    <3>3. proc[p].pc # "idle" /\ ledger' = ledger
      BY <1>3 DEF Commit, Folding
    <3>4. proc'[p].pc \in Before => proc[p].pc \in Before
      BY <2>1, <3>2 DEF Before
    <3>. QED
      BY <2>1, <2>3, <3>2, <3>3, <3>4, LogKeep
  <2>. QED
    BY <2>2, <2>3
<1>. QED
  BY <1>1, <1>2, <1>3

LEMMA LogRender ==
    ASSUME Serial, SerialInv, LogInv, NEW p \in Procs,
           \/ RenderIndex(p) \/ EmptyIndex(p) \/ WriteIndex(p)
           \/ RenderCalibration(p) \/ EmptyCalibration(p) \/ WriteCalibration(p)
    PROVE  LogInv'
<1>1. proc[p].pc \in Publishing /\ ledger' = ledger
  BY DEF RenderIndex, EmptyIndex, WriteIndex, RenderCalibration, EmptyCalibration,
         WriteCalibration, At, Publishing, files
<1>2. CASE Leave(p)
  BY <1>1, <1>2, LogEnd
<1>3. CASE ~Leave(p)
  <2>1. /\ proc'[p].pc \in Publishing
        /\ proc'[p].op = proc[p].op /\ proc'[p].body = proc[p].body
        /\ proc'[p].targets = proc[p].targets
    BY <1>3 DEF RenderIndex, EmptyIndex, WriteIndex, RenderCalibration, EmptyCalibration,
                WriteCalibration, Goto, Publishing, SerialInv, IInv, Shape, Fields
  <2>. QED
    BY <1>1, <2>1, LogKeep DEF Publishing, Before
<1>. QED
  BY <1>2, <1>3

\* The id record is given is one no event has used.
LEMMA LogAllocate ==
    ASSUME Serial, ShortLedger, SerialInv, LogInv, NEW p \in Procs, Allocate(p)
    PROVE  LogInv'
<1>. DEFINE n == NextLearningId(Ids(db))
<1>1. /\ proc[p].pc = "allocate" /\ proc[p].op = "record" /\ ledger' = ledger
      /\ db = Whole /\ proc[p].body \in Body
  BY NowHas, AppliedAll DEF Allocate, At, LocalNow, LocalTab, files
<1>2. Len(ledger) < MaxEvents /\ FromMenu(proc[p])
  BY <1>1, LogHas DEF LocalLog, Before, Appending
<1>3. FreshRef(n)
  <2>1. Ids(Whole) \subseteq 0..Len(ledger) /\ Len(ledger) \in Nat /\ Len(ledger) < Limit
    BY <1>2, LengthNat, IdAssumption DEF LogInv, LedgerLog, ShortLedger
  <2>2. n \in 1..Len(ledger)+1
    BY <1>1, <2>1, NextIdNat
  <2>3. n \notin Ids(Whole)
    BY <1>1, <2>1, NextIdFresh
  <2>. QED
    BY <2>2, <2>3 DEF FreshRef
<1>4. proc' = [proc EXCEPT ![p].body.ref = n, ![p].pc = "guard"]
  BY DEF Allocate
<1>. HIDE DEF n
<1>5. /\ proc'[p].pc = "guard" /\ proc'[p].op = "record"
      /\ proc'[p].body = [proc[p].body EXCEPT !.ref = n]
  BY <1>1, <1>4 DEF SerialInv, IInv, Shape, Fields
<1>6. proc'[p].body.ref = n
  BY <1>1, <1>5 DEF Body
<1>7. FromMenu(proc'[p])
  <2>1. PICK c \in Commands :
            /\ c.op = "record"
            /\ \/ proc[p].body = c.body
               \/ proc[p].body = [c.body EXCEPT !.ref = proc[p].body.ref]
    BY <1>1, <1>2 DEF FromMenu
  <2>2. c.body \in Body
    BY StoreAssumption
  <2>3. proc'[p].body = [c.body EXCEPT !.ref = n]
    BY <1>1, <1>5, <2>1, <2>2 DEF Body
  <2>. QED
    BY <1>5, <1>6, <2>1, <2>3 DEF FromMenu
<1>8. LocalLog(proc'[p])
  BY <1>2, <1>3, <1>5, <1>6, <1>7 DEF LocalLog, Appending
<1>. QED
  BY <1>1, <1>8, LogLocal

LEMMA LogSelect ==
    ASSUME Serial, SerialInv, LogInv, NEW p \in Procs, Select(p)
    PROVE  LogInv'
<1>1. PICK failed \in SUBSET {id \in LiveIds(db) : db.learning[id].verified} :
          /\ Room(Cardinality(failed))
          /\ proc' = [proc EXCEPT ![p].targets = failed,
                                  ![p].pc = IF failed = {} THEN "rebegin" ELSE "guard"]
  BY DEF Select
<1>2. /\ proc[p].pc = "select" /\ proc[p].op = "verify" /\ ledger' = ledger /\ db = Whole
  BY NowHas, AppliedAll DEF Select, At, LocalNow, LocalTab, files
<1>3. IsFiniteSet(failed) /\ Cardinality(failed) \in Nat
  <2>1. failed \subseteq 1..Len(ledger)
    BY <1>2 DEF LogInv, LedgerLog, LiveIds
  <2>2. IsFiniteSet(1..Len(ledger))
    BY FS_Interval, LengthNat
  <2>. QED
    BY <2>1, <2>2, FS_Subset, FS_CardinalityType
<1>4. Len(ledger) + Cardinality(failed) <= MaxEvents
  <2>1. MapThenSumSet(Owed, Procs) = Owed(p) + 0
    BY SumOne DEF Serial
  <2>2. Owed(p) \in Nat
    BY <1>2, LogHas, FS_CardinalityType DEF Owed, LocalLog
  <2>. QED
    BY <1>1, <1>3, <2>1, <2>2, LengthNat DEF Room
<1>5. /\ proc'[p].pc = (IF failed = {} THEN "rebegin" ELSE "guard")
      /\ proc'[p].op = "verify" /\ proc'[p].body = proc[p].body /\ proc'[p].targets = failed
  BY <1>1, <1>2 DEF SerialInv, IInv, Shape, Fields
<1>6. FromMenu(proc'[p])
  <2>1. FromMenu(proc[p])
    BY <1>2, LogHas DEF LocalLog
  <2>2. proc'[p].op = proc[p].op /\ proc'[p].body = proc[p].body
    BY <1>2, <1>5
  <2>. QED
    BY <2>1, <2>2 DEF FromMenu
<1>7. LocalLog(proc'[p])
  BY <1>3, <1>4, <1>5, <1>6 DEF LocalLog, Appending, Before
<1>. QED
  BY <1>2, <1>7, LogLocal

\* One target less, and there was room for it.
LEMMA OneTargetLess ==
    ASSUME SerialInv, LogInv, NEW p \in Procs, proc[p].op = "verify",
           proc[p].pc \in {"guard", "write"}
    PROVE  /\ IsFiniteSet(proc[p].targets \ {Target(p)})
           /\ Len(ledger) + 1 + Cardinality(proc[p].targets \ {Target(p)}) <= MaxEvents
           /\ Cardinality(proc[p].targets \ {Target(p)}) \in Nat
           /\ Target(p) \in 1..Len(ledger)
<1>1. IsFiniteSet(proc[p].targets) /\ Len(ledger) + Cardinality(proc[p].targets) <= MaxEvents
  BY LogHas DEF LocalLog
<1>2. Target(p) \in proc[p].targets
  BY NowHas, TargetIn DEF LocalTab
<1>3. Target(p) \in Ids(Whole)
  BY <1>2, NowHas DEF LocalNow, LiveIds
<1>4. /\ IsFiniteSet(proc[p].targets \ {Target(p)})
      /\ Cardinality(proc[p].targets \ {Target(p)}) = Cardinality(proc[p].targets) - 1
  BY <1>1, <1>2, FS_RemoveElement
<1>5. /\ Cardinality(proc[p].targets) \in Nat
      /\ Cardinality(proc[p].targets \ {Target(p)}) \in Nat
  BY <1>1, <1>4, FS_CardinalityType
<1>6. Len(ledger) + 1 + Cardinality(proc[p].targets \ {Target(p)}) <= MaxEvents
  BY <1>1, <1>4, <1>5, LengthNat
<1>. QED
  BY <1>3, <1>4, <1>5, <1>6 DEF LogInv, LedgerLog

LEMMA LogGuard ==
    ASSUME Serial, SerialInv, LogInv, NEW p \in Procs, GuardRefuses(p) \/ CountLedger(p)
    PROVE  LogInv'
<1>0. proc[p].pc = "guard" /\ ledger' = ledger /\ LocalLog(proc[p])
  BY LogHas DEF GuardRefuses, CountLedger, At, files
<1>1. CASE GuardRefuses(p) /\ proc[p].op = "verify"
  <2>. DEFINE rest == proc[p].targets \ {Target(p)}
  <2>1. proc' = [proc EXCEPT ![p].targets = rest,
                             ![p].pc = IF rest = {} THEN "rebegin" ELSE "guard"]
    BY <1>1 DEF GuardRefuses
  <2>2. /\ IsFiniteSet(rest)
        /\ Len(ledger) + Cardinality(rest) <= MaxEvents
    <3>1. /\ IsFiniteSet(rest) /\ Cardinality(rest) \in Nat
          /\ Len(ledger) + 1 + Cardinality(rest) <= MaxEvents
      BY <1>0, <1>1, OneTargetLess
    <3>. HIDE DEF rest
    <3>. QED
      BY <3>1, LengthNat
  <2>. HIDE DEF rest
  <2>3. /\ proc'[p].pc = (IF rest = {} THEN "rebegin" ELSE "guard")
        /\ proc'[p].op = "verify" /\ proc'[p].body = proc[p].body /\ proc'[p].targets = rest
    BY <1>1, <2>1 DEF SerialInv, IInv, Shape, Fields
  <2>4. FromMenu(proc'[p])
    BY <1>0, <1>1, <2>3 DEF LocalLog, FromMenu
  <2>5. LocalLog(proc'[p])
    BY <2>2, <2>3, <2>4 DEF LocalLog, Appending, Before
  <2>. QED
    BY <1>0, <2>5, LogLocal
<1>2. CASE GuardRefuses(p) /\ proc[p].op # "verify"
  BY <1>0, <1>2, LogEnd DEF GuardRefuses
<1>3. CASE CountLedger(p)
  <2>1. /\ proc'[p].pc = "write" /\ proc'[p].op = proc[p].op
        /\ proc'[p].body = proc[p].body /\ proc'[p].targets = proc[p].targets
        /\ proc'[p].seq = Len(ledger) + 1
    BY <1>3 DEF CountLedger, SerialInv, IInv, Shape, Fields
  <2>2. LocalLog(proc'[p])
    BY <1>0, <2>1 DEF LocalLog, FromMenu, Before
  <2>. QED
    BY <1>0, <2>2, LogLocal
<1>. QED
  BY <1>1, <1>2, <1>3

-----------------------------------------------------------------------------
(* The append, which is the abstract step.                                 *)

\* What a command of the menu may append is in the abstract log's menu.
LEMMA MenuBodies ==
    ASSUME NEW c \in Commands
    PROVE  /\ c.body.kind # "learn" => c.body \in LogBodies
           /\ \A n \in 1..MaxEvents :
                 /\ c.body.kind = "learn" => [c.body EXCEPT !.ref = n] \in LogBodies
                 /\ [c.body EXCEPT !.kind = "refute", !.ref = n] \in LogBodies
<1>. DEFINE appended == {d.body : d \in Commands}
            learns == {a \in appended : a.kind = "learn"}
            WithRef(b, n) == [b EXCEPT !.ref = n]
            Refuting(b, n) == [b EXCEPT !.kind = "refute", !.ref = n]
            others == {b \in appended : b.kind # "learn"}
            fresh == {WithRef(b, n) : b \in learns, n \in 1..MaxEvents}
            refuted == {Refuting(b, n) : b \in appended, n \in 1..MaxEvents}
<1>1. /\ c.body \in appended
      /\ c.body.kind = "learn" => c.body \in learns
      /\ c.body.kind # "learn" => c.body \in others
  OBVIOUS
<1>2. LogBodies = others \cup fresh \cup refuted
  BY DEF LogBodies
<1>. HIDE DEF WithRef, Refuting, appended, learns, others
<1>3. ASSUME NEW n \in 1..MaxEvents
      PROVE  /\ c.body.kind = "learn" => WithRef(c.body, n) \in fresh
             /\ Refuting(c.body, n) \in refuted
  BY <1>1
<1>. HIDE DEF fresh, refuted
<1>4. /\ c.body.kind # "learn" => c.body \in LogBodies
      /\ \A n \in 1..MaxEvents :
            /\ c.body.kind = "learn" => WithRef(c.body, n) \in LogBodies
            /\ Refuting(c.body, n) \in LogBodies
  BY <1>1, <1>2, <1>3
<1>. QED
  BY <1>4 DEF WithRef, Refuting

\* The body that is appended is one the abstract log may append, and a learn
\* event has an id that is free.
LEMMA AppendedBody ==
    ASSUME Serial, SerialInv, LogInv, NEW p \in Procs, AppendLine(p)
    PROVE  /\ Len(ledger) < MaxEvents
           /\ NewBody(p) \in LogBodies
           /\ NewBody(p).kind = "learn" => proc[p].op = "record" /\ FreshRef(NewBody(p).ref)
<1>1. proc[p].pc = "write" /\ LocalLog(proc[p]) /\ proc[p].body \in Body
  BY LogHas, NowHas DEF AppendLine, At, LocalTab
<1>2. PICK c \in Commands :
          /\ c.op = proc[p].op
          /\ \/ proc[p].body = c.body
             \/ proc[p].op = "record" /\ proc[p].body = [c.body EXCEPT !.ref = proc[p].body.ref]
  BY <1>1 DEF LocalLog, FromMenu
<1>3. c.body \in Body /\ c.body.kind \in Writes(c.op)
  BY StoreAssumption
<1>5. CASE proc[p].op = "verify"
  <2>1. proc[p].body = c.body
    BY <1>2, <1>5
  <2>2. /\ Len(ledger) < MaxEvents /\ Target(p) \in 1..MaxEvents
    <3>. DEFINE left == Cardinality(proc[p].targets \ {Target(p)})
    <3>1. left \in Nat /\ Len(ledger) + 1 + left <= MaxEvents /\ Target(p) \in 1..Len(ledger)
      BY <1>1, <1>5, OneTargetLess
    <3>. HIDE DEF left
    <3>. QED
      BY <3>1, LengthNat
  <2>3. NewBody(p) = [c.body EXCEPT !.kind = "refute", !.ref = Target(p)]
    BY <1>5, <2>1 DEF NewBody
  <2>4. NewBody(p).kind = "refute"
    BY <1>3, <2>3 DEF Body
  <2>5. NewBody(p) \in LogBodies
    BY <2>2, <2>3, MenuBodies
  <2>. QED
    BY <2>2, <2>4, <2>5
<1>6. CASE proc[p].op = "record"
  <2>1. Len(ledger) < MaxEvents /\ FreshRef(proc[p].body.ref)
    BY <1>1, <1>6 DEF LocalLog, Before, Appending
  <2>2. c.body.kind = "learn" /\ NewBody(p) = proc[p].body
    BY <1>2, <1>3, <1>6 DEF Writes, NewBody
  <2>3. proc[p].body = [c.body EXCEPT !.ref = proc[p].body.ref]
    BY <1>1, <1>2, <1>3 DEF Body
  <2>4. proc[p].body.ref \in 1..MaxEvents
    BY <2>1, LengthNat DEF FreshRef
  <2>5. NewBody(p) \in LogBodies
    BY <2>2, <2>3, <2>4, MenuBodies
  <2>. QED
    BY <1>6, <2>1, <2>2, <2>5
<1>7. CASE proc[p].op \in {"outcome", "session", "calibrate_set"}
  <2>1. Len(ledger) < MaxEvents /\ NewBody(p) = c.body
    BY <1>1, <1>2, <1>7 DEF LocalLog, Before, Appending, NewBody
  <2>2. c.body.kind # "learn"
    BY <1>2, <1>3, <1>7 DEF Writes, Retiring
  <2>3. NewBody(p) \in LogBodies
    BY <2>1, <2>2, MenuBodies
  <2>. QED
    BY <2>1, <2>2, <2>3
<1>. QED
  BY <1>1, <1>5, <1>6, <1>7 DEF LocalLog, Appending

LEMMA LogAppend ==
    ASSUME Serial, SerialInv, LogInv, NEW p \in Procs, AppendLine(p)
    PROVE  LogInv' /\ Log!LogNext
<1>. DEFINE body == NewBody(p)
            e == [seq |-> Len(ledger) + 1, body |-> body]
            rest == IF proc[p].op = "verify" THEN proc[p].targets \ {Target(p)} ELSE {}
            n == Len(ledger)
<1>1. /\ e \in Event /\ ledger' = Append(ledger, e)
      /\ proc[p].pc = "write" /\ LocalLog(proc[p])
      /\ proc'[p].pc = (IF rest = {} THEN "rebegin" ELSE "guard")
      /\ proc'[p].op = proc[p].op /\ proc'[p].body = proc[p].body
      /\ proc'[p].targets = rest
  <2>1. proc[p].pc = "write" /\ LocalLog(proc[p]) /\ proc[p].seq = n + 1
    BY LogHas DEF AppendLine, At, LocalLog
  <2>. QED
    BY <2>1, AppendEffect DEF SerialInv
<1>2. Whole' = Apply(Whole, e, InitialConfig)
  BY <1>1, WholeAppend
<1>3. /\ n < MaxEvents /\ body \in LogBodies
      /\ body.kind = "learn" => proc[p].op = "record" /\ FreshRef(body.ref)
  BY AppendedBody
<1>4. /\ n \in Nat /\ Len(ledger') = n + 1 /\ ledger'[n+1] = e
      /\ \A k \in 1..n : ledger'[k] = ledger[k]
  BY <1>1, LengthNat
<1>5. Ids(Whole') = (IF body.kind = "learn" THEN Ids(Whole) \cup {body.ref} ELSE Ids(Whole))
  BY <1>2, WholeType, ApplyIds
<1>6. LedgerLog'
  <2>1. Ids(Whole') \subseteq 1..n+1
    BY <1>3, <1>4, <1>5 DEF LogInv, LedgerLog, FreshRef
  <2>2. ASSUME NEW k \in 1..n+1
        PROVE  /\ ledger'[k].seq = k
               /\ ledger'[k].body.kind = "learn" => ledger'[k].body.ref \in Ids(Whole')
    <3>1. CASE k = n + 1
      BY <1>4, <1>5, <3>1
    <3>2. CASE k \in 1..n
      BY <1>4, <1>5, <3>2 DEF LogInv, LedgerLog
    <3>. QED
      BY <1>4, <3>1, <3>2
  <2>3. DOMAIN ledger' = 1..n+1
    BY <1>1, <1>4, LengthNat
  <2>4. \A k \in 1..n : body.kind = "learn" /\ ledger[k].body.kind = "learn" =>
                             ledger[k].body.ref # body.ref
    BY <1>3 DEF FreshRef, LogInv, LedgerLog
  <2>5. FreshEntriesNeverCollide'
    <3>. SUFFICES ASSUME NEW j \in 1..n+1, NEW k \in 1..n+1, j # k,
                         ledger'[j].body.kind = "learn", ledger'[k].body.kind = "learn"
                  PROVE  ledger'[j].body.ref # ledger'[k].body.ref
      BY <2>3 DEF FreshEntriesNeverCollide
    <3>1. CASE j = n + 1 /\ k \in 1..n
      BY <1>4, <2>4, <3>1
    <3>2. CASE k = n + 1 /\ j \in 1..n
      BY <1>4, <2>4, <3>2
    <3>3. CASE j \in 1..n /\ k \in 1..n
      BY <1>4, <3>3, LengthNat DEF LogInv, LedgerLog, FreshEntriesNeverCollide
    <3>. QED
      BY <1>4, <3>1, <3>2, <3>3
  <2>. QED
    BY <1>4, <2>1, <2>2, <2>5 DEF LedgerLog
<1>7. LocalLog(proc[p])'
  <2>1. FromMenu(proc'[p])
    BY <1>1 DEF LocalLog, FromMenu
  <2>2. CASE proc[p].op = "verify"
    <3>1. IsFiniteSet(rest) /\ Len(ledger') + Cardinality(rest) <= MaxEvents
      <4>1. /\ rest = proc[p].targets \ {Target(p)} /\ IsFiniteSet(rest)
            /\ Cardinality(rest) \in Nat /\ n + 1 + Cardinality(rest) <= MaxEvents
        BY <1>1, <2>2, OneTargetLess
      <4>. HIDE DEF rest
      <4>. QED
        BY <1>4, <4>1
    <3>. HIDE DEF rest, e
    <3>. QED
      BY <1>1, <2>1, <2>2, <3>1 DEF LocalLog, FromMenu, Appending, Before
  <2>3. CASE proc[p].op # "verify"
    <3>1. proc'[p].pc = "rebegin"
      BY <1>1, <2>3
    <3>. QED
      BY <1>1, <2>1, <2>3, <3>1 DEF LocalLog, FromMenu, Before
  <2>. QED
    BY <2>2, <2>3
<1>8. LogInv'
  BY <1>6, <1>7 DEF LogInv, Serial
<1>9. Log!AppendEvent(body)
  BY <1>1, <1>2, <1>3, SameApply DEF Log!AppendEvent, Whole
<1>10. Log!Record(body) \/ Log!Feedback(body)
  <2>1. CASE body.kind = "learn"
    <3>1. \A k \in DOMAIN ledger : ledger[k].body.kind = "learn" => ledger[k].body.ref # body.ref
      BY <1>3, <2>1, LengthNat DEF FreshRef, LogInv, LedgerLog
    <3>. QED
      BY <1>9, <2>1, <3>1 DEF Log!Record
  <2>2. CASE body.kind # "learn"
    BY <1>9, <2>2 DEF Log!Feedback
  <2>. QED
    BY <2>1, <2>2
<1>. QED
  BY <1>3, <1>8, <1>10 DEF Log!LogNext

LEMMA NextLog ==
    Serial /\ ShortLedger => (SerialInv /\ LogInv /\ [Next]_vars => LogInv' /\ [Log!LogNext]_ledger)
<1>. SUFFICES ASSUME Serial, ShortLedger, SerialInv, LogInv, [Next]_vars
              PROVE  LogInv' /\ [Log!LogNext]_ledger
  OBVIOUS
<1>1. ASSUME NEW p \in Procs, Start(p) \/ Crash(p)
      PROVE  LogInv' /\ ledger' = ledger
  BY <1>1, LogStart, LogEnd DEF Start, Crash, files
<1>2. ASSUME NEW p \in Procs, BusyTimeout(p) \/ FoldFails(p)
      PROVE  LogInv' /\ ledger' = ledger
  BY <1>2, LogEnd DEF BusyTimeout, FoldFails, files
<1>3. ASSUME NEW p \in Procs, Step(p)
      PROVE  LogInv' /\ (ledger' = ledger \/ Log!LogNext)
  <2>1. ~(EditSettings(p) \/ Truncate(p) \/ Rewrite(p))
    BY NoSettings DEF SerialInv, EditSettings, Truncate, Rewrite, At
  <2>2. CASE AppendLine(p)
    BY <2>2, LogAppend
  <2>3. CASE ~AppendLine(p)
    <3>1. ledger' = ledger
      BY <1>3, <2>1, <2>3 DEF Step, BeginSync, BusyTimeout, FoldOne, FoldFails, Commit, Allocate,
                Select, GuardRefuses, CountLedger, RenderIndex, EmptyIndex, WriteIndex,
                RenderCalibration, EmptyCalibration, WriteCalibration, files
    <3>. QED
      BY <1>2, <1>3, <2>1, <2>3, <3>1, LogSync, LogAllocate, LogSelect, LogGuard, LogRender
         DEF Step
  <2>. QED
    BY <2>2, <2>3
<1>4. ~Pull
  BY DEF Serial, Pull
<1>5. CASE UNCHANGED vars
  BY <1>5 DEF vars, LogInv, LedgerLog, LocalLog, FreshRef, Whole, FreshEntriesNeverCollide
<1>. QED
  BY <1>1, <1>3, <1>4, <1>5 DEF Next

LEMMA SpecLog == Serial /\ ShortLedger => (Spec => [](SerialInv /\ LogInv))
<1>. SUFFICES ASSUME Serial, ShortLedger PROVE Spec => [](SerialInv /\ LogInv)
  OBVIOUS
<1>1. Init => SerialInv /\ LogInv
  BY InitIInv, InitTab, InitFold, InitNow, InitLog DEF SerialInv
<1>2. SerialInv /\ LogInv /\ [Next]_vars => (SerialInv /\ LogInv)'
  BY NextIInv, NextTab, NextFold, NextNow, NextLog DEF SerialInv, Serial
<1>. QED
  BY <1>1, <1>2, PTL DEF Spec

\* One at a time, record keeps what the docstring of next_learning_id claims:
\* no two learn events carry the same id.
THEOREM SerialEntriesNeverCollide ==
    Serial /\ ShortLedger => (Spec => []FreshEntriesNeverCollide)
<1>. SUFFICES ASSUME Serial, ShortLedger PROVE Spec => []FreshEntriesNeverCollide
  OBVIOUS
<1>1. LogInv => FreshEntriesNeverCollide
  BY DEF LogInv, LedgerLog
<1>. QED
  BY <1>1, SpecLog, PTL

\* One at a time, the commands implement the abstract log.
THEOREM StoreImplementsLog == Serial /\ ShortLedger => (Spec => ImplementsLog)
<1>. SUFFICES ASSUME Serial, ShortLedger PROVE Spec => ImplementsLog
  OBVIOUS
<1>1. Init => Log!LogInit
  BY FoldEmpty, SameEmpty DEF Init, Log!LogInit
<1>2. SerialInv /\ LogInv /\ [Next]_vars => [Log!LogNext]_ledger
  BY NextLog
<1>. QED
  BY <1>1, <1>2, SpecLog, PTL DEF Spec, ImplementsLog

-----------------------------------------------------------------------------
(* Retirement, as the readers of the database see it.                      *)

\* No commit brings a retired entry back: the database may lag behind the
\* ledger after a kill, but never holds a retirement the ledger lost.
RetirementIsFinal == [][RetiredIds(db) \subseteq RetiredIds(db')]_vars

RetiredInv == RetiredIds(db) \subseteq RetiredIds(Whole)

LEMMA NextRetired ==
    Serial => (SerialInv /\ LogInv /\ RetiredInv /\ [Next]_vars =>
                  RetiredInv' /\ RetiredIds(db) \subseteq RetiredIds(db'))
<1>. SUFFICES ASSUME Serial, SerialInv, LogInv, RetiredInv, [Next]_vars
              PROVE  RetiredInv' /\ RetiredIds(db) \subseteq RetiredIds(db')
  OBVIOUS
<1>1. ASSUME NEW p \in Procs, Commit(p)
      PROVE  RetiredInv' /\ RetiredIds(db) \subseteq RetiredIds(db')
  <2>1. /\ db' = proc[p].work /\ ledger' = ledger /\ Folding(p) /\ ~HasNext(p)
    BY <1>1 DEF Commit
  <2>2. proc[p].snap = ledger
    BY <2>1, NowHas DEF LocalNow, Folding
  <2>3. proc[p].work.applied = Len(ledger)
    BY <2>1, <2>2 DEF SerialInv, IInv, ReadInv, HasNext, FoldNext
  <2>4. proc[p].work = FoldOf(Len(ledger))
    BY <2>1, <2>3 DEF SerialInv, FoldInv, LocalFold, Folding
  <2>5. SubSeq(ledger, 1, Len(ledger)) = ledger
    BY DEF SerialInv, TabInv, LedgerInv
  <2>6. db' = Whole /\ Whole' = Whole
    BY <2>1, <2>4, <2>5 DEF FoldOf, Whole
  <2>. QED
    BY <2>6 DEF RetiredInv
<1>2. ASSUME NEW p \in Procs, AppendLine(p)
      PROVE  RetiredInv' /\ RetiredIds(db) \subseteq RetiredIds(db')
  <2>. DEFINE e == [seq |-> Len(ledger) + 1, body |-> NewBody(p)]
  <2>1. proc[p].seq = Len(ledger) + 1
    BY <1>2, LogHas DEF AppendLine, At, LocalLog
  <2>2. e \in Event /\ ledger' = Append(ledger, e)
    BY <1>2, <2>1, AppendEffect DEF SerialInv
  <2>3. e.body.kind = "learn" => e.body.ref \notin Ids(Whole)
    BY <1>2, AppendedBody DEF FreshRef
  <2>. HIDE DEF e
  <2>4. Whole' = Apply(Whole, e, InitialConfig)
    BY <2>2, WholeAppend
  <2>5. RetiredIds(Whole) \subseteq RetiredIds(Whole')
    BY <2>2, <2>3, <2>4, WholeType, ApplyRetired, StoreAssumption
  <2>6. db' = db
    BY <1>2 DEF AppendLine
  <2>. QED
    BY <2>5, <2>6 DEF RetiredInv
<1>3. CASE UNCHANGED <<ledger, db>>
  BY <1>3 DEF RetiredInv, Whole
<1>4. ASSUME NEW p \in Procs, Start(p) \/ Crash(p) PROVE UNCHANGED <<ledger, db>>
  BY <1>4 DEF Start, Crash, files
<1>5. ASSUME NEW p \in Procs, Step(p), ~Commit(p), ~AppendLine(p)
      PROVE  UNCHANGED <<ledger, db>>
  BY <1>5 DEF Step, BeginSync, BusyTimeout, FoldOne, FoldFails, Allocate, Select,
              GuardRefuses, CountLedger, EditSettings, Truncate, Rewrite,
              RenderIndex, EmptyIndex, WriteIndex,
              RenderCalibration, EmptyCalibration, WriteCalibration, files
<1>6. ~Pull
  BY DEF Serial, Pull
<1>7. CASE UNCHANGED vars
  BY <1>3, <1>7 DEF vars
<1>. QED
  BY <1>1, <1>2, <1>3, <1>4, <1>5, <1>6, <1>7 DEF Next

\* "A refutation cannot be undone by further use" (_restatus), across kills
\* and refolds: once the database shows an entry retired, every later commit
\* does.  Two commands that record the same id can break it: the fold replaces
\* the row, retired or not.
THEOREM RetirementStaysFinal == Serial /\ ShortLedger => (Spec => RetirementIsFinal)
<1>. SUFFICES ASSUME Serial, ShortLedger PROVE Spec => RetirementIsFinal
  OBVIOUS
<1>1. Init => RetiredInv
  BY DEF Init, RetiredInv, RetiredIds, Ids, EmptyProjection
<1>2. SerialInv /\ LogInv /\ RetiredInv /\ [Next]_vars =>
          RetiredInv' /\ [RetiredIds(db) \subseteq RetiredIds(db')]_vars
  BY NextRetired
<1>. QED
  BY <1>1, <1>2, SpecLog, PTL DEF Spec, RetirementIsFinal
=============================================================================
