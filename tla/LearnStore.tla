----------------------------- MODULE LearnStore -----------------------------
(***************************************************************************)
(* tools/learn.py as processes: every command line is a process that reads *)
(* and writes four shared files (the ledger, the configuration, the SQLite *)
(* database and the two generated views) in several steps, may be killed   *)
(* between any two of them, and may overlap another command.               *)
(*                                                                         *)
(* A step is what the operating system or SQLite makes atomic: one read of *)
(* a file, one write, one committed transaction.  Inside the transaction   *)
(* of sync the events are folded one by one, because the configuration is  *)
(* read again for each of them.                                            *)
(***************************************************************************)
EXTENDS LearnFold, FiniteSetsExt

CONSTANTS
    Procs,          \* commands that may be running at the same time
    Commands,       \* the command lines users type
    Pulls,          \* event bodies another clone may have committed
    InitialConfig,  \* config.toml as it ships
    MaxEvents,      \* bound on the length of the ledger
    None            \* no process, no configuration, no command

\* op is the handler; body is the event it appends, if any.
Ops == {"record", "outcome", "session", "calibrate_set", "verify", "query", "sync"}

\* The verbs each handler writes; verify's is NewBody's, the others write nothing.
Writes(op) ==
    CASE op = "record"        -> {"learn"}
      [] op = "outcome"       -> {"use"} \cup Retiring
      [] op = "session"       -> {"session"}
      [] op = "calibrate_set" -> {"calibrate"}
      [] OTHER                -> Kinds

ASSUME StoreAssumption ==
    /\ Commands \subseteq [op : Ops, body : Body]
    /\ \A c \in Commands : c.body.kind \in Writes(c.op)
    /\ Pulls \subseteq Body
    /\ InitialConfig \in Config
    /\ MaxEvents \in Nat
    /\ None \notin Procs /\ None \notin Config

VARIABLES
    ledger,     \* learning/ledger.jsonl
    config,     \* learning/config.toml; None while a rewrite has truncated it
    db,         \* the committed content of learning/learning.db
    lock,       \* the process holding SQLite's write lock, or None
    index,      \* INDEX.md: the projection it was rendered from; None while emptied
    calibration,\* calibration.md: likewise
    acked,      \* positions of the events whose command reported success
    proc        \* what each process is doing

vars == <<ledger, config, db, lock, index, calibration, acked, proc>>
files == <<ledger, config, db, index, calibration>>

-----------------------------------------------------------------------------
(* A process: where it is, and its local variables.                        *)

Pcs == {"idle",
        "begin", "fold",               \* sync before the command's own work
        "allocate", "select",          \* what record and verify read from the index
        "guard", "write",              \* append_event
        "edit", "truncate", "rewrite", \* _apply_settings
        "rebegin", "refold",           \* sync after it
        \* write_views
        "render1", "empty1", "write1", "render2", "empty2", "write2"}

Idle == [pc |-> "idle", op |-> None, body |-> None, targets |-> {}, seq |-> 0,
         mine |-> {}, snap |-> << >>, work |-> EmptyProjection, page |-> EmptyProjection,
         text |-> None]

Init ==
    /\ ledger = << >>
    /\ config = InitialConfig
    /\ db = EmptyProjection
    /\ lock = None
    /\ index = EmptyProjection
    /\ calibration = EmptyProjection
    /\ acked = {}
    /\ proc = [p \in Procs |-> Idle]

At(p, pc)    == proc[p].pc = pc
Goto(p, pc)  == proc' = [proc EXCEPT ![p].pc = pc]
Leave(p)     == proc' = [proc EXCEPT ![p] = Idle]

Appending == {"record", "outcome", "session", "calibrate_set"}

\* How many events a command sets out to append, and p is still to append.
Wanted(op) == IF op \in Appending THEN 1 ELSE 0
Owed(p) == IF proc[p].op = "verify" THEN Cardinality(proc[p].targets)
           ELSE Wanted(proc[p].op) - Cardinality(proc[p].mine)

Room(extra) == Len(ledger) + MapThenSumSet(Owed, Procs) + extra <= MaxEvents

-----------------------------------------------------------------------------
(* The command line.                                                       *)

FirstStep(op) ==
    CASE op \in {"record", "verify", "query"} -> "begin"
      [] op \in {"outcome", "session"}        -> "guard"
      [] op = "calibrate_set"                 -> "edit"
      [] OTHER                                -> "rebegin"

\* FALSE: a command that would wait for the lock as long as it takes.
WaitForever(p) == FALSE

\* record's policy checks read config.toml first: an empty file has no
\* [write] section and the command dies.
Start(p) ==
    /\ At(p, "idle")
    /\ \E c \in Commands :
          /\ Room(Wanted(c.op))
          /\ c.op = "record" => config # None
          /\ proc' = [proc EXCEPT ![p].pc = FirstStep(c.op), ![p].op = c.op,
                                  ![p].body = c.body]
    /\ UNCHANGED <<files, lock, acked>>

\* The process is killed: an open transaction rolls back, the rest stays.
Crash(p) ==
    /\ ~At(p, "idle")
    /\ lock' = IF lock = p THEN None ELSE lock
    /\ Leave(p)
    /\ UNCHANGED <<files, acked>>

-----------------------------------------------------------------------------
(* sync: one transaction that empties the tables, reads the ledger and     *)
(* folds it.  The first DELETE takes the write lock, so the ledger is read *)
(* under it.                                                               *)

BeginSyncFromLast(p) ==
    /\ proc[p].pc \in {"begin", "rebegin"}
    /\ lock = None
    /\ lock' = p
    /\ proc' = [proc EXCEPT ![p].pc = IF @ = "begin" THEN "fold" ELSE "refold",
                            ![p].snap = ledger,
                            ![p].work = [db EXCEPT !.applied = IF @ = 0 THEN 0 ELSE @ - 1]]
    /\ UNCHANGED <<files, acked>>

BeginSyncWithEarlierRead(p) ==
    /\ proc[p].pc \in {"begin", "rebegin"}
    /\ lock = None
    /\ lock' = p
    /\ \E n \in 0..Len(ledger) :
          proc' = [proc EXCEPT ![p].pc = IF @ = "begin" THEN "fold" ELSE "refold",
                               ![p].snap = SubSeq(ledger, 1, n),
                               ![p].work = EmptyProjection]
    /\ UNCHANGED <<files, acked>>

BeginSync(p) ==
    /\ proc[p].pc \in {"begin", "rebegin"}
    /\ lock = None
    /\ lock' = p
    /\ proc' = [proc EXCEPT ![p].pc = IF @ = "begin" THEN "fold" ELSE "refold",
                            ![p].snap = ledger,
                            ![p].work = EmptyProjection]
    /\ UNCHANGED <<files, acked>>

\* sqlite3.connect waits five seconds for the lock, then the command dies.
BusyTimeout(p) ==
    /\ proc[p].pc \in {"begin", "rebegin"}
    /\ lock \notin {None, p}
    /\ Leave(p)
    /\ UNCHANGED <<files, lock, acked>>

Folding(p)  == proc[p].pc \in {"fold", "refold"}
FoldNext(p) == proc[p].work.applied + 1
HasNext(p)  == FoldNext(p) <= Len(proc[p].snap)

\* The event cannot be inserted, or its handler finds no dial to read.
CannotFold(p) ==
    \/ Refused(proc[p].snap, FoldNext(p))
    \/ config = None /\ NeedsConfig(proc[p].work, proc[p].snap[FoldNext(p)])

FoldOne(p) ==
    /\ Folding(p) /\ HasNext(p) /\ ~CannotFold(p)
    /\ proc' = [proc EXCEPT ![p].work = Apply(@, proc[p].snap[FoldNext(p)], config)]
    /\ UNCHANGED <<files, lock, acked>>

\* IntegrityError or KeyError: the transaction rolls back, the command dies.
FoldFails(p) ==
    /\ Folding(p) /\ HasNext(p) /\ CannotFold(p)
    /\ lock' = None
    /\ Leave(p)
    /\ UNCHANGED <<files, acked>>

\* A query (retrieve, status, a dry verify) prints its answer and is done.
AfterSync(op) ==
    CASE op = "record" -> "allocate"
      [] op = "verify" -> "select"
      [] OTHER         -> "idle"

Commit(p) ==
    /\ Folding(p) /\ ~HasNext(p)
    /\ db' = proc[p].work
    /\ lock' = None
    /\ LET to == IF At(p, "refold") THEN "render1" ELSE AfterSync(proc[p].op)
       IN  IF to = "idle" THEN Leave(p)
           ELSE proc' = [proc EXCEPT ![p].pc = to, ![p].snap = << >>,
                                     ![p].work = EmptyProjection]
    /\ UNCHANGED <<ledger, config, index, calibration, acked>>

-----------------------------------------------------------------------------
(* The command's own reads.                                                *)

AllocateAmongLive(p) ==
    /\ At(p, "allocate")
    /\ proc' = [proc EXCEPT ![p].body.ref = NextLearningId(LiveIds(db)), ![p].pc = "guard"]
    /\ UNCHANGED <<files, lock, acked>>

\* next_learning_id, on whatever the database now holds.
Allocate(p) ==
    /\ At(p, "allocate")
    /\ proc' = [proc EXCEPT ![p].body.ref = NextLearningId(Ids(db)), ![p].pc = "guard"]
    /\ UNCHANGED <<files, lock, acked>>

SelectRetiredToo(p) ==
    /\ At(p, "select")
    /\ \E failed \in SUBSET {id \in Ids(db) : db.learning[id].verified} :
          /\ Room(Cardinality(failed))
          /\ proc' = [proc EXCEPT ![p].targets = failed,
                                  ![p].pc = IF failed = {} THEN "rebegin" ELSE "guard"]
    /\ UNCHANGED <<files, lock, acked>>

\* verify --execute --refute-failures: the live entries with a command are
\* read, the commands run, and any of them may fail.
Select(p) ==
    /\ At(p, "select")
    /\ \E failed \in SUBSET {id \in LiveIds(db) : db.learning[id].verified} :
          /\ Room(Cardinality(failed))
          /\ proc' = [proc EXCEPT ![p].targets = failed,
                                  ![p].pc = IF failed = {} THEN "rebegin" ELSE "guard"]
    /\ UNCHANGED <<files, lock, acked>>

-----------------------------------------------------------------------------
(* append_event: guard the payload, count the ledger, append one line.     *)

\* refute_failures goes in id order.
Target(p) == CHOOSE id \in proc[p].targets : \A other \in proc[p].targets : id <= other

\* The payload looks like a credential.  Only refute_failures goes on.
GuardRefuses(p) ==
    /\ At(p, "guard")
    /\ IF proc[p].op = "verify"
       THEN LET rest == proc[p].targets \ {Target(p)}
            IN  proc' = [proc EXCEPT ![p].targets = rest,
                                     ![p].pc = IF rest = {} THEN "rebegin" ELSE "guard"]
       ELSE Leave(p)
    /\ UNCHANGED <<files, lock, acked>>

CountLedger(p) ==
    /\ At(p, "guard")
    /\ proc' = [proc EXCEPT ![p].seq = Len(ledger) + 1, ![p].pc = "write"]
    /\ UNCHANGED <<files, lock, acked>>

NewBody(p) ==
    IF proc[p].op = "verify"
    THEN [proc[p].body EXCEPT !.kind = "refute", !.ref = Target(p)]
    ELSE proc[p].body

AppendLineUnsynced(p) ==
    /\ At(p, "write")
    /\ ledger' = Append(ledger, [seq |-> proc[p].seq, body |-> NewBody(p)])
    /\ proc' = [proc EXCEPT ![p].mine = @ \cup {Len(ledger) + 1}, ![p].pc = "render1"]
    /\ UNCHANGED <<config, db, lock, index, calibration, acked>>

AppendLine(p) ==
    /\ At(p, "write")
    /\ ledger' = Append(ledger, [seq |-> proc[p].seq, body |-> NewBody(p)])
    /\ LET rest == IF proc[p].op = "verify" THEN proc[p].targets \ {Target(p)} ELSE {}
       IN  proc' = [proc EXCEPT ![p].mine = @ \cup {Len(ledger) + 1},
                                ![p].targets = rest, ![p].seq = 0,
                                ![p].pc = IF rest = {} THEN "rebegin" ELSE "guard"]
    /\ UNCHANGED <<config, db, lock, index, calibration, acked>>

-----------------------------------------------------------------------------
(* _apply_settings: read config.toml, edit one dial, write the whole text. *)

\* An unknown dial is refused; so is every dial of an empty file.
EditSettings(p) ==
    /\ At(p, "edit")
    /\ IF config = None THEN Leave(p)
       ELSE proc' = [proc EXCEPT
               ![p].text = [config EXCEPT ![proc[p].body.key] = proc[p].body.value],
               ![p].pc = "truncate"]
    /\ UNCHANGED <<files, lock, acked>>

\* write_text opens for writing, which empties the file ...
Truncate(p) ==
    /\ At(p, "truncate")
    /\ config' = None
    /\ Goto(p, "rewrite")
    /\ UNCHANGED <<ledger, db, lock, index, calibration, acked>>

\* ... and then writes the text.
Rewrite(p) ==
    /\ At(p, "rewrite")
    /\ config' = proc[p].text
    /\ proc' = [proc EXCEPT ![p].text = None, ![p].pc = "guard"]
    /\ UNCHANGED <<ledger, db, lock, index, calibration, acked>>

-----------------------------------------------------------------------------
(* write_views: render INDEX.md from the database and overwrite it, then    *)
(* the same for calibration.md; then the command reports success.          *)

\* One read of the configuration serves both reports.
RenderIndex(p) ==
    /\ At(p, "render1")
    /\ proc' = [proc EXCEPT ![p].page = db, ![p].text = config, ![p].pc = "empty1"]
    /\ UNCHANGED <<files, lock, acked>>

\* write_text again: opening empties the file.
EmptyIndex(p) ==
    /\ At(p, "empty1")
    /\ index' = None
    /\ Goto(p, "write1")
    /\ UNCHANGED <<ledger, config, db, lock, calibration, acked>>

WriteIndex(p) ==
    /\ At(p, "write1")
    /\ index' = proc[p].page
    /\ Goto(p, "render2")
    /\ UNCHANGED <<ledger, config, db, lock, calibration, acked>>

\* calibration.md prints the dials in force: without them the command dies.
RenderCalibration(p) ==
    /\ At(p, "render2")
    /\ IF proc[p].text = None THEN Leave(p)
       ELSE proc' = [proc EXCEPT ![p].page = db, ![p].pc = "empty2"]
    /\ UNCHANGED <<files, lock, acked>>

EmptyCalibration(p) ==
    /\ At(p, "empty2")
    /\ calibration' = None
    /\ Goto(p, "write2")
    /\ UNCHANGED <<ledger, config, db, lock, index, acked>>

WriteCalibration(p) ==
    /\ At(p, "write2")
    /\ calibration' = proc[p].page
    /\ acked' = acked \cup proc[p].mine
    /\ Leave(p)
    /\ UNCHANGED <<ledger, config, db, lock, index>>

-----------------------------------------------------------------------------
(* git: another clone appended a line after the first n of ours, and the   *)
(* conflict is resolved by keeping both sides.                             *)

Pull ==
    /\ Room(1)
    /\ \E n \in 0..Len(ledger), body \in Pulls :
          ledger' = Append(ledger, [seq |-> n + 1, body |-> body])
    /\ UNCHANGED <<config, db, lock, index, calibration, acked, proc>>

-----------------------------------------------------------------------------

Step(p) ==
    \/ BeginSync(p) \/ BusyTimeout(p) \/ FoldOne(p) \/ FoldFails(p) \/ Commit(p)
    \/ Allocate(p) \/ Select(p)
    \/ GuardRefuses(p) \/ CountLedger(p) \/ AppendLine(p)
    \/ EditSettings(p) \/ Truncate(p) \/ Rewrite(p)
    \/ RenderIndex(p) \/ EmptyIndex(p) \/ WriteIndex(p)
    \/ RenderCalibration(p) \/ EmptyCalibration(p) \/ WriteCalibration(p)

Next == (\E p \in Procs : Start(p) \/ Step(p) \/ Crash(p)) \/ Pull

Spec == Init /\ [][Next]_vars

\* The operating system keeps running a command that was started.
FairSpec == Spec /\ \A p \in Procs : WF_vars(Step(p))
-----------------------------------------------------------------------------
(* Types.                                                                  *)

OrNone(S) == S \cup {None}

ProcType == [pc : Pcs, op : OrNone(Ops), body : OrNone(Body), targets : SUBSET Nat,
             seq : Nat, mine : SUBSET Nat, snap : Seq(Event),
             text : OrNone(Config)]

TypeOK ==
    /\ ledger \in Seq(Event)
    /\ config \in OrNone(Config)
    /\ IsProjection(db)
    /\ \A view \in {index, calibration} : view # None => IsProjection(view)
    /\ lock \in OrNone(Procs)
    /\ acked \subseteq Nat
    /\ \A p \in Procs :
          /\ [f \in DOMAIN Idle \ {"work", "page"} |-> proc[p][f]] \in ProcType
          /\ IsProjection(proc[p].work) /\ IsProjection(proc[p].page)

-----------------------------------------------------------------------------
(* Properties that hold however commands overlap and wherever they die.    *)

\* The database never goes back to a shorter history: a slow command cannot
\* commit a fold older than the one another command committed meanwhile
\* (sync reads the ledger only once it holds the write lock).
CommitsNeverGoBack == [][db.applied <= db'.applied]_vars

\* No reader ever sees a partial or doubled fold: what is committed is the
\* fold of a prefix of the ledger, from empty tables, whatever the database
\* held before and whoever was killed while rebuilding it.
CommittedIsAFold ==
    /\ db.applied <= Len(ledger)
    /\ db = Fold(SubSeq(ledger, 1, db.applied), InitialConfig)

\* "Announce success only after the feedback and its derived artifacts
\* agree": the events of a command that reported success are in the database,
\* and no later command's commit drops them.
AckedIsCommitted == \A n \in acked : n <= db.applied

\* The committed tables agree with each other, also when a merged ledger
\* records an id twice (the CASCADE of schema.sql is what keeps them so).
DbTablesAgree == TablesAgree(db)

\* A command that was started ends: by finishing, by a refusal, or by the
\* busy timeout; no two commands wait for each other and a killed one holds
\* nobody up.
CommandsEnd == \A p \in Procs : ~At(p, "idle") ~> At(p, "idle")

-----------------------------------------------------------------------------
(* Properties of commands that run one at a time.                          *)

\* "Announce success only after the feedback and its derived artifacts
\* agree" (cmd_outcome): when a command reports success, the database and both
\* views are the fold of the whole ledger, its own events included, whatever
\* earlier commands left half done.
SuccessMeansAgreement ==
    [][\A p \in Procs : WriteCalibration(p) =>
          \A made \in {db, index', calibration'} : made = Fold(ledger, InitialConfig)]_vars

\* verify refutes only what is live when the refutation is appended
\* ("Retired entries are left alone", verify).
RefutesLiveOnly ==
    [][\A p \in Procs :
          (AppendLine(p) /\ proc[p].op = "verify") =>
              Target(p) \in LiveIds(Fold(ledger, InitialConfig))]_vars

\* The whole machinery implements the promise of LearnLog: every event has
\* its position as its number, every recorded id is fresh, and the history
\* folds without a refusal.
LogBodies ==
    LET appended == {c.body : c \in Commands}
    IN  {b \in appended : b.kind # "learn"}
        \cup {[b EXCEPT !.ref = n] : b \in {a \in appended : a.kind = "learn"},
                                      n \in 1..MaxEvents}
        \cup {[b EXCEPT !.kind = "refute", !.ref = n] : b \in appended, n \in 1..MaxEvents}

Log == INSTANCE LearnLog WITH log <- ledger, projection <- Fold(ledger, InitialConfig),
                              Bodies <- LogBodies, Cfg <- InitialConfig, MaxLog <- MaxEvents

\* (That is Log!LogSpec: the mapped projection moves only when the ledger does.)
ImplementsLog == Log!LogInit /\ [][Log!LogNext]_ledger

-----------------------------------------------------------------------------
(* What the documentation says and the code does not keep.                 *)

\* next_learning_id: "so a fresh entry cannot collide".
FreshEntriesNeverCollide ==
    \A m, n \in DOMAIN ledger :
        (m # n /\ ledger[m].body.kind = "learn" /\ ledger[n].body.kind = "learn") =>
            ledger[m].body.ref # ledger[n].body.ref

=============================================================================
