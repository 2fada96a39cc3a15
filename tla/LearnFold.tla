----------------------------- MODULE LearnFold -----------------------------
(***************************************************************************)
(* The fold of tools/learn.py: what one ledger event does to the tables    *)
(* `learning` and `usage` of the SQLite projection, and what a whole       *)
(* ledger folds into.                                                      *)
(*                                                                         *)
(* Learning ids are the numbers n of "L-nnnn"; confidence is in            *)
(* hundredths; claims, actions, triggers, notes and timestamps are left    *)
(* out, since neither status nor confidence depends on them.               *)
(***************************************************************************)
EXTENDS Integers, Sequences, FiniteSets

CONSTANTS
    Sessions,   \* session ids stamped on the events
    Base,       \* digits an id is written in; 10 in the code
    Limit       \* the first id that outgrows the zero-padding; 10^4 in the code

ASSUME IdAssumption == Base \in Nat \ {0} /\ Limit \in Nat \ {0}

-----------------------------------------------------------------------------
(* Events.  An event is a body stamped with a sequence number.  A body has *)
(* the fields of every kind; those its kind does not carry are ignored.    *)

Retired  == {"superseded", "refuted", "promoted"}
Statuses == {"candidate", "active"} \cup Retired

Retiring == {"refute", "supersede", "promote"}
Known    == {"learn", "use", "session", "calibrate"} \cup Retiring
Kinds    == Known \cup {"newer"}     \* a verb only a newer tool writes
Outcomes == {"helped", "noise", "contradicted"}
Evidence == {"observed", "told", "inferred"}

\* The dials of config.toml the fold reads.
Keys == {"base_observed", "base_told", "base_inferred",
         "helped_delta", "noise_delta", "floor", "ceiling",
         "min_evidence", "min_evidence_verified", "min_sessions"}

Config == [Keys -> Int]

Body == [kind : Kinds, session : Sessions, ref : Nat, verified : BOOLEAN,
         evidence : Evidence, outcome : Outcomes, key : Keys, value : Int]

Event == [seq : Nat, body : Body]

-----------------------------------------------------------------------------
(* The projection.                                                         *)

Row == [status : Statuses, helped : Nat, noise : Nat, sessions : Nat,
        verified : BOOLEAN, confidence : Int, created : Nat]

Usage == [seq : Nat, ref : Nat, session : Sessions, outcome : Outcomes]

\* learning: id -> row; usage: a set of rows; applied: applied_ledger_seq.
EmptyProjection == [learning |-> << >>, usage |-> {}, applied |-> 0]

IsProjection(p) ==
    /\ p = [learning |-> p.learning, usage |-> p.usage, applied |-> p.applied]
    /\ DOMAIN p.learning \subseteq Nat
    /\ p.learning \in [DOMAIN p.learning -> Row]
    /\ p.usage \subseteq Usage /\ IsFiniteSet(p.usage)
    /\ p.applied \in Nat

Ids(p)      == DOMAIN p.learning
StatusOf(p, id) == p.learning[id].status
RetiredIds(p) == {id \in Ids(p) : StatusOf(p, id) \in Retired}
LiveIds(p)  == Ids(p) \ RetiredIds(p)

UsageOf(usage, id)    == {u \in usage : u.ref = id}
HelpedOf(usage, id)   == {u \in UsageOf(usage, id) : u.outcome = "helped"}
AgainstOf(usage, id)  == {u \in UsageOf(usage, id) : u.outcome # "helped"}
SessionsOf(usage, id) == {u.session : u \in UsageOf(usage, id)}

\* A row's counters are what the usage rows of that entry add up to, every
\* usage row has a subject, and none is newer than the last folded event.
TablesAgree(p) ==
    /\ \A id \in Ids(p) :
          LET row == p.learning[id]
          IN  /\ row.helped = Cardinality(HelpedOf(p.usage, id))
              /\ row.noise  = Cardinality(AgainstOf(p.usage, id))
              /\ row.sessions = (IF UsageOf(p.usage, id) = {} THEN 1
                                 ELSE Cardinality(SessionsOf(p.usage, id)))
    /\ \A u \in p.usage : u.ref \in Ids(p) /\ u.seq \in 1..p.applied

-----------------------------------------------------------------------------
(* One event.                                                              *)

BaseConfidence(evidence, cfg) ==
    IF evidence = "observed" THEN cfg["base_observed"]
    ELSE IF evidence = "told" THEN cfg["base_told"] ELSE cfg["base_inferred"]

\* Variants whose name says what they leave out are faulty on purpose: the
\* properties are tried against them.
ClampCeilingOnly(c, cfg) == IF c < cfg["ceiling"] THEN c ELSE cfg["ceiling"]

\* MAX(floor, MIN(ceiling, c)), as the UPDATE computes it.
Clamp(c, cfg) ==
    LET low == IF c < cfg["ceiling"] THEN c ELSE cfg["ceiling"]
    IN  IF low > cfg["floor"] THEN low ELSE cfg["floor"]

\* The evidence threshold: a recorded verification command, run or not, lowers
\* it and stands in for the second session; any outcome's session counts.
IsActive(row, cfg) ==
    /\ row.helped >= (IF row.verified THEN cfg["min_evidence_verified"]
                                      ELSE cfg["min_evidence"])
    /\ row.sessions >= cfg["min_sessions"] \/ row.verified

RestatusReopening(row, cfg) ==
    [row EXCEPT !.status = IF IsActive(row, cfg) THEN "active" ELSE "candidate"]

Restatus(row, cfg) ==
    IF row.status \in Retired THEN row
    ELSE [row EXCEPT !.status = IF IsActive(row, cfg) THEN "active" ELSE "candidate"]

NewRow(e, cfg) ==
    [status |-> "candidate", helped |-> 0, noise |-> 0, sessions |-> 1,
     verified |-> e.body.verified, confidence |-> BaseConfidence(e.body.evidence, cfg),
     created |-> e.seq]

Learned(p, e, cfg) ==
    [id \in Ids(p) \cup {e.body.ref} |->
        IF id = e.body.ref THEN Restatus(NewRow(e, cfg), cfg) ELSE p.learning[id]]

ApplyLearnNoCascade(p, e, cfg) ==
    [learning |-> Learned(p, e, cfg), usage |-> p.usage, applied |-> p.applied + 1]

\* INSERT OR REPLACE: a row of the same id goes, and its usage with it
\* (usage.learning_id REFERENCES learning(id) ON DELETE CASCADE).
ApplyLearn(p, e, cfg) ==
    [learning |-> Learned(p, e, cfg),
     usage    |-> p.usage \ UsageOf(p.usage, e.body.ref),
     applied  |-> p.applied + 1]

TouchUncounting(row, e, usage, cfg) ==
    [row EXCEPT !.noise = IF e.body.outcome = "helped" THEN @ ELSE @ - 1,
                !.confidence = Clamp(@ + cfg["noise_delta"], cfg)]

TouchCountingRepeats(row, e, usage, cfg) ==
    LET helps == e.body.outcome = "helped"
        delta == IF helps THEN cfg["helped_delta"] ELSE cfg["noise_delta"]
    IN  [row EXCEPT
            !.helped     = IF helps THEN @ + 1 ELSE @,
            !.noise      = IF helps THEN @ ELSE @ + 1,
            !.sessions   = @ + 1,
            !.confidence = Clamp(@ + delta, cfg)]

Touch(row, e, usage, cfg) ==
    LET helps == e.body.outcome = "helped"
        delta == IF helps THEN cfg["helped_delta"] ELSE cfg["noise_delta"]
    IN  [row EXCEPT
            !.helped     = IF helps THEN @ + 1 ELSE @,
            !.noise      = IF helps THEN @ ELSE @ + 1,
            !.sessions   = Cardinality(SessionsOf(usage, e.body.ref)),
            !.confidence = Clamp(@ + delta, cfg)]

ApplyUseRestatusOnHelp(p, e, cfg) ==
    LET b     == e.body
        usage == p.usage \cup {[seq |-> e.seq, ref |-> b.ref,
                                session |-> b.session, outcome |-> b.outcome]}
        row   == Touch(p.learning[b.ref], e, usage, cfg)
    IN  [learning |-> [p.learning EXCEPT ![b.ref] =
                           IF b.outcome = "helped" THEN Restatus(row, cfg) ELSE row],
         usage    |-> usage,
         applied  |-> p.applied + 1]

ApplyUse(p, e, cfg) ==
    LET b     == e.body
        usage == p.usage \cup {[seq |-> e.seq, ref |-> b.ref,
                                session |-> b.session, outcome |-> b.outcome]}
    IN  [learning |-> [p.learning EXCEPT ![b.ref] = Restatus(Touch(@, e, usage, cfg), cfg)],
         usage    |-> usage,
         applied  |-> p.applied + 1]

StatusAfter(kind) ==
    IF kind = "refute" THEN "refuted"
    ELSE IF kind = "supersede" THEN "superseded" ELSE "promoted"

Retire(row, kind) == [row EXCEPT !.status = StatusAfter(kind)]

ApplyRetire(p, e) ==
    [learning |-> [p.learning EXCEPT ![e.body.ref] = Retire(@, e.body.kind)],
     usage    |-> p.usage,
     applied  |-> p.applied + 1]

\* An unknown subject, a session and a calibrate event change no row.
ApplyNothing(p) ==
    [learning |-> p.learning, usage |-> p.usage, applied |-> p.applied + 1]

Apply(p, e, cfg) ==
    IF e.body.kind = "learn" THEN ApplyLearn(p, e, cfg)
    ELSE IF e.body.ref \notin Ids(p) THEN ApplyNothing(p)
    ELSE IF e.body.kind = "use" THEN ApplyUse(p, e, cfg)
    ELSE IF e.body.kind \in Retiring THEN ApplyRetire(p, e)
    ELSE ApplyNothing(p)

\* The events whose handler looks up a dial.
NeedsConfig(p, e) ==
    \/ e.body.kind = "learn"
    \/ e.body.kind = "use" /\ e.body.ref \in Ids(p)

-----------------------------------------------------------------------------
(* A whole ledger, under one configuration.                                *)

Fold(ledger, cfg) ==
    LET f[n \in 0..Len(ledger)] ==
            IF n = 0 THEN EmptyProjection ELSE Apply(f[n-1], ledger[n], cfg)
    IN  f[Len(ledger)]

\* The insert into table `event` refuses a second row of the same seq (PRIMARY
\* KEY) and a kind the schema does not list (CHECK).
Refused(ledger, n) ==
    \/ \E m \in 1..n-1 : ledger[m].seq = ledger[n].seq
    \/ ledger[n].body.kind \notin Known

-----------------------------------------------------------------------------
(* Allocation.  MAX(id) compares text: ids below Limit are padded to the   *)
(* same width and compare as numbers; one digit more, and the digits are   *)
(* aligned on the left.  (Ids stay below Base * Limit.)                    *)

TextKey(n) == IF n < Limit THEN n * Base ELSE n

TextLeq(a, b) ==
    \/ TextKey(a) < TextKey(b)
    \/ TextKey(a) = TextKey(b) /\ a <= b

NextLearningId(ids) ==
    IF ids = {} THEN 1
    ELSE 1 + CHOOSE top \in ids : \A id \in ids : TextLeq(id, top)
=============================================================================
