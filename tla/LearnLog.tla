------------------------------ MODULE LearnLog ------------------------------
(***************************************************************************)
(* What the learning database promises: an append-only log of events and   *)
(* one projection, always the fold of the whole log.  Commands take effect *)
(* one at a time, every event has the next position as its number, and a   *)
(* learn event carries an id no earlier one has used.  LearnStore is shown *)
(* to implement this specification.                                        *)
(***************************************************************************)
EXTENDS LearnFold

CONSTANTS
    Bodies,     \* the events a command may append
    Cfg,        \* the dials in force
    MaxLog   \* bound on the length of the log

ASSUME BodiesAssumption == Bodies \subseteq Body

ASSUME CfgAssumption ==
    /\ Cfg \in Config
    /\ Cfg["floor"] <= Cfg["ceiling"]
    /\ \A key \in {"base_observed", "base_told", "base_inferred"} :
           Cfg[key] \in Cfg["floor"]..Cfg["ceiling"]
    /\ Cfg["min_evidence_verified"] <= Cfg["min_evidence"]

ASSUME BoundAssumption == MaxLog \in Nat

VARIABLES
    log,     \* learning/ledger.jsonl
    projection  \* learning/learning.db

logVars == <<log, projection>>

LogInit == log = << >> /\ projection = EmptyProjection

\* append_event followed by the fold of the new event.
AppendEvent(body) ==
    LET e == [seq |-> Len(log) + 1, body |-> body]
    IN  /\ Len(log) < MaxLog
        /\ log' = Append(log, e)
        /\ projection' = Apply(projection, e, Cfg)

\* record: the id is fresh.
Record(body) ==
    /\ body.kind = "learn"
    /\ \A n \in DOMAIN log : log[n].body.kind = "learn" => log[n].body.ref # body.ref
    /\ AppendEvent(body)

\* used, refute, supersede, promote, session, calibrate: any subject, known or not.
Feedback(body) ==
    /\ body.kind # "learn"
    /\ AppendEvent(body)

LogNext == \E body \in Bodies : Record(body) \/ Feedback(body)

LogSpec == LogInit /\ [][LogNext]_logVars

-----------------------------------------------------------------------------
(* Types.                                                                  *)

LogTypeOK ==
    /\ log \in Seq(Event)
    /\ IsProjection(projection)

-----------------------------------------------------------------------------
(* Properties.                                                             *)

\* The tables `learning` and `usage` agree after every event, although _apply
\* updates them in separate statements.
UsageAccounted == TablesAgree(projection)

\* No history of outcomes moves a stored confidence out of [floor, ceiling]
\* (the MAX/MIN of _apply, for whatever starting value _base_confidence gave).
ConfidenceBounded ==
    \A id \in Ids(projection) :
        projection.learning[id].confidence \in Cfg["floor"]..Cfg["ceiling"]

\* Where the fold has taken an entry, its confidence apart.
Standing(p, id) ==
    LET row == p.learning[id]
    IN  [status |-> row.status, verified |-> row.verified, helped |-> row.helped,
         noise |-> row.noise, sessions |-> row.sessions, from |-> SessionsOf(p.usage, id)]

SameStanding(p, q) ==
    Ids(p) = Ids(q) /\ \A id \in Ids(p) : Standing(p, id) = Standing(q, id)

\* The log with its events n and n + 1 the other way round.
Other(n, k) == IF k = n THEN n + 1 ELSE IF k = n + 1 THEN n ELSE k
Exchanged(n) == [k \in DOMAIN log |-> [seq |-> log[k].seq, body |-> log[Other(n, k)].body]]

(***************************************************************************)
(* Sessions append when they get to it, and branches are merged with       *)
(* either side first: where an outcome stands among the other feedback,    *)
(* retirements included, decides neither which entries are active nor a    *)
(* counter.  A noise outcome may be what activates an entry, by bringing   *)
(* the second session, so _apply must decide the status anew after every   *)
(* outcome.  (Confidence, clamped after each event, does depend on order.) *)
(***************************************************************************)
OrderIndifferent ==
    \A n \in 1..Len(log) - 1 :
        LET kinds == {log[n].body.kind, log[n+1].body.kind}
        IN  "use" \in kinds /\ "learn" \notin kinds =>
                SameStanding(projection, Fold(Exchanged(n), Cfg))

\* A retired entry stays retired whatever is appended: later use, a second
\* retirement, or the record of another entry cannot bring it back into
\* retrieval ("a refutation cannot be undone by further use", _restatus).
RetiredForever == [][RetiredIds(projection) \subseteq RetiredIds(projection)']_logVars
=============================================================================
