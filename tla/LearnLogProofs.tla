--------------------------- MODULE LearnLogProofs ---------------------------
(***************************************************************************)
(* Facts about the fold that both specifications of the learning database  *)
(* rest on, and the theorems of LearnLog, for every set of sessions, every *)
(* menu of events, every configuration that meets CfgAssumption and every  *)
(* bound.                                                                  *)
(***************************************************************************)
EXTENDS LearnLog, FiniteSetTheorems, SequenceTheorems, WellFoundedInduction, TLAPS

-----------------------------------------------------------------------------
(* What the operators of the fold return.                                  *)

LEMMA ClampInt ==
    ASSUME NEW cfg \in Config, NEW c \in Int
    PROVE  Clamp(c, cfg) \in Int
BY DEF Clamp, Config, Keys

LEMMA ClampBounds ==
    ASSUME NEW cfg \in Config, NEW c \in Int, cfg["floor"] <= cfg["ceiling"]
    PROVE  Clamp(c, cfg) \in cfg["floor"]..cfg["ceiling"]
BY DEF Clamp, Config, Keys

LEMMA BaseInt ==
    ASSUME NEW cfg \in Config, NEW evidence \in Evidence
    PROVE  BaseConfidence(evidence, cfg) \in Int
BY DEF BaseConfidence, Config, Keys, Evidence

\* Restatus only touches the status.
LEMMA RestatusRow ==
    ASSUME NEW row \in Row, NEW cfg
    PROVE  /\ Restatus(row, cfg) \in Row
           /\ Restatus(row, cfg).helped = row.helped
           /\ Restatus(row, cfg).noise = row.noise
           /\ Restatus(row, cfg).sessions = row.sessions
           /\ Restatus(row, cfg).confidence = row.confidence
           /\ row.status \in Retired => Restatus(row, cfg).status = row.status
BY DEF Restatus, Row, Statuses, Retired

LEMMA NewRowType ==
    ASSUME NEW cfg \in Config, NEW e \in Event
    PROVE  NewRow(e, cfg) \in Row
BY BaseInt DEF NewRow, Row, Event, Body, Statuses

\* The sets of usage rows a row's counters are compared with are finite.
LEMMA UsageFinite ==
    ASSUME NEW usage, IsFiniteSet(usage), NEW id
    PROVE  /\ IsFiniteSet(UsageOf(usage, id))
           /\ IsFiniteSet(HelpedOf(usage, id))
           /\ IsFiniteSet(AgainstOf(usage, id))
           /\ Cardinality(SessionsOf(usage, id)) \in Nat
<1>1. IsFiniteSet(UsageOf(usage, id))
  BY FS_Subset DEF UsageOf
<1>2. IsFiniteSet(HelpedOf(usage, id)) /\ IsFiniteSet(AgainstOf(usage, id))
  BY <1>1, FS_Subset DEF HelpedOf, AgainstOf
<1>3. IsFiniteSet(SessionsOf(usage, id))
  <2>. DEFINE S == UsageOf(usage, id)
              f == [u \in S |-> u.session]
  <2>1. f \in Surjection(S, SessionsOf(usage, id))
    BY DEF Surjection, SessionsOf
  <2>. QED
    BY <1>1, <2>1, FS_Surjection
<1>. QED
  BY <1>1, <1>2, <1>3, FS_CardinalityType

LEMMA TouchType ==
    ASSUME NEW cfg \in Config, NEW e \in Event, NEW row \in Row,
           NEW usage, IsFiniteSet(usage)
    PROVE  /\ Touch(row, e, usage, cfg) \in Row
           /\ Touch(row, e, usage, cfg).status = row.status
           /\ Touch(row, e, usage, cfg).sessions = Cardinality(SessionsOf(usage, e.body.ref))
           /\ Touch(row, e, usage, cfg).helped
                 = (IF e.body.outcome = "helped" THEN row.helped + 1 ELSE row.helped)
           /\ Touch(row, e, usage, cfg).noise
                 = (IF e.body.outcome = "helped" THEN row.noise ELSE row.noise + 1)
           /\ \E c \in Int : Touch(row, e, usage, cfg).confidence = Clamp(c, cfg)
<1>. DEFINE delta == IF e.body.outcome = "helped" THEN cfg["helped_delta"] ELSE cfg["noise_delta"]
<1>1. delta \in Int /\ row.confidence + delta \in Int
  BY DEF Config, Keys, Row
<1>2. Clamp(row.confidence + delta, cfg) \in Int
  BY <1>1, ClampInt
<1>3. Cardinality(SessionsOf(usage, e.body.ref)) \in Nat
  BY UsageFinite
<1>. DEFINE helped == IF e.body.outcome = "helped" THEN row.helped + 1 ELSE row.helped
            noise == IF e.body.outcome = "helped" THEN row.noise ELSE row.noise + 1
            sessions == Cardinality(SessionsOf(usage, e.body.ref))
            confidence == Clamp(row.confidence + delta, cfg)
<1>4. Touch(row, e, usage, cfg) = [row EXCEPT !.helped = helped, !.noise = noise,
                                     !.sessions = sessions, !.confidence = confidence]
  BY DEF Touch
<1>5. helped \in Nat /\ noise \in Nat
  BY DEF Row
<1>6. confidence \in Int /\ sessions \in Nat /\ \E c \in Int : confidence = Clamp(c, cfg)
  BY <1>1, <1>2, <1>3
<1>. HIDE DEF helped, noise, sessions, confidence
<1>7. /\ Touch(row, e, usage, cfg) \in Row
      /\ Touch(row, e, usage, cfg).status = row.status
      /\ Touch(row, e, usage, cfg).sessions = sessions
      /\ Touch(row, e, usage, cfg).helped = helped
      /\ Touch(row, e, usage, cfg).noise = noise
      /\ Touch(row, e, usage, cfg).confidence = confidence
  BY <1>4, <1>5, <1>6 DEF Row
<1>. QED
  BY <1>6, <1>7 DEF helped, noise, sessions

\* Folding an event keeps a projection a projection.
LEMMA ApplyType ==
    ASSUME NEW cfg \in Config, NEW e \in Event, NEW p, IsProjection(p)
    PROVE  /\ IsProjection(Apply(p, e, cfg))
           /\ Apply(p, e, cfg).applied = p.applied + 1
<1>. e.body \in Body /\ e.body.ref \in Nat /\ e.seq \in Nat
  BY DEF Event, Body
<1>1. CASE e.body.kind = "learn"
  <2>1. Restatus(NewRow(e, cfg), cfg) \in Row
    BY NewRowType, RestatusRow
  <2>2. Learned(p, e, cfg) \in [Ids(p) \cup {e.body.ref} -> Row]
    BY <2>1 DEF Learned, Ids, IsProjection
  <2>3. IsFiniteSet(p.usage \ UsageOf(p.usage, e.body.ref))
    BY FS_Subset DEF IsProjection
  <2>4. Apply(p, e, cfg) = ApplyLearn(p, e, cfg)
    BY <1>1 DEF Apply
  <2>. QED
    BY <2>2, <2>3, <2>4 DEF ApplyLearn, IsProjection, Ids
<1>2. CASE e.body.kind = "use" /\ e.body.ref \in Ids(p)
  <2>. DEFINE u == [seq |-> e.seq, ref |-> e.body.ref, session |-> e.body.session,
                    outcome |-> e.body.outcome]
              usage == p.usage \cup {u}
              row == p.learning[e.body.ref]
  <2>1. IsFiniteSet(usage) /\ usage \subseteq Usage
    <3>1. u \in Usage
      BY DEF Usage, Body, Event
    <3>. HIDE DEF u
    <3>. QED
      BY <3>1, FS_AddElement DEF IsProjection
  <2>2. row \in Row
    BY <1>2 DEF IsProjection, Ids
  <2>3. Restatus(Touch(row, e, usage, cfg), cfg) \in Row
    BY <2>1, <2>2, TouchType, RestatusRow
  <2>4. Apply(p, e, cfg) = [learning |-> [p.learning EXCEPT
                                ![e.body.ref] = Restatus(Touch(row, e, usage, cfg), cfg)],
                            usage |-> usage, applied |-> p.applied + 1]
    BY <1>2 DEF Apply, ApplyUse
  <2>. DEFINE new == Restatus(Touch(row, e, usage, cfg), cfg)
  <2>. HIDE DEF usage, new
  <2>. QED
    BY <1>2, <2>1, <2>3, <2>4 DEF IsProjection, Ids, new
<1>3. CASE e.body.kind \in Retiring /\ e.body.ref \in Ids(p)
  <2>1. Apply(p, e, cfg) = ApplyRetire(p, e)
    BY <1>3 DEF Apply, Retiring
  <2>2. p.learning[e.body.ref] \in Row
    BY <1>3 DEF IsProjection, Ids
  <2>3. StatusAfter(e.body.kind) \in Statuses
    BY DEF StatusAfter, Statuses, Retired
  <2>. DEFINE row == p.learning[e.body.ref]
              new == Retire(row, e.body.kind)
  <2>4. new \in Row
    <3>. HIDE DEF row
    <3>. QED
      BY <2>2, <2>3 DEF Row, Retire, row
  <2>5. Apply(p, e, cfg) = [learning |-> [p.learning EXCEPT ![e.body.ref] = new],
                            usage |-> p.usage, applied |-> p.applied + 1]
    BY <2>1 DEF ApplyRetire
  <2>. HIDE DEF new
  <2>. QED
    BY <1>3, <2>4, <2>5 DEF IsProjection, Ids
<1>4. CASE /\ e.body.kind # "learn"
           /\ ~(e.body.kind = "use" /\ e.body.ref \in Ids(p))
           /\ ~(e.body.kind \in Retiring /\ e.body.ref \in Ids(p))
  <2>1. Apply(p, e, cfg) = ApplyNothing(p)
    BY <1>4 DEF Apply
  <2>. QED
    BY <2>1 DEF ApplyNothing, IsProjection
<1>. QED
  BY <1>1, <1>2, <1>3, <1>4

-----------------------------------------------------------------------------
(* The effect of an event, kind by kind.                                   *)

NewUsage(e) == [seq |-> e.seq, ref |-> e.body.ref, session |-> e.body.session,
                outcome |-> e.body.outcome]

UsedRow(p, e, cfg) ==
    Touch(p.learning[e.body.ref], e, p.usage \cup {NewUsage(e)}, cfg)

LEMMA LearnEffect ==
    ASSUME NEW cfg, NEW e, NEW p, e.body.kind = "learn"
    PROVE  /\ Ids(Apply(p, e, cfg)) = Ids(p) \cup {e.body.ref}
           /\ Apply(p, e, cfg).learning[e.body.ref] = Restatus(NewRow(e, cfg), cfg)
           /\ \A id \in Ids(p) \ {e.body.ref} : Apply(p, e, cfg).learning[id] = p.learning[id]
           /\ Apply(p, e, cfg).usage = p.usage \ UsageOf(p.usage, e.body.ref)
BY DEF Apply, ApplyLearn, Learned, Ids

LEMMA UseEffect ==
    ASSUME NEW cfg, NEW e, NEW p, IsProjection(p), e.body.kind = "use", e.body.ref \in Ids(p)
    PROVE  /\ Ids(Apply(p, e, cfg)) = Ids(p)
           /\ Apply(p, e, cfg).learning[e.body.ref] = Restatus(UsedRow(p, e, cfg), cfg)
           /\ \A id \in Ids(p) \ {e.body.ref} : Apply(p, e, cfg).learning[id] = p.learning[id]
           /\ Apply(p, e, cfg).usage = p.usage \cup {NewUsage(e)}
<1>. DEFINE new == Restatus(UsedRow(p, e, cfg), cfg)
<1>1. Apply(p, e, cfg) = [learning |-> [p.learning EXCEPT ![e.body.ref] = new],
                          usage |-> p.usage \cup {NewUsage(e)}, applied |-> p.applied + 1]
  BY DEF Apply, ApplyUse, UsedRow, NewUsage
<1>. HIDE DEF new
<1>2. p.learning \in [Ids(p) -> Row]
  BY DEF IsProjection, Ids
<1>. QED
  BY <1>1, <1>2 DEF Ids, new

LEMMA RetireEffect ==
    ASSUME NEW cfg, NEW e, NEW p, IsProjection(p),
           e.body.kind \in Retiring, e.body.ref \in Ids(p)
    PROVE  /\ Ids(Apply(p, e, cfg)) = Ids(p)
           /\ Apply(p, e, cfg).learning[e.body.ref]
                 = Retire(p.learning[e.body.ref], e.body.kind)
           /\ \A id \in Ids(p) \ {e.body.ref} : Apply(p, e, cfg).learning[id] = p.learning[id]
           /\ Apply(p, e, cfg).usage = p.usage
<1>. DEFINE new == Retire(p.learning[e.body.ref], e.body.kind)
<1>1. Apply(p, e, cfg) = [learning |-> [p.learning EXCEPT ![e.body.ref] = new],
                          usage |-> p.usage, applied |-> p.applied + 1]
  BY DEF Apply, ApplyRetire, Retiring
<1>. HIDE DEF new
<1>2. p.learning \in [Ids(p) -> Row]
  BY DEF IsProjection, Ids
<1>. QED
  BY <1>1, <1>2 DEF Ids, new

LEMMA RetiredRow ==
    ASSUME NEW row \in Row, NEW kind
    PROVE  /\ Retire(row, kind) \in Row
           /\ Retire(row, kind).status \in Retired
           /\ Retire(row, kind).helped = row.helped
           /\ Retire(row, kind).noise = row.noise
           /\ Retire(row, kind).sessions = row.sessions
           /\ Retire(row, kind).confidence = row.confidence
BY DEF Retire, StatusAfter, Row, Statuses, Retired

\* Anything else changes no row.
Ineffective(p, e) ==
    /\ e.body.kind # "learn"
    /\ e.body.ref \in Ids(p) => e.body.kind # "use" /\ e.body.kind \notin Retiring

LEMMA NoEffect ==
    ASSUME NEW cfg, NEW e, NEW p, Ineffective(p, e)
    PROVE  /\ Apply(p, e, cfg).learning = p.learning
           /\ Apply(p, e, cfg).usage = p.usage
BY DEF Apply, ApplyNothing, Ineffective

LEMMA ApplyCounts ==
    ASSUME NEW p, NEW e, NEW cfg
    PROVE  Apply(p, e, cfg).applied = p.applied + 1
BY DEF Apply, ApplyLearn, ApplyUse, ApplyRetire, ApplyNothing

\* Ids are only ever added, and only by a record.
LEMMA ApplyIds ==
    ASSUME NEW cfg, NEW e, NEW p, IsProjection(p)
    PROVE  Ids(Apply(p, e, cfg))
             = (IF e.body.kind = "learn" THEN Ids(p) \cup {e.body.ref} ELSE Ids(p))
<1>1. CASE e.body.kind = "learn"
  BY <1>1, LearnEffect
<1>2. CASE e.body.kind = "use" /\ e.body.ref \in Ids(p)
  BY <1>2, UseEffect
<1>3. CASE e.body.kind \in Retiring /\ e.body.ref \in Ids(p)
  BY <1>3, RetireEffect DEF Retiring
<1>4. CASE Ineffective(p, e)
  BY <1>4, NoEffect DEF Ids, Ineffective
<1>. QED
  BY <1>1, <1>2, <1>3, <1>4 DEF Ineffective

\* The only usage row an event adds is its own.
LEMMA ApplyUsage ==
    ASSUME NEW cfg, NEW e, NEW p, IsProjection(p)
    PROVE  Apply(p, e, cfg).usage \subseteq p.usage \cup {NewUsage(e)}
<1>1. CASE e.body.kind = "learn"
  BY <1>1, LearnEffect
<1>2. CASE e.body.kind = "use" /\ e.body.ref \in Ids(p)
  BY <1>2, UseEffect
<1>3. CASE e.body.kind \in Retiring /\ e.body.ref \in Ids(p)
  BY <1>3, RetireEffect
<1>4. CASE Ineffective(p, e)
  BY <1>4, NoEffect
<1>. QED
  BY <1>1, <1>2, <1>3, <1>4 DEF Ineffective

\* A refutation retires its subject and nothing else.
LEMMA RefuteLive ==
    ASSUME NEW cfg, NEW e, NEW p, IsProjection(p), e.body.kind = "refute"
    PROVE  LiveIds(p) \ {e.body.ref} \subseteq LiveIds(Apply(p, e, cfg))
<1>1. CASE e.body.ref \in Ids(p)
  BY <1>1, RetireEffect DEF LiveIds, RetiredIds, StatusOf, Retiring
<1>2. CASE e.body.ref \notin Ids(p)
  BY <1>2, NoEffect DEF LiveIds, RetiredIds, StatusOf, Ids, Ineffective
<1>. QED
  BY <1>1, <1>2

-----------------------------------------------------------------------------
(* The tables agree after one more event.                                  *)

LEMMA AddUsage ==
    ASSUME NEW usage, IsFiniteSet(usage), NEW u, u \notin usage
    PROVE  /\ \A id : id # u.ref => UsageOf(usage \cup {u}, id) = UsageOf(usage, id)
           /\ u \in UsageOf(usage \cup {u}, u.ref)
           /\ Cardinality(HelpedOf(usage \cup {u}, u.ref))
                = Cardinality(HelpedOf(usage, u.ref)) + (IF u.outcome = "helped" THEN 1 ELSE 0)
           /\ Cardinality(AgainstOf(usage \cup {u}, u.ref))
                = Cardinality(AgainstOf(usage, u.ref)) + (IF u.outcome = "helped" THEN 0 ELSE 1)
<1>. DEFINE more == usage \cup {u}
<1>1. u \notin HelpedOf(usage, u.ref) /\ u \notin AgainstOf(usage, u.ref)
  BY DEF HelpedOf, AgainstOf, UsageOf
<1>2. /\ IsFiniteSet(HelpedOf(usage, u.ref))
      /\ IsFiniteSet(AgainstOf(usage, u.ref))
      /\ Cardinality(HelpedOf(usage, u.ref)) \in Nat
      /\ Cardinality(AgainstOf(usage, u.ref)) \in Nat
  BY UsageFinite, FS_CardinalityType
<1>0. /\ \A id : id # u.ref => UsageOf(more, id) = UsageOf(usage, id)
      /\ u \in UsageOf(more, u.ref)
  BY DEF UsageOf
<1>3. CASE u.outcome = "helped"
  <2>1. /\ HelpedOf(more, u.ref) = HelpedOf(usage, u.ref) \cup {u}
        /\ AgainstOf(more, u.ref) = AgainstOf(usage, u.ref)
    BY <1>3 DEF HelpedOf, AgainstOf, UsageOf
  <2>2. Cardinality(HelpedOf(usage, u.ref) \cup {u}) = Cardinality(HelpedOf(usage, u.ref)) + 1
    BY <1>1, <1>2, FS_AddElement
  <2>. QED
    BY <1>0, <1>2, <1>3, <2>1, <2>2
<1>4. CASE u.outcome # "helped"
  <2>1. /\ AgainstOf(more, u.ref) = AgainstOf(usage, u.ref) \cup {u}
        /\ HelpedOf(more, u.ref) = HelpedOf(usage, u.ref)
    BY <1>4 DEF HelpedOf, AgainstOf, UsageOf
  <2>2. Cardinality(AgainstOf(usage, u.ref) \cup {u}) = Cardinality(AgainstOf(usage, u.ref)) + 1
    BY <1>1, <1>2, FS_AddElement
  <2>3. /\ Cardinality(HelpedOf(more, u.ref)) = Cardinality(HelpedOf(usage, u.ref)) + 0
        /\ Cardinality(AgainstOf(more, u.ref)) = Cardinality(AgainstOf(usage, u.ref)) + 1
    <3>. HIDE DEF more
    <3>1. Cardinality(AgainstOf(more, u.ref)) = Cardinality(AgainstOf(usage, u.ref)) + 1
      BY <2>1, <2>2
    <3>2. Cardinality(HelpedOf(more, u.ref)) = Cardinality(HelpedOf(usage, u.ref)) + 0
      BY <1>2, <2>1
    <3>. QED
      BY <3>1, <3>2
  <2>. QED
    BY <1>0, <1>4, <2>3
<1>. QED
  BY <1>3, <1>4

\* What TablesAgree asks of one entry.
RowAgrees(p, id) ==
    LET row == p.learning[id]
    IN  /\ row.helped = Cardinality(HelpedOf(p.usage, id))
        /\ row.noise  = Cardinality(AgainstOf(p.usage, id))
        /\ row.sessions = (IF UsageOf(p.usage, id) = {} THEN 1
                           ELSE Cardinality(SessionsOf(p.usage, id)))

LEMMA RowAgreesSame ==
    ASSUME NEW p, NEW q, NEW id, RowAgrees(p, id),
           q.learning[id] = p.learning[id],
           UsageOf(q.usage, id) = UsageOf(p.usage, id)
    PROVE  RowAgrees(q, id)
BY DEF RowAgrees, HelpedOf, AgainstOf, SessionsOf

LEMMA ApplyTables ==
    ASSUME NEW cfg \in Config, NEW e \in Event, NEW p, IsProjection(p), TablesAgree(p),
           e.seq \in 1..p.applied+1, \A u \in p.usage : u.seq # e.seq
    PROVE  TablesAgree(Apply(p, e, cfg))
<1>. DEFINE q == Apply(p, e, cfg)
            ref == e.body.ref
<1>. e.body \in Body /\ p.applied \in Nat
  BY DEF Event, IsProjection
<1>1. q.applied = p.applied + 1
  BY ApplyType
<1>2. \A id \in Ids(p) : RowAgrees(p, id)
  BY DEF TablesAgree, RowAgrees
<1>3. \A u \in p.usage : u.ref \in Ids(p) /\ u.seq \in 1..p.applied
  BY DEF TablesAgree
<1>4. SUFFICES /\ \A id \in Ids(q) : RowAgrees(q, id)
               /\ \A u \in q.usage : u.ref \in Ids(q) /\ u.seq \in 1..p.applied+1
  BY <1>1 DEF TablesAgree, RowAgrees
<1>5. CASE e.body.kind = "learn"
  <2>1. UsageOf(q.usage, ref) = {}
    BY <1>5, LearnEffect DEF UsageOf
  <2>2. q.learning[ref].helped = 0 /\ q.learning[ref].noise = 0 /\ q.learning[ref].sessions = 1
    <3>. DEFINE new == NewRow(e, cfg)
    <3>1. new \in Row /\ new.helped = 0 /\ new.noise = 0 /\ new.sessions = 1
      BY NewRowType DEF NewRow
    <3>. HIDE DEF new
    <3>2. q.learning[ref] = Restatus(new, cfg)
      BY <1>5, LearnEffect DEF new
    <3>. QED
      BY <3>1, <3>2, RestatusRow
  <2>3. RowAgrees(q, ref)
    BY <2>1, <2>2, FS_EmptySet DEF RowAgrees, HelpedOf, AgainstOf
  <2>4. \A id \in Ids(p) \ {ref} : UsageOf(q.usage, id) = UsageOf(p.usage, id)
    BY <1>5, LearnEffect DEF UsageOf
  <2>5. \A id \in Ids(p) \ {ref} : RowAgrees(q, id)
    BY <1>2, <1>5, <2>4, LearnEffect, RowAgreesSame
  <2>. QED
    BY <1>3, <1>5, <2>3, <2>5, LearnEffect
<1>6. CASE e.body.kind = "use" /\ ref \in Ids(p)
  <2>. DEFINE u == NewUsage(e)
              usage == p.usage \cup {u}
  <2>1. /\ u.seq \in 1..p.applied+1 /\ u.ref = ref /\ u.outcome = e.body.outcome
        /\ u \notin p.usage
    BY DEF NewUsage
  <2>2. IsFiniteSet(p.usage) /\ IsFiniteSet(usage)
    BY FS_AddElement DEF IsProjection
  <2>3. q.usage = usage /\ Ids(q) = Ids(p) /\ q.learning[ref] = Restatus(UsedRow(p, e, cfg), cfg)
    BY <1>6, UseEffect
  <2>4. p.learning[ref] \in Row
    BY <1>6 DEF IsProjection, Ids
  <2>5. /\ q.learning[ref].helped = Cardinality(HelpedOf(usage, ref))
        /\ q.learning[ref].noise = Cardinality(AgainstOf(usage, ref))
        /\ q.learning[ref].sessions = Cardinality(SessionsOf(usage, ref))
    <3>. DEFINE row == p.learning[ref]
                new == UsedRow(p, e, cfg)
    <3>1. /\ new \in Row
          /\ new.sessions = Cardinality(SessionsOf(usage, ref))
          /\ new.helped = (IF e.body.outcome = "helped" THEN row.helped + 1 ELSE row.helped)
          /\ new.noise = (IF e.body.outcome = "helped" THEN row.noise ELSE row.noise + 1)
      BY <2>2, <2>4, TouchType DEF UsedRow
    <3>2. RowAgrees(p, ref)
      BY <1>2, <1>6
    <3>3. row.helped \in Nat /\ row.noise \in Nat
      BY <2>4 DEF Row
    <3>4. new.helped = Cardinality(HelpedOf(usage, ref))
          /\ new.noise = Cardinality(AgainstOf(usage, ref))
      <4>. HIDE DEF u, new
      <4>. QED
        BY <2>1, <2>2, <3>1, <3>2, <3>3, AddUsage DEF RowAgrees
    <3>. HIDE DEF new
    <3>. QED
      BY <2>3, <3>1, <3>4, RestatusRow DEF new
  <2>6. UsageOf(usage, ref) # {} /\ \A id : id # ref => UsageOf(usage, id) = UsageOf(p.usage, id)
    BY <2>1, <2>2, AddUsage
  <2>7. RowAgrees(q, ref)
    BY <2>3, <2>5, <2>6 DEF RowAgrees
  <2>8. \A id \in Ids(p) \ {ref} : RowAgrees(q, id)
    <3>1. \A id \in Ids(p) \ {ref} : q.learning[id] = p.learning[id]
      BY <1>6, UseEffect
    <3>2. \A id \in Ids(p) \ {ref} : UsageOf(q.usage, id) = UsageOf(p.usage, id)
      BY <2>3, <2>6
    <3>. HIDE DEF q
    <3>. QED
      BY <1>2, <3>1, <3>2, RowAgreesSame
  <2>. QED
    BY <1>3, <1>6, <2>1, <2>3, <2>7, <2>8
<1>7. CASE e.body.kind \in Retiring /\ ref \in Ids(p)
  <2>1. p.learning[ref] \in Row
    BY <1>7 DEF IsProjection, Ids
  <2>2. RowAgrees(q, ref)
    BY <1>2, <1>7, <2>1, RetireEffect, RetiredRow DEF RowAgrees
  <2>3. \A id \in Ids(p) \ {ref} : RowAgrees(q, id)
    BY <1>2, <1>7, RetireEffect, RowAgreesSame
  <2>. QED
    BY <1>3, <1>7, <2>2, <2>3, RetireEffect
<1>8. CASE Ineffective(p, e)
  BY <1>2, <1>3, <1>8, NoEffect DEF RowAgrees, Ids
<1>. QED
  BY <1>5, <1>6, <1>7, <1>8 DEF Ineffective

-----------------------------------------------------------------------------
(* Once retired, retired: unless the event records the id again.           *)

LEMMA ApplyRetired ==
    ASSUME NEW cfg \in Config, NEW e \in Event, NEW p, IsProjection(p),
           e.body.kind = "learn" => e.body.ref \notin Ids(p)
    PROVE  RetiredIds(p) \subseteq RetiredIds(Apply(p, e, cfg))
<1>. DEFINE q == Apply(p, e, cfg)
            ref == e.body.ref
<1>. SUFFICES ASSUME NEW id \in Ids(p), p.learning[id].status \in Retired
              PROVE  id \in Ids(q) /\ q.learning[id].status \in Retired
  BY DEF RetiredIds, StatusOf
<1>1. CASE e.body.kind = "learn"
  BY <1>1, LearnEffect
<1>2. CASE e.body.kind = "use" /\ ref \in Ids(p)
  <2>. DEFINE new == UsedRow(p, e, cfg)
  <2>1. p.learning[ref] \in Row /\ IsFiniteSet(p.usage \cup {NewUsage(e)})
    BY <1>2, FS_AddElement DEF IsProjection, Ids
  <2>2. new \in Row /\ new.status = p.learning[ref].status
    BY <2>1, TouchType DEF UsedRow
  <2>. HIDE DEF new
  <2>3. new.status \in Retired => Restatus(new, cfg).status \in Retired
    BY <2>2, RestatusRow
  <2>. QED
    BY <1>2, <2>2, <2>3, UseEffect DEF new
<1>3. CASE e.body.kind \in Retiring /\ ref \in Ids(p)
  <2>1. Retire(p.learning[ref], e.body.kind).status \in Retired
    BY <1>3, RetiredRow DEF IsProjection, Ids
  <2>. QED
    BY <1>3, <2>1, RetireEffect
<1>4. CASE Ineffective(p, e)
  BY <1>4, NoEffect DEF Ids
<1>. QED
  BY <1>1, <1>2, <1>3, <1>4 DEF Ineffective

-----------------------------------------------------------------------------
(* Numbers: least and greatest elements, and induction.                    *)

LEMMA NatMin ==
    ASSUME NEW T, T \subseteq Nat, T # {}
    PROVE  \E x \in T : \A y \in T : x <= y
<1>. DEFINE R == {ss \in Nat \X Nat : ss[1] < ss[2]}
<1>1. IsWellFoundedOn(R, Nat)
  BY NatLessThanWellFounded DEF OpToRel
<1>2. PICK x \in T : \A y \in T : <<y, x>> \notin R
  <2>. HIDE DEF R
  <2>. QED
    BY <1>1, WFMin
<1>3. ASSUME NEW y \in T PROVE x <= y
  <2>1. x \in Nat /\ y \in Nat /\ ~(y < x)
    BY <1>2
  <2>. QED
    BY <2>1
<1>. QED
  BY <1>3

LEMMA NatMax ==
    ASSUME NEW b \in Nat, NEW T, T \subseteq 0..b, T # {}
    PROVE  \E x \in T : \A y \in T : y <= x
<1>. DEFINE U == {b - y : y \in T}
<1>1. U \subseteq Nat /\ U # {}
  <2>1. \A y \in T : b - y \in Nat
    OBVIOUS
  <2>. QED
    BY <2>1
<1>2. PICK u \in U : \A v \in U : u <= v
  <2>. HIDE DEF U
  <2>. QED
    BY <1>1, NatMin
<1>3. PICK x \in T : u = b - x
  OBVIOUS
<1>4. \A y \in T : b - x <= b - y /\ x \in 0..b /\ y \in 0..b
  BY <1>2, <1>3
<1>5. \A y \in T : y <= x
  BY <1>4
<1>. QED
  BY <1>5

LEMMA SetInduction ==
    ASSUME NEW S, 0 \in S, \A n \in Nat : n \in S => n + 1 \in S
    PROVE  Nat \subseteq S
<1>. DEFINE T == Nat \ S
<1>1. ASSUME T # {} PROVE FALSE
  <2>1. PICK x \in T : \A y \in T : x <= y
    <3>1. T \subseteq Nat
      OBVIOUS
    <3>. HIDE DEF T
    <3>. QED
      BY <1>1, <3>1, NatMin
  <2>2. x - 1 \in T
    OBVIOUS
  <2>. QED
    BY <2>1, <2>2
<1>. QED
  BY <1>1

-----------------------------------------------------------------------------
(* Allocation.                                                             *)

\* Among finitely many ids one is last in the order of their texts.
LEMMA TextMax ==
    ASSUME NEW b \in Nat, NEW ids, ids \subseteq 0..b, ids # {}
    PROVE  \E top \in ids : \A id \in ids : TextLeq(id, top)
<1>. DEFINE keys == {TextKey(i) : i \in ids}
<1>1. \A i \in 0..b : TextKey(i) \in Nat /\ TextKey(i) <= b * Base + b
  <2>. SUFFICES ASSUME NEW i \in 0..b
                PROVE  TextKey(i) \in Nat /\ TextKey(i) <= b * Base + b
    OBVIOUS
  <2>1. Base \in Nat /\ Limit \in Nat
    BY IdAssumption
  <2>2. i * Base \in Nat /\ b * Base \in Nat /\ i * Base <= b * Base
    BY <2>1
  <2>. QED
    BY <2>1, <2>2 DEF TextKey
<1>2. b * Base + b \in Nat
  BY IdAssumption
<1>3. keys \subseteq 0..(b * Base + b) /\ keys # {}
  <2>1. \A i \in ids : TextKey(i) \in 0..(b * Base + b)
    BY <1>1, <1>2
  <2>. QED
    BY <2>1
<1>4. PICK k \in keys : \A m \in keys : m <= k
  <2>. HIDE DEF keys
  <2>. QED
    BY <1>2, <1>3, NatMax
<1>. DEFINE last == {i \in ids : TextKey(i) = k}
<1>5. last \subseteq 0..b /\ last # {}
  OBVIOUS
<1>6. PICK top \in last : \A i \in last : i <= top
  <2>. HIDE DEF last
  <2>. QED
    BY <1>5, NatMax
<1>7. ASSUME NEW id \in ids PROVE TextLeq(id, top)
  <2>1. TextKey(id) \in Nat /\ TextKey(top) = k /\ k \in Nat /\ TextKey(id) <= k
    BY <1>1, <1>4
  <2>2. CASE TextKey(id) = k
    BY <1>6, <2>1, <2>2 DEF TextLeq
  <2>3. CASE TextKey(id) < k
    BY <2>1, <2>3 DEF TextLeq
  <2>. QED
    BY <2>1, <2>2, <2>3
<1>. QED
  BY <1>7

\* next_learning_id always answers: one past an id there is, or the first.
LEMMA NextIdIs ==
    ASSUME NEW b \in Nat, NEW ids, ids \subseteq 0..b, ids # {}
    PROVE  \E top \in ids : /\ NextLearningId(ids) = 1 + top
                            /\ \A id \in ids : TextLeq(id, top)
<1>. DEFINE P(top) == top \in ids /\ \A id \in ids : TextLeq(id, top)
<1>1. \E top : P(top)
  BY TextMax
<1>2. NextLearningId(ids) = 1 + CHOOSE top : P(top)
  BY DEF NextLearningId
<1>. QED
  BY <1>1, <1>2

LEMMA NextIdNat ==
    ASSUME NEW b \in Nat, NEW ids, ids \subseteq 0..b
    PROVE  NextLearningId(ids) \in 1..b+1
<1>1. CASE ids = {}
  BY <1>1 DEF NextLearningId
<1>2. CASE ids # {}
  <2>1. PICK top \in ids : NextLearningId(ids) = 1 + top
    BY <1>2, NextIdIs
  <2>2. top \in 0..b
    OBVIOUS
  <2>. QED
    BY <2>1, <2>2
<1>. QED
  BY <1>1, <1>2

\* As long as no id outgrows its padding, the id given is a new one.
THEOREM NextIdFresh ==
    ASSUME NEW b \in Nat, b < Limit, NEW ids, ids \subseteq 0..b
    PROVE  NextLearningId(ids) \notin ids
<1>1. CASE ids = {}
  BY <1>1
<1>2. CASE ids # {}
  <2>1. PICK top \in ids : /\ NextLearningId(ids) = 1 + top
                           /\ \A id \in ids : TextLeq(id, top)
    BY <1>2, NextIdIs
  <2>2. SUFFICES ASSUME 1 + top \in ids PROVE FALSE
    BY <2>1
  <2>3. top < Limit /\ 1 + top < Limit /\ top \in Nat /\ Base \in Nat \ {0} /\ Limit \in Nat
    BY <2>2, IdAssumption
  <2>4. TextKey(top) = top * Base /\ TextKey(1 + top) = (1 + top) * Base
    BY <2>3 DEF TextKey
  <2>5. /\ (1 + top) * Base = top * Base + Base
        /\ top * Base \in Nat
    BY <2>3
  <2>6. TextLeq(1 + top, top)
    BY <2>1, <2>2
  <2>. QED
    BY <2>3, <2>4, <2>5, <2>6 DEF TextLeq
<1>. QED
  BY <1>1, <1>2

-----------------------------------------------------------------------------
(* A whole ledger.  Fold is defined by a recursive function: that there is *)
(* one, and that two ledgers that agree so far fold alike so far, is by    *)
(* induction on the number of events.                                      *)

\* g holds the fold of every prefix of s of at most m events.
Folds(g, s, m, cfg) ==
    g = [n \in 0..m |-> IF n = 0 THEN EmptyProjection ELSE Apply(g[n-1], s[n], cfg)]

LEMMA FoldsExist ==
    ASSUME NEW s, NEW cfg, NEW m \in Nat
    PROVE  \E g : Folds(g, s, m, cfg)
<1>. DEFINE S == {n \in Nat : \E g : Folds(g, s, n, cfg)}
<1>1. 0 \in S
  <2>1. Folds([n \in 0..0 |-> EmptyProjection], s, 0, cfg)
    BY DEF Folds
  <2>. QED
    BY <2>1
<1>2. ASSUME NEW n \in Nat, n \in S PROVE n + 1 \in S
  <2>1. PICK g : Folds(g, s, n, cfg)
    BY <1>2
  <2>. DEFINE h == [k \in 0..n+1 |-> IF k = n + 1 THEN Apply(g[n], s[n+1], cfg) ELSE g[k]]
  <2>2. Folds(h, s, n + 1, cfg)
    BY <2>1 DEF Folds
  <2>3. \E f : Folds(f, s, n + 1, cfg)
    BY <2>2
  <2>. QED
    BY <2>3
<1>3. m \in S
  <2>. HIDE DEF S
  <2>. QED
    BY <1>1, <1>2, SetInduction
<1>. QED
  BY <1>3

LEMMA FoldsStep ==
    ASSUME NEW s, NEW cfg, NEW m \in Nat, NEW g, Folds(g, s, m, cfg),
           NEW n \in Nat, n < m
    PROVE  g[n+1] = Apply(g[n], s[n+1], cfg)
<1>1. n + 1 \in 0..m /\ n + 1 # 0 /\ (n + 1) - 1 = n
  OBVIOUS
<1>2. g[n+1] = Apply(g[(n+1)-1], s[n+1], cfg)
  BY <1>1 DEF Folds
<1>. QED
  BY <1>1, <1>2

LEMMA FoldsUnique ==
    ASSUME NEW s, NEW t, NEW cfg, NEW m \in Nat, NEW n \in Nat, NEW g, NEW h,
           Folds(g, s, m, cfg), Folds(h, t, n, cfg),
           NEW k \in Nat, k <= m, k <= n, \A i \in 1..k : s[i] = t[i]
    PROVE  g[k] = h[k]
<1>. DEFINE S == {i \in Nat : i <= k => g[i] = h[i]}
<1>1. 0 \in S
  BY DEF Folds
<1>2. ASSUME NEW i \in Nat, i \in S PROVE i + 1 \in S
  <2>1. CASE i + 1 <= k
    <3>1. g[i] = h[i] /\ s[i+1] = t[i+1]
      BY <1>2, <2>1
    <3>2. i < m /\ i < n
      BY <2>1
    <3>3. g[i+1] = Apply(g[i], s[i+1], cfg)
      BY <3>2, FoldsStep
    <3>4. h[i+1] = Apply(h[i], t[i+1], cfg)
      BY <3>2, FoldsStep
    <3>. QED
      BY <3>1, <3>3, <3>4
  <2>2. CASE ~(i + 1 <= k)
    BY <2>2
  <2>. QED
    BY <2>1, <2>2
<1>3. k \in S
  <2>. HIDE DEF S
  <2>. QED
    BY <1>1, <1>2, SetInduction
<1>. QED
  BY <1>3

LEMMA FoldIs ==
    ASSUME NEW s, Len(s) \in Nat, NEW cfg
    PROVE  \E g : Folds(g, s, Len(s), cfg) /\ Fold(s, cfg) = g[Len(s)]
<1>. DEFINE G(g) == g = [n \in 0..Len(s) |->
                           IF n = 0 THEN EmptyProjection ELSE Apply(g[n-1], s[n], cfg)]
            f == CHOOSE g : G(g)
<1>1. G(f)
  <2>1. PICK g : Folds(g, s, Len(s), cfg)
    BY FoldsExist
  <2>2. G(g)
    BY <2>1 DEF Folds
  <2>. HIDE DEF G
  <2>. QED
    BY <2>2
<1>2. Fold(s, cfg) = f[Len(s)]
  BY DEF Fold
<1>. QED
  BY <1>1, <1>2 DEF Folds

\* The empty ledger folds into empty tables.
THEOREM FoldEmpty == \A cfg : Fold(<< >>, cfg) = EmptyProjection
<1>. TAKE cfg
<1>1. Len(<< >>) = 0
  OBVIOUS
<1>. QED
  BY <1>1, FoldIs DEF Folds

\* One more line in the ledger is one more event in the tables: a sync that
\* rebuilds everything gives what folding the new event alone would have.
THEOREM FoldAppend ==
    ASSUME NEW S, NEW s \in Seq(S), NEW e \in S, NEW cfg
    PROVE  Fold(Append(s, e), cfg) = Apply(Fold(s, cfg), e, cfg)
<1>. DEFINE t == Append(s, e)
            n == Len(s)
            m == Len(t)
<1>1. /\ n \in Nat /\ m \in Nat /\ m = n + 1 /\ n < m /\ n <= m /\ n <= n
      /\ t[n+1] = e /\ \A i \in 1..n : s[i] = t[i]
  OBVIOUS
<1>. HIDE DEF t, n, m
<1>2. PICK g : Folds(g, s, n, cfg) /\ Fold(s, cfg) = g[n]
  BY <1>1, FoldIs DEF n
<1>3. PICK h : Folds(h, t, m, cfg) /\ Fold(t, cfg) = h[m]
  BY <1>1, FoldIs DEF m
<1>4. g[n] = h[n]
  BY <1>1, <1>2, <1>3, FoldsUnique
<1>5. h[n+1] = Apply(h[n], t[n+1], cfg)
  <2>1. m \in Nat /\ n \in Nat /\ n < m /\ Folds(h, t, m, cfg)
    BY <1>1, <1>3
  <2>. QED
    BY <2>1, FoldsStep
<1>. QED
  BY <1>1, <1>2, <1>3, <1>4, <1>5 DEF t

\* The fold of a prefix, event by event.
LEMMA FoldPrefix ==
    ASSUME NEW S, NEW s \in Seq(S), NEW n \in Nat, n < Len(s), NEW cfg
    PROVE  Fold(SubSeq(s, 1, n + 1), cfg) = Apply(Fold(SubSeq(s, 1, n), cfg), s[n+1], cfg)
<1>1. SubSeq(s, 1, n + 1) = Append(SubSeq(s, 1, n), s[n+1])
  OBVIOUS
<1>2. SubSeq(s, 1, n) \in Seq(S) /\ s[n+1] \in S
  OBVIOUS
<1>. QED
  BY <1>1, <1>2, FoldAppend

\* The fold of a ledger is a projection, and has applied all of it.
LEMMA FoldType ==
    ASSUME NEW s \in Seq(Event), NEW cfg \in Config
    PROVE  IsProjection(Fold(s, cfg)) /\ Fold(s, cfg).applied = Len(s)
<1>. DEFINE P(n) == LET p == Fold(SubSeq(s, 1, n), cfg)
                    IN  IsProjection(p) /\ p.applied = n
            S == {n \in Nat : n <= Len(s) => P(n)}
<1>1. 0 \in S
  <2>1. SubSeq(s, 1, 0) = << >>
    OBVIOUS
  <2>2. IsProjection(EmptyProjection) /\ EmptyProjection.applied = 0
    BY FS_EmptySet DEF IsProjection, EmptyProjection
  <2>. QED
    BY <2>1, <2>2, FoldEmpty
<1>2. ASSUME NEW n \in Nat, n \in S PROVE n + 1 \in S
  <2>. SUFFICES ASSUME n + 1 <= Len(s) PROVE P(n + 1)
    OBVIOUS
  <2>1. P(n) /\ n < Len(s) /\ s[n+1] \in Event
    BY <1>2
  <2>2. Fold(SubSeq(s, 1, n + 1), cfg) = Apply(Fold(SubSeq(s, 1, n), cfg), s[n+1], cfg)
    BY <2>1, FoldPrefix
  <2>. QED
    BY <2>1, <2>2, ApplyType
<1>3. Len(s) \in S
  <2>. HIDE DEF S
  <2>. QED
    BY <1>1, <1>2, SetInduction
<1>4. SubSeq(s, 1, Len(s)) = s
  OBVIOUS
<1>5. Len(s) \in Nat /\ Len(s) <= Len(s) /\ P(Len(s))
  BY <1>3
<1>. QED
  BY <1>4, <1>5

\* An event whose handler looks up no dial folds alike under any configuration.
LEMMA ApplyIgnoresConfig ==
    ASSUME NEW p, NEW e, NEW cfg, NEW other, ~NeedsConfig(p, e)
    PROVE  Apply(p, e, cfg) = Apply(p, e, other)
BY DEF Apply, NeedsConfig

-----------------------------------------------------------------------------
(* Every row is sound after one more event.                                *)

RowSound(row) == row.confidence \in Cfg["floor"]..Cfg["ceiling"]

RowsSound(p) == \A id \in Ids(p) : RowSound(p.learning[id])

LEMMA RestatusSound ==
    ASSUME NEW row \in Row, row.confidence \in Cfg["floor"]..Cfg["ceiling"]
    PROVE  RowSound(Restatus(row, Cfg))
BY RestatusRow DEF RowSound

LEMMA ApplySound ==
    ASSUME NEW e \in Event, NEW p, IsProjection(p), RowsSound(p)
    PROVE  RowsSound(Apply(p, e, Cfg))
<1>. DEFINE q == Apply(p, e, Cfg)
            ref == e.body.ref
<1>. /\ Cfg \in Config /\ Cfg["floor"] <= Cfg["ceiling"]
     /\ e.body \in Body /\ e.body.evidence \in Evidence
  BY CfgAssumption DEF Event, Body
<1>1. CASE e.body.kind = "learn"
  <2>. DEFINE new == NewRow(e, Cfg)
  <2>1. new.confidence \in Cfg["floor"]..Cfg["ceiling"]
    BY CfgAssumption DEF NewRow, BaseConfidence
  <2>2. new \in Row
    BY NewRowType
  <2>. HIDE DEF new
  <2>3. RowSound(Restatus(new, Cfg))
    BY <2>1, <2>2, RestatusSound
  <2>. QED
    BY <1>1, <2>3, LearnEffect DEF RowsSound, new
<1>2. CASE e.body.kind = "use" /\ ref \in Ids(p)
  <2>. DEFINE new == UsedRow(p, e, Cfg)
  <2>1. p.learning[ref] \in Row /\ IsFiniteSet(p.usage \cup {NewUsage(e)})
    BY <1>2, FS_AddElement DEF IsProjection, Ids
  <2>2. new \in Row /\ \E c \in Int : new.confidence = Clamp(c, Cfg)
    <3>. DEFINE usage == p.usage \cup {NewUsage(e)}
                row == p.learning[ref]
    <3>. HIDE DEF usage, row
    <3>1. row \in Row /\ IsFiniteSet(usage)
      BY <2>1 DEF usage, row
    <3>2. /\ Touch(row, e, usage, Cfg) \in Row
          /\ \E c \in Int : Touch(row, e, usage, Cfg).confidence = Clamp(c, Cfg)
      BY <3>1, TouchType
    <3>. QED
      BY <3>2 DEF UsedRow, usage, row
  <2>. HIDE DEF new
  <2>3. new.confidence \in Cfg["floor"]..Cfg["ceiling"]
    BY <2>2, ClampBounds
  <2>4. RowSound(Restatus(new, Cfg))
    BY <2>2, <2>3, RestatusSound
  <2>. QED
    BY <1>2, <2>4, UseEffect DEF RowsSound, new
<1>3. CASE e.body.kind \in Retiring /\ ref \in Ids(p)
  <2>1. p.learning[ref] \in Row /\ RowSound(p.learning[ref])
    BY <1>3 DEF IsProjection, Ids, RowsSound
  <2>2. RowSound(Retire(p.learning[ref], e.body.kind))
    BY <2>1, RetiredRow DEF RowSound, Retired
  <2>. QED
    BY <1>3, <2>2, RetireEffect DEF RowsSound
<1>4. CASE Ineffective(p, e)
  BY <1>4, NoEffect DEF RowsSound, Ids
<1>. QED
  BY <1>1, <1>2, <1>3, <1>4 DEF Ineffective

-----------------------------------------------------------------------------
(* The inductive invariant.  Beside the types it says that the projection  *)
(* has folded the whole log, that the tables agree, that every row is      *)
(* sound, and that a projected id was recorded by some event: freshness in *)
(* the log is then freshness in the table.                                 *)

ProjectedWereRecorded ==
    \A id \in Ids(projection) :
        \E n \in DOMAIN log : log[n].body.kind = "learn" /\ log[n].body.ref = id

LogSound ==
    /\ LogTypeOK
    /\ projection.applied = Len(log)
    /\ TablesAgree(projection)
    /\ RowsSound(projection)
    /\ ProjectedWereRecorded

LEMMA InitSound == LogInit => LogSound
<1>. SUFFICES ASSUME LogInit PROVE LogSound
  OBVIOUS
<1>1. Ids(projection) = {} /\ projection.usage = {} /\ projection.applied = 0
  BY DEF LogInit, EmptyProjection, Ids
<1>2. IsProjection(EmptyProjection)
  BY FS_EmptySet DEF IsProjection, EmptyProjection
<1>. QED
  BY <1>1, <1>2 DEF LogInit, LogSound, LogTypeOK, TablesAgree, RowsSound, ProjectedWereRecorded

\* What both actions do, and the freshness Record adds.
LEMMA StepAppends ==
    ASSUME LogSound, LogNext
    PROVE  \E e \in Event :
              /\ e.seq = projection.applied + 1
              /\ log' = Append(log, e)
              /\ projection' = Apply(projection, e, Cfg)
              /\ e.body.kind = "learn" => e.body.ref \notin Ids(projection)
<1>1. PICK body \in Bodies : Record(body) \/ Feedback(body)
  BY DEF LogNext
<1>. DEFINE e == [seq |-> Len(log) + 1, body |-> body]
<1>2. e \in Event
  BY BodiesAssumption DEF Event, LogSound, LogTypeOK
<1>3. log' = Append(log, e) /\ projection' = Apply(projection, e, Cfg)
  BY <1>1 DEF Record, Feedback, AppendEvent
<1>4. body.kind = "learn" => body.ref \notin Ids(projection)
  BY <1>1 DEF Record, Feedback, LogSound, ProjectedWereRecorded
<1>. QED
  BY <1>2, <1>3, <1>4 DEF LogSound

LEMMA NextSound == LogSound /\ [LogNext]_logVars => LogSound'
<1>. SUFFICES ASSUME LogSound, [LogNext]_logVars PROVE LogSound'
  OBVIOUS
<1>1. CASE LogNext
  <2>. PICK e \in Event :
            /\ e.seq = projection.applied + 1
            /\ log' = Append(log, e)
            /\ projection' = Apply(projection, e, Cfg)
    BY <1>1, StepAppends
  <2>. Cfg \in Config /\ IsProjection(projection) /\ log \in Seq(Event)
    BY CfgAssumption DEF LogSound, LogTypeOK
  <2>1. IsProjection(projection') /\ projection'.applied = projection.applied + 1
    BY ApplyType
  <2>2. log' \in Seq(Event) /\ Len(log') = Len(log) + 1
    OBVIOUS
  <2>3. TablesAgree(projection')
    <3>1. /\ e.seq \in 1..projection.applied+1
          /\ \A u \in projection.usage : u.seq # e.seq
      BY DEF LogSound, TablesAgree, IsProjection
    <3>. QED
      BY <3>1, ApplyTables DEF LogSound
  <2>4. RowsSound(projection')
    BY ApplySound DEF LogSound
  <2>5. ProjectedWereRecorded'
    <3>. SUFFICES ASSUME NEW id \in Ids(projection')
                  PROVE  \E n \in DOMAIN log' : log'[n].body.kind = "learn"
                                                   /\ log'[n].body.ref = id
      BY DEF ProjectedWereRecorded
    <3>1. id \in Ids(projection) \/ (e.body.kind = "learn" /\ id = e.body.ref)
      <4>. DEFINE q == Apply(projection, e, Cfg)
      <4>0. id \in Ids(q)
        BY DEF Ids
      <4>. HIDE DEF q
      <4>1. CASE e.body.kind = "learn"
        BY <4>0, <4>1, LearnEffect DEF q
      <4>2. CASE e.body.kind = "use" /\ e.body.ref \in Ids(projection)
        BY <4>0, <4>2, UseEffect DEF q
      <4>3. CASE e.body.kind \in Retiring /\ e.body.ref \in Ids(projection)
        BY <4>0, <4>3, RetireEffect DEF q
      <4>4. CASE Ineffective(projection, e)
        BY <4>0, <4>4, NoEffect DEF Ids, q
      <4>. QED
        BY <4>1, <4>2, <4>3, <4>4 DEF Ineffective
    <3>2. \A n \in DOMAIN log : n \in DOMAIN log' /\ log'[n] = log[n]
      OBVIOUS
    <3>3. Len(log) + 1 \in DOMAIN log' /\ log'[Len(log) + 1] = e
      OBVIOUS
    <3>. QED
      BY <3>1, <3>2, <3>3 DEF LogSound, ProjectedWereRecorded
  <2>. QED
    BY <2>1, <2>2, <2>3, <2>4, <2>5 DEF LogSound, LogTypeOK
<1>2. CASE UNCHANGED logVars
  BY <1>2 DEF logVars, LogSound, LogTypeOK, ProjectedWereRecorded
<1>. QED
  BY <1>1, <1>2

LEMMA SpecSound == LogSpec => []LogSound
BY InitSound, NextSound, PTL DEF LogSpec

-----------------------------------------------------------------------------
(* The order of feedback.  StandingAfter is what an event does to a        *)
(* standing: it depends on nothing else, so equal standings stay equal,    *)
(* and an outcome commutes with every event that makes no entry.           *)

\* IsActive of a standing, and what an event leaves of one.
Earned(verified, helped, sessions, cfg) ==
    /\ helped >= (IF verified THEN cfg["min_evidence_verified"] ELSE cfg["min_evidence"])
    /\ sessions >= cfg["min_sessions"] \/ verified

Hears(b) == b.kind = "use"
HelpedAfter(s, b) == IF Hears(b) /\ b.outcome = "helped" THEN s.helped + 1 ELSE s.helped
NoiseAfter(s, b) == IF Hears(b) /\ b.outcome # "helped" THEN s.noise + 1 ELSE s.noise
FromAfter(s, b) == IF Hears(b) THEN s.from \cup {b.session} ELSE s.from
SessionsAfter(s, b) == IF Hears(b) THEN Cardinality(FromAfter(s, b)) ELSE s.sessions

StatusThen(s, b, cfg) ==
    IF b.kind \in Retiring THEN StatusAfter(b.kind)
    ELSE IF s.status \in Retired \/ ~Hears(b) THEN s.status
    ELSE IF Earned(s.verified, HelpedAfter(s, b), SessionsAfter(s, b), cfg)
         THEN "active" ELSE "candidate"

StandingAfter(s, b, cfg) ==
    [status |-> StatusThen(s, b, cfg), verified |-> s.verified, helped |-> HelpedAfter(s, b),
     noise |-> NoiseAfter(s, b), sessions |-> SessionsAfter(s, b), from |-> FromAfter(s, b)]

Standings == [status : Statuses, verified : BOOLEAN, helped : Nat, noise : Nat,
              sessions : Nat, from : SUBSET Sessions]

LEMMA StandingType ==
    ASSUME NEW p, IsProjection(p), NEW id \in Ids(p)
    PROVE  Standing(p, id) \in Standings
<1>1. p.learning[id] \in Row /\ SessionsOf(p.usage, id) \subseteq Sessions
  BY DEF IsProjection, Ids, SessionsOf, UsageOf, Usage
<1>. QED
  BY <1>1 DEF Standing, Standings, Row

\* An event that makes no entry moves the standing of its subject only.
LEMMA StandingStep ==
    ASSUME NEW cfg \in Config, NEW e \in Event, NEW p, IsProjection(p),
           e.body.kind # "learn", NEW id \in Ids(p)
    PROVE  Standing(Apply(p, e, cfg), id)
             = (IF e.body.ref = id THEN StandingAfter(Standing(p, id), e.body, cfg)
                                   ELSE Standing(p, id))
<1>. DEFINE q == Apply(p, e, cfg)
<1>0. p.learning[id] \in Row
  BY DEF IsProjection, Ids
<1>1. CASE e.body.kind = "use" /\ e.body.ref \in Ids(p)
  <2>1. /\ q.learning[e.body.ref] = Restatus(UsedRow(p, e, cfg), cfg)
        /\ \A i \in Ids(p) \ {e.body.ref} : q.learning[i] = p.learning[i]
        /\ q.usage = p.usage \cup {NewUsage(e)}
    BY <1>1, UseEffect
  <2>. HIDE DEF q
  <2>2. CASE e.body.ref # id
    <3>1. UsageOf(q.usage, id) = UsageOf(p.usage, id)
      BY <2>1, <2>2 DEF UsageOf, NewUsage
    <3>. QED
      BY <2>1, <2>2, <3>1 DEF Standing, SessionsOf, q
  <2>3. CASE e.body.ref = id
    <3>. DEFINE row == p.learning[id]
                new == UsedRow(p, e, cfg)
                st == Standing(p, id)
                body == e.body
                set == Restatus(new, cfg)
    <3>1. SessionsOf(q.usage, id) = FromAfter(st, body)
      <4>1. UsageOf(q.usage, id) = UsageOf(p.usage, id) \cup {NewUsage(e)}
        BY <2>1, <2>3 DEF UsageOf, NewUsage
      <4>2. SessionsOf(q.usage, id) = SessionsOf(p.usage, id) \cup {body.session}
        <5>1. NewUsage(e).session = body.session
          BY DEF NewUsage
        <5>. QED
          BY <4>1, <5>1 DEF SessionsOf
      <4>. QED
        BY <1>1, <4>2 DEF FromAfter, Hears, Standing
    <3>2. new = Touch(row, e, q.usage, cfg)
      BY <2>1, <2>3 DEF UsedRow
    <3>3. /\ new.status = row.status /\ new.verified = row.verified
          /\ new.helped = HelpedAfter(st, body) /\ new.noise = NoiseAfter(st, body)
          /\ new.sessions = SessionsAfter(st, body)
          /\ set.verified = new.verified
      BY <1>0, <1>1, <2>3, <3>1, <3>2
         DEF Touch, Row, Standing, HelpedAfter, NoiseAfter, SessionsAfter, Hears, Restatus
    <3>4. new \in Row
      <4>1. IsFiniteSet(q.usage)
        BY <2>1, FS_AddElement DEF IsProjection
      <4>. QED
        BY <1>0, <3>2, <4>1, TouchType
    <3>. HIDE DEF new, row
    <3>5. set.status = StatusThen(st, body, cfg)
      <4>1. st.status = row.status /\ st.verified = row.verified
        BY DEF Standing, row
      <4>2. IsActive(new, cfg) <=> Earned(st.verified, HelpedAfter(st, body), SessionsAfter(st, body), cfg)
        BY <3>3, <4>1 DEF IsActive, Earned
      <4>3. set.status = IF row.status \in Retired THEN row.status
                         ELSE IF IsActive(new, cfg) THEN "active" ELSE "candidate"
        BY <3>3, <3>4 DEF Restatus, Row
      <4>. QED
        BY <1>1, <4>1, <4>2, <4>3 DEF StatusThen, Hears, Retiring
    <3>6. /\ set.helped = HelpedAfter(st, body) /\ set.noise = NoiseAfter(st, body)
          /\ set.sessions = SessionsAfter(st, body) /\ set.verified = st.verified
      BY <3>3, <3>4, RestatusRow DEF Standing, row
    <3>7. q.learning[id] = set
      BY <2>1, <2>3 DEF new
    <3>. HIDE DEF set
    <3>8. Standing(q, id) = StandingAfter(st, body, cfg)
      BY <3>1, <3>5, <3>6, <3>7 DEF Standing, StandingAfter
    <3>. QED
      BY <2>3, <3>8 DEF q
  <2>. QED
    BY <2>2, <2>3
<1>2. CASE e.body.kind \in Retiring /\ e.body.ref \in Ids(p)
  <2>1. /\ q.learning[e.body.ref] = Retire(p.learning[e.body.ref], e.body.kind)
        /\ \A i \in Ids(p) \ {e.body.ref} : q.learning[i] = p.learning[i]
        /\ q.usage = p.usage
    BY <1>2, RetireEffect
  <2>2. e.body.kind # "use"
    BY <1>2 DEF Retiring
  <2>. HIDE DEF q
  <2>. QED
    BY <1>0, <1>2, <2>1, <2>2 DEF Standing, StandingAfter, Retire, Row, q, StatusThen,
         HelpedAfter, NoiseAfter, FromAfter, SessionsAfter, Hears
<1>3. CASE Ineffective(p, e)
  <2>1. q.learning = p.learning /\ q.usage = p.usage
    BY <1>3, NoEffect
  <2>2. e.body.ref = id => e.body.kind # "use" /\ e.body.kind \notin Retiring
    BY <1>3 DEF Ineffective
  <2>. HIDE DEF q
  <2>. QED
    BY <2>1, <2>2 DEF Standing, StandingAfter, q, StatusThen,
         HelpedAfter, NoiseAfter, FromAfter, SessionsAfter, Hears
<1>. QED
  BY <1>1, <1>2, <1>3 DEF Ineffective

\* An outcome commutes with any event that makes no entry.
LEMMA Commutes ==
    ASSUME NEW s \in Standings, NEW a \in Body, NEW b \in Body, NEW cfg \in Config,
           a.kind = "use", b.kind # "learn"
    PROVE  StandingAfter(StandingAfter(s, a, cfg), b, cfg)
             = StandingAfter(StandingAfter(s, b, cfg), a, cfg)
<1>. DEFINE x == StandingAfter(s, a, cfg)
            y == StandingAfter(s, b, cfg)
<1>1. /\ x.status = StatusThen(s, a, cfg) /\ x.verified = s.verified
      /\ x.helped = HelpedAfter(s, a) /\ x.noise = NoiseAfter(s, a)
      /\ x.sessions = SessionsAfter(s, a) /\ x.from = FromAfter(s, a)
  BY DEF StandingAfter
<1>2. /\ y.status = StatusThen(s, b, cfg) /\ y.verified = s.verified
      /\ y.helped = HelpedAfter(s, b) /\ y.noise = NoiseAfter(s, b)
      /\ y.sessions = SessionsAfter(s, b) /\ y.from = FromAfter(s, b)
  BY DEF StandingAfter
<1>3. s.helped \in Nat /\ s.noise \in Nat
  BY DEF Standings
<1>. HIDE DEF x, y
<1>4. FromAfter(x, b) = FromAfter(y, a)
  BY <1>1, <1>2 DEF FromAfter
<1>5. HelpedAfter(x, b) = HelpedAfter(y, a) /\ NoiseAfter(x, b) = NoiseAfter(y, a)
  BY <1>1, <1>2, <1>3 DEF HelpedAfter, NoiseAfter
<1>6. SessionsAfter(x, b) = SessionsAfter(y, a)
  BY <1>1, <1>2, <1>4 DEF SessionsAfter, FromAfter, Hears
<1>7. a.kind \notin Retiring /\ Hears(a) /\ (b.kind \in Retiring => ~Hears(b))
  BY DEF Retiring, Hears
<1>8. StatusThen(x, b, cfg) = StatusThen(y, a, cfg)
  <2>1. CASE b.kind \in Retiring
    <3>1. StatusAfter(b.kind) \in Retired
      BY DEF StatusAfter, Retired
    <3>. QED
      BY <1>2, <1>7, <2>1, <3>1 DEF StatusThen
  <2>2. CASE b.kind \notin Retiring /\ ~Hears(b)
    <3>1. HelpedAfter(y, a) = HelpedAfter(s, a) /\ SessionsAfter(y, a) = SessionsAfter(s, a)
      BY <1>1, <1>2, <2>2 DEF HelpedAfter, SessionsAfter, FromAfter
    <3>. QED
      BY <1>1, <1>2, <1>7, <2>2, <3>1 DEF StatusThen
  <2>3. CASE b.kind \notin Retiring /\ Hears(b)
    <3>1. "active" \notin Retired /\ "candidate" \notin Retired
      BY DEF Retired
    <3>. QED
      BY <1>1, <1>2, <1>5, <1>6, <1>7, <2>3, <3>1 DEF StatusThen
  <2>. QED
    BY <2>1, <2>2, <2>3
<1>9. StandingAfter(x, b, cfg) = StandingAfter(y, a, cfg)
  BY <1>1, <1>2, <1>4, <1>5, <1>6, <1>8 DEF StandingAfter
<1>. QED
  BY <1>9 DEF x, y

\* Equal standings stay equal, whatever comes next.
LEMMA SameStep ==
    ASSUME NEW cfg \in Config, NEW e \in Event, NEW p, IsProjection(p), NEW q, IsProjection(q),
           SameStanding(p, q)
    PROVE  SameStanding(Apply(p, e, cfg), Apply(q, e, cfg))
<1>1. Ids(p) = Ids(q) /\ \A id \in Ids(p) : Standing(p, id) = Standing(q, id)
  BY DEF SameStanding
<1>2. Ids(Apply(p, e, cfg)) = Ids(Apply(q, e, cfg))
  BY <1>1, ApplyIds
<1>3. ASSUME NEW id \in Ids(Apply(p, e, cfg))
      PROVE  Standing(Apply(p, e, cfg), id) = Standing(Apply(q, e, cfg), id)
  <2>1. CASE e.body.kind # "learn"
    <3>1. id \in Ids(p) /\ id \in Ids(q)
      BY <1>1, <1>3, <2>1, ApplyIds
    <3>. QED
      BY <1>1, <2>1, <3>1, StandingStep
  <2>2. CASE e.body.kind = "learn" /\ id = e.body.ref
    <3>1. SessionsOf(Apply(p, e, cfg).usage, id) = {} /\ SessionsOf(Apply(q, e, cfg).usage, id) = {}
      BY <2>2, LearnEffect DEF SessionsOf, UsageOf
    <3>2. Apply(p, e, cfg).learning[id] = Apply(q, e, cfg).learning[id]
      BY <2>2, LearnEffect
    <3>. QED
      BY <3>1, <3>2 DEF Standing
  <2>3. CASE e.body.kind = "learn" /\ id # e.body.ref
    <3>1. id \in Ids(p) /\ id \in Ids(q)
      BY <1>1, <1>3, <2>3, ApplyIds
    <3>2. /\ Apply(p, e, cfg).learning[id] = p.learning[id]
          /\ Apply(q, e, cfg).learning[id] = q.learning[id]
      BY <2>3, <3>1, LearnEffect
    <3>3. /\ UsageOf(Apply(p, e, cfg).usage, id) = UsageOf(p.usage, id)
          /\ UsageOf(Apply(q, e, cfg).usage, id) = UsageOf(q.usage, id)
      BY <2>3, LearnEffect DEF UsageOf
    <3>4. /\ Standing(Apply(p, e, cfg), id) = Standing(p, id)
          /\ Standing(Apply(q, e, cfg), id) = Standing(q, id)
      BY <3>2, <3>3 DEF Standing, SessionsOf
    <3>. QED
      BY <1>1, <3>1, <3>4
  <2>. QED
    BY <2>1, <2>2, <2>3
<1>. QED
  BY <1>2, <1>3 DEF SameStanding

\* Two events, one of them an outcome, in either order.
LEMMA SwapFirst ==
    ASSUME NEW cfg \in Config, NEW p, IsProjection(p),
           NEW a \in Event, NEW b \in Event, NEW c \in Event, NEW d \in Event,
           c.body = b.body, d.body = a.body, a.body.kind = "use", b.body.kind # "learn"
    PROVE  SameStanding(Apply(Apply(p, a, cfg), b, cfg), Apply(Apply(p, c, cfg), d, cfg))
<1>. DEFINE q == Apply(p, a, cfg)
            r == Apply(p, c, cfg)
<1>1. /\ IsProjection(q) /\ Ids(q) = Ids(p)
      /\ IsProjection(r) /\ Ids(r) = Ids(p)
  BY ApplyType, ApplyIds
<1>. HIDE DEF q, r
<1>2. Ids(Apply(q, b, cfg)) = Ids(p) /\ Ids(Apply(r, d, cfg)) = Ids(p)
  BY <1>1, ApplyIds
<1>3. ASSUME NEW id \in Ids(p)
      PROVE  Standing(Apply(q, b, cfg), id) = Standing(Apply(r, d, cfg), id)
  <2>. DEFINE s == Standing(p, id)
  <2>1. s \in Standings
    BY StandingType
  <2>2. Standing(q, id) = (IF a.body.ref = id THEN StandingAfter(s, a.body, cfg) ELSE s)
    BY StandingStep DEF q
  <2>3. Standing(r, id) = (IF b.body.ref = id THEN StandingAfter(s, b.body, cfg) ELSE s)
    BY StandingStep DEF r
  <2>4. Standing(Apply(q, b, cfg), id)
          = (IF b.body.ref = id THEN StandingAfter(Standing(q, id), b.body, cfg)
                                ELSE Standing(q, id))
    BY <1>1, StandingStep
  <2>5. Standing(Apply(r, d, cfg), id)
          = (IF a.body.ref = id THEN StandingAfter(Standing(r, id), a.body, cfg)
                                ELSE Standing(r, id))
    BY <1>1, StandingStep
  <2>6. a.body \in Body /\ b.body \in Body
    BY DEF Event
  <2>7. StandingAfter(StandingAfter(s, a.body, cfg), b.body, cfg)
          = StandingAfter(StandingAfter(s, b.body, cfg), a.body, cfg)
    BY <2>1, <2>6, Commutes
  <2>. QED
    BY <2>2, <2>3, <2>4, <2>5, <2>7
<1>. QED
  BY <1>2, <1>3 DEF SameStanding, q, r

LEMMA Swap ==
    ASSUME NEW cfg \in Config, NEW p, IsProjection(p),
           NEW a \in Event, NEW b \in Event, NEW c \in Event, NEW d \in Event,
           c.body = b.body, d.body = a.body,
           "use" \in {a.body.kind, b.body.kind}, "learn" \notin {a.body.kind, b.body.kind}
    PROVE  SameStanding(Apply(Apply(p, a, cfg), b, cfg), Apply(Apply(p, c, cfg), d, cfg))
<1>1. CASE a.body.kind = "use"
  BY <1>1, SwapFirst
<1>2. CASE b.body.kind = "use"
  <2>1. SameStanding(Apply(Apply(p, c, cfg), d, cfg), Apply(Apply(p, a, cfg), b, cfg))
    BY <1>2, SwapFirst
  <2>. QED
    BY <2>1 DEF SameStanding
<1>. QED
  BY <1>1, <1>2

\* The inductive form: the projection is the fold of the log, and of any
\* exchange of it.
OrderInv == projection = Fold(log, Cfg) /\ OrderIndifferent

LEMMA ExchangedType ==
    ASSUME log \in Seq(Event), NEW n \in 1..Len(log) - 1
    PROVE  Exchanged(n) \in Seq(Event)
<1>1. Len(log) \in Nat /\ DOMAIN log = 1..Len(log) /\ \A k \in 1..Len(log) : log[k] \in Event
  OBVIOUS
<1>2. ASSUME NEW k \in 1..Len(log)
      PROVE  [seq |-> log[k].seq, body |-> log[Other(n, k)].body] \in Event
  <2>1. Other(n, k) \in 1..Len(log)
    BY <1>1 DEF Other
  <2>. QED
    BY <1>1, <2>1 DEF Event
<1>3. Exchanged(n) \in [1..Len(log) -> Event]
  BY <1>1, <1>2 DEF Exchanged
<1>. QED
  BY <1>1, <1>3

\* Events appended later do not take part in an exchange.
LEMMA ExchangedAppend ==
    ASSUME log \in Seq(Event), NEW e \in Event, log' = Append(log, e), NEW n \in 1..Len(log) - 1
    PROVE  Exchanged(n)' = Append(Exchanged(n), e)
<1>. DEFINE m == Len(log)
            x == Exchanged(n)
            y == Exchanged(n)'
<1>1. /\ m \in Nat /\ n \in 1..m-1 /\ DOMAIN log = 1..m /\ DOMAIN log' = 1..m+1
      /\ log'[m+1] = e /\ \A k \in 1..m : log'[k] = log[k]
  OBVIOUS
<1>2. /\ y = [k \in 1..m+1 |-> [seq |-> log'[k].seq, body |-> log'[Other(n, k)].body]]
      /\ x = [k \in 1..m |-> [seq |-> log[k].seq, body |-> log[Other(n, k)].body]]
  BY <1>1 DEF Exchanged, Other
<1>. HIDE DEF x, y, m
<1>3. ASSUME NEW k \in 1..m PROVE y[k] = x[k]
  <2>1. Other(n, k) \in 1..m /\ k \in 1..m+1
    BY <1>1 DEF Other
  <2>. QED
    BY <1>1, <1>2, <2>1
<1>4. y[m+1] = e
  <2>1. Other(n, m+1) = m + 1 /\ m + 1 \in 1..m+1
    BY <1>1 DEF Other
  <2>2. e = [seq |-> e.seq, body |-> e.body]
    BY DEF Event
  <2>. QED
    BY <1>1, <1>2, <2>1, <2>2
<1>5. x \in Seq(Event) /\ Len(x) = m /\ y = [k \in 1..m+1 |-> y[k]]
  <2>1. x \in Seq(Event)
    BY ExchangedType DEF x
  <2>2. DOMAIN x = 1..m
    BY <1>2
  <2>3. Len(x) = m
    BY <1>1, <2>1, <2>2
  <2>. QED
    BY <1>2, <2>1, <2>3
<1>6. Append(x, e) \in Seq(Event) /\ Len(Append(x, e)) = m + 1
      /\ Append(x, e)[m+1] = e /\ \A k \in 1..m : Append(x, e)[k] = x[k]
  BY <1>5, AppendProperties
<1>7. ASSUME NEW k \in 1..m+1 PROVE y[k] = Append(x, e)[k] /\ y[k] \in Event
  <2>1. CASE k \in 1..m
    <3>1. x[k] \in Event
      BY <1>5, <2>1, ElementOfSeq
    <3>. QED
      BY <1>3, <1>6, <2>1, <3>1
  <2>2. CASE k = m + 1
    BY <1>4, <1>6, <2>2
  <2>3. m \in Nat
    BY <1>1
  <2>4. k \in 1..m \/ k = m + 1
    BY <2>3
  <2>. QED
    BY <2>1, <2>2, <2>4
<1>8. y \in Seq(Event) /\ Len(y) = m + 1
  <2>1. y \in [1..m+1 -> Event]
    BY <1>5, <1>7
  <2>. QED
    BY <1>1, <2>1
<1>9. y = Append(x, e)
  BY <1>6, <1>7, <1>8, SeqEqual
<1>. QED
  BY <1>9 DEF x, y

\* The last two events, exchanged.
LEMMA ExchangedLast ==
    ASSUME NEW h \in Seq(Event), NEW a \in Event, NEW e \in Event,
           log = Append(h, a), log' = Append(log, e), NEW n \in Nat, n = Len(h) + 1
    PROVE  Exchanged(n)' = Append(Append(h, [seq |-> a.seq, body |-> e.body]),
                                  [seq |-> e.seq, body |-> a.body])
<1>. DEFINE c == [seq |-> a.seq, body |-> e.body]
            d == [seq |-> e.seq, body |-> a.body]
            y == Exchanged(n)'
            z == Append(Append(h, c), d)
<1>1. /\ DOMAIN log' = 1..n+1 /\ log'[n] = a /\ log'[n+1] = e
      /\ \A k \in 1..n-1 : log'[k] = h[k] /\ h[k] \in Event
  OBVIOUS
<1>2. y = [k \in 1..n+1 |-> [seq |-> log'[k].seq, body |-> log'[Other(n, k)].body]]
  BY <1>1 DEF Exchanged, Other
<1>3. c \in Event /\ d \in Event
  BY DEF Event
<1>4. /\ z \in Seq(Event) /\ Len(z) = n + 1
      /\ z[n] = c /\ z[n+1] = d /\ \A k \in 1..n-1 : z[k] = h[k]
  <2>. DEFINE t == Append(h, c)
  <2>. HIDE DEF c, d
  <2>1. /\ t \in Seq(Event) /\ Len(t) = n /\ t[n] = c /\ \A k \in 1..n-1 : t[k] = h[k]
    BY <1>3, AppendProperties
  <2>2. z = Append(t, d)
    OBVIOUS
  <2>. HIDE DEF t, z
  <2>. QED
    BY <1>3, <2>1, <2>2, AppendProperties
<1>. HIDE DEF z, y
<1>5. ASSUME NEW k \in 1..n+1 PROVE z[k] = y[k] /\ y[k] \in Event
  <2>1. y[k] = [seq |-> log'[k].seq, body |-> log'[Other(n, k)].body]
    BY <1>2
  <2>2. CASE k = n
    <3>1. Other(n, k) = n + 1
      BY <2>2 DEF Other
    <3>2. y[k] = c
      BY <1>1, <2>1, <2>2, <3>1
    <3>. QED
      BY <1>3, <1>4, <2>2, <3>2
  <2>3. CASE k = n + 1
    <3>1. Other(n, k) = n
      BY <2>3 DEF Other
    <3>2. y[k] = d
      BY <1>1, <2>1, <2>3, <3>1
    <3>. QED
      BY <1>3, <1>4, <2>3, <3>2
  <2>4. CASE k \in 1..n-1
    <3>1. Other(n, k) = k
      BY <2>4 DEF Other
    <3>2. h[k] = [seq |-> h[k].seq, body |-> h[k].body]
      BY <1>1, <2>4 DEF Event
    <3>3. y[k] = h[k]
      BY <1>1, <2>1, <2>4, <3>1, <3>2
    <3>. QED
      BY <1>1, <1>4, <2>4, <3>3
  <2>. QED
    BY <2>2, <2>3, <2>4
<1>6. y \in Seq(Event) /\ Len(y) = n + 1
  <2>1. y \in [1..n+1 -> Event]
    BY <1>2, <1>5
  <2>. QED
    BY <2>1
<1>7. y = z
  BY <1>4, <1>5, <1>6, SeqEqual
<1>. QED
  BY <1>7 DEF y, z

LEMMA OrderStep ==
    ASSUME OrderInv, LogTypeOK, LogNext
    PROVE  OrderInv'
<1>1. PICK body \in Bodies : AppendEvent(body)
  BY DEF LogNext, Record, Feedback
<1>. DEFINE e == [seq |-> Len(log) + 1, body |-> body]
            m == Len(log)
<1>2. /\ log \in Seq(Event) /\ e \in Event /\ Cfg \in Config /\ m \in Nat
      /\ log' = Append(log, e) /\ projection' = Apply(projection, e, Cfg)
  BY <1>1, BodiesAssumption, CfgAssumption DEF AppendEvent, LogTypeOK, Event
<1>3. projection = Fold(log, Cfg) /\ IsProjection(projection)
  BY DEF OrderInv, LogTypeOK
<1>4. projection' = Fold(log', Cfg)
  BY <1>2, <1>3, FoldAppend
<1>. HIDE DEF e
<1>5. ASSUME NEW n \in 1..m, "use" \in {log'[n].body.kind, log'[n+1].body.kind},
             "learn" \notin {log'[n].body.kind, log'[n+1].body.kind}
      PROVE  SameStanding(projection', Fold(Exchanged(n)', Cfg))
  <2>. DEFINE before == Exchanged(n)
              after == Exchanged(n)'
  <2>1. CASE n < m
    <3>1. log'[n] = log[n] /\ log'[n+1] = log[n+1]
      BY <1>2, <2>1
    <3>2. SameStanding(projection, Fold(before, Cfg))
      BY <1>5, <2>1, <3>1 DEF OrderInv, OrderIndifferent
    <3>3. before \in Seq(Event)
      BY <1>2, <2>1, ExchangedType
    <3>4. after = Append(before, e)
      BY <1>2, <2>1, ExchangedAppend
    <3>5. Fold(after, Cfg) = Apply(Fold(before, Cfg), e, Cfg) /\ IsProjection(Fold(before, Cfg))
      BY <1>2, <3>3, <3>4, FoldAppend, FoldType
    <3>. QED
      BY <1>2, <1>3, <3>2, <3>5, SameStep
  <2>2. CASE n = m
    <3>0. PICK head \in Seq(Event), a \in Event : log = Append(head, a)
      <4>. DEFINE h == [k \in 1..m-1 |-> log[k]]
      <4>1. m \in Nat /\ m \in 1..m /\ \A k \in 1..m : log[k] \in Event
        BY <1>2, <1>5
      <4>2. h \in Seq(Event) /\ Len(h) = m - 1 /\ \A k \in 1..m-1 : h[k] = log[k]
        <5>1. h \in [1..m-1 -> Event]
          BY <4>1
        <5>. QED
          BY <4>1, <5>1
      <4>. HIDE DEF h
      <4>3. /\ Append(h, log[m]) \in Seq(Event) /\ Len(Append(h, log[m])) = m
            /\ \A k \in 1..m : log[k] = Append(h, log[m])[k]
        BY <4>1, <4>2, AppendProperties
      <4>4. log = Append(h, log[m])
        BY <1>2, <4>3, SeqEqual
      <4>. QED
        BY <4>1, <4>2, <4>4
    <3>. DEFINE c == [seq |-> a.seq, body |-> e.body]
                d == [seq |-> e.seq, body |-> a.body]
    <3>1. /\ c \in Event /\ d \in Event /\ c.body = e.body /\ d.body = a.body
      BY <1>2 DEF Event
    <3>2. n = Len(head) + 1 /\ log[m] = a
      BY <2>2, <3>0, AppendProperties
    <3>3. log'[n] = a /\ log'[n+1] = e
      <4>1. m \in 1..m /\ m + 1 = Len(log) + 1
        BY <1>2, <1>5
      <4>2. log'[m] = log[m] /\ log'[m+1] = e
        BY <1>2, <4>1, AppendProperties
      <4>. QED
        BY <2>2, <3>2, <4>2
    <3>4. after = Append(Append(head, c), d)
      BY <1>2, <3>0, <3>2, ExchangedLast
    <3>. HIDE DEF c, d, after
    <3>5. Fold(log, Cfg) = Apply(Fold(head, Cfg), a, Cfg) /\ IsProjection(Fold(head, Cfg))
      BY <1>2, <3>0, FoldAppend, FoldType
    <3>6. Fold(after, Cfg) = Apply(Apply(Fold(head, Cfg), c, Cfg), d, Cfg)
      <4>1. Append(head, c) \in Seq(Event)
        BY <3>1
      <4>2. Fold(Append(head, c), Cfg) = Apply(Fold(head, Cfg), c, Cfg)
        BY <1>2, <3>1, FoldAppend
      <4>. QED
        BY <1>2, <3>1, <3>4, <4>1, <4>2, FoldAppend
    <3>. QED
      BY <1>2, <1>3, <1>5, <3>1, <3>3, <3>5, <3>6, Swap DEF after
  <2>. QED
    BY <2>1, <2>2
<1>6. Len(log') - 1 = m
  BY <1>2
<1>. QED
  BY <1>4, <1>5, <1>6 DEF OrderInv, OrderIndifferent

-----------------------------------------------------------------------------
(* The theorems.                                                           *)

\* The log and the projection always have the shape _apply writes.
THEOREM TypeCorrect == LogSpec => []LogTypeOK
<1>1. LogSound => LogTypeOK
  BY DEF LogSound
<1>. QED
  BY <1>1, SpecSound, PTL

\* The counters of `learning` are what the rows of `usage` add up to.
THEOREM UsageAlwaysAccounted == LogSpec => []UsageAccounted
<1>1. LogSound => UsageAccounted
  BY DEF LogSound, UsageAccounted
<1>. QED
  BY <1>1, SpecSound, PTL

\* No history moves a confidence out of [floor, ceiling].
THEOREM ConfidenceAlwaysBounded == LogSpec => []ConfidenceBounded
<1>1. LogSound => ConfidenceBounded
  BY DEF LogSound, RowsSound, RowSound, ConfidenceBounded
<1>. QED
  BY <1>1, SpecSound, PTL

\* In which order feedback was appended around an outcome decides neither
\* which entries are active nor a counter.
THEOREM OrderNeverMatters == LogSpec => []OrderIndifferent
<1>1. LogInit => OrderInv
  <2>. SUFFICES ASSUME LogInit PROVE OrderInv
    OBVIOUS
  <2>1. Len(log) = 0 /\ projection = Fold(log, Cfg)
    BY FoldEmpty DEF LogInit
  <2>2. 1..Len(log) - 1 = {}
    BY <2>1
  <2>. QED
    BY <2>1, <2>2 DEF OrderInv, OrderIndifferent
<1>2. OrderInv /\ LogTypeOK /\ [LogNext]_logVars => OrderInv'
  <2>. SUFFICES ASSUME OrderInv, LogTypeOK, [LogNext]_logVars PROVE OrderInv'
    OBVIOUS
  <2>1. CASE LogNext
    BY <2>1, OrderStep
  <2>2. CASE UNCHANGED logVars
    BY <2>2 DEF logVars, OrderInv, OrderIndifferent, Exchanged, Other
  <2>. QED
    BY <2>1, <2>2
<1>3. OrderInv => OrderIndifferent
  BY DEF OrderInv
<1>. QED
  BY <1>1, <1>2, <1>3, TypeCorrect, PTL DEF LogSpec

\* A retired entry stays retired, whatever is appended.
THEOREM RetiredStays == LogSpec => RetiredForever
<1>1. LogSound /\ [LogNext]_logVars => [RetiredIds(projection) \subseteq RetiredIds(projection)']_logVars
  <2>. SUFFICES ASSUME LogSound, LogNext
                PROVE  RetiredIds(projection) \subseteq RetiredIds(projection)'
    BY DEF logVars
  <2>. PICK e \in Event :
            /\ projection' = Apply(projection, e, Cfg)
            /\ e.body.kind = "learn" => e.body.ref \notin Ids(projection)
    BY StepAppends
  <2>. QED
    BY ApplyRetired, CfgAssumption DEF LogSound, LogTypeOK
<1>. QED
  BY <1>1, SpecSound, PTL DEF LogSpec, RetiredForever
=============================================================================
