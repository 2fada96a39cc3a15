------------------------- MODULE ProjectGateProofs -------------------------
(***************************************************************************)
(* What a green report of the project gate promises, proved for any steps, *)
(* declarations, trees, mutants and number of edits.                       *)
(***************************************************************************)
EXTENDS ProjectGate, FiniteSetTheorems, TLAPS

-----------------------------------------------------------------------------
Working == {"prepare", "count", "copy", "execute", "child"}
Reading == {"describe", "document", "digest"}
AllGreen == \A i \in DOMAIN outcome : Green(outcome[i])
Done(s) == \E i \in DOMAIN outcome : Steps[i] = s

\* Where the run is, and what it has then collected and published.
PhaseInv ==
    /\ (verdict = "running") <=> (phase # "ended")
    /\ phase \in Reading => outcome = <<>> /\ ctx.digest = NoDeclaration
    /\ phase \in Working => Len(outcome) < Len(Steps)
    /\ phase \in {"report", "exit"} \/ verdict \in {"pass", "fail"} => Len(outcome) = Len(Steps)
    /\ verdict = "running" /\ phase # "exit" => evidence = "absent"
    /\ phase = "exit" => evidence = IF ReportGreen THEN "pass" ELSE "fail"
    /\ verdict \in {"pass", "fail"} =>
          /\ evidence = verdict
          /\ verdict = IF ReportGreen THEN "pass" ELSE "fail"

\* The step whose work each phase does.
StepInv ==
    /\ phase = "count" => Current = "discipline-checks"
    /\ phase = "copy" => Current = "artifact-build"
    /\ phase = "child" => Current = "mutation"
    /\ phase = "execute" => Current \in Tools \cup {"artifact-build", "clean-install"}
    /\ phase \in {"copy", "execute", "child"} => Needs(Current) \subseteq ctx.document.fields

\* Wheels come from a build, and a wheel after the build's end from a build that failed.
ScratchInv ==
    /\ scratch.wheels # 0 \/ scratch.orphan => Done("artifact-build")
    /\ scratch.orphan => ~AllGreen
    /\ phase = "execute" /\ Current = "clean-install" /\ AllGreen => scratch.wheels = 1

\* What a green outcome o of step s owes, as long as every outcome is green.
Earned(s, o) ==
    /\ Needs(s) \subseteq ctx.document.fields
    /\ s = "mutation" => NothingSurvives(child.config, o.judged.tree)
    /\ s # "mutation" => s \in o.judged.tree.clean \cup o.probed.tree.clean
    /\ s \in {"artifact-build", "clean-install"} =>
          /\ o.judged = scratch.copy
          /\ scratch.copy.decl.identity = ctx.document.identity
          /\ scratch.wheels = 1

EarnedInv == AllGreen => \A i \in DOMAIN outcome : Earned(Steps[i], outcome[i])

\* Domain p of tree t has a mutant and every mutant of it is killed.
Held(t, p) ==
    /\ \E m \in Mutants : t.fate[p][m] # "none"
    /\ \A m \in Mutants : t.fate[p][m] \in {"none", "killed"}

\* The mutation process has judged the domains it took off its list, over its own copy.
Looping == {"baseline", "inventory", "exec", "judge", "score"}

ChildInv ==
    /\ child.phase \in {"scan", "copy"} =>
          child.domains = child.config.domains /\ child.domains # {}
    /\ child.phase \in Looping =>
          /\ child.copy.tree \in Trees
          /\ child.at \in child.domains /\ child.domains \subseteq child.config.domains
          /\ \A p \in child.config.domains \ child.domains :
                child.copy.tree.suite = "passes" /\ Held(child.copy.tree, p)
    /\ child.phase \in Looping \ {"baseline"} => child.copy.tree.suite = "passes"
    /\ child.phase \in {"exec", "judge", "score"} =>
          DOMAIN child.work = Generated(child) /\ Generated(child) # {}
    /\ child.phase = "judge" =>
          \A m \in DOMAIN child.work :
             child.work[m] \in {"killed", "survived"} =>
                 child.work[m] = child.copy.tree.fate[child.at][m]
    /\ child.phase = "score" => Held(child.copy.tree, child.at)
    /\ child.phase = "exited" /\ child.status = "pass" =>
          NothingSurvives(child.config, child.copy.tree)

\* As long as nobody edits, everything read is what is there.
Quiet == edits = <<0, 0>>

QuietContext ==
    /\ ctx.declaration = decl /\ ctx.document = decl /\ ctx.digest = decl /\ decl.accepted

QuietInv ==
    Quiet =>
      /\ phase = "document" => ctx.declaration = decl /\ decl.accepted
      /\ phase = "digest" => ctx.declaration = decl /\ ctx.document = decl /\ decl.accepted
      /\ phase \in Working \/ ctx.digest # NoDeclaration => QuietContext
      /\ phase = "count" => probed.tree = tree
      /\ phase \in {"copy", "execute", "child"} => Probed(Current, decl, tree)
      /\ phase \in {"copy", "execute"} /\ Current = "artifact-build" => ~tree.symlink
      /\ scratch.wheels # 0 \/ scratch.orphan
            \/ (phase = "execute" /\ Current \in {"artifact-build", "clean-install"})
         => scratch.copy = Bytes
      /\ child.phase \in {"scan", "copy"} => child.config = decl
      /\ child.phase \in Looping \/ (child.phase = "exited" /\ child.status = "pass")
         => child.config = decl /\ child.copy = Bytes
      /\ \A i \in DOMAIN outcome : Green(outcome[i]) => Promised(Steps[i], decl, tree)

IInv ==
    /\ TypeOK /\ PhaseInv /\ StepInv /\ ScratchInv /\ EarnedInv /\ ChildInv /\ QuietInv

-----------------------------------------------------------------------------
LEMMA CurrentIsAStep ==
  ASSUME TypeOK, Len(outcome) < Len(Steps)
  PROVE  /\ Len(outcome) \in Nat /\ Len(outcome) + 1 \in 1..Len(Steps)
         /\ DOMAIN outcome = 1..Len(outcome) /\ DOMAIN Steps = 1..Len(Steps)
         /\ Current \in STRING
<1>1. outcome \in Seq(Outcomes) /\ Steps \in Seq(STRING)
  BY StepsAssumption DEF TypeOK
<1>2. Len(outcome) \in Nat /\ Len(Steps) \in Nat
  BY <1>1
<1>3. Len(outcome) + 1 \in 1..Len(Steps)
  BY <1>2
<1> QED
  BY <1>1, <1>2, <1>3 DEF Current

\* No step before the current one has its name.
LEMMA CurrentIsNew ==
  ASSUME TypeOK, Len(outcome) < Len(Steps), NEW i \in DOMAIN outcome
  PROVE  Steps[i] # Current
<1>1. /\ DOMAIN outcome = 1..Len(outcome) /\ DOMAIN Steps = 1..Len(Steps)
      /\ Len(outcome) \in Nat /\ Len(outcome) + 1 \in 1..Len(Steps)
  BY CurrentIsAStep
<1>2. i \in DOMAIN Steps /\ Len(outcome) + 1 \in DOMAIN Steps /\ i # Len(outcome) + 1
  BY <1>1
<1> QED
  BY <1>2, StepsAssumption DEF Current

(***************************************************************************)
(* What earlier steps earned stays earned: only the mutation step moves    *)
(* the child and only the build step makes artifacts.                      *)
(***************************************************************************)
LEMMA EarnedKept ==
  ASSUME TypeOK, ScratchInv, EarnedInv, AllGreen, Len(outcome) < Len(Steps),
         NEW s, s = Current, ctx' = ctx,
         child' = child \/ s = "mutation",
         scratch' = scratch \/ s = "artifact-build",
         NEW i \in DOMAIN outcome, NEW t, t = Steps[i], NEW q, q = outcome[i]
  PROVE  Earned(t, q)'
<1>1. Earned(t, q)
  BY DEF EarnedInv
<1>2. t # s
  BY CurrentIsNew
<1>3. CASE s = "mutation"
  <2>1. scratch' = scratch /\ t # "mutation"
    BY <1>2, <1>3
  <2> QED
    BY <1>1, <2>1 DEF Earned
<1>4. CASE s = "artifact-build"
  <2>1. child' = child
    BY <1>4
  <2>2. t # "artifact-build"
    BY <1>2, <1>4
  <2>3. t # "clean-install"
    <3>1. SUFFICES ASSUME t = "clean-install" PROVE FALSE
      OBVIOUS
    <3>2. scratch.wheels # 0
      BY <3>1, <1>1 DEF Earned
    <3>3. PICK j \in DOMAIN outcome : Steps[j] = "artifact-build"
      BY <3>2 DEF ScratchInv, Done
    <3> QED
      BY <3>3, <1>4, CurrentIsNew
  <2> QED
    BY <1>1, <2>1, <2>2, <2>3 DEF Earned
<1>5. CASE s \notin {"mutation", "artifact-build"}
  <2>1. child' = child /\ scratch' = scratch
    BY <1>5
  <2> QED
    BY <1>1, <2>1 DEF Earned
<1> QED
  BY <1>3, <1>4, <1>5

(***************************************************************************)
(* The current step ends with outcome o.                                   *)
(***************************************************************************)
LEMMA EndStep ==
  ASSUME IInv, verdict = "running", phase \in Working,
         NEW s, s = Current, NEW o \in Outcomes, End(o),
         UNCHANGED <<repository, edits, ctx, verdict, evidence>>,
         child' = child \/ (s = "mutation" /\ child' = Idle), child' \in Children,
         scratch' = scratch \/ s = "artifact-build", scratch' \in Scratches,
         scratch'.orphan => scratch.orphan \/ ~Green(o),
         AllGreen /\ Green(o) => Earned(s, o)',
         Quiet => scratch' = scratch \/ scratch'.copy = Bytes,
         Quiet /\ Green(o) => Promised(s, decl, tree)
  PROVE  IInv'
<1> USE DEF IInv
<1>1. Len(outcome) < Len(Steps) /\ phase \notin {"ended", "exit", "report"}
  BY DEF PhaseInv, Working
<1>2. /\ Len(outcome) \in Nat /\ Len(Steps) \in Nat /\ DOMAIN outcome = 1..Len(outcome)
      /\ Len(outcome) + 1 \in 1..Len(Steps)
  BY <1>1, CurrentIsAStep, StepsAssumption
<1>3. /\ outcome' \in Seq(Outcomes) /\ Len(outcome') = Len(outcome) + 1
      /\ \A i \in DOMAIN outcome : outcome'[i] = outcome[i]
      /\ outcome'[Len(outcome) + 1] = o
      /\ DOMAIN outcome' = DOMAIN outcome \cup {Len(outcome) + 1}
  <2>1. outcome \in Seq(Outcomes) /\ outcome' = Append(outcome, o)
    BY DEF TypeOK, End
  <2>2. outcome' \in Seq(Outcomes) /\ Len(outcome') = Len(outcome) + 1
    BY <2>1
  <2>3. DOMAIN outcome' = 1..(Len(outcome) + 1)
    BY <2>2
  <2> QED
    BY <2>1, <2>2, <2>3, <1>2
<1>4. Steps[Len(outcome) + 1] = s
  BY DEF Current
<1>5. /\ phase' \in {"report", "prepare"} /\ probed' = Nothing
      /\ phase' = "report" <=> Len(outcome') = Len(Steps)
  BY <1>3 DEF End
<1>6. AllGreen' <=> AllGreen /\ Green(o)
  BY <1>3 DEF AllGreen
<1>7. TypeOK'
  <2>1. Len(outcome') <= Len(Steps)
    BY <1>1, <1>2, <1>3
  <2>2. probed' \in BytesRead
    BY <1>5 DEF Nothing, BytesRead
  <2> QED
    BY <1>3, <1>5, <2>1, <2>2 DEF TypeOK, Phases, repository
<1>8. PhaseInv'
  <2>1. phase' = "prepare" => Len(outcome') < Len(Steps)
    BY <1>1, <1>2, <1>3, <1>5
  <2>2. evidence' = "absent" /\ verdict' = "running"
    BY <1>1 DEF PhaseInv
  <2> QED
    BY <2>1, <2>2, <1>5 DEF PhaseInv, Working, Reading
<1>9. StepInv'
  BY <1>5 DEF StepInv
<1>10. ScratchInv'
  <2>1. Done("artifact-build") => Done("artifact-build")'
    BY <1>3 DEF Done
  <2>2. s = "artifact-build" => Done("artifact-build")'
    BY <1>3, <1>4 DEF Done
  <2> QED
    BY <2>1, <2>2, <1>5, <1>6 DEF ScratchInv
<1>11. EarnedInv'
  <2>1. SUFFICES ASSUME AllGreen', NEW i \in DOMAIN outcome'
                 PROVE  Earned(Steps[i], outcome[i])'
    BY DEF EarnedInv
  <2>2. PICK t : t = Steps[i]
    OBVIOUS
  <2>3. PICK q : q = outcome'[i]
    OBVIOUS
  <2>4. Earned(t, q)'
    <3>1. CASE i = Len(outcome) + 1
      BY <3>1, <2>1, <2>2, <2>3, <1>3, <1>4, <1>6
    <3>2. CASE i \in DOMAIN outcome
      BY <3>2, <2>1, <2>2, <2>3, <1>1, <1>3, <1>6, EarnedKept
    <3> QED
      BY <3>1, <3>2, <1>3
  <2> QED
    BY <2>2, <2>3, <2>4
<1>12. ChildInv'
  BY DEF ChildInv, Idle, Looping, Generated
<1>13. QuietInv'
  <2>1. SUFFICES ASSUME Quiet, Quiet' PROVE QuietInv'
    BY DEF QuietInv, Quiet
  <2>2. QuietContext'
    BY <2>1 DEF QuietInv, QuietContext, repository
  <2>3. scratch'.wheels # 0 \/ scratch'.orphan => scratch'.copy = Bytes'
    BY <2>1 DEF QuietInv, Bytes, repository
  <2>4. /\ child'.phase \in {"scan", "copy"} => child'.config = decl'
        /\ child'.phase \in Looping \/ (child'.phase = "exited" /\ child'.status = "pass")
              => child'.config = decl' /\ child'.copy = Bytes'
    BY <2>1 DEF QuietInv, Bytes, repository, Idle, Looping
  <2>5. \A i \in DOMAIN outcome' : Green(outcome'[i]) => Promised(Steps[i], decl', tree')
    BY <2>1, <1>3, <1>4 DEF QuietInv, repository
  <2> QED
    BY <2>2, <2>3, <2>4, <2>5, <1>5 DEF QuietInv
<1> QED
  BY <1>7, <1>8, <1>9, <1>10, <1>11, <1>12, <1>13

-----------------------------------------------------------------------------
LEMMA NothingIsRead == Nothing \in BytesRead /\ NoScratch \in Scratches /\ NoContext \in Contexts
BY DEF Nothing, BytesRead, NoScratch, Scratches, NoContext, Contexts

LEMMA IdleIsAChild == Idle \in Children /\ Spawned \in Children
<1>1. \A e : e = <<>> => e \in [{} -> Fates \cup {"pending", "abnormal", "dropped"}]
  OBVIOUS
<1>2. PICK w : w = <<>>
  OBVIOUS
<1>3. w \in Works
  BY <1>1, <1>2 DEF Works
<1>4. Idle \in Children
  BY <1>2, <1>3 DEF Idle, Children, Nothing, BytesRead
<1> QED
  BY <1>4 DEF Spawned, Children

LEMMA InitIsOK == Init => IInv
<1> SUFFICES ASSUME Init PROVE IInv
  OBVIOUS
<1> USE DEF Init
<1>1. TypeOK
  <2>1. outcome \in Seq(Outcomes) /\ Len(outcome) <= Len(Steps)
    BY StepsAssumption
  <2> QED
    BY <2>1, NothingIsRead, IdleIsAChild DEF TypeOK, Phases
<1>2. PhaseInv /\ StepInv
  BY DEF PhaseInv, StepInv, NoContext, Working, Reading
<1>3. ScratchInv
  BY DEF ScratchInv, NoScratch
<1>4. EarnedInv
  BY DEF EarnedInv
<1>5. ChildInv
  BY DEF ChildInv, Idle, Looping
<1>6. QuietInv
  BY DEF QuietInv, NoContext, NoScratch, Idle, Working, Looping
<1> QED
  BY <1>1, <1>2, <1>3, <1>4, <1>5, <1>6 DEF IInv

\* A refusal of the declaration leaves one red outcome per step.
LEMMA RefuseStep ==
  ASSUME IInv, verdict = "running", phase \in Reading, Refuse,
         UNCHANGED <<repository, child, edits, probed, scratch, verdict, evidence>>
  PROVE  IInv'
<1> USE DEF IInv
<1>1. PICK o : o = Red("not-run")
  OBVIOUS
<1>2. o \in Outcomes /\ ~Green(o)
  BY <1>1, NothingIsRead DEF Red, Outcome, Outcomes, Statuses, Green
<1>3. Len(Steps) \in Nat /\ 1 \in 1..Len(Steps)
  BY StepsAssumption
<1>4. outcome' = [i \in 1..Len(Steps) |-> o]
  BY <1>1 DEF Refuse
<1>5. /\ outcome' \in Seq(Outcomes) /\ Len(outcome') = Len(Steps)
      /\ DOMAIN outcome' = 1..Len(Steps) /\ \A i \in DOMAIN outcome' : ~Green(outcome'[i])
  BY <1>2, <1>3, <1>4
<1>6. ~AllGreen'
  BY <1>3, <1>5 DEF AllGreen
<1>7. outcome = <<>> /\ ctx.digest = NoDeclaration /\ phase' = "report" /\ ctx' = ctx
  BY DEF PhaseInv, Refuse, Reading
<1>8. TypeOK'
  BY <1>5, <1>7 DEF TypeOK, Phases, repository
<1>9. PhaseInv' /\ StepInv'
  BY <1>5, <1>7 DEF PhaseInv, StepInv, Reading, Working
<1>10. scratch.wheels = 0 /\ ~scratch.orphan
  BY <1>7 DEF ScratchInv, Done, TypeOK, Scratches
<1>11. ScratchInv' /\ EarnedInv'
  BY <1>6, <1>7, <1>10 DEF ScratchInv, EarnedInv
<1>12. ChildInv'
  BY DEF ChildInv, Generated
<1>13. QuietInv'
  BY <1>5, <1>7, <1>10 DEF QuietInv, Quiet, Bytes, repository, Working, QuietContext
<1> QED
  BY <1>8, <1>9, <1>11, <1>12, <1>13

LEMMA ReadingStep ==
  ASSUME IInv, Describe \/ ReadDocument \/ TakeDigest
  PROVE  IInv'
<1> USE DEF IInv
<1>1. CASE Refuse /\ (Describe \/ ReadDocument)
  BY <1>1, RefuseStep DEF Describe, ReadDocument, At, Reading
<1>2. CASE ~Refuse \/ TakeDigest
  <2>1. /\ verdict = "running" /\ phase \in Reading /\ outcome = <<>> /\ evidence = "absent"
        /\ ctx.digest = NoDeclaration
    BY DEF Describe, ReadDocument, TakeDigest, At, Reading, PhaseInv
  <2>2. UNCHANGED <<repository, child, edits, probed, outcome, scratch, verdict, evidence>>
    BY <1>2 DEF Describe, ReadDocument, TakeDigest
  <2>3. decl \in Declarations /\ ctx \in Contexts
    BY DEF TypeOK
  <2>4. \/ /\ phase = "describe" /\ phase' = "document" /\ decl.accepted
            /\ ctx' = [ctx EXCEPT !.declaration = decl]
        \/ /\ phase = "document" /\ phase' = "digest"
            /\ ctx' = [ctx EXCEPT !.document = decl]
        \/ /\ phase = "digest" /\ phase' = "prepare"
            /\ ctx' = [ctx EXCEPT !.digest = decl]
    BY <1>2 DEF Describe, ReadDocument, TakeDigest, At
  <2>5. ctx' \in Contexts /\ (phase # "digest" => ctx'.digest = NoDeclaration)
    BY <2>1, <2>3, <2>4 DEF Contexts
  <2>6. TypeOK'
    BY <2>2, <2>4, <2>5 DEF TypeOK, Phases, repository
  <2>7. PhaseInv' /\ StepInv'
    BY <2>1, <2>2, <2>4, <2>5, StepsAssumption DEF PhaseInv, StepInv, Reading, Working
  <2>8. scratch.wheels = 0 /\ ~scratch.orphan
    BY <2>1 DEF ScratchInv, Done, TypeOK, Scratches
  <2>9. ScratchInv' /\ EarnedInv'
    BY <2>1, <2>2, <2>4, <2>8 DEF ScratchInv, EarnedInv
  <2>10. ChildInv'
    BY <2>2 DEF ChildInv, Generated
  <2>11. QuietInv'
    <3>1. SUFFICES ASSUME Quiet, Quiet' PROVE QuietInv'
      BY <2>2 DEF QuietInv, Quiet
    <3>2. /\ phase' = "document" => ctx'.declaration = decl' /\ decl'.accepted
          /\ phase' = "digest" =>
                ctx'.declaration = decl' /\ ctx'.document = decl' /\ decl'.accepted
      BY <2>2, <2>3, <2>4, <3>1 DEF QuietInv, repository, Contexts
    <3>3. phase' \in Working \/ ctx'.digest # NoDeclaration => QuietContext'
      BY <2>2, <2>3, <2>4, <2>5, <3>1 DEF QuietInv, QuietContext, repository, Contexts, Working
    <3> QED
      BY <2>1, <2>2, <2>4, <2>8, <3>1, <3>2, <3>3 DEF QuietInv, Bytes, repository
  <2> QED
    BY <2>6, <2>7, <2>9, <2>10, <2>11
<1> QED
  BY <1>1, <1>2

-----------------------------------------------------------------------------
(***************************************************************************)
(* The steps that move the run on within the current step.                 *)
(***************************************************************************)
LEMMA OnwardStep ==
  ASSUME IInv, verdict = "running", phase \in Working, phase' \in Working,
         probed' \in BytesRead, UNCHANGED <<repository, edits, ctx, outcome, verdict, evidence>>,
         NEW s, s = Current,
         child' = child \/ s = "mutation", child' \in Children, ChildInv',
         scratch' = scratch \/ s = "artifact-build", scratch' \in Scratches,
         scratch'.wheels = scratch.wheels, scratch'.orphan = scratch.orphan,
         StepInv',
         AllGreen /\ phase' = "execute" /\ s = "clean-install" => scratch'.wheels = 1,
         QuietInv'
  PROVE  IInv'
<1> USE DEF IInv
<1>1. Len(outcome) < Len(Steps) /\ Current' = s /\ AllGreen' = AllGreen
  BY DEF PhaseInv, Working, Current, AllGreen
<1>2. TypeOK'
  BY DEF TypeOK, Phases, Working, repository
<1>3. PhaseInv'
  BY <1>1 DEF PhaseInv, Working, Reading
<1>4. ScratchInv'
  BY <1>1 DEF ScratchInv, Done
<1>5. EarnedInv'
  <2>1. SUFFICES ASSUME AllGreen', NEW i \in DOMAIN outcome'
                 PROVE  Earned(Steps[i], outcome[i])'
    BY DEF EarnedInv
  <2>2. PICK t : t = Steps[i]
    OBVIOUS
  <2>3. PICK q : q = outcome[i]
    OBVIOUS
  <2>4. Earned(t, q)'
    BY <1>1, <2>1, <2>2, <2>3, EarnedKept
  <2> QED
    BY <2>2, <2>3, <2>4
<1> QED
  BY <1>2, <1>3, <1>4, <1>5

LEMMA RunChecksStep == ASSUME IInv, RunChecks PROVE IInv'
<1> USE DEF IInv
<1>1. /\ verdict = "running" /\ phase = "prepare" /\ phase' = "count"
      /\ Current = "discipline-checks" /\ probed' = [decl |-> ctx.declaration, tree |-> tree]
      /\ UNCHANGED <<repository, child, edits, ctx, outcome, scratch, verdict, evidence>>
  BY DEF RunChecks, At
<1>2. Current' = Current /\ probed' \in BytesRead
  BY <1>1 DEF Current, TypeOK, Contexts, BytesRead
<1>3. StepInv' /\ ChildInv'
  BY <1>1, <1>2 DEF StepInv, ChildInv, Generated
<1>4. QuietInv'
  BY <1>1, <1>2 DEF QuietInv, Quiet, QuietContext, Bytes, repository, Working, Looping
<1> QED
  BY <1>1, <1>2, <1>3, <1>4, OnwardStep DEF Working, TypeOK

\* A step whose probe accepted the repository goes on to execute.
LEMMA ExecuteStep ==
  ASSUME IInv, verdict = "running", phase = "prepare", phase' = "execute", probed' = Context,
         UNCHANGED <<repository, child, edits, ctx, outcome, scratch, verdict, evidence>>,
         Current \in Tools \cup {"clean-install"},
         Probed(Current, ctx.document, tree),
         Current = "clean-install" => scratch.wheels = 1
  PROVE  IInv'
<1> USE DEF IInv
<1>1. /\ Current' = Current /\ probed' \in BytesRead /\ Current # "artifact-build"
      /\ Current # "discipline-checks"
  BY DEF Current, TypeOK, Contexts, BytesRead, Context, Tools
<1>2. Needs(Current) \subseteq ctx.document.fields
  BY DEF Probed
<1>3. StepInv' /\ ChildInv'
  BY <1>1, <1>2 DEF StepInv, ChildInv, Generated
<1>4. QuietInv'
  BY <1>1 DEF QuietInv, Quiet, QuietContext, Bytes, repository, Working, Looping
<1> QED
  BY <1>1, <1>3, <1>4, OnwardStep DEF Working, TypeOK

LEMMA SpawnStep == ASSUME IInv, SpawnMutation PROVE IInv'
<1> USE DEF IInv
<1>1. /\ verdict = "running" /\ phase = "execute" /\ phase' = "child" /\ Current = "mutation"
      /\ child' = Spawned
      /\ UNCHANGED <<repository, edits, ctx, probed, outcome, scratch, verdict, evidence>>
  BY DEF SpawnMutation, At
<1>2. Current' = Current
  BY <1>1 DEF Current
<1>3. Spawned.phase = "load" /\ Spawned \in Children
  BY IdleIsAChild DEF Spawned, Idle
<1>4. StepInv' /\ ChildInv'
  BY <1>1, <1>2, <1>3 DEF StepInv, ChildInv, Looping
<1>5. QuietInv'
  BY <1>1, <1>2, <1>3 DEF QuietInv, Quiet, QuietContext, Bytes, repository, Working, Looping
<1> QED
  BY <1>1, <1>2, <1>3, <1>4, <1>5, OnwardStep DEF Working, TypeOK

\* ScanSources goes on to the copy.
LEMMA ScanStep ==
  ASSUME IInv, ScanSources, phase' = "copy" PROVE IInv'
<1> USE DEF IInv
<1>1. /\ verdict = "running" /\ phase = "prepare" /\ Current = "artifact-build"
      /\ probed' = Context /\ Probed(Current, ctx.document, tree) /\ ~tree.symlink
      /\ UNCHANGED <<repository, child, edits, ctx, outcome, scratch, verdict, evidence>>
  BY DEF ScanSources, At, End
<1>2. Current' = Current /\ probed' \in BytesRead
  BY <1>1 DEF Current, TypeOK, Contexts, BytesRead, Context
<1>3. StepInv' /\ ChildInv'
  BY <1>1, <1>2 DEF StepInv, ChildInv, Generated, Probed
<1>4. QuietInv'
  BY <1>1, <1>2 DEF QuietInv, Quiet, QuietContext, Bytes, repository, Working, Looping
<1> QED
  BY <1>1, <1>2, <1>3, <1>4, OnwardStep DEF Working, TypeOK

\* The copy of the sources, up to the build.
LEMMA CopyStep ==
  ASSUME IInv, CopySources, phase' = "execute" PROVE IInv'
<1> USE DEF IInv
<1>1. /\ verdict = "running" /\ phase = "copy" /\ Current = "artifact-build"
      /\ scratch' = [scratch EXCEPT !.copy = Bytes]
      /\ UNCHANGED <<repository, child, edits, ctx, outcome, probed, verdict, evidence>>
  BY DEF CopySources, At, End, StepInv
<1>2. Current' = Current /\ scratch \in Scratches
  BY <1>1 DEF Current, TypeOK
<1>3. /\ scratch' \in Scratches /\ scratch'.copy = Bytes
      /\ scratch'.wheels = scratch.wheels /\ scratch'.orphan = scratch.orphan
  BY <1>1, <1>2 DEF Scratches, Bytes, BytesRead, TypeOK
<1>4. StepInv' /\ ChildInv'
  BY <1>1, <1>2 DEF StepInv, ChildInv, Generated
<1>5. QuietInv'
  BY <1>1, <1>2, <1>3 DEF QuietInv, Quiet, QuietContext, Bytes, repository, Working, Looping
<1> QED
  BY <1>1, <1>2, <1>3, <1>4, <1>5, OnwardStep DEF Working, TypeOK

-----------------------------------------------------------------------------
\* As long as nobody edits, the mutation process loads and copies what is there.
QuietChild ==
    /\ child.phase \in {"scan", "copy"} => child.config = decl
    /\ child.phase \in Looping \/ (child.phase = "exited" /\ child.status = "pass")
          => child.config = decl /\ child.copy = Bytes

LEMMA BytesAreRead == ASSUME TypeOK PROVE Bytes \in BytesRead /\ Bytes.tree \in Trees
BY DEF TypeOK, Bytes, BytesRead

\* A child that exits without success promises nothing.
LEMMA ReportStep ==
  ASSUME child \in Children, NEW r \in {"none", "fail"}, child' = Report(child, r)
  PROVE  child' \in Children /\ ChildInv' /\ QuietChild'
<1>1. child' \in Children /\ child'.phase = "exited" /\ child'.status = r
  BY DEF Report, Children
<1> QED
  BY <1>1 DEF ChildInv, QuietChild, Looping

LEMMA LoadStep ==
  ASSUME TypeOK, Load PROVE child' \in Children /\ ChildInv' /\ QuietChild'
<1>1. child \in Children /\ decl \in Declarations
  BY DEF TypeOK
<1>2. CASE child' = Report(child, "fail")
  BY <1>1, <1>2, ReportStep
<1>3. CASE ~(child' = Report(child, "fail"))
  <2>1. /\ child' = [child EXCEPT !.phase = "scan", !.config = decl, !.domains = decl.domains]
        /\ MutationFields \subseteq decl.fields /\ decl' = decl
    BY <1>3 DEF Load, LoadConfiguration
  <2>2. decl.domains \subseteq Paths /\ decl.domains # {}
    BY <1>1, <2>1, DomainsAssumption DEF MutationFields
  <2>3. /\ child' \in Children /\ child'.phase = "scan" /\ child'.config = decl
        /\ child'.domains = decl.domains
    BY <1>1, <2>1, <2>2 DEF Children
  <2> QED
    BY <2>1, <2>2, <2>3 DEF ChildInv, QuietChild, Looping
<1> QED
  BY <1>2, <1>3

LEMMA ScanChildStep ==
  ASSUME TypeOK, ChildInv, Scan
  PROVE  child' \in Children /\ ChildInv' /\ (QuietChild => QuietChild')
<1>1. child \in Children
  BY DEF TypeOK
<1>2. CASE child' = Report(child, "fail")
  BY <1>1, <1>2, ReportStep
<1>3. CASE ~(child' = Report(child, "fail"))
  <2>1. child' = [child EXCEPT !.phase = "copy"] /\ child.phase = "scan" /\ decl' = decl
    BY <1>3 DEF Scan
  <2>2. /\ child' \in Children /\ child'.phase = "copy" /\ child'.config = child.config
        /\ child'.domains = child.domains
    BY <1>1, <2>1 DEF Children
  <2> QED
    BY <2>1, <2>2 DEF ChildInv, QuietChild, Looping
<1> QED
  BY <1>2, <1>3

LEMMA CopyChildStep ==
  ASSUME TypeOK, ChildInv, Copy
  PROVE  child' \in Children /\ ChildInv' /\ (QuietChild => QuietChild')
<1>1. child \in Children
  BY DEF TypeOK
<1>2. CASE child' = Report(child, "none")
  BY <1>1, <1>2, ReportStep
<1>3. CASE ~(child' = Report(child, "none"))
  <2>1. PICK a : a = CHOOSE p \in child.domains : TRUE
    OBVIOUS
  <2>2. /\ child' = [child EXCEPT !.phase = "baseline", !.copy = Bytes, !.at = a]
        /\ child.phase = "copy" /\ Bytes' = Bytes /\ decl' = decl
    BY <1>3, <2>1 DEF Copy, Bytes
  <2>3. child.domains = child.config.domains /\ child.domains # {}
    BY <2>2 DEF ChildInv
  <2>4. a \in child.domains /\ child.domains \subseteq Paths
    BY <1>1, <2>1, <2>3 DEF Children
  <2>5. /\ child' \in Children /\ child'.phase = "baseline" /\ child'.config = child.config
        /\ child'.domains = child.domains /\ child'.copy = Bytes /\ child'.at = a
    BY <1>1, <2>2, <2>4, BytesAreRead DEF Children
  <2>6. ChildInv'
    BY <2>3, <2>4, <2>5, BytesAreRead DEF ChildInv, Looping
  <2> QED
    BY <2>2, <2>5, <2>6 DEF QuietChild, Looping
<1> QED
  BY <1>2, <1>3

LEMMA BaselineStep ==
  ASSUME TypeOK, ChildInv, Baseline
  PROVE  child' \in Children /\ ChildInv' /\ (QuietChild => QuietChild')
<1>1. child \in Children
  BY DEF TypeOK
<1>2. PICK dump \in BaselineDumps(child) :
          child' = IF BaselinePassed(dump) THEN [child EXCEPT !.phase = "inventory"]
                   ELSE Report(child, "fail")
  BY DEF Baseline
<1>3. CASE ~BaselinePassed(dump)
  BY <1>1, <1>2, <1>3, ReportStep
<1>4. CASE BaselinePassed(dump)
  <2>1. child.copy.tree.suite = "passes"
    <3>1. dump # <<>> /\ dump[1].test = "survived"
      BY <1>4 DEF BaselinePassed
    <3>2. PICK w \in {"normal", "abnormal"},
               t \in IF child.copy.tree.suite = "passes" THEN {"survived"}
                     ELSE IF child.copy.tree.suite = "fails" THEN {"killed"} ELSE {"incompetent"} :
                 dump = <<[worker |-> w, test |-> t]>>
      BY <1>2, <3>1 DEF BaselineDumps
    <3>3. t = "survived"
      BY <3>1, <3>2
    <3> QED
      BY <3>3
  <2>2. /\ child' = [child EXCEPT !.phase = "inventory"] /\ child.phase = "baseline"
        /\ decl' = decl /\ tree' = tree
    BY <1>2, <1>4 DEF Baseline
  <2>3. /\ child' \in Children /\ child'.phase = "inventory" /\ child'.config = child.config
        /\ child'.domains = child.domains /\ child'.copy = child.copy /\ child'.at = child.at
    BY <1>1, <2>2 DEF Children
  <2> QED
    BY <2>1, <2>2, <2>3 DEF ChildInv, QuietChild, Looping, Bytes
<1> QED
  BY <1>3, <1>4

LEMMA GeneratedAreMutants ==
  ASSUME NEW c PROVE Generated(c) \subseteq Mutants /\ IsFiniteSet(Generated(c))
<1>1. Generated(c) \subseteq Mutants
  BY DEF Generated
<1> QED
  BY <1>1, DomainsAssumption, FS_Subset

LEMMA InventoryStep ==
  ASSUME TypeOK, ChildInv, Inventory
  PROVE  child' \in Children /\ ChildInv' /\ (QuietChild => QuietChild')
<1>1. child \in Children
  BY DEF TypeOK
<1>2. CASE Generated(child) = {}
  BY <1>1, <1>2, ReportStep DEF Inventory
<1>3. CASE Generated(child) # {}
  <2>1. PICK w : w = [m \in Generated(child) |-> "pending"]
    OBVIOUS
  <2>2. /\ child' = [child EXCEPT !.phase = "exec", !.work = w] /\ child.phase = "inventory"
        /\ decl' = decl /\ tree' = tree
    BY <1>3, <2>1 DEF Inventory
  <2>3. w \in Works /\ DOMAIN w = Generated(child)
    BY <2>1, GeneratedAreMutants DEF Works
  <2>4. /\ child' \in Children /\ child'.phase = "exec" /\ child'.config = child.config
        /\ child'.domains = child.domains /\ child'.copy = child.copy /\ child'.at = child.at
        /\ child'.work = w
    BY <1>1, <2>2, <2>3 DEF Children
  <2>5. Generated(child)' = Generated(child)
    BY <2>4 DEF Generated
  <2> QED
    BY <1>3, <2>2, <2>3, <2>4, <2>5 DEF ChildInv, QuietChild, Looping, Bytes
<1> QED
  BY <1>2, <1>3

LEMMA ExecuteChildStep ==
  ASSUME TypeOK, ChildInv, Execute
  PROVE  child' \in Children /\ ChildInv' /\ (QuietChild => QuietChild')
<1>1. child \in Children
  BY DEF TypeOK
<1>2. CASE child' = Report(child, "fail")
  BY <1>1, <1>2, ReportStep
<1>3. CASE \E mistreated \in SUBSET DOMAIN child.work, how \in {"abnormal", "pending", "dropped"} :
             child' = [child EXCEPT !.phase = "judge",
                                    !.work = Executed(child, mistreated, how)]
  <2>1. PICK mistreated \in SUBSET DOMAIN child.work, how \in {"abnormal", "pending", "dropped"} :
             child' = [child EXCEPT !.phase = "judge",
                                    !.work = Executed(child, mistreated, how)]
    BY <1>3
  <2>2. PICK w : w = Executed(child, mistreated, how)
    OBVIOUS
  <2>3. child.phase = "exec" /\ decl' = decl /\ tree' = tree
    BY DEF Execute
  <2>4. /\ DOMAIN child.work = Generated(child) /\ Generated(child) # {}
        /\ child.copy.tree \in Trees /\ child.at \in Paths
    BY <1>1, <2>3 DEF ChildInv, Looping, Children
  <2>5. PICK fate \in [Mutants -> Fates] : fate = child.copy.tree.fate[child.at]
    BY <2>4, DomainsAssumption
  <2>6. DOMAIN child.work \subseteq Mutants
    BY <2>4, GeneratedAreMutants
  <2>7. w = [m \in DOMAIN child.work |-> IF m \in mistreated THEN how ELSE fate[m]]
    BY <2>2, <2>5 DEF Executed
  <2>8. w \in [DOMAIN child.work -> Fates \cup {"pending", "abnormal", "dropped"}]
    BY <2>5, <2>6, <2>7
  <2>9. w \in Works /\ DOMAIN w = DOMAIN child.work
    BY <2>6, <2>8 DEF Works
  <2>10. \A m \in DOMAIN w : w[m] \in {"killed", "survived"} => w[m] = fate[m]
    BY <2>7
  <2>11. /\ child' \in Children /\ child'.phase = "judge" /\ child'.config = child.config
        /\ child'.domains = child.domains /\ child'.copy = child.copy /\ child'.at = child.at
        /\ child'.work = w
    BY <1>1, <2>1, <2>2, <2>9 DEF Children
  <2>12. Generated(child)' = Generated(child)
    BY <2>11 DEF Generated
  <2> QED
    BY <2>3, <2>4, <2>5, <2>9, <2>10, <2>11, <2>12 DEF ChildInv, QuietChild, Looping, Bytes
<1> QED
  BY <1>2, <1>3 DEF Execute

(***************************************************************************)
(* A dump that is not refused and names no survivor has every generated    *)
(* mutant killed: none is dropped, for the counts would differ.            *)
(***************************************************************************)
LEMMA DumpIsComplete ==
  ASSUME NEW work \in Works, ~Refused(work), Survivors(work) = {}
  PROVE  \A m \in DOMAIN work : work[m] = "killed"
<1>1. DOMAIN work \subseteq Mutants
  BY DEF Works
<1>2. IsFiniteSet(DOMAIN work)
  BY <1>1, DomainsAssumption, FS_Subset
<1>3. Reported(work) \subseteq DOMAIN work
  BY DEF Reported
<1>4. Cardinality(Reported(work)) = Cardinality(DOMAIN work)
  BY DEF Refused
<1>5. Reported(work) = DOMAIN work
  BY <1>2, <1>3, <1>4, FS_Subset
<1> QED
  BY <1>5 DEF Refused, Survivors

LEMMA JudgeStep ==
  ASSUME TypeOK, ChildInv, Judge
  PROVE  child' \in Children /\ ChildInv' /\ (QuietChild => QuietChild')
<1>1. child \in Children
  BY DEF TypeOK
<1>2. CASE Refused(child.work) \/ Survivors(child.work) # {}
  BY <1>1, <1>2, ReportStep DEF Judge
<1>3. CASE ~Refused(child.work) /\ Survivors(child.work) = {}
  <2>1. /\ child' = [child EXCEPT !.phase = "score"] /\ child.phase = "judge"
        /\ decl' = decl /\ tree' = tree
    BY <1>3 DEF Judge
  <2>2. \A m \in DOMAIN child.work : child.work[m] = "killed"
    BY <1>1, <1>3, DumpIsComplete DEF Children
  <2>3. /\ DOMAIN child.work = Generated(child) /\ Generated(child) # {}
        /\ child.copy.tree \in Trees /\ child.at \in Paths
    BY <1>1, <2>1 DEF ChildInv, Looping, Children
  <2>4. \A m \in Generated(child) : child.copy.tree.fate[child.at][m] = "killed"
    BY <2>1, <2>2, <2>3 DEF ChildInv
  <2>5. \A m \in Mutants : child.copy.tree.fate[child.at][m] \in {"none", "killed"}
    BY <2>4 DEF Generated
  <2>6. Held(child.copy.tree, child.at)
    BY <2>3, <2>5 DEF Held, Generated
  <2>7. /\ child' \in Children /\ child'.phase = "score" /\ child'.config = child.config
        /\ child'.domains = child.domains /\ child'.copy = child.copy /\ child'.at = child.at
        /\ child'.work = child.work
    BY <1>1, <2>1 DEF Children
  <2>8. Generated(child)' = Generated(child) /\ Held(child.copy.tree, child.at)'
    BY <2>6, <2>7 DEF Generated
  <2>9. ChildInv'
    BY <2>1, <2>3, <2>7, <2>8 DEF ChildInv, Looping
  <2> QED
    BY <2>1, <2>7, <2>9 DEF QuietChild, Looping, Bytes
<1> QED
  BY <1>2, <1>3

LEMMA ScoreStep ==
  ASSUME TypeOK, ChildInv, Score
  PROVE  child' \in Children /\ ChildInv' /\ (QuietChild => QuietChild')
<1>1. child \in Children
  BY DEF TypeOK
<1>2. CASE child' = Report(child, "fail")
  BY <1>1, <1>2, ReportStep
<1>3. CASE ~(child' = Report(child, "fail"))
  <2>1. PICK c : c = Counted(child)
    OBVIOUS
  <2>2. PICK a : a = CHOOSE p \in c.domains : TRUE
    OBVIOUS
  <2>3. /\ child' = IF c.domains = {} THEN Report(c, "pass")
                    ELSE [c EXCEPT !.phase = "baseline", !.at = a]
        /\ child.phase = "score" /\ decl' = decl /\ tree' = tree
    BY <1>3, <2>1, <2>2 DEF Score
  <2>4. /\ child.copy.tree \in Trees /\ child.at \in child.domains
        /\ child.domains \subseteq child.config.domains
        /\ child.copy.tree.suite = "passes" /\ Held(child.copy.tree, child.at)
        /\ \A p \in child.config.domains \ child.domains : Held(child.copy.tree, p)
        /\ DOMAIN child.work = Generated(child)
    BY <2>3 DEF ChildInv, Looping
  <2>5. Cardinality(DOMAIN child.work) \in Nat
    BY <2>4, GeneratedAreMutants, FS_CardinalityType
  <2>6. /\ c \in Children /\ c.config = child.config /\ c.copy = child.copy
        /\ c.domains = child.domains \ {child.at}
    <3>1. PICK k \in Nat : k = child.mutants + Cardinality(DOMAIN child.work)
      BY <1>1, <2>5 DEF Children
    <3>2. PICK n \in Nat : n = child.killed + 1
      BY <1>1 DEF Children
    <3>3. PICK d \in SUBSET Paths : d = child.domains \ {child.at}
      BY <1>1 DEF Children
    <3>4. c = [child EXCEPT !.mutants = k, !.killed = n, !.domains = d]
      BY <2>1, <3>1, <3>2, <3>3 DEF Counted
    <3> QED
      BY <1>1, <3>3, <3>4 DEF Children
  <2>7. \A p \in c.config.domains \ c.domains : Held(c.copy.tree, p)
    BY <2>4, <2>6
  <2>8. CASE c.domains = {}
    <3>1. /\ child' \in Children /\ child'.phase = "exited" /\ child'.config = child.config
          /\ child'.copy = child.copy
      BY <2>3, <2>6, <2>8 DEF Report, Children
    <3>2. NothingSurvives(child.config, child.copy.tree)
      BY <2>4, <2>6, <2>7, <2>8 DEF NothingSurvives, Held
    <3> QED
      BY <2>3, <3>1, <3>2 DEF ChildInv, QuietChild, Looping, Bytes
  <2>9. CASE c.domains # {}
    <3>1. a \in c.domains /\ c.domains \subseteq Paths
      BY <2>2, <2>6, <2>9 DEF Children
    <3>2. /\ child' \in Children /\ child'.phase = "baseline" /\ child'.config = child.config
          /\ child'.copy = child.copy /\ child'.domains = c.domains /\ child'.at = a
      BY <2>3, <2>6, <2>9, <3>1 DEF Children
    <3>3. ChildInv'
      BY <2>4, <2>6, <2>7, <3>1, <3>2 DEF ChildInv, Looping
    <3> QED
      BY <2>3, <3>2, <3>3 DEF QuietChild, Looping, Bytes
  <2> QED
    BY <2>8, <2>9
<1> QED
  BY <1>2, <1>3

LEMMA RunChildStep == ASSUME IInv, RunChild PROVE IInv'
<1> USE DEF IInv
<1>1. /\ verdict = "running" /\ phase = "child" /\ ChildStep /\ Current = "mutation"
      /\ UNCHANGED <<edits, ctx, phase, probed, outcome, scratch, verdict, evidence>>
  BY DEF RunChild, At, StepInv
<1>2. UNCHANGED repository
  BY <1>1 DEF ChildStep, repository, Load, Scan, Copy, Baseline, Inventory, Execute, Judge, Score
<1>3. child' \in Children /\ ChildInv' /\ (QuietChild => QuietChild')
  BY <1>1, LoadStep, ScanChildStep, CopyChildStep, BaselineStep, InventoryStep,
     ExecuteChildStep, JudgeStep, ScoreStep DEF ChildStep
<1>4. Current' = Current /\ StepInv'
  BY <1>1 DEF Current, StepInv
<1>5. QuietInv'
  <2>1. Quiet => QuietChild
    BY DEF QuietInv, QuietChild
  <2>2. SUFFICES ASSUME Quiet, Quiet' PROVE QuietInv'
    BY <1>1 DEF QuietInv, Quiet
  <2>3. QuietChild'
    BY <1>3, <2>1, <2>2
  <2> QED
    BY <1>1, <1>2, <1>4, <2>2, <2>3
    DEF QuietInv, QuietChild, QuietContext, Bytes, repository, Working
<1> QED
  BY <1>1, <1>2, <1>3, <1>4, <1>5, OnwardStep DEF Working, TypeOK

-----------------------------------------------------------------------------
(***************************************************************************)
(* The steps that end the current step.                                    *)
(***************************************************************************)
LEMMA OutcomeIsTyped ==
  ASSUME NEW r \in Statuses, NEW p \in BytesRead, NEW j \in BytesRead
  PROVE  /\ Outcome(r, p, j) \in Outcomes /\ Red(r) \in Outcomes
         /\ Outcome(r, p, j).status = r /\ Outcome(r, p, j).probed = p
         /\ Outcome(r, p, j).judged = j /\ Red(r).status = r
BY NothingIsRead DEF Outcome, Outcomes, Red

\* The current step fails and leaves the artifacts alone.
LEMMA RedStep ==
  ASSUME IInv, verdict = "running", phase \in Working,
         NEW o \in Outcomes, ~Green(o), End(o),
         UNCHANGED <<repository, edits, ctx, verdict, evidence, scratch>>,
         child' = child \/ (Current = "mutation" /\ child' = Idle)
  PROVE  IInv'
<1>1. PICK s : s = Current
  OBVIOUS
<1>2. child' \in Children /\ scratch' \in Scratches
  BY IdleIsAChild DEF IInv, TypeOK
<1> QED
  BY <1>1, <1>2, EndStep

LEMMA CountFilesStep == ASSUME IInv, CountFiles PROVE IInv'
<1> USE DEF IInv
<1>1. PICK s : s = Current
  OBVIOUS
<1>2. PICK j : j = [decl |-> ctx.declaration, tree |-> tree]
  OBVIOUS
<1>3. PICK r \in {"pass", "fail"} :
        r = IF s \in tree.populated /\ s \in probed.tree.clean THEN "pass" ELSE "fail"
  OBVIOUS
<1>4. PICK o : o = Outcome(r, probed, j)
  OBVIOUS
<1>5. /\ verdict = "running" /\ phase = "count" /\ s = "discipline-checks" /\ End(o)
      /\ UNCHANGED <<repository, child, edits, ctx, scratch, verdict, evidence>>
  BY <1>1, <1>2, <1>3, <1>4 DEF CountFiles, At, StepInv
<1>6. j \in BytesRead /\ probed \in BytesRead
  BY <1>2 DEF TypeOK, Contexts, BytesRead
<1>7. o \in Outcomes /\ o.status = r /\ o.probed = probed /\ o.judged = j
  BY <1>4, <1>6, OutcomeIsTyped DEF Statuses
<1>8. Green(o) => s \in tree.populated /\ s \in o.probed.tree.clean
  BY <1>3, <1>7 DEF Green
<1>9. Green(o) => Earned(s, o)'
  BY <1>5, <1>8 DEF Earned, Needs
<1>10. Quiet /\ Green(o) => Promised(s, decl, tree)
  BY <1>5, <1>7, <1>8 DEF QuietInv, Promised
<1> QED
  BY <1>1, <1>5, <1>7, <1>9, <1>10, EndStep DEF Working, TypeOK

LEMMA PreparationStep ==
  ASSUME IInv, verdict = "running", phase = "prepare", Current \in Tools, Preparation
  PROVE  IInv'
<1>1. /\ Red("unsupported") \in Outcomes /\ ~Green(Red("unsupported"))
      /\ Red("fail") \in Outcomes /\ ~Green(Red("fail"))
  BY NothingIsRead, OutcomeIsTyped DEF Statuses, Green
<1>2. UNCHANGED <<repository, child, edits, ctx, scratch, verdict, evidence>>
  BY DEF Preparation
<1>3. \/ End(Red("unsupported")) \/ End(Red("fail"))
      \/ /\ phase' = "execute" /\ probed' = Context /\ UNCHANGED outcome
         /\ Probed(Current, ctx.document, tree)
  BY DEF Preparation
<1>4. CASE End(Red("unsupported")) \/ End(Red("fail"))
  BY <1>1, <1>2, <1>4, RedStep DEF Working
<1>5. CASE ~(End(Red("unsupported")) \/ End(Red("fail")))
  BY <1>2, <1>3, <1>5, ExecuteStep DEF Tools
<1> QED
  BY <1>4, <1>5

LEMMA RunToolStep == ASSUME IInv, RunTool PROVE IInv'
<1> USE DEF IInv
<1>1. PICK s : s = Current
  OBVIOUS
<1>2. PICK a : a = Answer(s, decl, tree)
  OBVIOUS
<1>3. PICK r \in {"pass", "fail"} : r = IF Evaluates(s, a) THEN "pass" ELSE "fail"
  OBVIOUS
<1>4. PICK o : o = Outcome(r, probed, Bytes)
  OBVIOUS
<1>5. /\ verdict = "running" /\ phase = "execute" /\ s \in Tools \ {"mutation"} /\ End(o)
      /\ UNCHANGED <<repository, child, edits, ctx, scratch, verdict, evidence>>
  BY <1>1, <1>2, <1>3, <1>4 DEF RunTool, At
<1>6. /\ o \in Outcomes /\ o.status = r /\ o.probed = probed /\ o.judged = Bytes
      /\ Bytes.tree = tree
  BY <1>4, BytesAreRead, OutcomeIsTyped DEF Statuses, TypeOK, Bytes
<1>7. Green(o) => Evaluates(s, a)
  BY <1>3, <1>6 DEF Green
<1>8. Green(o) => /\ s \in tree.clean
                  /\ s \in {"pytest", "pyright", "documentation"} => s \in tree.examined
  BY <1>2, <1>7 DEF Evaluates, Answer, OrdinaryEvaluation, PytestEvaluation, PyrightEvaluation,
                    DoxygenEvaluation
<1>9. Green(o) => Earned(s, o)'
  BY <1>1, <1>5, <1>6, <1>8 DEF Earned, StepInv, Tools
<1>10. Quiet /\ Green(o) => Promised(s, decl, tree)
  <2>1. SUFFICES ASSUME Quiet, Green(o) PROVE Promised(s, decl, tree)
    OBVIOUS
  <2>2. Probed(s, decl, tree)
    BY <1>1, <1>5, <2>1 DEF QuietInv
  <2>3. s = "pytest" => "pytest.disable-socket" \in decl.fields
    BY <2>2 DEF Probed, Needs, PytestFields
  <2>4. s = "documentation" => "WARN_AS_ERROR" \in tree.doxyfile
    BY <2>2 DEF Probed, DoxyfileSound, DoxyfileSettings
  <2> QED
    BY <1>5, <1>8, <2>1, <2>2, <2>3, <2>4 DEF Promised, Probed, Tools
<1> QED
  BY <1>1, <1>5, <1>6, <1>9, <1>10, EndStep DEF Working, TypeOK

LEMMA FailedStep == ASSUME IInv, Overrun \/ FailInstall \/ KillMutation PROVE IInv'
<1>1. PICK o : o = Outcome("fail", probed, Nothing)
  OBVIOUS
<1>2. o \in Outcomes /\ ~Green(o)
  BY <1>1, NothingIsRead, OutcomeIsTyped DEF Statuses, Green, IInv, TypeOK
<1>3. /\ verdict = "running" /\ phase \in Working /\ End(o)
      /\ UNCHANGED <<repository, edits, ctx, verdict, evidence, scratch>>
      /\ child' = child \/ (Current = "mutation" /\ child' = Idle)
  BY <1>1 DEF Overrun, FailInstall, KillMutation, At, Working, IInv, StepInv
<1> QED
  BY <1>2, <1>3, RedStep

LEMMA ReapStep == ASSUME IInv, ReapMutation PROVE IInv'
<1> USE DEF IInv
<1>1. PICK s : s = Current
  OBVIOUS
<1>2. PICK r \in {"pass", "fail"} : r = IF MutationEvaluation(child) THEN "pass" ELSE "fail"
  OBVIOUS
<1>3. PICK o : o = Outcome(r, probed, child.copy)
  OBVIOUS
<1>4. /\ verdict = "running" /\ phase = "child" /\ s = "mutation" /\ child.phase = "exited"
      /\ End(o) /\ UNCHANGED <<repository, child, edits, ctx, scratch, verdict, evidence>>
  BY <1>1, <1>2, <1>3 DEF ReapMutation, At, StepInv
<1>5. o \in Outcomes /\ o.status = r /\ o.judged = child.copy
  BY <1>3, OutcomeIsTyped DEF Statuses, TypeOK, Children
<1>6. Green(o) => NothingSurvives(child.config, child.copy.tree) /\ child.status = "pass"
  BY <1>2, <1>4, <1>5 DEF Green, MutationEvaluation, ChildInv
<1>7. Green(o) => Earned(s, o)'
  BY <1>1, <1>4, <1>5, <1>6 DEF Earned, StepInv
<1>8. Quiet /\ Green(o) => Promised(s, decl, tree)
  <2>1. SUFFICES ASSUME Quiet, Green(o) PROVE Promised(s, decl, tree)
    OBVIOUS
  <2>2. Probed(s, decl, tree) /\ child.config = decl /\ child.copy.tree = tree
    BY <1>1, <1>4, <1>6, <2>1 DEF QuietInv, Bytes
  <2>3. "mutation.maximum_survival" \in decl.fields
    BY <1>4, <2>2 DEF Probed, Needs, MutationFields
  <2> QED
    BY <1>4, <1>6, <2>1, <2>2, <2>3 DEF Promised, Probed
<1> QED
  BY <1>1, <1>4, <1>5, <1>7, <1>8, EndStep DEF Working, TypeOK

LEMMA ScanSourcesStep == ASSUME IInv, ScanSources PROVE IInv'
<1>1. CASE phase' = "copy"
  BY <1>1, ScanStep
<1>2. CASE phase' # "copy"
  <2>1. /\ verdict = "running" /\ phase = "prepare" /\ End(Red("fail"))
        /\ UNCHANGED <<repository, child, edits, ctx, scratch, verdict, evidence>>
    BY <1>2 DEF ScanSources, At
  <2>2. Red("fail") \in Outcomes /\ ~Green(Red("fail"))
    BY NothingIsRead, OutcomeIsTyped DEF Statuses, Green
  <2> QED
    BY <2>1, <2>2, RedStep DEF Working
<1> QED
  BY <1>1, <1>2

LEMMA CopySourcesStep == ASSUME IInv, CopySources PROVE IInv'
<1> USE DEF IInv
<1>1. CASE phase' = "execute"
  BY <1>1, CopyStep
<1>2. CASE phase' # "execute"
  <2>1. PICK s : s = Current
    OBVIOUS
  <2>2. PICK o : o = Red("unsupported")
    OBVIOUS
  <2>3. /\ verdict = "running" /\ phase = "copy" /\ s = "artifact-build" /\ End(o)
        /\ scratch' = [scratch EXCEPT !.copy = Bytes]
        /\ UNCHANGED <<repository, child, edits, ctx, verdict, evidence>>
    BY <1>2, <2>1, <2>2 DEF CopySources, At, StepInv
  <2>4. o \in Outcomes /\ ~Green(o)
    BY <2>2, NothingIsRead, OutcomeIsTyped DEF Statuses, Green
  <2>5. scratch' \in Scratches /\ scratch'.copy = Bytes /\ scratch'.orphan = scratch.orphan
    BY <2>3, BytesAreRead DEF Scratches, TypeOK
  <2> QED
    BY <2>1, <2>3, <2>4, <2>5, EndStep DEF Working, TypeOK
<1> QED
  BY <1>1, <1>2

LEMMA BuildStep == ASSUME IInv, Build PROVE IInv'
<1> USE DEF IInv
<1>1. PICK s : s = Current
  OBVIOUS
<1>2. /\ verdict = "running" /\ phase = "execute" /\ s = "artifact-build"
      /\ UNCHANGED <<repository, child, edits, ctx, verdict, evidence>>
      /\ scratch \in Scratches /\ probed \in BytesRead /\ scratch.copy \in BytesRead
  BY <1>1 DEF Build, At, TypeOK, Scratches
<1>3. Quiet => scratch.copy = Bytes
  BY <1>1, <1>2 DEF QuietInv
<1>4. CASE \E wheels \in 0..2, sdists \in 0..1 :
             LET sound == ValidArtifacts(wheels, sdists, scratch.copy, ctx.document)
                 zero == Answer(Current, scratch.copy.decl, scratch.copy.tree).zero
             IN  /\ zero \/ wheels = 0
                 /\ scratch' = [scratch EXCEPT !.wheels = wheels, !.sdists = sdists]
                 /\ End(Outcome(IF zero /\ sound THEN "pass" ELSE "fail", probed, scratch.copy))
  <2>1. PICK wheels \in 0..2, sdists \in 0..1 :
           /\ scratch' = [scratch EXCEPT !.wheels = wheels, !.sdists = sdists]
           /\ End(Outcome(IF /\ Answer(Current, scratch.copy.decl, scratch.copy.tree).zero
                             /\ ValidArtifacts(wheels, sdists, scratch.copy, ctx.document)
                          THEN "pass" ELSE "fail", probed, scratch.copy))
    BY <1>4
  <2>2. PICK r \in {"pass", "fail"} :
           r = IF /\ Answer(Current, scratch.copy.decl, scratch.copy.tree).zero
                  /\ ValidArtifacts(wheels, sdists, scratch.copy, ctx.document)
               THEN "pass" ELSE "fail"
    OBVIOUS
  <2>3. PICK o : o = Outcome(r, probed, scratch.copy)
    OBVIOUS
  <2>4. End(o)
    BY <2>1, <2>2, <2>3
  <2>5. o \in Outcomes /\ o.status = r /\ o.judged = scratch.copy
    BY <1>2, <2>3, OutcomeIsTyped DEF Statuses
  <2>6. Green(o) => /\ Answer(s, scratch.copy.decl, scratch.copy.tree).zero
                    /\ ValidArtifacts(wheels, sdists, scratch.copy, ctx.document)
    BY <1>1, <2>2, <2>5 DEF Green
  <2>7. Green(o) => /\ s \in scratch.copy.tree.clean /\ wheels = 1
                    /\ scratch.copy.decl.identity = ctx.document.identity
    BY <2>6 DEF Answer, ValidArtifacts
  <2>8. /\ scratch' \in Scratches /\ scratch'.copy = scratch.copy
        /\ scratch'.wheels = wheels /\ scratch'.orphan = scratch.orphan
    <3>1. wheels \in Nat /\ sdists \in Nat
      BY <2>1
    <3>2. scratch' = [scratch EXCEPT !.wheels = wheels, !.sdists = sdists]
      BY <2>1
    <3> QED
      BY <1>2, <3>1, <3>2 DEF Scratches
  <2>9. Green(o) => Earned(s, o)'
    BY <1>1, <1>2, <2>5, <2>7, <2>8 DEF Earned, StepInv
  <2>10. Quiet /\ Green(o) => Promised(s, decl, tree)
    BY <1>1, <1>2, <1>3, <2>7 DEF Promised, QuietInv, Bytes
  <2> QED
    BY <1>1, <1>2, <1>3, <2>4, <2>5, <2>8, <2>9, <2>10, EndStep DEF Working, TypeOK
<1>5. CASE /\ scratch' = [scratch EXCEPT !.orphan = TRUE]
           /\ End(Outcome("fail", probed, Nothing))
  <2>1. PICK o : o = Outcome("fail", probed, Nothing)
    OBVIOUS
  <2>2. o \in Outcomes /\ ~Green(o)
    BY <1>2, <2>1, NothingIsRead, OutcomeIsTyped DEF Statuses, Green
  <2>3. scratch' \in Scratches /\ scratch'.copy = scratch.copy
    BY <1>2, <1>5 DEF Scratches
  <2> QED
    BY <1>1, <1>2, <1>3, <1>5, <2>1, <2>2, <2>3, EndStep DEF Working, TypeOK
<1> QED
  BY <1>4, <1>5 DEF Build

LEMMA PrepareInstallStep == ASSUME IInv, PrepareInstall PROVE IInv'
<1>1. /\ Red("not-run") \in Outcomes /\ ~Green(Red("not-run"))
      /\ Red("fail") \in Outcomes /\ ~Green(Red("fail"))
  BY NothingIsRead, OutcomeIsTyped DEF Statuses, Green
<1>2. /\ verdict = "running" /\ phase = "prepare" /\ Current = "clean-install"
      /\ UNCHANGED <<repository, child, edits, ctx, scratch, verdict, evidence>>
  BY DEF PrepareInstall, At
<1>3. \/ End(Red("not-run")) \/ End(Red("fail"))
      \/ /\ phase' = "execute" /\ probed' = Context /\ UNCHANGED outcome
         /\ Probed(Current, ctx.document, tree) /\ scratch.wheels = 1
  BY DEF PrepareInstall
<1>4. CASE End(Red("not-run")) \/ End(Red("fail"))
  BY <1>1, <1>2, <1>4, RedStep DEF Working
<1>5. CASE ~(End(Red("not-run")) \/ End(Red("fail")))
  BY <1>2, <1>3, <1>5, ExecuteStep
<1> QED
  BY <1>4, <1>5

LEMMA InstallStep == ASSUME IInv, Install PROVE IInv'
<1> USE DEF IInv
<1>1. PICK s : s = Current
  OBVIOUS
<1>2. PICK r \in {"pass", "fail"} :
        r = IF InstalledImports(ctx.document) /\ InstalledCommands THEN "pass" ELSE "fail"
  OBVIOUS
<1>3. PICK o : o = Outcome(r, probed, scratch.copy)
  OBVIOUS
<1>4. /\ verdict = "running" /\ phase = "execute" /\ s = "clean-install" /\ End(o)
      /\ UNCHANGED <<repository, child, edits, ctx, scratch, verdict, evidence>>
  BY <1>1, <1>2, <1>3 DEF Install, At
<1>5. o \in Outcomes /\ o.status = r /\ o.judged = scratch.copy
  BY <1>3, OutcomeIsTyped DEF Statuses, TypeOK, Scratches
<1>6. Green(o) => /\ s \in scratch.copy.tree.clean
                  /\ scratch.copy.decl.identity = ctx.document.identity
  BY <1>1, <1>2, <1>5 DEF Green, InstalledImports, InstalledCommands, Answer
<1>7. AllGreen /\ Green(o) => Earned(s, o)'
  BY <1>1, <1>4, <1>5, <1>6 DEF Earned, StepInv, ScratchInv
<1>8. Quiet /\ Green(o) => Promised(s, decl, tree)
  BY <1>1, <1>4, <1>6 DEF Promised, QuietInv, Bytes
<1> QED
  BY <1>1, <1>4, <1>5, <1>7, <1>8, EndStep DEF Working, TypeOK

-----------------------------------------------------------------------------
(***************************************************************************)
(* The steps outside the sequence of adapters.                             *)
(***************************************************************************)
LEMMA OrphanStep == ASSUME IInv, OrphanDelivers PROVE IInv'
<1> USE DEF IInv
<1>1. /\ verdict = "running" /\ scratch.orphan
      /\ scratch' = [scratch EXCEPT !.orphan = FALSE, !.wheels = scratch.wheels + 1]
      /\ UNCHANGED <<repository, child, edits, ctx, phase, probed, outcome, verdict, evidence>>
  BY DEF OrphanDelivers
<1>2. scratch' \in Scratches /\ scratch'.copy = scratch.copy /\ ~scratch'.orphan
  <2>1. PICK k \in Nat : k = scratch.wheels + 1
    BY DEF TypeOK, Scratches
  <2>2. scratch' = [scratch EXCEPT !.orphan = FALSE, !.wheels = k]
    BY <1>1, <2>1
  <2> QED
    BY <2>1, <2>2 DEF TypeOK, Scratches
<1>3. Current' = Current /\ AllGreen' = AllGreen /\ ~AllGreen /\ Done("artifact-build")'
  BY <1>1 DEF Current, AllGreen, ScratchInv, Done
<1>4. TypeOK' /\ PhaseInv' /\ StepInv'
  BY <1>1, <1>2, <1>3 DEF TypeOK, PhaseInv, StepInv, ReportGreen, repository
<1>5. ScratchInv' /\ EarnedInv' /\ ChildInv'
  BY <1>1, <1>2, <1>3 DEF ScratchInv, EarnedInv, ChildInv, Generated
<1>6. QuietInv'
  BY <1>1, <1>2, <1>3 DEF QuietInv, Quiet, QuietContext, Bytes, repository
<1> QED
  BY <1>4, <1>5, <1>6

LEMMA ReportingStep == ASSUME IInv, WriteEvidence \/ Exit PROVE IInv'
<1> USE DEF IInv
<1>1. /\ verdict = "running" /\ phase' \in {"exit", "ended"}
      /\ UNCHANGED <<repository, child, edits, ctx, probed, outcome, scratch>>
      /\ phase \in {"report", "exit"} /\ Len(outcome) = Len(Steps)
  BY DEF WriteEvidence, Exit, At, PhaseInv
<1>2. Current' = Current /\ AllGreen' = AllGreen /\ ReportGreen' = ReportGreen
  BY <1>1 DEF Current, AllGreen, ReportGreen
<1>3. \/ /\ phase' = "exit" /\ verdict' = "running"
         /\ evidence' = IF ReportGreen THEN "pass" ELSE "fail"
      \/ /\ phase' = "ended" /\ evidence' = evidence /\ phase = "exit"
         /\ verdict' = IF ReportGreen THEN "pass" ELSE "fail"
  BY DEF WriteEvidence, Exit, At
<1>4. TypeOK' /\ StepInv'
  BY <1>1, <1>3 DEF TypeOK, Phases, StepInv, repository
<1>5. PhaseInv'
  BY <1>1, <1>2, <1>3 DEF PhaseInv, Working, Reading
<1>6. ScratchInv' /\ ChildInv'
  BY <1>1, <1>2 DEF ScratchInv, Done, ChildInv, Generated
<1>7. EarnedInv'
  BY <1>1, <1>2 DEF EarnedInv, Earned
<1>8. QuietInv'
  BY <1>1, <1>2 DEF QuietInv, Quiet, QuietContext, Bytes, repository, Working
<1> QED
  BY <1>4, <1>5, <1>6, <1>7, <1>8

LEMMA LostStep == ASSUME IInv, Kill \/ Lose PROVE IInv'
<1> USE DEF IInv
<1>1. /\ child' = Idle /\ ctx' = NoContext /\ probed' = Nothing /\ outcome' = <<>>
      /\ scratch' = NoScratch /\ verdict' = "lost" /\ phase' = "ended"
      /\ UNCHANGED <<repository, edits>>
      /\ evidence' \in {"absent", "pass", "fail", "torn"}
  BY DEF Kill, Lose, Forgotten, TypeOK
<1>2. TypeOK'
  <2>1. outcome' \in Seq(Outcomes) /\ Len(outcome') <= Len(Steps)
    BY <1>1, StepsAssumption
  <2> QED
    BY <1>1, <2>1, NothingIsRead, IdleIsAChild DEF TypeOK, Phases, repository
<1>3. PhaseInv' /\ StepInv'
  BY <1>1 DEF PhaseInv, StepInv, Working, Reading
<1>4. ScratchInv' /\ EarnedInv' /\ ChildInv'
  BY <1>1 DEF ScratchInv, NoScratch, EarnedInv, ChildInv, Idle, Looping
<1>5. QuietInv'
  BY <1>1 DEF QuietInv, NoContext, NoScratch, Idle, Working, Looping
<1> QED
  BY <1>2, <1>3, <1>4, <1>5

LEMMA EditStep == ASSUME IInv, EditDeclaration \/ EditTree PROVE IInv'
<1> USE DEF IInv
<1>1. /\ UNCHANGED <<host, child, ctx, phase, probed, outcome, scratch, verdict, evidence>>
      /\ decl' \in Declarations /\ tree' \in Trees
  BY DEF EditDeclaration, EditTree, TypeOK
<1>2. edits' \in Nat \X Nat /\ ~Quiet'
  BY DEF EditDeclaration, EditTree, TypeOK, Quiet
<1>3. Current' = Current /\ AllGreen' = AllGreen /\ ReportGreen' = ReportGreen
  BY <1>1 DEF Current, AllGreen, ReportGreen
<1>4. TypeOK' /\ PhaseInv' /\ StepInv'
  BY <1>1, <1>2, <1>3 DEF TypeOK, PhaseInv, StepInv
<1>5. ScratchInv' /\ EarnedInv' /\ ChildInv'
  BY <1>1, <1>3 DEF ScratchInv, Done, EarnedInv, Earned, ChildInv, Generated
<1>6. QuietInv'
  BY <1>2 DEF QuietInv
<1> QED
  BY <1>4, <1>5, <1>6

LEMMA StutterStep == ASSUME IInv, UNCHANGED vars PROVE IInv'
<1> USE DEF IInv, vars, repository
<1>1. Current' = Current /\ AllGreen' = AllGreen /\ ReportGreen' = ReportGreen
  BY DEF Current, AllGreen, ReportGreen
<1>2. TypeOK' /\ PhaseInv' /\ StepInv'
  BY <1>1 DEF TypeOK, PhaseInv, StepInv
<1>3. ScratchInv' /\ EarnedInv' /\ ChildInv'
  BY <1>1 DEF ScratchInv, Done, EarnedInv, Earned, ChildInv, Generated
<1>4. QuietInv'
  BY <1>1 DEF QuietInv, Quiet, QuietContext, Bytes
<1> QED
  BY <1>2, <1>3, <1>4

LEMMA NextIsOK == ASSUME IInv, [Next]_vars PROVE IInv'
<1>1. CASE Describe \/ ReadDocument \/ TakeDigest
  BY <1>1, ReadingStep
<1>2. CASE RunChecks
  BY <1>2, RunChecksStep
<1>3. CASE CountFiles
  BY <1>3, CountFilesStep
<1>4. CASE Prepare \/ PrepareDocumentation
  BY <1>4, PreparationStep DEF Prepare, PrepareDocumentation, At, Tools
<1>5. CASE RunTool
  BY <1>5, RunToolStep
<1>6. CASE Overrun \/ FailInstall \/ KillMutation
  BY <1>6, FailedStep
<1>7. CASE Lose \/ Kill
  BY <1>7, LostStep
<1>8. CASE SpawnMutation
  BY <1>8, SpawnStep
<1>9. CASE RunChild
  BY <1>9, RunChildStep
<1>10. CASE ReapMutation
  BY <1>10, ReapStep
<1>11. CASE ScanSources
  BY <1>11, ScanSourcesStep
<1>12. CASE CopySources
  BY <1>12, CopySourcesStep
<1>13. CASE Build
  BY <1>13, BuildStep
<1>14. CASE PrepareInstall
  BY <1>14, PrepareInstallStep
<1>15. CASE Install
  BY <1>15, InstallStep
<1>16. CASE WriteEvidence \/ Exit
  BY <1>16, ReportingStep
<1>17. CASE OrphanDelivers
  BY <1>17, OrphanStep
<1>18. CASE EditDeclaration \/ EditTree
  BY <1>18, EditStep
<1>19. CASE UNCHANGED vars
  BY <1>19, StutterStep
<1> QED
  BY <1>1, <1>2, <1>3, <1>4, <1>5, <1>6, <1>7, <1>8, <1>9, <1>10, <1>11, <1>12, <1>13,
     <1>14, <1>15, <1>16, <1>17, <1>18, <1>19 DEF Next, GateStep

\* The inductive invariant holds in every state of every run of the gate.
THEOREM InductiveInvariant == Spec => []IInv
<1>1. Init => IInv
  BY InitIsOK
<1>2. IInv /\ [Next]_vars => IInv'
  BY NextIsOK
<1> QED
  BY <1>1, <1>2, PTL DEF Spec

-----------------------------------------------------------------------------
\* Every variable of the gate keeps its shape.
THEOREM TypeCorrect == Spec => []TypeOK
<1>1. IInv => TypeOK
  BY DEF IInv
<1> QED
  BY <1>1, InductiveInvariant, PTL

(***************************************************************************)
(* A green verdict is earned: whatever steps run() is given and however    *)
(* often the repository is edited meanwhile, each step held of the bytes   *)
(* it judged.                                                              *)
(***************************************************************************)
THEOREM GreenAlwaysEarned == Spec => []GreenIsEarned
<1>1. IInv => GreenIsEarned
  <2>1. SUFFICES ASSUME IInv, verdict = "pass", NEW i \in DOMAIN outcome
                 PROVE  Earned(Steps[i], outcome[i])
    BY DEF GreenIsEarned, Earned
  <2>2. ReportGreen
    BY <2>1 DEF IInv, PhaseInv
  <2> QED
    BY <2>1, <2>2 DEF IInv, EarnedInv, AllGreen, ReportGreen
<1> QED
  BY <1>1, InductiveInvariant, PTL

\* The report at --json says pass only of a complete green run, and as the exit status does.
THEOREM EvidenceAlwaysComplete == Spec => []GreenEvidenceIsComplete
<1>1. IInv => GreenEvidenceIsComplete
  <2>1. SUFFICES ASSUME IInv PROVE GreenEvidenceIsComplete
    OBVIOUS
  <2>2. ASSUME evidence = "pass", verdict # "lost"
        PROVE  Len(outcome) = Len(Steps) /\ ReportGreen
    <3>1. CASE verdict = "running"
      BY <3>1, <2>1, <2>2 DEF IInv, PhaseInv
    <3>2. CASE verdict \in {"pass", "fail"}
      BY <3>2, <2>1, <2>2 DEF IInv, PhaseInv
    <3> QED
      BY <3>1, <3>2, <2>1, <2>2 DEF IInv, TypeOK
  <2> QED
    BY <2>1, <2>2 DEF GreenEvidenceIsComplete, ReportGreen, Green, IInv, PhaseInv
<1> QED
  BY <1>1, InductiveInvariant, PTL

(***************************************************************************)
(* The report of an undisturbed run is true of the repository, for any     *)
(* declarations, trees, tools and inventory of mutants.                    *)
(***************************************************************************)
THEOREM QuietReportAlwaysTrue == Spec => []QuietReportIsTrue
<1>1. IInv => QuietReportIsTrue
  <2>1. SUFFICES ASSUME IInv, edits = <<0, 0>>, verdict \in {"pass", "fail"}
                 PROVE  /\ Len(outcome) = Len(Steps)
                        /\ \A i \in DOMAIN outcome :
                              Green(outcome[i]) => Promised(Steps[i], decl, tree)
                        /\ verdict = "pass" => decl.accepted /\ ctx.digest = decl
    BY DEF QuietReportIsTrue
  <2>2. Len(outcome) = Len(Steps) /\ (verdict = "pass" => ctx.digest # NoDeclaration)
    BY <2>1 DEF IInv, PhaseInv, ReportGreen
  <2> QED
    BY <2>1, <2>2 DEF IInv, QuietInv, Quiet, QuietContext
<1> QED
  BY <1>1, InductiveInvariant, PTL

=============================================================================
