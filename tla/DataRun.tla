------------------------------- MODULE DataRun -------------------------------
(***************************************************************************)
(* One scenario of a data run (data_products/runner.py): author the spec,    *)
(* sample it, materialize its views, put every question to the data, patch   *)
(* the spec for what went unanswered, again; then write the run's files.     *)
(*                                                                         *)
(* The model answers as it likes (authoring.py): each attempt gives one of    *)
(* the outcomes the constants name, or one that does not validate.           *)
(* A run may be cut short anywhere and the same configuration run again, into *)
(* the same directory.  A question is [name, reads, picky, gap]: a picky one  *)
(* may find no rows in one sample and some in the next.                      *)
(***************************************************************************)
EXTENDS Scenarios

CONSTANTS
    Templates,          \* the specifications further scenario plugins build
    Authored(_),        \* what the model may author instead of a template
    Batches(_),         \* the questions it may add to a specification
    Proposals(_, _),    \* the fixes it may propose for unanswered questions
    MaxRepairs,         \* authoring.max_repair_attempts
    MaxIterations,      \* loop.iterations
    MaxRuns             \* how often the configuration is run

VARIABLES
    template, mode,     \* the configuration
    phase,              \* where _run_scenario is
    attempts,           \* model calls left in the current authoring loop
    spec,
    states,             \* one QuestionState per question: [question, answers]
    iteration,
    fixes,              \* llm_fixes: the names of questions to their deltas
    patchError,         \* the last patch was refused
    drawn,              \* the report of the last sampling: its spec and its links
    disk,               \* the run directory
    runs

vars == <<template, mode, phase, attempts, spec, states, iteration, fixes, patchError, drawn, disk, runs>>
memory == <<spec, states, iteration, fixes, patchError, drawn>>

NoSpec == [title |-> None]
EmptyDisk == [snapshots |-> <<>>, data |-> NoSpec, spec |-> NoSpec, lineage |-> NoSpec,
              questions |-> NoSpec, manifest |-> 0]

Fresh ==
    /\ phase' = "author" /\ attempts' = MaxRepairs + 1 /\ spec' = template
    /\ states' = <<>> /\ iteration' = 0 /\ fixes' = <<>> /\ patchError' = FALSE /\ drawn' = NoSpec
Init ==
    /\ template \in DataScenarios \cup {t \in Templates : Clean(t)} /\ mode \in {"template", "llm"}
    /\ phase = "author" /\ attempts = MaxRepairs + 1 /\ spec = template
    /\ states = <<>> /\ iteration = 0 /\ fixes = <<>> /\ patchError = FALSE /\ drawn = NoSpec
    /\ disk = EmptyDisk /\ runs = 1

---------------------------------------------------------------------------
(* Authoring *)

\* The questions of the run are fixed when the first iteration starts.
Asked(s) == [i \in DOMAIN s.questions |-> [question |-> s.questions[i], answers |-> <<>>]]
StartLoop(s) ==
    /\ spec' = s /\ states' = Asked(s) /\ phase' = "sample" /\ iteration' = 1
    /\ attempts' = MaxRepairs + 1

AuthorTemplate ==
    /\ phase = "author" /\ mode = "template"
    /\ StartLoop(template)
    /\ UNCHANGED <<template, mode, fixes, patchError, drawn, disk, runs>>

\* A specification of the model is taken when it is acceptable and keeps the name and
\* the window; with no attempt left the template is.
AuthorSpec ==
    /\ phase = "author" /\ mode = "llm" /\ attempts > 0
    /\ \/ \E s \in Authored(template) :
            /\ s.title = template.title /\ Acceptable(s)
            /\ spec' = s /\ phase' = "questions" /\ attempts' = MaxRepairs + 1
       \/ UNCHANGED <<spec, phase>> /\ attempts' = attempts - 1
    /\ UNCHANGED <<template, mode, states, iteration, fixes, patchError, drawn, disk, runs>>
FallBack ==
    /\ phase = "author" /\ mode = "llm" /\ attempts = 0
    /\ spec' = template /\ phase' = "questions" /\ attempts' = MaxRepairs + 1
    /\ UNCHANGED <<template, mode, states, iteration, fixes, patchError, drawn, disk, runs>>

\* Only ids not taken yet; the enlarged specification is not linted again.
NewQuestions(s, batch) ==
    FoldLeft(Added, s.questions, batch)
GenerateQuestions ==
    /\ phase = "questions" /\ attempts > 0
    /\ \/ \E batch \in Batches(spec) :
            StartLoop([spec EXCEPT !.questions = NewQuestions(spec, batch)])
       \/ attempts' = attempts - 1 /\ UNCHANGED <<spec, states, phase, iteration>>
    /\ UNCHANGED <<template, mode, fixes, patchError, drawn, disk, runs>>
NoQuestions ==
    /\ phase = "questions" /\ attempts = 0
    /\ StartLoop(spec)
    /\ UNCHANGED <<template, mode, fixes, patchError, drawn, disk, runs>>

---------------------------------------------------------------------------
(* The loop *)

Links(s) ==
    LET linked == {p \in Elements(s.pops) : p.dims # <<>>}
    IN  {UNION {choice[p] : p \in linked} : choice \in
            {c \in [linked -> UNION {{{<<k, l[k]>> : k \in DOMAIN l} : l \in Linked(p)} : p \in linked}] :
                \A p \in linked : c[p] \in {{<<k, l[k]>> : k \in DOMAIN l} : l \in Linked(p)}}}
Identities(s) ==
    {<<<<p.name, "kg_name">>, IdentityOf(p)>> : p \in {q \in Elements(s.pops) : q.identity # None}}

\* The snapshot is written and the data directory emptied before anything can fail.
\* Any ranking of a dimension's nodes, which the code draws from the seed.
Sample ==
    /\ phase = "sample"
    /\ LET on == [disk EXCEPT !.snapshots = [i \in 1..(IF Len(@) < iteration THEN iteration ELSE Len(@)) |->
                                                IF i = iteration THEN spec ELSE @[i]]]
           pops == Elements(spec.pops)
       IN  IF \A p \in pops : ~Unlinked(p) /\ Samples(p, spec)
             THEN /\ \E links \in Links(spec) :
                       drawn' = [spec |-> spec, dims |-> links, ids |-> Identities(spec)]
                  /\ disk' = [on EXCEPT !.data = spec]
                  /\ phase' = "views"
             ELSE /\ disk' = [on EXCEPT !.data = NoSpec]
                  /\ phase' = IF \E p \in pops : Unlinked(p) THEN "unlinked" ELSE "broken"
                  /\ UNCHANGED drawn
    /\ UNCHANGED <<template, mode, attempts, spec, states, iteration, fixes, patchError, runs>>

MaterializeViews ==
    /\ phase = "views"
    /\ phase' = IF ViewsFailing(spec) = {} THEN "ask" ELSE "view failed"
    /\ UNCHANGED <<template, mode, attempts, memory, disk, runs>>

Answers(s, question, lucky) ==
    Runs(question.reads, DataSchema(s)) /\ (question.picky => question.name \in lucky)
Answered(state) == state.answers # <<>> /\ Last(state.answers)
Unanswered(ss) == SelectSeq(ss, LAMBDA state : ~Answered(state))

\* Every question again: another sample may answer differently.
EvaluateQuestions ==
    /\ phase = "ask"
    /\ \E lucky \in SUBSET {q.name : q \in {r \in Elements(spec.questions) : r.picky}} :
         states' = [i \in DOMAIN states |->
                       [states[i] EXCEPT !.answers = Append(@, Answers(spec, states[i].question, lucky))]]
    /\ phase' = IF Unanswered(states') = <<>> \/ iteration = MaxIterations THEN "assemble"
                ELSE IF mode = "llm" THEN "propose" ELSE "patch"
    /\ attempts' = MaxRepairs + 1
    /\ UNCHANGED <<template, mode, spec, iteration, fixes, patchError, drawn, disk, runs>>

MissingFix == {st.question.name : st \in {u \in Elements(Unanswered(states)) :
                   u.question.gap = <<>> /\ u.question.name \notin DOMAIN fixes}}

\* Proposals for questions that were not asked about are left out.
ProposeFixes ==
    /\ phase = "propose"
    /\ \/ /\ MissingFix # {} /\ attempts > 0
          /\ \/ \E p \in Proposals(spec, MissingFix) :
                  LET known == DOMAIN p \cap MissingFix
                  IN  /\ fixes' = [q \in DOMAIN fixes \cup known |->
                                      IF q \in known THEN p[q] ELSE fixes[q]]
                      /\ phase' = "patch" /\ attempts' = MaxRepairs + 1
             \/ attempts' = attempts - 1 /\ UNCHANGED <<fixes, phase>>
       \/ /\ MissingFix = {} \/ attempts = 0
          /\ phase' = "patch" /\ attempts' = MaxRepairs + 1 /\ UNCHANGED fixes
    /\ UNCHANGED <<template, mode, spec, states, iteration, patchError, drawn, disk, runs>>

\* The gaps of the questions that went unanswered, each delta once.
CollectGapDeltasOfFirst == Head(Unanswered(states)).question.gap \* a bug: one question at a time
CollectGapDeltas ==
    FoldLeft(LAMBDA ds, st : FoldLeft(LAMBDA es, d : IF d \in Elements(es) THEN es ELSE Append(es, d),
                                      ds, st.question.gap),
             <<>>, Unanswered(states))
Patched == ApplyDeltas(spec, CollectGapDeltas)

\* The model's fixes one by one, each dropped alone when it does not hold up.
WithFixes(patched) ==
    LET try(s, st) ==
            IF st.question.name \notin DOMAIN fixes THEN s
            ELSE LET candidate == ApplyDeltas(s, fixes[st.question.name])
                 IN  IF candidate.ok /\ Acceptable(candidate.spec) THEN candidate.spec ELSE s
    IN  FoldLeft(try, patched, Unanswered(states))

\* The states keep their answers under the questions of the patched specification.
CarryStates(s) ==
    [i \in DOMAIN states |->
        [question |-> IF states[i].question.name \in Names(s.questions)
                        THEN Named(s.questions, states[i].question.name) ELSE states[i].question,
         answers  |-> states[i].answers]]

\* A bug: a patch that is refused has been adopted already.
PatchAdopted ==
    /\ phase = "patch"
    /\ LET next == WithFixes(Patched.spec)
       IN  IF ~(Patched.ok /\ Acceptable(Patched.spec))
             THEN patchError' = TRUE /\ phase' = "assemble" /\ spec' = Patched.spec /\ UNCHANGED <<states, iteration>>
           ELSE IF next = spec
             THEN phase' = "assemble" /\ UNCHANGED <<patchError, spec, states, iteration>>
           ELSE /\ spec' = next /\ states' = CarryStates(next)
                /\ iteration' = iteration + 1 /\ phase' = "sample" /\ UNCHANGED patchError
    /\ UNCHANGED <<template, mode, attempts, fixes, drawn, disk, runs>>

Patch ==
    /\ phase = "patch"
    /\ LET next == WithFixes(Patched.spec)
       IN  IF ~(Patched.ok /\ Acceptable(Patched.spec))
             THEN patchError' = TRUE /\ phase' = "assemble" /\ UNCHANGED <<spec, states, iteration>>
           ELSE IF next = spec
             THEN phase' = "assemble" /\ UNCHANGED <<patchError, spec, states, iteration>>
           ELSE /\ spec' = next /\ states' = CarryStates(next)
                /\ iteration' = iteration + 1 /\ phase' = "sample" /\ UNCHANGED patchError
    /\ UNCHANGED <<template, mode, attempts, fixes, drawn, disk, runs>>

\* spec.json, lineage.json, questions.json and manifest.json, in that order.
Assemble ==
    /\ phase \in {"assemble", "lineage", "report", "manifest"}
    /\ CASE phase = "assemble" -> disk' = [disk EXCEPT !.spec = spec] /\ phase' = "lineage"
         [] phase = "lineage"  ->
              disk' = [disk EXCEPT !.lineage = [dims |-> drawn.dims, ids |-> drawn.ids]] /\ phase' = "report"
         [] phase = "report"   -> disk' = [disk EXCEPT !.questions = states] /\ phase' = "manifest"
         [] OTHER              -> disk' = [disk EXCEPT !.manifest = runs] /\ phase' = "done"
    /\ UNCHANGED <<template, mode, attempts, memory, runs>>

Loop == Sample \/ MaterializeViews \/ EvaluateQuestions \/ ProposeFixes \/ Patch
Work == AuthorTemplate \/ AuthorSpec \/ FallBack \/ GenerateQuestions \/ NoQuestions \/ Loop \/ Assemble

\* The command is run again, after the last run ended or was cut short.
Again ==
    /\ runs < MaxRuns /\ runs' = runs + 1
    /\ Fresh
    /\ UNCHANGED <<template, mode, disk>>

Next == Work \/ Again
Spec == Init /\ [][Next]_vars

---------------------------------------------------------------------------
(* Properties *)

\* What lint accepts, the sampler can draw: no parent, column or factor it looks up is
\* missing, in any order a topological sort of the variables allows (sampler.py reads what
\* lint.py promised).
SamplerTrustsLint == phase # "broken"

\* When the manifest is written, spec.json and the last snapshot are the specification the
\* data was drawn from, lineage.json is that sampling's, one column's names and nodes match
\* one to one, and questions.json tells whether this very data answers each question.
ArtefactsAgree ==
    phase = "done" =>
        /\ disk.manifest = runs
        /\ disk.spec = spec /\ disk.data = spec /\ drawn.spec = spec
        /\ disk.snapshots[iteration] = spec
        /\ disk.lineage = [dims |-> drawn.dims, ids |-> drawn.ids]
        /\ \A column \in drawn.dims : IsInjective(column[2])
        /\ Names(spec.questions) = {st.question.name : st \in Elements(disk.questions)}
        /\ \A st \in Elements(disk.questions) :
             /\ Len(st.answers) = iteration
             /\ Answered(st) => Runs(st.question.reads, DataSchema(disk.spec))
             /\ ~Answered(st) => ~Runs(st.question.reads, DataSchema(disk.spec)) \/ st.question.picky

\* The loop ends with a question unanswered and iterations left only when a patch was
\* refused or when no fix it knows for that question changes the specification and holds up
\* ("exits early once everything answerable is answered or no fix exists").
StopsForAReason ==
    (phase = "done" /\ iteration < MaxIterations /\ ~patchError) =>
        \A st \in Elements(Unanswered(states)) :
            LET fix == IF st.question.gap # <<>> THEN st.question.gap
                       ELSE IF st.question.name \in DOMAIN fixes THEN fixes[st.question.name]
                       ELSE <<>>
                then == ApplyDeltas(spec, fix)
            IN  ~then.ok \/ ~Acceptable(then.spec) \/ then.spec = spec

\* The scenarios that ship are taken by lint and by the dry run; a run of one answers its
\* plain questions in the first iteration, those with a gap in the second, and every one of
\* them: no gap's fix is refused, lost, or undone by another's.
BanksAnswered ==
    /\ (phase = "author" /\ template \in DataScenarios) => Acceptable(template)
    /\ (phase = "done" /\ template \in DataScenarios) =>
         /\ iteration = 2 /\ ~patchError
         /\ \A st \in Elements(states) : st.answers = <<st.question.gap = <<>>, TRUE>>

LoopConverges == StopsForAReason /\ BanksAnswered

\* Whether everything of a list is still there, as it was and where it was.
Extends(longer, list) == IsPrefix(list, longer)
Grown(s, t) ==
    /\ Extends(t.factors, s.factors) /\ Extends(t.views, s.views) /\ t.questions = s.questions
    /\ Len(t.pops) = Len(s.pops) /\ Len(t.tables) >= Len(s.tables)
    /\ \A i \in DOMAIN s.pops :
         /\ Extends(t.pops[i].attrs, s.pops[i].attrs) /\ Extends(t.pops[i].panel, s.pops[i].panel)
         /\ Extends(t.pops[i].dims, s.pops[i].dims)
    /\ \A i \in DOMAIN s.tables : Extends(t.tables[i].columns, s.tables[i].columns)

\* A new iteration samples a specification that is acceptable, holds all the last one held,
\* as it was, and more: data is never drawn twice from one specification, and no answer
\* already recorded is lost.
SpecsGrow ==
    [][(iteration' > iteration /\ iteration > 0) =>
          /\ spec' # spec /\ Grown(spec, spec') /\ Acceptable(spec')
          /\ \A i \in DOMAIN states : states'[i].answers = states[i].answers]_vars

-----------------------------------------------------------------------------
(* What is said of this code and does not hold.                            *)

\* The dry run catches type mismatches "before any sampling cost, which is what makes
\* LLM-authored views safe to accept" (views.py:141-149): a view of a specification the model
\* authored never fails on the data.  It types a dimension of the knowledge graph as a number.
ValidViewsRun == phase = "view failed" => mode = "template"

\* "spec.iteration-N.json: spec as sampled in each loop iteration" (docs/DATA_PRODUCTS.md:124):
\* a finished run has one per iteration it ran.  Those of a longer earlier run stay.
SnapshotsOfThisRun == phase = "done" => Len(disk.snapshots) = iteration

\* Two same-named nodes never collapse (linking.py:87-93), and the sales scenario joins the
\* owner of an opportunity to a representative by name (scenarios/sales_pipeline.py:459): one
\* name stands for one node in all columns.  Each column numbers its namesakes in its own order.
SameNameSameNode ==
    drawn # NoSpec =>
        \A c, d \in drawn.dims \cup drawn.ids : \A n \in DOMAIN c[2] \cap DOMAIN d[2] : c[2][n] = d[2][n]
=============================================================================
