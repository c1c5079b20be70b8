--------------------------- MODULE AssessmentResults ---------------------------
(***************************************************************************)
(* The assessment store: what scans found, what the user made of it, and the  *)
(* copy in the indexed database from which the next start of the background   *)
(* page goes on.  The details view shows a state the store had, and what the   *)
(* user asks for there is handled by a store that may have changed since.      *)
(*                                                                            *)
(* An element that several requirements find is an instance of each of them.   *)
(* What the instances, the failures and the description say is not modelled,   *)
(* nor the choice of what the details view shows and which instances are       *)
(* visualized.                                                                 *)
(***************************************************************************)
EXTENDS Naturals, FiniteSets, Sequences

CONSTANTS
  Requirement,  \* requirements, each the only one of its test,
  Automated,    \* except those of the automated checks
  Manual,       \* requirements with one status, which the user decides
  AutoPass,     \* manual ones that pass if a scan finds nothing
  Tracked,      \* manual ones for which tab stops are recorded
  Outcome,      \* statuses a scan may give to an instance, for each requirement
  Instance,     \* elements that may be found
  File,         \* saved assessments the user may load
  MaxTouched,   \* requirements with results at a time, a bound
  MaxNoted,     \* instances and failures of all requirements, a bound
  MaxLookups,   \* lookups of the target tab under way, a bound
  None

ASSUME RequirementAssumption ==
  /\ Automated \subseteq Requirement /\ Manual \subseteq Requirement \ Automated
  /\ AutoPass \subseteq Manual /\ Tracked \subseteq Manual
  /\ Outcome \in [Requirement -> SUBSET {"PASS", "UNKNOWN", "FAIL"}]

ASSUME BoundAssumption == {MaxTouched, MaxNoted, MaxLookups} \subseteq Nat

VARIABLES
  assessment,  \* state of the store: is the target tab known, and what of each requirement
  shown,       \* results of the state the details view shows
  lookups,     \* number of lookups of the target tab under way
  writes,      \* copies on their way into the database
  db,          \* the copy in the database
  unsaved      \* history: has a lookup failed since the last change was emitted?

vars == <<assessment, shown, lookups, writes, db, unsaved>>

Assisted == Requirement \ (Automated \cup Manual)

-----------------------------------------------------------------------------
(* Results of one requirement.                                              *)

\* An instance, with the status it has and the one it had before the user judged
\* it.  found is history: the status the scan gave, None once an undo lost it.
Found(status) == [status |-> status, original |-> "undefined", found |-> status]

Unmarked(x) == x.status = "UNKNOWN" /\ x.original \in {"undefined", "null"}
Judged(x) == x.original \notin {"undefined", "null"}

Default == [scanned |-> FALSE, final |-> "UNKNOWN", status |-> "UNKNOWN", failures |-> 0,
            instances |-> [i \in Instance |-> None]]

Present(req) == {i \in Instance : req.instances[i] # None}

\* A bug to be caught: what nobody has marked does not count.
GroupResultOfMarked(req) ==
  IF \E i \in Present(req) : req.instances[i].status = "FAIL" THEN "FAIL" ELSE "PASS"

\* Math.max takes null for 0, which is PASS, and makes NaN of undefined.
GroupResult(req) ==
  LET Statuses == {req.instances[i].status : i \in Present(req)}
  IN CASE \E i \in Present(req) : Unmarked(req.instances[i]) -> "UNKNOWN"
       [] OTHER -> IF "undefined" \in Statuses THEN "NaN"
                   ELSE IF "FAIL" \in Statuses THEN "FAIL" ELSE "PASS"

WithGroupResult(req) == [req EXCEPT !.final = GroupResult(req)]

\* updateManualTestStepStatus.
WithManualResult(req) ==
  [req EXCEPT !.final =
    IF req.status = "FAIL" /\ req.failures = 0 THEN "UNKNOWN" ELSE req.status]

\* applyInitialManualTestStatus.
WithInitialStatus(req, autoPass) ==
  IF req.status # "UNKNOWN" THEN req
  ELSE WithManualResult(
         [req EXCEPT !.status = IF autoPass /\ Present(req) = {} THEN "PASS" ELSE "UNKNOWN"])

\* updateTestStepStatusOnScanUpdate.
WithScanResult(req, r) ==
  IF r \in Manual THEN WithInitialStatus(req, r \in AutoPass) ELSE WithGroupResult(req)

\* A bug to be caught: what is not found any more has no status.
WithInstancesUnfound(req, results) ==
  [req EXCEPT !.instances = [i \in Instance |->
     IF results[i] = None /\ @[i] = None THEN None ELSE Found(results[i])]]

\* What is found again is replaced, what is not found any more is kept.
WithInstances(req, results) ==
  [req EXCEPT !.instances = [i \in Instance |->
     IF results[i] = None THEN @[i] ELSE Found(results[i])]]

-----------------------------------------------------------------------------
(* The assessment, its start from a copy, and its changes.                  *)

DefaultAssessment == [target |-> FALSE, reqs |-> [r \in Requirement |-> Default]]

\* generateInitialState.  The automated checks are restored if all were scanned.
InitialState(copy) ==
  [copy EXCEPT !.reqs = [r \in Requirement |->
     IF r \in Automated /\ \E s \in Automated : ~copy.reqs[s].scanned
     THEN Default ELSE @[r]]]

\* A bug to be caught: only the listeners are told.
EmitUnwritten(a) ==
  /\ assessment' = a
  /\ unsaved' = FALSE
  /\ UNCHANGED writes

\* The assessment becomes a, which is persisted, and the listeners are told.
Emit(a) ==
  /\ assessment' = a
  /\ writes' = Append(writes, a)
  /\ unsaved' = FALSE

Change(r, req) == Emit([assessment EXCEPT !.reqs[r] = req])

\* A handler that throws has changed nothing.
Throw == UNCHANGED <<assessment, writes, unsaved>>

\* onUpdateTargetTabId; another lookup waits for those under way, a bound.
UpdateTarget ==
  IF assessment.target THEN UNCHANGED lookups ELSE lookups < MaxLookups /\ lookups' = lookups + 1

KeepTarget == UNCHANGED lookups

\* The next change waits for the write of the last one, a bound.
Ready == writes = <<>>

\* What the details view offers in state a: to judge an instance, to take that back,
\* to pass the unmarked instances, to note failures of a manual requirement.
Offered(a) ==
  [judge |-> {p \in Assisted \X Instance : p[2] \in Present(a.reqs[p[1]])},
   undo |-> {p \in Assisted \X Instance :
              p[2] \in Present(a.reqs[p[1]]) /\ Judged(a.reqs[p[1]].instances[p[2]])},
   unmarked |-> {r \in Assisted :
                  \E i \in Present(a.reqs[r]) : a.reqs[r].instances[i].status = "UNKNOWN"},
   failed |-> {r \in Manual : a.reqs[r].status = "FAIL"}]

\* What was emitted last was also written last.
Emitted == IF writes = <<>> THEN db ELSE Head(writes)

\* A change; the details view is at most this one behind, a bound.
Handle ==
  /\ Ready
  /\ shown' = Offered(Emitted)
  /\ UNCHANGED db

\* Bounds: few requirements have results at a time, with few instances and failures.
Room(r) == Cardinality({s \in Requirement \ {r} : assessment.reqs[s] # Default}) < MaxTouched

FewNoted(a) ==
  Cardinality({p \in Requirement \X Instance : p[2] \in Present(a.reqs[p[1]])})
    + Cardinality({p \in Manual \X (1..MaxNoted) : p[2] <= a.reqs[p[1]].failures}) <= MaxNoted

-----------------------------------------------------------------------------
Init ==
  /\ assessment = DefaultAssessment
  /\ shown = Offered(DefaultAssessment)
  /\ lookups = 0
  /\ writes = <<>>
  /\ db = DefaultAssessment  \* there is no copy, which starts the same assessment
  /\ unsaved = FALSE

(* Scans.                                                                   *)

ScanCompleted(r, results) ==
  /\ Handle /\ Room(r)
  /\ UpdateTarget
  /\ Change(r, WithScanResult(WithInstances([assessment.reqs[r] EXCEPT !.scanned = TRUE], results), r))
  /\ FewNoted(assessment')

\* Tab stops, in batches while they are recorded.
ScanUpdate(r, results) ==
  /\ Handle /\ Room(r)
  /\ KeepTarget
  /\ Change(r, WithScanResult(WithInstances(assessment.reqs[r], results), r))
  /\ FewNoted(assessment')

\* The recording of tab stops ends.  Without any instance the handler throws.
TrackingCompleted(r) ==
  /\ Handle
  /\ KeepTarget
  /\ IF Present(assessment.reqs[r]) = {} THEN Throw
     ELSE Change(r, [assessment.reqs[r] EXCEPT !.instances = Default.instances])

-----------------------------------------------------------------------------
(* Instances the user judges.                                               *)

\* A bug to be caught: the status before the last judgement is kept, not the first.
JudgedAnew(x, status) == [x EXCEPT !.original = x.status, !.status = status]

JudgedAs(x, status) == [x EXCEPT !.original = IF Judged(x) THEN @ ELSE x.status, !.status = status]

\* onChangeInstanceStatus, which throws if there is no such instance any more.
ChangeInstanceStatus(r, i, status) ==
  LET req == assessment.reqs[r]
  IN /\ Handle
     /\ <<r, i>> \in shown.judge
     /\ UpdateTarget
     /\ IF i \notin Present(req) THEN Throw
        ELSE Change(r, WithGroupResult([req EXCEPT !.instances[i] = JudgedAs(@, status)]))

\* onUndoInstanceStatusChange.
UndoInstanceStatusChange(r, i) ==
  LET req == assessment.reqs[r]
      Undone(x) == [status |-> x.original, original |-> "null",
                    found |-> IF Judged(x) THEN x.found ELSE None]
  IN /\ Handle
     /\ <<r, i>> \in shown.undo
     /\ KeepTarget
     /\ IF i \notin Present(req) THEN Throw
        ELSE Change(r, WithGroupResult([req EXCEPT !.instances[i] = Undone(@)]))

PassUnmarkedInstances(r) ==
  LET req == assessment.reqs[r]
      Passed(x) == IF x # None /\ Unmarked(x) THEN JudgedAs(x, "PASS") ELSE x
  IN /\ Handle
     /\ r \in shown.unmarked
     /\ UpdateTarget
     /\ IF Present(req) = {} THEN Throw
        ELSE Change(r, WithGroupResult(
               [req EXCEPT !.instances = [i \in Instance |-> Passed(@[i])]]))

-----------------------------------------------------------------------------
(* Manual requirements.                                                     *)

WithStatus(req, status) ==
  WithManualResult([req EXCEPT !.status = status, !.failures = IF status = "FAIL" THEN @ ELSE 0])

ChangeStepStatus(r, status) ==
  /\ Handle /\ Room(r)
  /\ UpdateTarget
  /\ Change(r, WithStatus(assessment.reqs[r], status))

UndoStepStatusChange(r) ==
  /\ Handle
  /\ KeepTarget
  /\ Change(r, WithStatus(assessment.reqs[r], "UNKNOWN"))

AddFailureInstance(r) ==
  /\ Handle
  /\ r \in shown.failed
  /\ KeepTarget
  /\ assessment.reqs[r].failures < MaxNoted
  /\ Change(r, WithManualResult([assessment.reqs[r] EXCEPT !.failures = @ + 1]))
  /\ FewNoted(assessment')

RemoveFailureInstance(r) ==
  /\ Handle
  /\ r \in shown.failed /\ assessment.reqs[r].failures > 0
  /\ KeepTarget
  /\ Change(r, WithManualResult([assessment.reqs[r] EXCEPT !.failures = @ - 1]))

-----------------------------------------------------------------------------
(* The assessment as a whole.                                               *)

\* What another part of the state, or nothing, changes: getCurrentState, the choice
\* of what is shown, the descriptions of failures and of the result.
EmitUnchanged ==
  /\ Handle
  /\ KeepTarget
  /\ Emit(assessment)

\* onResetData, for the tests of requirements R.
ResetData(R) ==
  /\ Handle
  /\ KeepTarget
  /\ Emit([assessment EXCEPT !.reqs = [r \in Requirement |-> IF r \in R THEN Default ELSE @[r]]])

\* The tab is looked up before the new assessment is emitted.
ReplaceBy(a) ==
  /\ Ready
  /\ assessment' = a
  /\ lookups < MaxLookups /\ lookups' = lookups + 1
  /\ UNCHANGED <<shown, writes, db, unsaved>>

ResetAllAssessmentsData == ReplaceBy(DefaultAssessment)

LoadAssessment(file) == ReplaceBy(InitialState(file))

ContinuePreviousAssessment == ReplaceBy(assessment)

\* The answer to a lookup of updateTargetTabWithId.
TabFound ==
  /\ writes = <<>>
  /\ lookups > 0 /\ lookups' = lookups - 1
  /\ Emit([assessment EXCEPT !.target = TRUE])
  /\ shown' = Offered(Emitted)
  /\ UNCHANGED db

\* The tab has been closed.
TabNotFound ==
  /\ lookups > 0 /\ lookups' = lookups - 1
  /\ unsaved' = TRUE
  /\ UNCHANGED <<assessment, shown, writes, db>>

WriteLands ==
  /\ writes # <<>>
  /\ writes' = Tail(writes)
  /\ db' = Head(writes)
  /\ UNCHANGED <<assessment, shown, lookups, unsaved>>

\* What was emitted reaches the details view.
Show ==
  /\ shown' = Offered(Emitted)
  /\ shown # shown'
  /\ UNCHANGED <<assessment, lookups, writes, db, unsaved>>

\* The background page ends, with what it has not written, and starts again.
Restart ==
  /\ assessment' = InitialState(db)
  /\ shown' = Offered(assessment')
  /\ lookups' = 0
  /\ writes' = <<>>
  /\ unsaved' = FALSE
  /\ UNCHANGED db

Next ==
  \/ \E r \in Requirement : \E results \in [Instance -> Outcome[r] \cup {None}] :
       ScanCompleted(r, results)
  \/ \E r \in Tracked : \/ \E results \in [Instance -> {"UNKNOWN", None}] : ScanUpdate(r, results)
                        \/ TrackingCompleted(r)
  \/ \E r \in Assisted, i \in Instance :
       \/ \E status \in {"PASS", "FAIL"} : ChangeInstanceStatus(r, i, status)
       \/ UndoInstanceStatusChange(r, i)
  \/ \E r \in Assisted : PassUnmarkedInstances(r)
  \/ \E r \in Manual : \/ \E status \in {"PASS", "FAIL"} : ChangeStepStatus(r, status)
                       \/ UndoStepStatusChange(r)
                       \/ AddFailureInstance(r) \/ RemoveFailureInstance(r)
  \/ \E R \in {Automated} \cup {{r} : r \in Requirement \ Automated} : ResetData(R)
  \/ EmitUnchanged \/ ResetAllAssessmentsData \/ ContinuePreviousAssessment
  \/ \E file \in File : LoadAssessment(file)
  \/ TabFound \/ TabNotFound \/ WriteLands \/ Show \/ Restart

Spec == Init /\ [][Next]_vars

-----------------------------------------------------------------------------
(* Properties.                                                              *)

Status == {"PASS", "UNKNOWN", "FAIL"}

InstanceResult ==
  [status : Status \cup {"undefined", "null"}, original : Status \cup {"undefined", "null"},
   found : Status \cup {None}]

Result ==
  [scanned : BOOLEAN, final : Status \cup {"NaN"}, status : Status, failures : 0..MaxNoted,
   instances : [Instance -> {None} \cup InstanceResult]]

Assessed == [target : BOOLEAN, reqs : [Requirement -> Result]]

\* The state is well formed: what has been judged belongs to an assisted
\* requirement, what has been decided to a manual one, and the status a scan gave
\* is one that its requirement gives.
TypeOK ==
  /\ {assessment, db} \cup {writes[k] : k \in DOMAIN writes} \subseteq Assessed
  /\ \A r \in Requirement :
       /\ r \notin Manual => assessment.reqs[r].status = "UNKNOWN"
       /\ \A i \in Present(assessment.reqs[r]) :
            LET x == assessment.reqs[r].instances[i]
            IN x.found \in Outcome[r] \cup {"UNKNOWN", None} /\ (Judged(x) => r \in Assisted)
  /\ Len(writes) <= 1 /\ lookups \in 0..MaxLookups /\ unsaved \in BOOLEAN

\* What the store makes of an instance of requirement r and of the result of r.
ConsistentInstance(x, r) ==
  /\ x.found \in Outcome[r] \cup {"UNKNOWN", None}
  /\ Judged(x) => r \in Assisted /\ x.status \in {"PASS", "FAIL"}
  /\ x.found # None => x.found = IF Judged(x) THEN x.original ELSE x.status

ConsistentResult(req, r) ==
  /\ \A i \in Present(req) : ConsistentInstance(req.instances[i], r)
  /\ r \in Manual => req = WithManualResult(req)
  /\ r \notin Manual /\ req.scanned => req = WithGroupResult(req)
  /\ r \notin Manual /\ ~req.scanned => req.final = "UNKNOWN" /\ Present(req) = {}
  /\ r \notin Manual => req.status = "UNKNOWN"

Consistent(a) == a \in Assessed /\ \A r \in Requirement : ConsistentResult(a.reqs[r], r)

\* A file that is loaded was saved by the details view, from a state the store had.
ASSUME FileAssumption == \A file \in File : Consistent(file)

\* The result of a requirement agrees with what it is made of, after whatever
\* scans, judgements, resets and restarts.  A manual requirement fails with a
\* failure only, and as long as none is noted the user is still asked.  Any other
\* passes when it has been scanned and each instance was found to pass or judged
\* so, except where an undo came twice or after a scan; it fails with a failed
\* instance only.
FinalResultAgrees ==
  \A r \in Requirement :
    LET req == assessment.reqs[r]
        StatusOf(i) == req.instances[i].status
    IN IF r \in Manual
       THEN req.final = IF req.status = "FAIL" /\ req.failures = 0 THEN "UNKNOWN" ELSE req.status
       ELSE /\ req.final = "PASS" =>
                 /\ req.scanned
                 /\ \A i \in Present(req) : StatusOf(i) = "PASS" \/ req.instances[i].found = None
            /\ req.final = "FAIL" => \E i \in Present(req) : StatusOf(i) = "FAIL"
            /\ req.final = "UNKNOWN" =>
                 \/ ~req.scanned
                 \/ \E i \in Present(req) : StatusOf(i) = "UNKNOWN"
            /\ req.final = "NaN" => \E i \in Present(req) : req.instances[i].found = None

\* However often the user judges an instance, by itself or with the others that are
\* unmarked, what an undo restores is the status the last scan gave it, and without
\* a judgement it has that status; only an undo of what another undo or a scan has
\* undone already loses it.
JudgementCanBeUndone ==
  \A r \in Requirement : \A i \in Present(assessment.reqs[r]) :
    LET x == assessment.reqs[r].instances[i]
    IN x.found # None => x.found = IF Judged(x) THEN x.original ELSE x.status

\* Once the last write has landed, and no lookup of the tab is under way or failed
\* with the last word, a restart goes on where the store is: no handler that
\* changes the assessment leaves the copy behind.
RestartResumes ==
  writes = <<>> /\ lookups = 0 /\ ~unsaved => InitialState(db) = InitialState(assessment)

=============================================================================
