----------------------- MODULE AssessmentResults_proofs ------------------------
(***************************************************************************)
(* Proofs about the results of an assessment, for any requirements, elements *)
(* and saved files.                                                         *)
(***************************************************************************)
EXTENDS AssessmentResults, SequenceTheorems, TLAPS

LEMMA Constants ==
  /\ MaxNoted \in Nat /\ MaxLookups \in Nat
  /\ Automated \subseteq Requirement /\ Manual \subseteq Requirement \ Automated
  /\ Tracked \subseteq Manual
  /\ \A r \in Requirement : Outcome[r] \subseteq {"PASS", "UNKNOWN", "FAIL"}
BY RequirementAssumption, BoundAssumption

-----------------------------------------------------------------------------
(* The results of one requirement.                                          *)

\* A result that is like what the store makes of r, but for the final result.
Draft(req, r) ==
  /\ req \in Result
  /\ \A i \in Present(req) : ConsistentInstance(req.instances[i], r)
  /\ r \notin Manual => req.status = "UNKNOWN"

LEMMA DefaultConsistent ==
  ASSUME NEW r \in Requirement
  PROVE  Default \in Result /\ ConsistentResult(Default, r)
<1>1. Default \in Result /\ Present(Default) = {}
  BY Constants DEF Default, Result, Status, Present
<1>2. Default.scanned = FALSE /\ Default.final = "UNKNOWN" /\ Default.status = "UNKNOWN"
  BY DEF Default
<1>3. Default = WithManualResult(Default)
  <2>1. WithManualResult(Default) = [Default EXCEPT !.final = Default.final]
    BY <1>2 DEF WithManualResult
  <2> QED BY <1>1, <2>1 DEF Result
<1> QED BY <1>1, <1>2, <1>3 DEF ConsistentResult

LEMMA ConsistentIsDraft ==
  ASSUME NEW r \in Requirement, NEW req \in Result, ConsistentResult(req, r)
  PROVE  Draft(req, r)
BY DEF Draft, ConsistentResult

LEMMA GroupResultType ==
  ASSUME NEW req
  PROVE  GroupResult(req) \in Status \cup {"NaN"}
BY DEF GroupResult, Status

\* The final result of a group of instances completes a draft.
LEMMA GroupConsistent ==
  ASSUME NEW r \in Requirement \ Manual, NEW req, Draft(req, r), req.scanned
  PROVE  WithGroupResult(req) \in Result /\ ConsistentResult(WithGroupResult(req), r)
<1> DEFINE done == WithGroupResult(req)
<1>1. req \in Result /\ GroupResult(req) \in Status \cup {"NaN"}
  BY GroupResultType DEF Draft
<1>2. /\ done \in Result
      /\ done.final = GroupResult(req) /\ done.instances = req.instances
      /\ done.status = req.status /\ done.scanned = req.scanned
  BY <1>1 DEF WithGroupResult, Result
<1>3. Present(done) = Present(req) /\ GroupResult(done) = GroupResult(req)
  BY <1>2 DEF Present, GroupResult
<1>4. done = WithGroupResult(done)
  BY <1>1, <1>3 DEF WithGroupResult, Result
<1> HIDE DEF done
<1> QED BY <1>2, <1>3, <1>4 DEF ConsistentResult, Draft, done

\* The final result of a status the user has decided completes a draft.
LEMMA ManualConsistent ==
  ASSUME NEW r \in Manual, NEW req, Draft(req, r)
  PROVE  WithManualResult(req) \in Result /\ ConsistentResult(WithManualResult(req), r)
<1> DEFINE done == WithManualResult(req)
<1>1. req \in Result
  BY DEF Draft
<1>2. /\ done \in Result
      /\ done.instances = req.instances /\ done.status = req.status
      /\ done.failures = req.failures
  BY <1>1 DEF WithManualResult, Result, Status
<1>3. Present(done) = Present(req)
  BY <1>2 DEF Present
<1>4. done = WithManualResult(done)
  BY <1>1 DEF WithManualResult, Result
<1> HIDE DEF done
<1> QED BY <1>2, <1>3, <1>4 DEF ConsistentResult, Draft, done

\* What a scan finds replaces what was known of the elements it finds.
LEMMA InstancesDraft ==
  ASSUME NEW r \in Requirement, NEW req, Draft(req, r),
         NEW results \in [Instance -> Outcome[r] \cup {"UNKNOWN", None}]
  PROVE  /\ Draft(WithInstances(req, results), r)
         /\ WithInstances(req, results).scanned = req.scanned
         /\ WithInstances(req, results).status = req.status
         /\ WithInstances(req, results).failures = req.failures
<1> DEFINE next == WithInstances(req, results)
<1>1. req \in Result
  BY DEF Draft
<1>2. /\ next.instances = [i \in Instance |-> IF results[i] = None THEN req.instances[i]
                                              ELSE Found(results[i])]
      /\ next.scanned = req.scanned /\ next.status = req.status /\ next.failures = req.failures
      /\ next.final = req.final
      /\ next = [scanned |-> req.scanned, final |-> req.final, status |-> req.status,
                 failures |-> req.failures, instances |-> next.instances]
  BY <1>1 DEF WithInstances, Result
<1>3. ASSUME NEW i \in Instance, results[i] # None
      PROVE  Found(results[i]) \in InstanceResult /\ ConsistentInstance(Found(results[i]), r)
  <2>1. results[i] \in Outcome[r] \cup {"UNKNOWN"} /\ results[i] \in Status
    BY <1>3, Constants DEF Status
  <2> QED BY <2>1 DEF Found, InstanceResult, ConsistentInstance, Judged, Status
<1>4. next.instances \in [Instance -> {None} \cup InstanceResult]
  <2>1. req.instances \in [Instance -> {None} \cup InstanceResult]
    BY <1>1 DEF Result
  <2> QED BY <1>2, <1>3, <2>1
<1>5. next \in Result
  BY <1>1, <1>2, <1>4 DEF Result
<1>6. \A i \in Present(next) : ConsistentInstance(next.instances[i], r)
  BY <1>2, <1>3 DEF Present, Draft
<1> HIDE DEF next
<1> QED BY <1>2, <1>5, <1>6 DEF Draft, next

\* A scan leaves a consistent result.
LEMMA ScanConsistent ==
  ASSUME NEW r \in Requirement, NEW req, Draft(req, r),
         r \in Manual => req = WithManualResult(req),
         r \notin Manual => req.scanned
  PROVE  WithScanResult(req, r) \in Result /\ ConsistentResult(WithScanResult(req, r), r)
<1>1. CASE r \notin Manual
  BY <1>1, GroupConsistent DEF WithScanResult
<1>2. CASE r \in Manual /\ req.status # "UNKNOWN"
  <2>1. WithScanResult(req, r) = req
    BY <1>2 DEF WithScanResult, WithInitialStatus
  <2> QED BY <1>2, <2>1 DEF ConsistentResult, Draft
<1>3. CASE r \in Manual /\ req.status = "UNKNOWN"
  <2>1. PICK status \in {"PASS", "UNKNOWN"} :
          WithScanResult(req, r) = WithManualResult([req EXCEPT !.status = status])
    BY <1>3 DEF WithScanResult, WithInitialStatus
  <2> DEFINE decided == [req EXCEPT !.status = status]
  <2>2. decided \in Result /\ decided.instances = req.instances
    BY DEF Draft, Result, Status
  <2>3. Draft(decided, r)
    BY <1>3, <2>2 DEF Draft, Present
  <2> HIDE DEF decided
  <2> QED BY <1>3, <2>1, <2>3, ManualConsistent DEF decided
<1> QED BY <1>1, <1>2, <1>3

\* The user judges an instance, or takes the judgement back: if what becomes of the
\* instance is consistent, so is the result of its requirement.
LEMMA JudgedConsistent ==
  ASSUME NEW r \in Assisted, NEW req \in Result, ConsistentResult(req, r),
         NEW instances \in [Instance -> {None} \cup InstanceResult],
         Present(req) # {},
         \A i \in Instance : instances[i] # None => ConsistentInstance(instances[i], r)
  PROVE  LET next == WithGroupResult([req EXCEPT !.instances = instances])
         IN next \in Result /\ ConsistentResult(next, r)
<1> DEFINE judged == [req EXCEPT !.instances = instances]
<1>1. /\ judged \in Result /\ judged.instances = instances
      /\ judged.scanned = req.scanned /\ judged.status = req.status
  BY DEF Result
<1>2. r \in Requirement \ Manual /\ req.scanned /\ req.status = "UNKNOWN"
  BY DEF Assisted, ConsistentResult
<1>3. Draft(judged, r)
  BY <1>1, <1>2 DEF Draft, Present
<1> HIDE DEF judged
<1> QED BY <1>1, <1>2, <1>3, GroupConsistent DEF judged

LEMMA JudgedAsFacts ==
  ASSUME NEW r \in Assisted, NEW x \in InstanceResult, ConsistentInstance(x, r),
         NEW status \in {"PASS", "FAIL"}
  PROVE  JudgedAs(x, status) \in InstanceResult /\ ConsistentInstance(JudgedAs(x, status), r)
<1>1. /\ x.status \in Status \cup {"undefined", "null"}
      /\ x.original \in Status \cup {"undefined", "null"}
      /\ x.found \in Status \cup {None}
  BY DEF InstanceResult
<1>2. /\ JudgedAs(x, status).status = status
      /\ JudgedAs(x, status).found = x.found
      /\ JudgedAs(x, status).original = IF Judged(x) THEN x.original ELSE x.status
      /\ JudgedAs(x, status) \in InstanceResult
  BY <1>1 DEF JudgedAs, InstanceResult, Status
<1>3. Outcome[r] \subseteq Status /\ r \in Requirement
  BY Constants DEF Status, Assisted
<1> QED BY <1>1, <1>2, <1>3 DEF ConsistentInstance, Judged, Status

-----------------------------------------------------------------------------
(* The assessment.                                                          *)

LEMMA DefaultAssessmentConsistent == Consistent(DefaultAssessment)
BY DefaultConsistent DEF Consistent, DefaultAssessment, Assessed

LEMMA ChangeConsistent ==
  ASSUME NEW a, Consistent(a), NEW r \in Requirement, NEW req \in Result, ConsistentResult(req, r)
  PROVE  Consistent([a EXCEPT !.reqs[r] = req])
<1>1. a \in Assessed
  BY DEF Consistent
<1>2. [a EXCEPT !.reqs[r] = req] \in Assessed
  BY <1>1 DEF Assessed
<1>3. ASSUME NEW q \in Requirement
      PROVE  ConsistentResult([a EXCEPT !.reqs[r] = req].reqs[q], q)
  <2>1. [a EXCEPT !.reqs[r] = req].reqs[q] = IF q = r THEN req ELSE a.reqs[q]
    BY <1>1 DEF Assessed
  <2> QED BY <2>1 DEF Consistent
<1> QED BY <1>2, <1>3 DEF Consistent

\* A reset, or a start from a copy, takes the default for the results of some requirements.
LEMMA ResetConsistent ==
  ASSUME NEW a, Consistent(a), NEW R
  PROVE  Consistent([a EXCEPT !.reqs = [r \in Requirement |-> IF r \in R THEN Default ELSE @[r]]])
<1> DEFINE b == [a EXCEPT !.reqs = [r \in Requirement |-> IF r \in R THEN Default ELSE @[r]]]
<1>1. a \in Assessed
  BY DEF Consistent
<1>2. \A r \in Requirement : b.reqs[r] = IF r \in R THEN Default ELSE a.reqs[r]
  BY <1>1 DEF Assessed
<1>3. b \in Assessed
  BY <1>1, DefaultConsistent DEF Assessed
<1> HIDE DEF b
<1>4. Consistent(b)
  BY <1>2, <1>3, DefaultConsistent DEF Consistent
<1> QED BY <1>4 DEF b

\* The requirements whose results a start from a copy drops.
Dropped(copy) == {r \in Automated : \E s \in Automated : ~copy.reqs[s].scanned}

LEMMA InitialStateFacts ==
  ASSUME NEW a, Consistent(a)
  PROVE  /\ Consistent(InitialState(a))
         /\ InitialState(InitialState(a)) = InitialState(a)
<1>1. a \in Assessed
  BY DEF Consistent
<1>2. InitialState(a) = [a EXCEPT !.reqs = [r \in Requirement |->
                           IF r \in Dropped(a) THEN Default ELSE @[r]]]
  BY DEF InitialState, Dropped
<1>3. Consistent(InitialState(a))
  BY <1>2, ResetConsistent
<1> DEFINE b == InitialState(a)
<1>4. \A r \in Requirement : b.reqs[r] = IF r \in Dropped(a) THEN Default ELSE a.reqs[r]
  BY <1>1, <1>2 DEF Assessed
<1>5. \A r \in Dropped(b) : b.reqs[r] = Default
  <2>1. CASE \E s \in Automated : ~a.reqs[s].scanned
    BY <1>4, <2>1, Constants DEF Dropped
  <2>2. CASE ~\E s \in Automated : ~a.reqs[s].scanned
    <3>1. Dropped(a) = {}
      BY <2>2 DEF Dropped
    <3>2. Dropped(b) = {}
      BY <1>4, <2>2, <3>1, Constants DEF Dropped
    <3> QED BY <3>2
  <2> QED BY <2>1, <2>2
<1>6. InitialState(b) = [b EXCEPT !.reqs = [r \in Requirement |->
                           IF r \in Dropped(b) THEN Default ELSE @[r]]]
  BY DEF InitialState, Dropped
<1>7. b \in Assessed
  BY <1>3 DEF Consistent
<1> HIDE DEF b
<1>8. InitialState(b) = b
  <2>1. [r \in Requirement |-> IF r \in Dropped(b) THEN Default ELSE b.reqs[r]] = b.reqs
    BY <1>5, <1>7 DEF Assessed
  <2> QED BY <1>6, <1>7, <2>1 DEF Assessed
<1> QED BY <1>3, <1>8 DEF b

-----------------------------------------------------------------------------
(* The invariant.                                                           *)

\* Whatever the store, the database and what is on its way there hold is consistent.
KeptConsistent ==
  /\ Consistent(assessment) /\ Consistent(db)
  /\ writes = <<>> \/ \E a : Consistent(a) /\ writes = <<a>>

\* With no lookup under way, and none that failed with the last word, a start from what
\* was emitted last resumes what the store has.
EmittedResumes ==
  lookups = 0 /\ ~unsaved => InitialState(Emitted) = InitialState(assessment)

Inv ==
  /\ KeptConsistent
  /\ lookups \in 0..MaxLookups /\ unsaved \in BOOLEAN
  /\ EmittedResumes

THEOREM InitEstablishesInv == Init => Inv
<1> SUFFICES ASSUME Init PROVE Inv
  OBVIOUS
<1>1. /\ assessment = DefaultAssessment /\ db = DefaultAssessment
      /\ lookups = 0 /\ writes = <<>> /\ unsaved = FALSE
  BY DEF Init
<1>2. KeptConsistent
  BY <1>1, DefaultAssessmentConsistent DEF KeptConsistent
<1>3. Emitted = assessment
  BY <1>1 DEF Emitted
<1>4. EmittedResumes
  BY <1>3 DEF EmittedResumes
<1>5. lookups \in 0..MaxLookups
  BY <1>1, Constants
<1> QED BY <1>1, <1>2, <1>4, <1>5 DEF Inv

\* What is emitted is written.
LEMMA EmitKeepsInv ==
  ASSUME Inv, NEW a, Consistent(a), Emit(a), writes = <<>>,
         lookups' \in 0..MaxLookups, UNCHANGED db
  PROVE  Inv'
<1>1. /\ assessment' = a /\ writes' = <<a>> /\ unsaved' = FALSE /\ db' = db
  BY DEF Emit
<1>2. KeptConsistent'
  BY <1>1 DEF Inv, KeptConsistent
<1>3. EmittedResumes'
  BY <1>1 DEF EmittedResumes, Emitted
<1> QED BY <1>1, <1>2, <1>3 DEF Inv

\* A handler that emits, or that throws before it has changed anything, whether or
\* not the target tab has to be looked up.
LEMMA HandlerKeepsInv ==
  ASSUME Inv, Handle, UpdateTarget \/ KeepTarget,
         Throw \/ \E a : Consistent(a) /\ Emit(a)
  PROVE  Inv'
<1>1. writes = <<>> /\ db' = db
  BY DEF Handle, Ready
<1>2. lookups' \in {lookups, lookups + 1} /\ lookups' \in 0..MaxLookups
  BY <1>1, Constants DEF Inv, UpdateTarget, KeepTarget
<1>3. CASE Throw
  <2>1. UNCHANGED <<assessment, writes, db, unsaved>>
    BY <1>1, <1>3 DEF Throw
  <2>2. lookups' = 0 => lookups = 0
    BY <1>2 DEF Inv
  <2>3. EmittedResumes'
    BY <2>1, <2>2 DEF Inv, EmittedResumes, Emitted
  <2> QED BY <1>2, <2>1, <2>3 DEF Inv, KeptConsistent
<1>4. CASE \E a : Consistent(a) /\ Emit(a)
  BY <1>1, <1>2, <1>4, EmitKeepsInv
<1> QED BY <1>3, <1>4

\* A handler that changes the results of one requirement.
LEMMA ChangeKeepsInv ==
  ASSUME Inv, Handle, UpdateTarget \/ KeepTarget,
         NEW r \in Requirement, NEW req \in Result, ConsistentResult(req, r), Change(r, req)
  PROVE  Inv'
<1>1. Consistent([assessment EXCEPT !.reqs[r] = req])
  BY ChangeConsistent DEF Inv, KeptConsistent
<1>2. Emit([assessment EXCEPT !.reqs[r] = req])
  BY DEF Change
<1> QED BY <1>1, <1>2, HandlerKeepsInv

\* What is known of a requirement when a handler runs.
LEMMA Results ==
  ASSUME Inv, NEW r \in Requirement
  PROVE  /\ assessment.reqs[r] \in Result
         /\ ConsistentResult(assessment.reqs[r], r)
         /\ Draft(assessment.reqs[r], r)
<1>1. assessment.reqs[r] \in Result /\ ConsistentResult(assessment.reqs[r], r)
  BY DEF Inv, KeptConsistent, Consistent, Assessed
<1> QED BY <1>1, ConsistentIsDraft

-----------------------------------------------------------------------------
(* The handlers.                                                            *)

LEMMA ScanCompletedKeepsInv ==
  ASSUME Inv, NEW r \in Requirement, NEW results \in [Instance -> Outcome[r] \cup {None}],
         ScanCompleted(r, results)
  PROVE  Inv'
<1> DEFINE req == assessment.reqs[r]
           scanned == [req EXCEPT !.scanned = TRUE]
           found == WithInstances(scanned, results)
<1>1. req \in Result /\ ConsistentResult(req, r) /\ Draft(req, r)
  BY Results
<1>2. /\ Draft(scanned, r) /\ scanned.scanned = TRUE
      /\ r \in Manual => scanned = WithManualResult(scanned)
  <2>1. /\ scanned \in Result /\ scanned.instances = req.instances
        /\ scanned.status = req.status /\ scanned.scanned = TRUE
    BY <1>1 DEF Result
  <2>2. ASSUME r \in Manual PROVE scanned = WithManualResult(scanned)
    BY <1>1, <2>2 DEF ConsistentResult, WithManualResult, Result
  <2> HIDE DEF req, scanned
  <2> QED BY <1>1, <2>1, <2>2 DEF Draft, Present
<1>3. results \in [Instance -> Outcome[r] \cup {"UNKNOWN", None}]
  OBVIOUS
<1> HIDE DEF scanned
<1>4. /\ Draft(found, r) /\ found.scanned = TRUE
      /\ found.status = scanned.status /\ found.failures = scanned.failures
  BY <1>2, <1>3, InstancesDraft
<1>5. r \in Manual => found = WithManualResult(found)
  BY <1>2, <1>4 DEF WithManualResult, Draft, Result, WithInstances
<1> HIDE DEF found
<1>6. WithScanResult(found, r) \in Result /\ ConsistentResult(WithScanResult(found, r), r)
  BY <1>4, <1>5, ScanConsistent
<1>7. Handle /\ UpdateTarget /\ Change(r, WithScanResult(found, r))
  BY DEF ScanCompleted, found, scanned
<1> QED BY <1>6, <1>7, ChangeKeepsInv

LEMMA ScanUpdateKeepsInv ==
  ASSUME Inv, NEW r \in Tracked, NEW results \in [Instance -> {"UNKNOWN", None}],
         ScanUpdate(r, results)
  PROVE  Inv'
<1> DEFINE req == assessment.reqs[r]
           found == WithInstances(req, results)
<1>1. r \in Requirement /\ r \in Manual
  BY Constants
<1>2. req \in Result /\ ConsistentResult(req, r) /\ Draft(req, r)
  BY <1>1, Results
<1>3. results \in [Instance -> Outcome[r] \cup {"UNKNOWN", None}]
  OBVIOUS
<1> HIDE DEF req
<1>4. /\ Draft(found, r)
      /\ found.status = req.status /\ found.failures = req.failures
  BY <1>1, <1>2, <1>3, InstancesDraft
<1>5. found = WithManualResult(found)
  BY <1>1, <1>2, <1>4 DEF ConsistentResult, WithManualResult, Draft, Result, WithInstances
<1> HIDE DEF found
<1>6. WithScanResult(found, r) \in Result /\ ConsistentResult(WithScanResult(found, r), r)
  BY <1>1, <1>4, <1>5, ScanConsistent
<1>7. Handle /\ KeepTarget /\ Change(r, WithScanResult(found, r))
  BY DEF ScanUpdate, found, req
<1> QED BY <1>1, <1>6, <1>7, ChangeKeepsInv

LEMMA TrackingCompletedKeepsInv ==
  ASSUME Inv, NEW r \in Tracked, TrackingCompleted(r)
  PROVE  Inv'
<1> DEFINE req == assessment.reqs[r]
           next == [req EXCEPT !.instances = Default.instances]
<1>1. r \in Requirement /\ r \in Manual
  BY Constants
<1>2. req \in Result /\ ConsistentResult(req, r)
  BY <1>1, Results
<1>3. /\ next \in Result /\ Present(next) = {} /\ next = WithManualResult(next)
  <2>1. Default.instances \in [Instance -> {None} \cup InstanceResult] /\ Present(Default) = {}
    BY DEF Default, Present
  <2>2. next \in Result /\ next.instances = Default.instances
    BY <1>2, <2>1 DEF Result
  <2>3. Present(next) = {}
    BY <2>1, <2>2 DEF Present
  <2>4. next = WithManualResult(next)
    BY <1>1, <1>2, <2>2 DEF ConsistentResult, WithManualResult, Result
  <2> QED BY <2>2, <2>3, <2>4
<1> HIDE DEF next
<1>4. ConsistentResult(next, r)
  BY <1>1, <1>3 DEF ConsistentResult
<1>5. Handle /\ KeepTarget /\ (Throw \/ Change(r, next))
  BY DEF TrackingCompleted, next
<1> QED BY <1>1, <1>3, <1>4, <1>5, ChangeKeepsInv, HandlerKeepsInv

\* Both judging and undoing replace one instance that is there.
LEMMA JudgeKeepsInv ==
  ASSUME Inv, NEW r \in Assisted, NEW i \in Present(assessment.reqs[r]),
         Handle, UpdateTarget \/ KeepTarget,
         NEW x \in InstanceResult, ConsistentInstance(x, r),
         Change(r, WithGroupResult([assessment.reqs[r] EXCEPT !.instances[i] = x]))
  PROVE  Inv'
<1> DEFINE req == assessment.reqs[r]
           instances == [req.instances EXCEPT ![i] = x]
<1>1. r \in Requirement /\ req \in Result /\ ConsistentResult(req, r)
  BY Results DEF Assisted
<1>2. /\ instances \in [Instance -> {None} \cup InstanceResult]
      /\ [req EXCEPT !.instances[i] = x] = [req EXCEPT !.instances = instances]
    BY <1>1 DEF Result, Present
<1>3. \A j \in Instance : instances[j] # None => ConsistentInstance(instances[j], r)
  BY <1>1 DEF Result, Present, ConsistentResult
<1> HIDE DEF instances, req
<1>4. /\ WithGroupResult([req EXCEPT !.instances = instances]) \in Result
      /\ ConsistentResult(WithGroupResult([req EXCEPT !.instances = instances]), r)
  BY <1>1, <1>2, <1>3, JudgedConsistent DEF req
<1>5. Change(r, WithGroupResult([req EXCEPT !.instances = instances]))
  BY <1>2 DEF req
<1> QED BY <1>1, <1>4, <1>5, ChangeKeepsInv

LEMMA ChangeInstanceStatusKeepsInv ==
  ASSUME Inv, NEW r \in Assisted, NEW i \in Instance, NEW status \in {"PASS", "FAIL"},
         ChangeInstanceStatus(r, i, status)
  PROVE  Inv'
<1> DEFINE req == assessment.reqs[r]
<1>1. r \in Requirement /\ req \in Result /\ ConsistentResult(req, r)
  BY Results DEF Assisted
<1>2. Handle /\ UpdateTarget
  BY DEF ChangeInstanceStatus
<1>3. CASE i \notin Present(req)
  BY <1>2, <1>3, HandlerKeepsInv DEF ChangeInstanceStatus
<1>4. CASE i \in Present(req)
  <2>1. req.instances[i] \in InstanceResult /\ ConsistentInstance(req.instances[i], r)
    BY <1>1, <1>4 DEF Result, Present, ConsistentResult
  <2>2. PICK x \in InstanceResult : /\ x = JudgedAs(req.instances[i], status)
                                    /\ ConsistentInstance(x, r)
    BY <2>1, JudgedAsFacts
  <2>3. Change(r, WithGroupResult([req EXCEPT !.instances[i] = x]))
    BY <1>1, <1>4, <2>2 DEF ChangeInstanceStatus, Result
  <2> QED BY <1>2, <1>4, <2>2, <2>3, JudgeKeepsInv
<1> QED BY <1>3, <1>4

LEMMA UndoInstanceStatusChangeKeepsInv ==
  ASSUME Inv, NEW r \in Assisted, NEW i \in Instance, UndoInstanceStatusChange(r, i)
  PROVE  Inv'
<1> DEFINE req == assessment.reqs[r]
           was == req.instances[i]
           x == [status |-> was.original, original |-> "null",
                 found |-> IF Judged(was) THEN was.found ELSE None]
<1>1. r \in Requirement /\ req \in Result /\ ConsistentResult(req, r)
  BY Results DEF Assisted
<1>2. Handle /\ KeepTarget
  BY DEF UndoInstanceStatusChange
<1>3. CASE i \notin Present(req)
  BY <1>2, <1>3, HandlerKeepsInv DEF UndoInstanceStatusChange
<1>4. CASE i \in Present(req)
  <2>1. was \in InstanceResult /\ ConsistentInstance(was, r)
    BY <1>1, <1>4 DEF Result, Present, ConsistentResult
  <2>2. x \in InstanceResult /\ ConsistentInstance(x, r)
    BY <2>1 DEF InstanceResult, ConsistentInstance, Judged, Status
  <2>3. Change(r, WithGroupResult([req EXCEPT !.instances[i] = x]))
    BY <1>1, <1>4 DEF UndoInstanceStatusChange, Result
  <2> HIDE DEF x
  <2> QED BY <1>2, <1>4, <2>2, <2>3, JudgeKeepsInv
<1> QED BY <1>3, <1>4

LEMMA PassUnmarkedInstancesKeepsInv ==
  ASSUME Inv, NEW r \in Assisted, PassUnmarkedInstances(r)
  PROVE  Inv'
<1> DEFINE req == assessment.reqs[r]
           Passed(x) == IF x # None /\ Unmarked(x) THEN JudgedAs(x, "PASS") ELSE x
           instances == [i \in Instance |-> Passed(req.instances[i])]
<1>1. r \in Requirement /\ req \in Result /\ ConsistentResult(req, r)
  BY Results DEF Assisted
<1>2. Handle /\ UpdateTarget
  BY DEF PassUnmarkedInstances
<1>3. CASE Present(req) = {}
  BY <1>2, <1>3, HandlerKeepsInv DEF PassUnmarkedInstances
<1>4. CASE Present(req) # {}
  <2>1. ASSUME NEW i \in Instance
        PROVE  /\ instances[i] \in {None} \cup InstanceResult
               /\ instances[i] # None => ConsistentInstance(instances[i], r)
    <3>1. CASE req.instances[i] = None
      BY <3>1
    <3>2. CASE req.instances[i] # None
      <4>1. req.instances[i] \in InstanceResult /\ ConsistentInstance(req.instances[i], r)
        BY <1>1, <3>2 DEF Result, Present, ConsistentResult
      <4>2. /\ JudgedAs(req.instances[i], "PASS") \in InstanceResult
            /\ ConsistentInstance(JudgedAs(req.instances[i], "PASS"), r)
        BY <4>1, JudgedAsFacts
      <4> QED BY <4>1, <4>2
    <3> QED BY <3>1, <3>2
  <2>2. Change(r, WithGroupResult([req EXCEPT !.instances = instances]))
    <3>1. [req EXCEPT !.instances = [i \in Instance |-> Passed(@[i])]]
            = [req EXCEPT !.instances = instances]
      BY <1>1 DEF Result
    <3> QED BY <1>4, <3>1 DEF PassUnmarkedInstances
  <2>3. instances \in [Instance -> {None} \cup InstanceResult]
    BY <2>1
  <2> HIDE DEF instances
  <2>4. LET next == WithGroupResult([req EXCEPT !.instances = instances])
        IN next \in Result /\ ConsistentResult(next, r)
    BY <1>1, <1>4, <2>1, <2>3, JudgedConsistent
  <2> QED BY <1>1, <1>2, <2>2, <2>4, ChangeKeepsInv
<1> QED BY <1>3, <1>4

\* The user decides on a manual requirement, or notes a failure of it.
LEMMA DecidedKeepsInv ==
  ASSUME Inv, NEW r \in Manual, Handle, UpdateTarget \/ KeepTarget,
         NEW status \in Status, NEW failures \in 0..MaxNoted, NEW req,
         req = [assessment.reqs[r] EXCEPT !.status = status, !.failures = failures],
         Change(r, WithManualResult(req))
  PROVE  Inv'
<1>1. /\ r \in Requirement /\ assessment.reqs[r] \in Result
      /\ Draft(assessment.reqs[r], r)
  BY Results, Constants
<1>2. req \in Result /\ req.instances = assessment.reqs[r].instances
  BY <1>1 DEF Result
<1>3. Draft(req, r)
  BY <1>1, <1>2 DEF Draft, Present
<1>4. WithManualResult(req) \in Result /\ ConsistentResult(WithManualResult(req), r)
  BY <1>3, ManualConsistent
<1> QED BY <1>1, <1>4, ChangeKeepsInv

LEMMA WithStatusKeepsInv ==
  ASSUME Inv, NEW r \in Manual, Handle, UpdateTarget \/ KeepTarget,
         NEW status \in Status, Change(r, WithStatus(assessment.reqs[r], status))
  PROVE  Inv'
<1> DEFINE failures == IF status = "FAIL" THEN assessment.reqs[r].failures ELSE 0
<1>1. assessment.reqs[r] \in Result
  BY Results, Constants
<1>2. failures \in 0..MaxNoted
  BY <1>1, Constants DEF Result
<1>3. Change(r, WithManualResult(
        [assessment.reqs[r] EXCEPT !.status = status, !.failures = failures]))
  BY <1>1 DEF WithStatus, Result
<1> HIDE DEF failures
<1> QED BY <1>2, <1>3, DecidedKeepsInv

LEMMA ManualKeepsInv ==
  ASSUME Inv, NEW r \in Manual,
         \/ \E status \in {"PASS", "FAIL"} : ChangeStepStatus(r, status)
         \/ UndoStepStatusChange(r)
         \/ AddFailureInstance(r) \/ RemoveFailureInstance(r)
  PROVE  Inv'
<1> DEFINE req == assessment.reqs[r]
<1>1. req \in Result
  BY Results, Constants
<1>2. req.failures \in 0..MaxNoted /\ MaxNoted \in Nat
  BY <1>1, Constants DEF Result
<1>3. /\ req.status \in Status
      /\ \A n \in 0..MaxNoted : [req EXCEPT !.failures = n]
                                  = [req EXCEPT !.status = req.status, !.failures = n]
  BY <1>1 DEF Result
<1>4. ASSUME NEW status \in {"PASS", "FAIL"}, ChangeStepStatus(r, status) PROVE Inv'
  BY <1>4, WithStatusKeepsInv DEF ChangeStepStatus, Status
<1>5. ASSUME UndoStepStatusChange(r) PROVE Inv'
  BY <1>5, WithStatusKeepsInv DEF UndoStepStatusChange, Status
<1>6. ASSUME NEW n \in 0..MaxNoted, Handle, KeepTarget,
             Change(r, WithManualResult([req EXCEPT !.failures = n]))
      PROVE  Inv'
  BY <1>3, <1>6, DecidedKeepsInv
<1>7. ASSUME AddFailureInstance(r) PROVE Inv'
  <2>1. req.failures + 1 \in 0..MaxNoted
    <3>1. req.failures < MaxNoted
      BY <1>7 DEF AddFailureInstance
    <3> HIDE DEF req
    <3> QED BY <1>2, <3>1
  <2>2. Change(r, WithManualResult([req EXCEPT !.failures = req.failures + 1]))
    BY <1>1, <1>7 DEF AddFailureInstance, Result
  <2> QED BY <1>6, <1>7, <2>1, <2>2 DEF AddFailureInstance
<1>8. ASSUME RemoveFailureInstance(r) PROVE Inv'
  <2>1. req.failures - 1 \in 0..MaxNoted
    <3>1. req.failures > 0
      BY <1>8 DEF RemoveFailureInstance
    <3> HIDE DEF req
    <3> QED BY <1>2, <3>1
  <2>2. Change(r, WithManualResult([req EXCEPT !.failures = req.failures - 1]))
    BY <1>1, <1>8 DEF RemoveFailureInstance, Result
  <2> QED BY <1>6, <1>8, <2>1, <2>2 DEF RemoveFailureInstance
<1> QED BY <1>4, <1>5, <1>7, <1>8

LEMMA EmitUnchangedKeepsInv ==
  ASSUME Inv, EmitUnchanged
  PROVE  Inv'
BY HandlerKeepsInv DEF EmitUnchanged, Inv, KeptConsistent

LEMMA ResetDataKeepsInv ==
  ASSUME Inv, NEW R, ResetData(R)
  PROVE  Inv'
BY HandlerKeepsInv, ResetConsistent DEF ResetData, Inv, KeptConsistent

\* Until the tab is found the copy is behind, and a lookup is under way.
LEMMA ReplaceByKeepsInv ==
  ASSUME Inv, NEW a, Consistent(a), ReplaceBy(a)
  PROVE  Inv'
<1>1. /\ assessment' = a /\ UNCHANGED <<writes, db, unsaved>>
      /\ lookups' = lookups + 1 /\ lookups < MaxLookups
  BY DEF ReplaceBy, Ready
<1>2. lookups' \in 0..MaxLookups /\ lookups' # 0
  BY <1>1, Constants DEF Inv
<1>3. EmittedResumes'
  BY <1>2 DEF EmittedResumes
<1> QED BY <1>1, <1>2, <1>3 DEF Inv, KeptConsistent

LEMMA TabFoundKeepsInv ==
  ASSUME Inv, TabFound
  PROVE  Inv'
<1> DEFINE a == [assessment EXCEPT !.target = TRUE]
<1>1. /\ lookups \in 0..MaxLookups /\ lookups > 0 /\ lookups' = lookups - 1
      /\ writes = <<>> /\ Emit(a) /\ db' = db
  BY DEF TabFound, Inv
<1>2. Consistent(assessment)
  BY DEF Inv, KeptConsistent
<1>3. a \in Assessed /\ a.reqs = assessment.reqs
  BY <1>2 DEF Consistent, Assessed
<1> HIDE DEF a
<1>4. Consistent(a)
  BY <1>2, <1>3 DEF Consistent
<1>5. lookups' \in 0..MaxLookups
  BY <1>1, Constants
<1> QED BY <1>1, <1>4, <1>5, EmitKeepsInv

LEMMA TabNotFoundKeepsInv ==
  ASSUME Inv, TabNotFound
  PROVE  Inv'
<1>1. /\ lookups \in 0..MaxLookups /\ lookups > 0 /\ lookups' = lookups - 1
      /\ unsaved' = TRUE /\ UNCHANGED <<assessment, writes, db>>
  BY DEF TabNotFound, Inv
<1>2. lookups' \in 0..MaxLookups
  BY <1>1, Constants
<1>3. EmittedResumes' /\ KeptConsistent'
  BY <1>1 DEF EmittedResumes, Inv, KeptConsistent
<1> QED BY <1>1, <1>2, <1>3 DEF Inv

LEMMA WriteLandsKeepsInv ==
  ASSUME Inv, WriteLands
  PROVE  Inv'
<1>1. PICK a : Consistent(a) /\ writes = <<a>>
  BY DEF WriteLands, Inv, KeptConsistent
<1>2. writes' = <<>> /\ db' = a /\ UNCHANGED <<assessment, lookups, unsaved>>
  BY <1>1 DEF WriteLands
<1>3. Emitted = a /\ Emitted' = a
  BY <1>1, <1>2 DEF Emitted
<1>4. EmittedResumes'
  BY <1>2, <1>3 DEF Inv, EmittedResumes
<1>5. KeptConsistent'
  BY <1>1, <1>2 DEF Inv, KeptConsistent
<1> QED BY <1>2, <1>4, <1>5 DEF Inv

LEMMA RestartKeepsInv ==
  ASSUME Inv, Restart
  PROVE  Inv'
<1>1. /\ assessment' = InitialState(db) /\ db' = db
      /\ lookups' = 0 /\ writes' = <<>> /\ unsaved' = FALSE
  BY DEF Restart
<1>2. /\ Consistent(db) /\ Consistent(InitialState(db))
      /\ InitialState(InitialState(db)) = InitialState(db)
  BY InitialStateFacts DEF Inv, KeptConsistent
<1>3. KeptConsistent'
  BY <1>1, <1>2 DEF KeptConsistent
<1>4. EmittedResumes'
  BY <1>1, <1>2 DEF EmittedResumes, Emitted
<1>5. lookups' \in 0..MaxLookups
  BY <1>1, Constants
<1> QED BY <1>1, <1>3, <1>4, <1>5 DEF Inv

THEOREM StepKeepsInv == Inv /\ [Next]_vars => Inv'
<1> SUFFICES ASSUME Inv, [Next]_vars PROVE Inv'
  OBVIOUS
<1>1. ASSUME NEW r \in Requirement, NEW results \in [Instance -> Outcome[r] \cup {None}],
             ScanCompleted(r, results)
      PROVE  Inv'
  BY <1>1, ScanCompletedKeepsInv
<1>2. ASSUME NEW r \in Tracked, NEW results \in [Instance -> {"UNKNOWN", None}],
             ScanUpdate(r, results)
      PROVE  Inv'
  BY <1>2, ScanUpdateKeepsInv
<1>3. ASSUME NEW r \in Tracked, TrackingCompleted(r) PROVE Inv'
  BY <1>3, TrackingCompletedKeepsInv
<1>4. ASSUME NEW r \in Assisted, NEW i \in Instance, NEW status \in {"PASS", "FAIL"},
             ChangeInstanceStatus(r, i, status)
      PROVE  Inv'
  BY <1>4, ChangeInstanceStatusKeepsInv
<1>5. ASSUME NEW r \in Assisted, NEW i \in Instance, UndoInstanceStatusChange(r, i)
      PROVE  Inv'
  BY <1>5, UndoInstanceStatusChangeKeepsInv
<1>6. ASSUME NEW r \in Assisted, PassUnmarkedInstances(r) PROVE Inv'
  BY <1>6, PassUnmarkedInstancesKeepsInv
<1>7. ASSUME NEW r \in Manual,
             \/ \E status \in {"PASS", "FAIL"} : ChangeStepStatus(r, status)
             \/ UndoStepStatusChange(r)
             \/ AddFailureInstance(r) \/ RemoveFailureInstance(r)
      PROVE  Inv'
  BY <1>7, ManualKeepsInv
<1>8. ASSUME NEW R, ResetData(R) PROVE Inv'
  BY <1>8, ResetDataKeepsInv
<1>9. ASSUME EmitUnchanged PROVE Inv'
  BY <1>9, EmitUnchangedKeepsInv
<1>10. ASSUME \/ ResetAllAssessmentsData \/ ContinuePreviousAssessment
              \/ \E file \in File : LoadAssessment(file)
       PROVE  Inv'
  <2>1. \A file \in File : Consistent(InitialState(file))
    BY FileAssumption, InitialStateFacts
  <2>2. Consistent(assessment)
    BY DEF Inv, KeptConsistent
  <2> QED BY <1>10, <2>1, <2>2, DefaultAssessmentConsistent, ReplaceByKeepsInv
       DEF ResetAllAssessmentsData, ContinuePreviousAssessment, LoadAssessment
<1>11. ASSUME TabFound PROVE Inv'
  BY <1>11, TabFoundKeepsInv
<1>12. ASSUME TabNotFound PROVE Inv'
  BY <1>12, TabNotFoundKeepsInv
<1>13. ASSUME WriteLands PROVE Inv'
  BY <1>13, WriteLandsKeepsInv
<1>14. ASSUME Restart PROVE Inv'
  BY <1>14, RestartKeepsInv
<1>15. ASSUME Show \/ UNCHANGED vars PROVE Inv'
  <2>1. UNCHANGED <<assessment, lookups, writes, db, unsaved>>
    BY <1>15 DEF Show, vars
  <2> QED BY <2>1 DEF Inv, KeptConsistent, EmittedResumes, Emitted
<1> QED
  BY <1>1, <1>2, <1>3, <1>4, <1>5, <1>6, <1>7, <1>8, <1>9, <1>10, <1>11, <1>12, <1>13, <1>14,
     <1>15 DEF Next

THEOREM Invariance == Spec => []Inv
<1>1. Init => Inv
  BY InitEstablishesInv
<1>2. Inv /\ [Next]_vars => Inv'
  BY StepKeepsInv
<1> QED BY <1>1, <1>2, PTL DEF Spec

-----------------------------------------------------------------------------
(* The properties.                                                          *)

\* What the file assumption says of a saved assessment is what every state of the
\* store satisfies, so that saving and loading never leads anywhere else.
THEOREM StoreIsConsistent == Spec => []Consistent(assessment)
<1>1. Inv => Consistent(assessment)
  BY DEF Inv, KeptConsistent
<1> QED BY <1>1, Invariance, PTL

\* The state is well formed, for any requirements, elements and saved files.
THEOREM Types == Spec => []TypeOK
<1>1. ASSUME Inv PROVE TypeOK
  <2>1. {assessment, db} \cup {writes[k] : k \in DOMAIN writes} \subseteq Assessed
    <3>1. assessment \in Assessed /\ db \in Assessed
      BY <1>1 DEF Inv, KeptConsistent, Consistent
    <3>2. {writes[k] : k \in DOMAIN writes} \subseteq Assessed
      BY <1>1 DEF Inv, KeptConsistent, Consistent
    <3> QED BY <3>1, <3>2
  <2>2. \A r \in Requirement :
               /\ r \notin Manual => assessment.reqs[r].status = "UNKNOWN"
               /\ \A i \in Present(assessment.reqs[r]) :
                    LET x == assessment.reqs[r].instances[i]
                    IN x.found \in Outcome[r] \cup {"UNKNOWN", None} /\ (Judged(x) => r \in Assisted)
    BY <1>1, Results DEF ConsistentResult, ConsistentInstance
  <2>3. Len(writes) <= 1
    <3>1. writes = <<>> \/ \E a : writes = <<a>>
      BY <1>1 DEF Inv, KeptConsistent
    <3> QED BY <3>1
  <2>4. lookups \in 0..MaxLookups /\ unsaved \in BOOLEAN
    BY <1>1 DEF Inv
  <2> QED BY ONLY <2>1, <2>2, <2>3, <2>4, Zenon DEF TypeOK
<1> QED BY <1>1, Invariance, PTL

\* Judging an instance however often, and scanning in between, never loses the
\* status the last scan gave it.
THEOREM JudgementsAreUndone == Spec => []JudgementCanBeUndone
<1>1. Inv => JudgementCanBeUndone
  BY Results DEF JudgementCanBeUndone, ConsistentResult, ConsistentInstance
<1> QED BY <1>1, Invariance, PTL

\* A background page that ends once everything is written goes on where it was.
THEOREM RestartsResume == Spec => []RestartResumes
<1>1. Inv => RestartResumes
  BY DEF Inv, EmittedResumes, Emitted, RestartResumes
<1> QED BY <1>1, Invariance, PTL

\* The final result of a requirement agrees with the statuses it is made of, whatever
\* the order of scans, judgements, resets and restarts.
THEOREM FinalResultsAgree == Spec => []FinalResultAgrees
<1>1. ASSUME Inv PROVE FinalResultAgrees
  <2> SUFFICES ASSUME NEW r \in Requirement, NEW req, req = assessment.reqs[r]
               PROVE  IF r \in Manual
                      THEN req.final = IF req.status = "FAIL" /\ req.failures = 0
                                       THEN "UNKNOWN" ELSE req.status
                      ELSE /\ req.final = "PASS" =>
                                /\ req.scanned
                                /\ \A i \in Present(req) :
                                     \/ req.instances[i].status = "PASS"
                                     \/ req.instances[i].found = None
                           /\ req.final = "FAIL" =>
                                \E i \in Present(req) : req.instances[i].status = "FAIL"
                           /\ req.final = "UNKNOWN" =>
                                \/ ~req.scanned
                                \/ \E i \in Present(req) : req.instances[i].status = "UNKNOWN"
                           /\ req.final = "NaN" =>
                                \E i \in Present(req) : req.instances[i].found = None
    BY DEF FinalResultAgrees
  <2>1. req \in Result /\ ConsistentResult(req, r)
    BY <1>1, Results
  <2>2. CASE r \in Manual
    <3>1. req = WithManualResult(req)
      BY <2>1, <2>2 DEF ConsistentResult
    <3>2. req.final = WithManualResult(req).final
      BY <3>1
    <3> QED BY <2>1, <2>2, <3>2 DEF WithManualResult, Result
  <2>3. CASE r \notin Manual /\ ~req.scanned
    BY <2>1, <2>3 DEF ConsistentResult
  <2>4. CASE r \notin Manual /\ req.scanned
    <3>1. req.final = GroupResult(req)
      <4>1. req = WithGroupResult(req)
        BY <2>1, <2>4 DEF ConsistentResult
      <4>2. req.final = WithGroupResult(req).final
        BY <4>1
      <4> QED BY <2>1, <4>2 DEF WithGroupResult, Result
    <3>2. ASSUME NEW i \in Present(req)
          PROVE  \/ req.instances[i].found = None
                 \/ /\ req.instances[i].status \in Status
                    /\ req.instances[i].status = "UNKNOWN" => Unmarked(req.instances[i])
      <4>1. req.instances[i] \in InstanceResult /\ ConsistentInstance(req.instances[i], r)
        BY <2>1, <3>2 DEF Result, Present, ConsistentResult
      <4> QED BY <4>1, Constants DEF InstanceResult, ConsistentInstance, Judged, Unmarked, Status
    <3> QED BY <2>4, <3>1, <3>2 DEF GroupResult, Unmarked, Status
  <2> QED BY <2>2, <2>3, <2>4
<1> QED BY <1>1, Invariance, PTL
=============================================================================
