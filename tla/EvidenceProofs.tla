-------------------------- MODULE EvidenceProofs ---------------------------
(* Theorems of Evidence for every number of nodes, placements, qualification  *)
(* runs, benchmarks and faults.                                              *)
EXTENDS Evidence, FiniteSetTheorems, TLAPS

----------------------------------------------------------------------------
(* The inductive invariant *)

TaskStatus == {"NONE", "QUEUED", "RUNNING", "EXPIRED", "SUCCEEDED", "FAILED", "CANCELED"}
TypeInv ==
  /\ TypeOK
  /\ task \in [Benchmark -> TaskStatus]
  /\ lastTry \in [Manual -> [ok : BOOLEAN, found : Inventory]]

(* What the profile of placement p says of its primary runs.                    *)
Primary(q, p, st) ==
  qrun[q].status = st /\ qrun[q].request.placement = p /\ qrun[q].request.purpose = "PRIMARY"
ProfileInv(p) ==
  /\ \A q, r \in Qualification :
       Primary(q, p, "QUALIFYING") /\ Primary(r, p, "QUALIFYING") => q = r
  /\ \A q \in Qualification : Primary(q, p, "QUALIFYING") => profile[p] = "QUALIFYING"
  /\ profile[p] = "QUALIFYING" => \E q \in Qualification : Primary(q, p, "QUALIFYING")
  /\ \A q \in Qualification :
       Primary(q, p, "PASSED") => profile[p] \in {"VALIDATED", "ACTIVE"} /\ qualified[p] = q
  /\ profile[p] \in {"VALIDATED", "ACTIVE"} =>
       qualified[p] \in Qualification /\ Primary(qualified[p], p, "PASSED")

(* NodesUsedOnce, with its counts as uniqueness.                                *)
Apart ==
  \A q, r \in Qualification : q # r /\ Qualifying(q) /\ Qualifying(r) =>
    \A m \in qrun[q].request.nodes, n \in qrun[r].request.nodes : m # n /\ GpuOf[m] # GpuOf[n]
Alone ==
  \A n \in Node :
    /\ ~(InQualification(n) /\ InBenchmark(n))
    /\ <<n, "WORK">> \in visitors => ~InQualification(n) /\ ~InBenchmark(n)
OneBenchmark ==
  \A b, c \in Benchmark : Live(b) /\ Live(c) /\ NodeOf(b) = NodeOf(c) => b = c
OneContainer ==
  \A b, c \in Benchmark :
    container[b] # "NONE" /\ container[c] # "NONE" /\ NodeOf(b) = NodeOf(c) => b = c

(* PASSED evidence with no failure after it is what the last attempt showed.    *)
TryInv ==
  \A p \in Manual :
    evidence[p].status = "PASSED" /\ (\A b \in failedLater : Of[b] # p) =>
      lastTry[p].ok /\ lastTry[p].found = evidence[p].found

EvidenceInv ==
  /\ TypeInv
  /\ \A b \in Benchmark : RunAgreesWithTask(b)
  /\ \A p \in Generated : ProfileInv(p)
  /\ Apart /\ Alone /\ OneBenchmark /\ OneContainer
  /\ TryInv

----------------------------------------------------------------------------
(* The shapes of the rows *)

LEMMA RequestShape ==
  ASSUME NEW r \in Request
  PROVE  r.placement \in Generated /\ r.nodes \subseteq Node /\ r.purpose \in {"PRIMARY", "SUPPLEMENTARY"}
<1>1. r \in [placement : Generated, nodes : (SUBSET Node) \ {{}}, purpose : {"PRIMARY", "SUPPLEMENTARY"}]
  BY EvidenceAssumption
<1> QED
  BY <1>1

LEMMA RunShape ==
  ASSUME TypeInv, NEW q \in Qualification
  PROVE  /\ qrun[q] \in QualificationRuns
         /\ qrun[q].status \in {"NONE", "QUALIFYING", "PASSED", "FAILED", "CANCELED"}
         /\ qrun[q].status # "NONE" =>
              /\ qrun[q].request \in Request
              /\ qrun[q] \in [status : {"QUALIFYING", "PASSED", "FAILED", "CANCELED"},
                              request : {qrun[q].request},
                              found : [qrun[q].request.nodes -> Inventory]]
<1>1. qrun[q] \in QualificationRuns
  BY DEF TypeInv, TypeOK
<1>2. CASE qrun[q] = NoQualification
  BY <1>1, <1>2 DEF NoQualification
<1>3. ASSUME NEW r \in Request,
             qrun[q] \in [status : {"QUALIFYING", "PASSED", "FAILED", "CANCELED"}, request : {r},
                          found : [r.nodes -> Inventory]]
      PROVE  /\ qrun[q].status \in {"QUALIFYING", "PASSED", "FAILED", "CANCELED"}
             /\ qrun[q].request = r
  BY <1>3
<1> QED
  BY <1>1, <1>2, <1>3 DEF QualificationRuns

LEMMA BenchShape ==
  ASSUME TypeInv
  PROVE  /\ brun \in [Benchmark -> BenchmarkRuns] /\ evidence \in [Manual -> BenchmarkEvidences]
         /\ task \in [Benchmark -> TaskStatus] /\ failedLater \subseteq Benchmark
         /\ lastTry \in [Manual -> [ok : BOOLEAN, found : Inventory]]
         /\ \A b \in Benchmark : brun[b].found \in Inventory
         /\ inv \in [Node -> Inventory]
         /\ \A b \in Benchmark : Of[b] \in Manual /\ NodeOf(b) \in Node
         /\ faults \in 0 .. MaxFaults
BY EvidenceAssumption DEF TypeInv, TypeOK, BenchmarkRuns, NodeOf

LEMMA QualShape ==
  ASSUME TypeInv
  PROVE  /\ release \in ReleaseStatus /\ profile \in [Placement -> ProfileStatus]
         /\ qualified \in [Generated -> Qualifications] /\ qrun \in [Qualification -> QualificationRuns]
         /\ Generated \subseteq Placement /\ Manual \subseteq Placement
<1>1. Generated \subseteq Placement /\ Manual \subseteq Placement
  BY DEF Placement
<1>2. /\ release \in ReleaseStatus /\ profile \in [Placement -> ProfileStatus]
      /\ qualified \in [Generated -> Qualifications] /\ qrun \in [Qualification -> QualificationRuns]
  BY DEF TypeInv, TypeOK
<1> QED
  BY <1>1, <1>2

LEMMA AgentShape ==
  ASSUME TypeInv
  PROVE  /\ doing \in [Node -> [run : Benchmark, step : {"CLAIMED", "ATTACHED"}] \cup {None}]
         /\ result \in [Benchmark -> Results \cup {"NONE"}]
         /\ container \in [Benchmark -> {"NONE", "RUNNING", "OLD"}]
         /\ host \in [Node -> {"UP", "DOWN", "REVOKED"}] /\ visitors \subseteq Visits
         /\ MaxFaults \in Nat
BY EvidenceAssumption DEF TypeInv, TypeOK

LEMMA BoundedFaults ==
  ASSUME TypeInv, NEW good \in BOOLEAN, Bounded(good)
  PROVE  faults' \in 0 .. MaxFaults
BY BenchShape, AgentShape DEF Bounded

LEMMA FoundShape ==
  ASSUME TypeInv, NEW r \in Request
  PROVE  Found(r.nodes) \in [r.nodes -> Inventory]
BY BenchShape, RequestShape DEF Found

----------------------------------------------------------------------------
(* The kinds of step, and what each leaves alone *)

ControlAct ==
  \/ GenerateProfiles \/ \E p \in Manual : AddManual(p)
  \/ \E st \in {"VALIDATED", "DEPRECATED", "REVOKED"} : Transition(st)
  \/ Promote
  \/ \E q \in Qualification :
       \/ \E r \in Request : PrepareQualification(q, r)
       \/ \E st \in Outcomes : RegisterQualification(q, st)
       \/ CancelQualification(q)
  \/ \E p \in Generated : ActivateProfile(p)
BenchAct ==
  \/ \E b \in Benchmark :
       \/ PrepareBenchmark(b) \/ ApplyBenchmark(b) \/ CancelBenchmark(b)
       \/ Claim(b) \/ LeaseExpires(b) \/ Report(b)
  \/ \E p \in Manual, st \in Outcomes : RegisterByHand(p, st)
AgentAct ==
  \/ \E b \in Benchmark :
       Defer(b) \/ Start(b) \/ Refuse(b) \/ Measure(b) \/ ContainerEnds(b) \/ CleanUp(b)
  \/ \E n \in Node : Crash(n)
WorldAct ==
  \/ \E v \in Visits : Visit(v) \/ Leave(v)
  \/ \E n \in Node :
       \/ \E st \in {"UP", "DOWN", "REVOKED"} : SetHost(n, st)
       \/ \E i \in Inventory : SetInventory(n, i)

LEMMA NextKinds == Next => ControlAct \/ BenchAct \/ AgentAct \/ WorldAct
BY DEF Next, Operator, Agents, World, ControlAct, BenchAct, AgentAct, WorldAct

LEMMA ControlFrame ==
  ASSUME ControlAct
  PROVE  UNCHANGED <<brun, task, evidence, failedLater, lastTry, doing, result, container, host,
                     inv, visitors>>
BY DEF ControlAct, GenerateProfiles, AddManual, AddProfiles, Transition, Promote,
   PrepareQualification, RegisterQualification, CancelQualification, ActivateProfile,
   benchVars, agentVars, nodeVars

LEMMA BenchFrame ==
  ASSUME BenchAct
  PROVE  UNCHANGED <<release, profile, qualified, qrun, container, host, inv, visitors>>
BY DEF BenchAct, PrepareBenchmark, ApplyBenchmark, CancelBenchmark, Claim, LeaseExpires, Report,
   RegisterByHand, qualVars, agentVars, nodeVars

LEMMA AgentFrame ==
  ASSUME AgentAct
  PROVE  UNCHANGED <<release, profile, qualified, qrun, brun, task, evidence, failedLater, lastTry,
                     host, inv, visitors>>
BY DEF AgentAct, Defer, Start, Refuse, Measure, ContainerEnds, CleanUp, Crash, qualVars, benchVars,
   nodeVars

LEMMA WorldFrame ==
  ASSUME WorldAct
  PROVE  UNCHANGED <<release, profile, qualified, qrun, brun, task, evidence, failedLater, lastTry,
                     doing, result, container>>
BY DEF WorldAct, Visit, Leave, SetHost, SetInventory, qualVars, benchVars, agentVars

(* Each part of the invariant is about a few of the variables.                  *)
LEMMA Frames ==
  ASSUME EvidenceInv
  PROVE  /\ UNCHANGED <<brun, task, evidence>> => \A b \in Benchmark : RunAgreesWithTask(b)'
         /\ UNCHANGED <<profile, qualified, qrun>> => \A p \in Generated : ProfileInv(p)'
         /\ UNCHANGED qrun => Apart'
         /\ UNCHANGED <<qrun, task, visitors>> => Alone'
         /\ UNCHANGED task => OneBenchmark'
         /\ UNCHANGED container => OneContainer'
         /\ UNCHANGED <<evidence, failedLater, lastTry>> => TryInv'
<1>1. UNCHANGED <<brun, task, evidence>> => \A b \in Benchmark : RunAgreesWithTask(b)'
  BY DEF EvidenceInv, RunAgreesWithTask, Live
<1>2. UNCHANGED <<profile, qualified, qrun>> => \A p \in Generated : ProfileInv(p)'
  BY DEF EvidenceInv, ProfileInv, Primary
<1>3. UNCHANGED qrun => Apart'
  BY DEF EvidenceInv, Apart, Qualifying
<1>4. UNCHANGED <<qrun, task, visitors>> => Alone'
  BY DEF EvidenceInv, Alone, InQualification, InBenchmark, Qualifying, Live, NodeOf
<1>5. UNCHANGED task => OneBenchmark'
  BY DEF EvidenceInv, OneBenchmark, Live, NodeOf
<1>6. UNCHANGED container => OneContainer'
  BY DEF EvidenceInv, OneContainer, NodeOf
<1>7. UNCHANGED <<evidence, failedLater, lastTry>> => TryInv'
  BY DEF EvidenceInv, TryInv
<1> QED
  BY <1>1, <1>2, <1>3, <1>4, <1>5, <1>6, <1>7

(* The types, of the current rows or of the next ones.                           *)
QualTyped(rl, pf, ql, qr) ==
  /\ rl \in ReleaseStatus /\ pf \in [Placement -> ProfileStatus]
  /\ ql \in [Generated -> Qualifications] /\ qr \in [Qualification -> QualificationRuns]
BenchTyped(br, ev, tk, fl, lt) ==
  /\ br \in [Benchmark -> BenchmarkRuns] /\ ev \in [Manual -> BenchmarkEvidences]
  /\ tk \in [Benchmark -> TaskStatus] /\ fl \subseteq Benchmark
  /\ lt \in [Manual -> [ok : BOOLEAN, found : Inventory]]
AgentTyped(dg, rs, ct) ==
  /\ dg \in [Node -> [run : Benchmark, step : {"CLAIMED", "ATTACHED"}] \cup {None}]
  /\ rs \in [Benchmark -> Results \cup {"NONE"}]
  /\ ct \in [Benchmark -> {"NONE", "RUNNING", "OLD"}]
NodeTyped(hs, iv, vs, fs) ==
  /\ hs \in [Node -> {"UP", "DOWN", "REVOKED"}] /\ iv \in [Node -> Inventory]
  /\ vs \subseteq Visits /\ fs \in 0 .. MaxFaults

LEMMA TypesNow ==
  ASSUME TypeInv
  PROVE  /\ QualTyped(release, profile, qualified, qrun)
         /\ BenchTyped(brun, evidence, task, failedLater, lastTry)
         /\ AgentTyped(doing, result, container) /\ NodeTyped(host, inv, visitors, faults)
BY QualShape, BenchShape, AgentShape DEF QualTyped, BenchTyped, AgentTyped, NodeTyped

LEMMA TypesNext ==
  ASSUME QualTyped(release', profile', qualified', qrun'),
         BenchTyped(brun', evidence', task', failedLater', lastTry'),
         AgentTyped(doing', result', container'), NodeTyped(host', inv', visitors', faults')
  PROVE  TypeInv'
<1>1. \A b \in Benchmark : task'[b] \in TaskStatus
  BY DEF BenchTyped
<1> QED
  BY <1>1 DEF QualTyped, BenchTyped, AgentTyped, NodeTyped, TypeInv, TypeOK, TaskStatus,
     ReleaseStatus, Placement, ProfileStatus, Qualifications, QualificationRuns, NoQualification,
     BenchmarkRuns, BenchmarkEvidences, Results, Outcomes, Inventory

LEMMA StatusValues ==
  /\ {"VALIDATED", "ACTIVE", "DEPRECATED", "REVOKED"} \subseteq ReleaseStatus
  /\ {"DRAFT", "QUALIFYING", "VALIDATED", "ACTIVE"} \subseteq ProfileStatus
  /\ Qualification \subseteq Qualifications
BY DEF ReleaseStatus, ProfileStatus, Qualifications

----------------------------------------------------------------------------
(* Releases, profiles and qualifications *)

(* A profile that is created, or activated on the evidence of its run.          *)
LEMMA ProfileMoves ==
  ASSUME EvidenceInv, UNCHANGED <<qualified, qrun>>, NEW p \in Generated,
         \/ profile'[p] = profile[p]
         \/ profile[p] = "NONE" /\ profile'[p] = "DRAFT"
         \/ profile[p] = "VALIDATED" /\ profile'[p] = "ACTIVE"
  PROVE  ProfileInv(p)'
<1>1. ProfileInv(p)
  BY DEF EvidenceInv
<1>2. \A q \in Qualification : \A st : Primary(q, p, st)' <=> Primary(q, p, st)
  BY DEF Primary
<1> QED
  BY <1>1, <1>2 DEF ProfileInv

(* A run that opens or ends, seen from one placement.                            *)
RowOf(q, row) == qrun' = [qrun EXCEPT ![q] = row] /\ row \in QualificationRuns
LEMMA RunMoves ==
  ASSUME EvidenceInv, NEW q \in Qualification, NEW row, RowOf(q, row), NEW p \in Generated,
         \/ /\ ~Primary(q, p, "QUALIFYING") /\ ~Primary(q, p, "PASSED")
            /\ ~Primary(q, p, "QUALIFYING")' /\ ~Primary(q, p, "PASSED")'
            /\ profile'[p] = profile[p] /\ qualified'[p] = qualified[p]
         \/ /\ profile[p] = "DRAFT" /\ Primary(q, p, "QUALIFYING")'
            /\ profile'[p] = "QUALIFYING" /\ qualified'[p] = qualified[p]
         \/ /\ Primary(q, p, "QUALIFYING") /\ Primary(q, p, "PASSED")'
            /\ profile'[p] = "VALIDATED" /\ qualified'[p] = q
         \/ /\ Primary(q, p, "QUALIFYING")
            /\ ~Primary(q, p, "QUALIFYING")' /\ ~Primary(q, p, "PASSED")'
            /\ profile'[p] = "DRAFT" /\ qualified'[p] = qualified[p]
  PROVE  ProfileInv(p)'
<1>1. ProfileInv(p) /\ TypeInv
  BY DEF EvidenceInv
<1>2. \A x \in Qualification : \A st : x # q => (Primary(x, p, st)' <=> Primary(x, p, st))
  BY <1>1, QualShape DEF RowOf, Primary
<1>3. ~(Primary(q, p, "QUALIFYING")' /\ Primary(q, p, "PASSED")')
  BY DEF Primary
<1>4. ~(Primary(q, p, "QUALIFYING") /\ Primary(q, p, "PASSED"))
  BY DEF Primary
<1>5. CASE /\ ~Primary(q, p, "QUALIFYING") /\ ~Primary(q, p, "PASSED")
           /\ ~Primary(q, p, "QUALIFYING")' /\ ~Primary(q, p, "PASSED")'
           /\ profile'[p] = profile[p] /\ qualified'[p] = qualified[p]
  BY <1>1, <1>2, <1>5 DEF ProfileInv
<1>6. CASE /\ profile[p] = "DRAFT" /\ Primary(q, p, "QUALIFYING")'
           /\ profile'[p] = "QUALIFYING" /\ qualified'[p] = qualified[p]
  BY <1>1, <1>2, <1>3, <1>6 DEF ProfileInv
<1>7. CASE /\ Primary(q, p, "QUALIFYING") /\ Primary(q, p, "PASSED")'
           /\ profile'[p] = "VALIDATED" /\ qualified'[p] = q
  BY <1>1, <1>2, <1>3, <1>7 DEF ProfileInv
<1>8. CASE /\ Primary(q, p, "QUALIFYING")
           /\ ~Primary(q, p, "QUALIFYING")' /\ ~Primary(q, p, "PASSED")'
           /\ profile'[p] = "DRAFT" /\ qualified'[p] = qualified[p]
  BY <1>1, <1>2, <1>8 DEF ProfileInv
<1> QED
  BY <1>5, <1>6, <1>7, <1>8

(* Nobody new takes a node.                                                     *)
LEMMA NobodyEnters ==
  ASSUME EvidenceInv,
         \A q \in Qualification : Qualifying(q)' =>
           Qualifying(q) /\ qrun'[q].request = qrun[q].request,
         UNCHANGED <<task, visitors>>
  PROVE  Apart' /\ Alone'
<1>1. Apart'
  BY DEF EvidenceInv, Apart
<1>2. \A n \in Node : InQualification(n)' => InQualification(n)
  BY DEF InQualification
<1>3. \A n \in Node : InBenchmark(n)' <=> InBenchmark(n)
  BY DEF InBenchmark, Live, NodeOf
<1>4. Alone'
  BY <1>2, <1>3 DEF EvidenceInv, Alone
<1> QED
  BY <1>1, <1>4

(* What a ControlAct has to show.                                               *)
ControlKeeps ==
  /\ QualTyped(release', profile', qualified', qrun') /\ faults' \in 0 .. MaxFaults
  /\ \A p \in Generated : ProfileInv(p)'
  /\ Apart' /\ Alone'

LEMMA AddProfilesStep ==
  ASSUME EvidenceInv, NEW ps, NEW st \in {"DRAFT", "ACTIVE"}, AddProfiles(ps, st),
         st = "ACTIVE" => ps \cap Generated = {}
  PROVE  ControlKeeps
<1>1. /\ UNCHANGED <<release, qualified, qrun, task, visitors, faults>>
      /\ profile' = [p \in Placement |-> IF p \in ps /\ profile[p] = "NONE" THEN st ELSE profile[p]]
  BY DEF AddProfiles, benchVars, nodeVars
<1>2. TypeInv
  BY DEF EvidenceInv
<1>3. \A p \in Placement : profile'[p] \in ProfileStatus
  BY <1>1, <1>2, QualShape, StatusValues
<1>4. QualTyped(release', profile', qualified', qrun') /\ faults' \in 0 .. MaxFaults
  BY <1>1, <1>2, <1>3, QualShape, BenchShape DEF QualTyped
<1>5. ASSUME NEW p \in Generated
      PROVE  ProfileInv(p)'
  <2>1. p \in Placement
    BY <1>2, QualShape
  <2> QED
    BY <1>1, <2>1, ProfileMoves
<1> QED
  BY <1>1, <1>4, <1>5, Frames DEF ControlKeeps

LEMMA ReleaseStep ==
  ASSUME EvidenceInv,
         Promote \/ \E st \in {"VALIDATED", "DEPRECATED", "REVOKED"} : Transition(st)
  PROVE  ControlKeeps
<1>1. TypeInv
  BY DEF EvidenceInv
<1>2. UNCHANGED <<profile, qualified, qrun, task, visitors>>
  BY DEF Promote, Transition, qualVars, benchVars, nodeVars
<1>3. release' \in ReleaseStatus
  BY StatusValues DEF Promote, Transition
<1>4. faults' \in 0 .. MaxFaults
  <2>1. CASE Promote
    BY <1>1, <2>1, BenchShape DEF Promote, nodeVars
  <2>2. ASSUME NEW st \in {"VALIDATED", "DEPRECATED", "REVOKED"}, Transition(st)
        PROVE  faults' \in 0 .. MaxFaults
    <3>1. Bounded(st = "VALIDATED") /\ (st = "VALIDATED") \in BOOLEAN
      BY <2>2 DEF Transition
    <3> QED
      BY <1>1, <3>1, BoundedFaults
  <2> QED
    BY <2>1, <2>2
<1> QED
  BY <1>1, <1>2, <1>3, <1>4, QualShape, Frames DEF ControlKeeps, QualTyped

LEMMA ActivateProfileStep ==
  ASSUME EvidenceInv, NEW p \in Generated, ActivateProfile(p)
  PROVE  ControlKeeps
<1>1. /\ UNCHANGED <<release, qualified, qrun, task, visitors, faults>>
      /\ profile[p] = "VALIDATED" /\ profile' = [profile EXCEPT ![p] = "ACTIVE"]
  BY DEF ActivateProfile, benchVars, nodeVars
<1>2. TypeInv
  BY DEF EvidenceInv
<1>3. profile' \in [Placement -> ProfileStatus]
  BY <1>1, <1>2, QualShape, StatusValues
<1>4. QualTyped(release', profile', qualified', qrun') /\ faults' \in 0 .. MaxFaults
  BY <1>1, <1>2, <1>3, QualShape, BenchShape DEF QualTyped
<1>5. ASSUME NEW x \in Generated
      PROVE  ProfileInv(x)'
  <2>1. x \in Placement /\ p \in Placement
    BY <1>2, QualShape
  <2>2. profile'[x] = profile[x] \/ (profile[x] = "VALIDATED" /\ profile'[x] = "ACTIVE")
    BY <1>1, <1>2, <2>1, QualShape
  <2> QED
    BY <1>1, <2>2, ProfileMoves
<1> QED
  BY <1>1, <1>4, <1>5, Frames DEF ControlKeeps

(* The profiles after a run changed: only that of a primary run moves.           *)
LEMMA SetProfileShape ==
  ASSUME TypeInv, NEW r \in Request, NEW st \in {"QUALIFYING", "DRAFT", "VALIDATED"},
         profile' = SetProfile(r, st)
  PROVE  /\ profile' \in [Placement -> ProfileStatus]
         /\ r.purpose = "PRIMARY" => profile'[r.placement] = st
         /\ \A p \in Generated : ~(r.purpose = "PRIMARY" /\ r.placement = p) => profile'[p] = profile[p]
<1>1. r.placement \in Placement
  BY RequestShape, QualShape
<1>2. CASE r.purpose = "PRIMARY"
  <2>1. profile' = [profile EXCEPT ![r.placement] = st]
    BY <1>2 DEF SetProfile
  <2>2. /\ profile \in [Placement -> ProfileStatus] /\ Generated \subseteq Placement
        /\ st \in ProfileStatus
    BY QualShape, StatusValues
  <2> DEFINE x == r.placement
  <2>3. /\ profile' = [profile EXCEPT ![x] = st] /\ x \in Placement
    BY <1>1, <2>1
  <2> HIDE DEF x
  <2>4. /\ profile' \in [Placement -> ProfileStatus] /\ profile'[x] = st
        /\ \A p \in Generated : x # p => profile'[p] = profile[p]
    BY <2>2, <2>3
  <2> QED
    BY <1>2, <2>4 DEF x
<1>3. CASE r.purpose # "PRIMARY"
  BY <1>3, QualShape DEF SetProfile
<1> QED
  BY <1>2, <1>3

LEMMA RowShape ==
  ASSUME TypeInv, NEW q \in Qualification, NEW row, RowOf(q, row)
  PROVE  /\ qrun' \in [Qualification -> QualificationRuns] /\ qrun'[q] = row
         /\ \A x \in Qualification : x # q => qrun'[x] = qrun[x]
BY QualShape DEF RowOf

LEMMA PrepareStep ==
  ASSUME EvidenceInv, NEW q \in Qualification, NEW r \in Request, PrepareQualification(q, r)
  PROVE  ControlKeeps
<1> DEFINE row == [status |-> "QUALIFYING", request |-> r, found |-> Found(r.nodes)]
<1>1. TypeInv
  BY DEF EvidenceInv
<1>2. /\ qrun[q].status = "NONE" /\ Startable(r) /\ Eligible(r.nodes, q)
      /\ qrun' = [qrun EXCEPT ![q] = row] /\ profile' = SetProfile(r, "QUALIFYING")
      /\ UNCHANGED <<release, qualified, task, visitors, faults>>
  BY DEF PrepareQualification, benchVars, nodeVars
<1>3. row \in QualificationRuns
  BY <1>1, FoundShape DEF QualificationRuns
<1>4. row.status = "QUALIFYING" /\ row.request = r
  OBVIOUS
<1> HIDE DEF row
<1>5. RowOf(q, row)
  BY <1>2, <1>3 DEF RowOf
<1>6. /\ qrun' \in [Qualification -> QualificationRuns] /\ qrun'[q] = row
      /\ \A x \in Qualification : x # q => qrun'[x] = qrun[x]
  BY <1>1, <1>5, RowShape
<1>7. QualTyped(release', profile', qualified', qrun') /\ faults' \in 0 .. MaxFaults
  BY <1>1, <1>2, <1>6, SetProfileShape, QualShape, BenchShape DEF QualTyped
<1>8. ASSUME NEW p \in Generated
      PROVE  ProfileInv(p)'
  <2>1. ~Primary(q, p, "QUALIFYING") /\ ~Primary(q, p, "PASSED") /\ ~Primary(q, p, "PASSED")'
    BY <1>2, <1>4, <1>6 DEF Primary
  <2>2. Primary(q, p, "QUALIFYING")' <=> (r.placement = p /\ r.purpose = "PRIMARY")
    BY <1>4, <1>6 DEF Primary
  <2>3. CASE r.placement = p /\ r.purpose = "PRIMARY"
    <3>1. profile[p] = "DRAFT" /\ profile'[p] = "QUALIFYING" /\ qualified'[p] = qualified[p]
      BY <1>1, <1>2, <2>3, SetProfileShape DEF Startable
    <3> QED
      BY <1>5, <2>2, <2>3, <3>1, RunMoves
  <2>4. CASE ~(r.placement = p /\ r.purpose = "PRIMARY")
    <3>1. profile'[p] = profile[p] /\ qualified'[p] = qualified[p]
      BY <1>1, <1>2, <2>4, SetProfileShape
    <3> QED
      BY <1>5, <2>1, <2>2, <2>4, <3>1, RunMoves
  <2> QED
    BY <2>3, <2>4
<1>9. /\ \A n \in r.nodes : ~Occupied(n, q)
      /\ r.nodes \subseteq Node
  BY <1>2, RequestShape DEF Eligible
<1>10. Apart'
  <2>1. ASSUME NEW x \in Qualification, x # q, Qualifying(x),
               NEW m \in qrun[x].request.nodes, NEW n \in r.nodes
        PROVE  m # n /\ GpuOf[m] # GpuOf[n]
    BY <1>9, <2>1 DEF Occupied, SameGpu
  <2>2. \A x \in Qualification : x # q => (Qualifying(x)' <=> Qualifying(x))
    BY <1>6 DEF Qualifying
  <2>3. Apart
    BY DEF EvidenceInv
  <2> QED
    BY <1>4, <1>6, <2>1, <2>2, <2>3 DEF Apart
<1>11. Alone'
  <2>1. \A n \in Node : InBenchmark(n)' <=> InBenchmark(n)
    BY <1>2 DEF InBenchmark, Live, NodeOf
  <2>2. \A n \in Node : InQualification(n)' => InQualification(n) \/ n \in r.nodes
    BY <1>4, <1>6 DEF InQualification, Qualifying
  <2>3. ASSUME NEW n \in r.nodes
        PROVE  ~InBenchmark(n) /\ <<n, "WORK">> \notin visitors
    <3>1. ~Occupied(n, q)
      BY <1>9
    <3>2. ~InBenchmark(n) /\ ~\E v \in visitors : v[1] = n
      BY <3>1 DEF Occupied
    <3>3. <<n, "WORK">>[1] = n
      OBVIOUS
    <3> QED
      BY <3>2, <3>3
  <2>4. Alone
    BY DEF EvidenceInv
  <2> QED
    BY <1>2, <2>1, <2>2, <2>3, <2>4 DEF Alone
<1> QED
  BY <1>7, <1>8, <1>10, <1>11 DEF ControlKeeps

(* An open run ends, PASSED or not.                                              *)
LEMMA EndStep ==
  ASSUME EvidenceInv, NEW q \in Qualification, NEW st \in {"PASSED", "FAILED", "CANCELED"},
         Qualifying(q), Accepting(qrun[q].request),
         qrun' = [qrun EXCEPT ![q].status = st],
         profile' = SetProfile(qrun[q].request, ProfileAfter(st)),
         qualified' = (IF qrun[q].request.purpose = "PRIMARY" /\ st = "PASSED"
                       THEN [qualified EXCEPT ![qrun[q].request.placement] = q] ELSE qualified),
         UNCHANGED <<release, task, visitors>>, faults' \in 0 .. MaxFaults
  PROVE  ControlKeeps
<1> DEFINE r == qrun[q].request
           row == [qrun[q] EXCEPT !.status = st]
<1>1. TypeInv
  BY DEF EvidenceInv
<1>2. /\ r \in Request /\ qrun[q].status = "QUALIFYING"
      /\ qrun[q] \in [status : {"QUALIFYING", "PASSED", "FAILED", "CANCELED"}, request : {r},
                      found : [r.nodes -> Inventory]]
  BY <1>1, RunShape DEF Qualifying
<1>3. row \in QualificationRuns /\ row.status = st /\ row.request = r
  <2>1. row \in [status : {"QUALIFYING", "PASSED", "FAILED", "CANCELED"}, request : {r},
                 found : [r.nodes -> Inventory]]
    BY <1>2
  <2>2. row.status = st /\ row.request = r
    BY <1>2
  <2> QED
    BY <1>2, <2>1, <2>2 DEF QualificationRuns
<1>4. RowOf(q, row)
  <2>1. qrun' = [qrun EXCEPT ![q] = row]
    OBVIOUS
  <2> QED
    BY <1>3, <2>1 DEF RowOf
<1> HIDE DEF row
<1>5. /\ qrun' \in [Qualification -> QualificationRuns] /\ qrun'[q] = row
      /\ \A x \in Qualification : x # q => qrun'[x] = qrun[x]
  BY <1>1, <1>4, RowShape
<1>6. ProfileAfter(st) \in {"QUALIFYING", "DRAFT", "VALIDATED"}
  BY DEF ProfileAfter
<1>7. r.placement \in Generated /\ qualified' \in [Generated -> Qualifications]
  BY <1>1, <1>2, RequestShape, QualShape, StatusValues
<1>8. profile' \in [Placement -> ProfileStatus]
  BY <1>1, <1>2, <1>6, SetProfileShape
<1>9. QualTyped(release', profile', qualified', qrun')
  BY <1>1, <1>5, <1>7, <1>8, QualShape DEF QualTyped
<1>10. ASSUME NEW p \in Generated
       PROVE  ProfileInv(p)'
  <2>1. /\ ~Primary(q, p, "PASSED") /\ ~Primary(q, p, "QUALIFYING")'
        /\ Primary(q, p, "QUALIFYING") <=> (r.placement = p /\ r.purpose = "PRIMARY")
        /\ Primary(q, p, "PASSED")' <=> (st = "PASSED" /\ r.placement = p /\ r.purpose = "PRIMARY")
    BY <1>2, <1>3, <1>5 DEF Primary
  <2>2. CASE r.placement = p /\ r.purpose = "PRIMARY"
    <3>1. profile'[p] = ProfileAfter(st)
      BY <1>1, <1>2, <1>6, <2>2, SetProfileShape
    <3>2. CASE st = "PASSED"
      <4>1. profile'[p] = "VALIDATED" /\ qualified'[p] = q
        BY <1>1, <1>7, <2>2, <3>1, <3>2, QualShape DEF ProfileAfter
      <4> QED
        BY <1>4, <2>1, <2>2, <3>2, <4>1, RunMoves
    <3>3. CASE st # "PASSED"
      <4>1. profile'[p] = "DRAFT" /\ qualified'[p] = qualified[p]
        BY <3>1, <3>3 DEF ProfileAfter
      <4> QED
        BY <1>4, <2>1, <2>2, <3>3, <4>1, RunMoves
    <3> QED
      BY <3>2, <3>3
  <2>3. CASE ~(r.placement = p /\ r.purpose = "PRIMARY")
    <3>1. profile'[p] = profile[p] /\ qualified'[p] = qualified[p]
      BY <1>1, <1>2, <1>6, <1>7, <2>3, SetProfileShape, QualShape
    <3> QED
      BY <1>4, <2>1, <2>3, <3>1, RunMoves
  <2> QED
    BY <2>2, <2>3
<1>11. Apart' /\ Alone'
  <2>1. \A x \in Qualification : Qualifying(x)' =>
          Qualifying(x) /\ qrun'[x].request = qrun[x].request
    BY <1>3, <1>5 DEF Qualifying
  <2> QED
    BY <2>1, NobodyEnters
<1> QED
  BY <1>9, <1>10, <1>11 DEF ControlKeeps

LEMMA RegisterStep ==
  ASSUME EvidenceInv, NEW q \in Qualification, NEW st \in Outcomes, RegisterQualification(q, st)
  PROVE  ControlKeeps
<1>1. Bounded(st = "PASSED") /\ (st = "PASSED") \in BOOLEAN /\ TypeInv
  BY DEF RegisterQualification, EvidenceInv
<1>2. faults' \in 0 .. MaxFaults
  BY <1>1, BoundedFaults
<1>3. st \in {"PASSED", "FAILED", "CANCELED"}
  BY DEF Outcomes
<1>4. /\ Qualifying(q) /\ Accepting(qrun[q].request)
      /\ qrun' = [qrun EXCEPT ![q].status = st]
      /\ profile' = SetProfile(qrun[q].request, ProfileAfter(st))
      /\ qualified' = (IF qrun[q].request.purpose = "PRIMARY" /\ st = "PASSED"
                       THEN [qualified EXCEPT ![qrun[q].request.placement] = q] ELSE qualified)
      /\ UNCHANGED <<release, task, visitors>>
  BY DEF RegisterQualification, benchVars
<1> QED
  BY <1>2, <1>3, <1>4, EndStep

LEMMA CancelStep ==
  ASSUME EvidenceInv, NEW q \in Qualification, CancelQualification(q)
  PROVE  ControlKeeps
<1>1. Bounded(FALSE) /\ TypeInv
  BY DEF CancelQualification, EvidenceInv
<1>2. faults' \in 0 .. MaxFaults
  BY <1>1, BoundedFaults
<1>3. /\ Qualifying(q) /\ Accepting(qrun[q].request)
      /\ qrun' = [qrun EXCEPT ![q].status = "CANCELED"]
      /\ profile' = SetProfile(qrun[q].request, "DRAFT")
      /\ qualified' = qualified
      /\ UNCHANGED <<release, task, visitors>>
  BY DEF CancelQualification, benchVars
<1>4. ProfileAfter("CANCELED") = "DRAFT"
  BY DEF ProfileAfter
<1> QED
  BY <1>2, <1>3, <1>4, EndStep

LEMMA ControlStep == ASSUME EvidenceInv, ControlAct PROVE ControlKeeps
<1>1. CASE GenerateProfiles
  BY <1>1, AddProfilesStep DEF GenerateProfiles
<1>2. ASSUME NEW p \in Manual, AddManual(p)
      PROVE  ControlKeeps
  <2>1. {p} \cap Generated = {}
    BY EvidenceAssumption
  <2> QED
    BY <1>2, <2>1, AddProfilesStep DEF AddManual
<1>3. CASE Promote \/ \E st \in {"VALIDATED", "DEPRECATED", "REVOKED"} : Transition(st)
  BY <1>3, ReleaseStep
<1>4. CASE \E q \in Qualification : \E r \in Request : PrepareQualification(q, r)
  BY <1>4, PrepareStep
<1>5. CASE \E q \in Qualification : \E st \in Outcomes : RegisterQualification(q, st)
  BY <1>5, RegisterStep
<1>6. CASE \E q \in Qualification : CancelQualification(q)
  BY <1>6, CancelStep
<1>7. CASE \E p \in Generated : ActivateProfile(p)
  BY <1>7, ActivateProfileStep
<1> QED
  BY <1>1, <1>2, <1>3, <1>4, <1>5, <1>6, <1>7 DEF ControlAct

----------------------------------------------------------------------------
(* Benchmark runs *)

(* What a BenchAct has to show.                                                 *)
BenchKeeps ==
  /\ BenchTyped(brun', evidence', task', failedLater', lastTry')
  /\ AgentTyped(doing', result', container') /\ faults' \in 0 .. MaxFaults
  /\ \A b \in Benchmark : RunAgreesWithTask(b)'
  /\ Alone' /\ OneBenchmark' /\ TryInv'

(* No benchmark goes live.                                                      *)
LEMMA NobodyStarts ==
  ASSUME EvidenceInv, \A b \in Benchmark : Live(b)' => Live(b), UNCHANGED <<qrun, visitors>>
  PROVE  Alone' /\ OneBenchmark'
<1>1. \A n \in Node : InQualification(n)' <=> InQualification(n)
  BY DEF InQualification, Qualifying
<1>2. \A b : NodeOf(b)' = NodeOf(b)
  BY DEF NodeOf
<1>3. \A n \in Node : InBenchmark(n)' => InBenchmark(n)
  BY <1>2 DEF InBenchmark
<1>4. Alone'
  BY <1>1, <1>3 DEF EvidenceInv, Alone
<1>5. OneBenchmark'
  BY <1>2 DEF EvidenceInv, OneBenchmark
<1> QED
  BY <1>4, <1>5

(* A run and its task move together.                                            *)
Agree(s, t) ==
  /\ s \in {"NONE", "PREPARED", "QUEUED", "SUCCEEDED", "FAILED"} /\ t \in TaskStatus
  /\ s = "QUEUED" <=> t \in {"QUEUED", "RUNNING", "EXPIRED"}
  /\ s = "SUCCEEDED" <=> t = "SUCCEEDED"
  /\ s = "FAILED" <=> t \in {"FAILED", "CANCELED"}
LEMMA AgreeNow ==
  ASSUME EvidenceInv, NEW b \in Benchmark
  PROVE  Agree(brun[b].status, task[b])
<1>1. TypeInv /\ RunAgreesWithTask(b)
  BY DEF EvidenceInv
<1>2. brun[b] \in BenchmarkRuns /\ task[b] \in TaskStatus
  BY <1>1, BenchShape
<1>3. brun[b].status \in {"NONE", "PREPARED", "QUEUED", "SUCCEEDED", "FAILED"}
  BY <1>2 DEF BenchmarkRuns
<1> QED
  BY <1>1, <1>2, <1>3 DEF Agree, RunAgreesWithTask, Live

LEMMA RunMoves2 ==
  ASSUME EvidenceInv, NEW b \in Benchmark, NEW row \in BenchmarkRuns, NEW t,
         brun' = [brun EXCEPT ![b] = row], task' = [task EXCEPT ![b] = t],
         Agree(row.status, t),
         \A p \in Manual : evidence[p].status # "NONE" => evidence'[p].status # "NONE",
         row.status = "SUCCEEDED" => evidence'[Of[b]].status # "NONE"
  PROVE  /\ \A x \in Benchmark : RunAgreesWithTask(x)'
         /\ brun' \in [Benchmark -> BenchmarkRuns] /\ task' \in [Benchmark -> TaskStatus]
         /\ \A x \in Benchmark : x # b => (Live(x)' <=> Live(x))
         /\ Live(b)' <=> t \in {"QUEUED", "RUNNING", "EXPIRED"}
<1>1. TypeInv
  BY DEF EvidenceInv
<1>2. t \in TaskStatus
  BY DEF Agree
<1>3. /\ brun' \in [Benchmark -> BenchmarkRuns] /\ task' \in [Benchmark -> TaskStatus]
      /\ brun'[b] = row /\ task'[b] = t
      /\ \A x \in Benchmark : x # b => brun'[x] = brun[x] /\ task'[x] = task[x]
  BY <1>1, <1>2, BenchShape
<1>4. \A x \in Benchmark : x # b => (Live(x)' <=> Live(x))
  BY <1>3 DEF Live
<1>5. Live(b)' <=> t \in {"QUEUED", "RUNNING", "EXPIRED"}
  BY <1>3 DEF Live
<1>6. ASSUME NEW x \in Benchmark
      PROVE  RunAgreesWithTask(x)'
  <2>1. CASE x = b
    BY <1>3, <2>1 DEF Agree, RunAgreesWithTask, Live
  <2>2. CASE x # b
    <3>1. RunAgreesWithTask(x) /\ Of[x] \in Manual
      BY <1>1, BenchShape DEF EvidenceInv
    <3> QED
      BY <1>3, <1>4, <2>2, <3>1 DEF RunAgreesWithTask
  <2> QED
    BY <2>1, <2>2
<1> QED
  BY <1>3, <1>4, <1>5, <1>6

LEMMA RowStatus ==
  ASSUME TypeInv, NEW b \in Benchmark,
         NEW s \in {"NONE", "PREPARED", "QUEUED", "SUCCEEDED", "FAILED"}
  PROVE  [brun[b] EXCEPT !.status = s] \in BenchmarkRuns /\ [brun[b] EXCEPT !.status = s].status = s
<1>1. brun[b] \in BenchmarkRuns
  BY BenchShape
<1> QED
  BY <1>1 DEF BenchmarkRuns

(* A step of a run that is no result: the task does not end.                     *)
LEMMA RunStep ==
  ASSUME EvidenceInv, NEW b \in Benchmark, NEW row \in BenchmarkRuns, NEW t,
         brun' = [brun EXCEPT ![b] = row], task' = [task EXCEPT ![b] = t],
         Agree(row.status, t), row.status # "SUCCEEDED",
         Live(b)' /\ ~Live(b) => ~InBenchmark(NodeOf(b)) /\ ~InQualification(NodeOf(b))
                                  /\ <<NodeOf(b), "WORK">> \notin visitors,
         UNCHANGED <<evidence, failedLater, lastTry, result, container, qrun, visitors, faults>>,
         doing' \in [Node -> [run : Benchmark, step : {"CLAIMED", "ATTACHED"}] \cup {None}]
  PROVE  BenchKeeps
<1>1. TypeInv
  BY DEF EvidenceInv
<1>2. /\ \A x \in Benchmark : RunAgreesWithTask(x)'
      /\ brun' \in [Benchmark -> BenchmarkRuns] /\ task' \in [Benchmark -> TaskStatus]
      /\ \A x \in Benchmark : x # b => (Live(x)' <=> Live(x))
  BY RunMoves2
<1>3. BenchTyped(brun', evidence', task', failedLater', lastTry') /\ faults' \in 0 .. MaxFaults
  BY <1>1, <1>2, BenchShape DEF BenchTyped
<1>4. AgentTyped(doing', result', container')
  BY <1>1, AgentShape DEF AgentTyped
<1>5. TryInv'
  BY Frames
<1>6. Alone' /\ OneBenchmark'
  <2>1. CASE Live(b)' => Live(b)
    BY <1>2, <2>1, NobodyStarts
  <2>2. CASE Live(b)' /\ ~Live(b)
    <3>1. \A n \in Node : InQualification(n)' <=> InQualification(n)
      BY DEF InQualification, Qualifying
    <3>2. \A x : NodeOf(x)' = NodeOf(x)
      BY DEF NodeOf
    <3>3. \A n \in Node : InBenchmark(n)' => InBenchmark(n) \/ n = NodeOf(b)
      BY <1>2, <3>2 DEF InBenchmark
    <3>4. Alone /\ OneBenchmark
      BY DEF EvidenceInv
    <3>5. Alone'
      BY <2>2, <3>1, <3>3, <3>4 DEF Alone
    <3>6. \A x \in Benchmark : Live(x) => NodeOf(x) # NodeOf(b)
      BY <2>2 DEF InBenchmark
    <3>7. OneBenchmark'
      BY <1>2, <3>2, <3>4, <3>6 DEF OneBenchmark
    <3> QED
      BY <3>5, <3>7
  <2> QED
    BY <2>1, <2>2
<1> QED
  BY <1>2, <1>3, <1>4, <1>5, <1>6 DEF BenchKeeps

LEMMA PrepareBenchmarkStep ==
  ASSUME EvidenceInv, NEW b \in Benchmark, PrepareBenchmark(b)
  PROVE  BenchKeeps
<1> DEFINE row == [status |-> "PREPARED", found |-> inv[NodeOf(b)]]
<1>1. TypeInv
  BY DEF EvidenceInv
<1>2. /\ brun[b].status = "NONE" /\ brun' = [brun EXCEPT ![b] = row]
      /\ UNCHANGED <<task, evidence, failedLater, lastTry, doing, result, container, qrun, visitors,
                     faults>>
  BY DEF PrepareBenchmark, qualVars, agentVars, nodeVars
<1>3. row \in BenchmarkRuns /\ row.status = "PREPARED"
  BY <1>1, BenchShape DEF BenchmarkRuns
<1> HIDE DEF row
<1>4. task' = [task EXCEPT ![b] = task[b]] /\ Agree(row.status, task[b])
  BY <1>1, <1>2, <1>3, BenchShape, AgreeNow DEF Agree
<1>5. Live(b)' => Live(b)
  BY <1>2 DEF Live
<1> QED
  BY <1>1, <1>2, <1>3, <1>4, <1>5, AgentShape, RunStep

LEMMA ApplyBenchmarkStep ==
  ASSUME EvidenceInv, NEW b \in Benchmark, ApplyBenchmark(b)
  PROVE  BenchKeeps
<1> DEFINE row == [brun[b] EXCEPT !.status = "QUEUED"]
<1>1. TypeInv
  BY DEF EvidenceInv
<1>2. /\ brun' = [brun EXCEPT ![b] = row] /\ task' = [task EXCEPT ![b] = "QUEUED"]
      /\ UNCHANGED <<evidence, failedLater, lastTry, doing, result, container, qrun, visitors,
                     faults>>
      /\ <<NodeOf(b), "WORK">> \notin visitors
      /\ ~InBenchmark(NodeOf(b)) /\ ~InQualification(NodeOf(b))
  BY DEF ApplyBenchmark, qualVars, agentVars, nodeVars
<1>3. row \in BenchmarkRuns /\ row.status = "QUEUED"
  BY <1>1, RowStatus
<1> HIDE DEF row
<1>4. Agree(row.status, "QUEUED")
  BY <1>3 DEF Agree, TaskStatus
<1> QED
  BY <1>1, <1>2, <1>3, <1>4, AgentShape, RunStep

LEMMA LeaseStep ==
  ASSUME EvidenceInv, NEW b \in Benchmark, Claim(b) \/ LeaseExpires(b)
  PROVE  BenchKeeps
<1> DEFINE t == IF Claim(b) THEN "RUNNING" ELSE "EXPIRED"
<1>1. TypeInv
  BY DEF EvidenceInv
<1>2. /\ task[b] \in {"QUEUED", "RUNNING", "EXPIRED"} /\ task' = [task EXCEPT ![b] = t]
      /\ UNCHANGED <<brun, evidence, failedLater, lastTry, result, container, qrun, visitors, faults>>
  BY DEF Claim, LeaseExpires, qualVars, agentVars, nodeVars
<1>3. brun' = [brun EXCEPT ![b] = brun[b]] /\ brun[b] \in BenchmarkRuns
  BY <1>1, <1>2, BenchShape
<1>4. t \in {"RUNNING", "EXPIRED"}
  OBVIOUS
<1>5. doing' \in [Node -> [run : Benchmark, step : {"CLAIMED", "ATTACHED"}] \cup {None}]
  <2>1. CASE doing' = doing
    BY <1>1, <2>1, AgentShape
  <2>2. CASE doing' # doing
    <3>1. doing' = [doing EXCEPT ![NodeOf(b)] = [run |-> b, step |-> "CLAIMED"]]
      BY <2>2 DEF Claim, LeaseExpires, agentVars
    <3>2. [run |-> b, step |-> "CLAIMED"] \in [run : Benchmark, step : {"CLAIMED", "ATTACHED"}]
      OBVIOUS
    <3> QED
      BY <1>1, <3>1, <3>2, AgentShape
  <2> QED
    BY <2>1, <2>2
<1> HIDE DEF t
<1>6. Agree(brun[b].status, t) /\ brun[b].status # "SUCCEEDED"
  BY <1>2, <1>4, AgreeNow DEF Agree, TaskStatus
<1>7. Live(b)
  BY <1>2 DEF Live
<1> QED
  BY <1>2, <1>3, <1>5, <1>6, <1>7, RunStep

(* What the last attempt showed, once it is stored.                             *)
LEMMA TriedShape ==
  ASSUME TypeInv, NEW p \in Manual, NEW ok \in BOOLEAN, NEW found, ok => found \in Inventory,
         Tried(p, ok, found)
  PROVE  /\ lastTry' \in [Manual -> [ok : BOOLEAN, found : Inventory]]
         /\ lastTry'[p].ok = ok /\ (ok => lastTry'[p].found = found)
         /\ \A x \in Manual : x # p => lastTry'[x] = lastTry[x]
<1> DEFINE try == [ok |-> ok, found |-> IF ok THEN found ELSE "UNFIT"]
<1>1. try \in [ok : BOOLEAN, found : Inventory] /\ try.ok = ok /\ (ok => try.found = found)
  BY DEF Inventory
<1>2. lastTry' = [lastTry EXCEPT ![p] = try]
  BY DEF Tried
<1> HIDE DEF try
<1> QED
  BY <1>1, <1>2, BenchShape

(* Evidence is registered with the inventory that was measured.                 *)
LEMMA RegisteredShape ==
  ASSUME EvidenceInv, NEW p \in Manual, NEW st \in Outcomes,
         Registered(p, st, inv[Site[p]])
  PROVE  /\ evidence' \in [Manual -> BenchmarkEvidences] /\ failedLater' \subseteq Benchmark
         /\ lastTry' \in [Manual -> [ok : BOOLEAN, found : Inventory]]
         /\ \A x \in Manual : evidence[x].status # "NONE" => evidence'[x].status # "NONE"
         /\ evidence'[p].status # "NONE"
         /\ TryInv'
<1> DEFINE ev == [status |-> st, found |-> inv[Site[p]]]
<1>1. TypeInv /\ TryInv
  BY DEF EvidenceInv
<1>2. /\ evidence' = [evidence EXCEPT ![p] = ev]
      /\ failedLater' = failedLater \ {b \in Benchmark : Of[b] = p}
      /\ Tried(p, st = "PASSED", inv[Site[p]])
  BY DEF Registered
<1>3. inv[Site[p]] \in Inventory /\ (st = "PASSED") \in BOOLEAN
  BY <1>1, BenchShape, EvidenceAssumption
<1>4. ev \in BenchmarkEvidences /\ ev.status = st /\ ev.found = inv[Site[p]] /\ st # "NONE"
  BY <1>3 DEF BenchmarkEvidences, Outcomes
<1> HIDE DEF ev
<1>5. /\ lastTry' \in [Manual -> [ok : BOOLEAN, found : Inventory]]
      /\ lastTry'[p].ok = (st = "PASSED")
      /\ (st = "PASSED") => lastTry'[p].found = inv[Site[p]]
      /\ \A x \in Manual : x # p => lastTry'[x] = lastTry[x]
  BY <1>1, <1>2, <1>3, TriedShape
<1>6. /\ evidence' \in [Manual -> BenchmarkEvidences] /\ evidence'[p] = ev
      /\ \A x \in Manual : x # p => evidence'[x] = evidence[x]
  BY <1>1, <1>2, <1>4, BenchShape
<1>7. TryInv'
  <2>1. ASSUME NEW x \in Manual, evidence'[x].status = "PASSED", \A b \in failedLater' : Of[b] # x
        PROVE  lastTry'[x].ok /\ lastTry'[x].found = evidence'[x].found
    <3>1. CASE x = p
      BY <1>4, <1>5, <1>6, <2>1, <3>1
    <3>2. CASE x # p
      <4>1. \A b \in failedLater : Of[b] # x
        BY <1>1, <1>2, <2>1, <3>2, BenchShape
      <4> QED
        BY <1>1, <1>5, <1>6, <2>1, <3>2, <4>1 DEF TryInv
    <3> QED
      BY <3>1, <3>2
  <2> QED
    BY <2>1 DEF TryInv
<1> QED
  BY <1>1, <1>2, <1>4, <1>5, <1>6, <1>7, BenchShape

LEMMA RunFailedShape ==
  ASSUME EvidenceInv, NEW b \in Benchmark, NEW st, RunFailed(b, st)
  PROVE  /\ evidence' = evidence /\ failedLater' \subseteq Benchmark
         /\ lastTry' \in [Manual -> [ok : BOOLEAN, found : Inventory]]
         /\ TryInv'
<1>1. TypeInv /\ TryInv /\ Of[b] \in Manual
  BY BenchShape DEF EvidenceInv
<1>2. /\ evidence' = evidence /\ failedLater' = failedLater \cup {b} /\ Tried(Of[b], FALSE, None)
  BY DEF RunFailed
<1>3. /\ lastTry' \in [Manual -> [ok : BOOLEAN, found : Inventory]]
      /\ \A x \in Manual : x # Of[b] => lastTry'[x] = lastTry[x]
  BY <1>1, <1>2, TriedShape
<1>4. TryInv'
  BY <1>1, <1>2, <1>3 DEF TryInv
<1> QED
  BY <1>1, <1>2, <1>3, <1>4, BenchShape

(* The end of a run: its row and its task are final, evidence and history are    *)
(* those of Registered or RunFailed.                                          *)
LEMMA RunEnds ==
  ASSUME EvidenceInv, NEW b \in Benchmark, NEW s \in {"SUCCEEDED", "FAILED"}, NEW t,
         brun' = [brun EXCEPT ![b].status = s], task' = [task EXCEPT ![b] = t], Agree(s, t),
         evidence' \in [Manual -> BenchmarkEvidences], failedLater' \subseteq Benchmark,
         lastTry' \in [Manual -> [ok : BOOLEAN, found : Inventory]], TryInv',
         \A p \in Manual : evidence[p].status # "NONE" => evidence'[p].status # "NONE",
         s = "SUCCEEDED" => evidence'[Of[b]].status # "NONE",
         result' \in [Benchmark -> Results \cup {"NONE"}],
         UNCHANGED <<doing, container, qrun, visitors, faults>>
  PROVE  BenchKeeps
<1> DEFINE row == [brun[b] EXCEPT !.status = s]
<1>1. TypeInv
  BY DEF EvidenceInv
<1>2. row \in BenchmarkRuns /\ row.status = s /\ brun' = [brun EXCEPT ![b] = row]
  BY <1>1, RowStatus
<1> HIDE DEF row
<1>3. /\ \A x \in Benchmark : RunAgreesWithTask(x)'
      /\ brun' \in [Benchmark -> BenchmarkRuns] /\ task' \in [Benchmark -> TaskStatus]
      /\ \A x \in Benchmark : x # b => (Live(x)' <=> Live(x))
      /\ Live(b)' <=> t \in {"QUEUED", "RUNNING", "EXPIRED"}
  BY <1>2, RunMoves2
<1>4. Alone' /\ OneBenchmark'
  <2>1. ~Live(b)'
    BY <1>3 DEF Agree
  <2> QED
    BY <1>3, <2>1, NobodyStarts
<1>5. AgentTyped(doing', result', container')
  BY <1>1, AgentShape DEF AgentTyped
<1>6. BenchTyped(brun', evidence', task', failedLater', lastTry') /\ faults' \in 0 .. MaxFaults
  BY <1>1, <1>3, BenchShape DEF BenchTyped
<1> QED
  BY <1>3, <1>4, <1>5, <1>6 DEF BenchKeeps

LEMMA EndsAgree ==
  Agree("FAILED", "FAILED") /\ Agree("FAILED", "CANCELED") /\ Agree("SUCCEEDED", "SUCCEEDED")
BY DEF Agree, TaskStatus

LEMMA CancelBenchmarkStep ==
  ASSUME EvidenceInv, NEW b \in Benchmark, CancelBenchmark(b)
  PROVE  BenchKeeps
<1>1. TypeInv
  BY DEF EvidenceInv
<1>2. /\ RunFailed(b, "CANCELED")
      /\ UNCHANGED <<doing, result, container, qrun, visitors, faults>>
  BY DEF CancelBenchmark, qualVars, agentVars, nodeVars
<1>3. brun' = [brun EXCEPT ![b].status = "FAILED"] /\ task' = [task EXCEPT ![b] = "CANCELED"]
  BY <1>2 DEF RunFailed
<1>4. /\ evidence' = evidence /\ failedLater' \subseteq Benchmark
      /\ lastTry' \in [Manual -> [ok : BOOLEAN, found : Inventory]] /\ TryInv'
  BY <1>2, RunFailedShape
<1>5. evidence \in [Manual -> BenchmarkEvidences] /\ result \in [Benchmark -> Results \cup {"NONE"}]
  BY <1>1, BenchShape, AgentShape
<1> QED
  BY <1>2, <1>3, <1>4, <1>5, EndsAgree, RunEnds

LEMMA ReportStep ==
  ASSUME EvidenceInv, NEW b \in Benchmark, Report(b)
  PROVE  BenchKeeps
<1>1. TypeInv /\ Of[b] \in Manual
  BY BenchShape DEF EvidenceInv
<1>2. UNCHANGED <<doing, container, qrun, visitors, faults>> /\ result' = [result EXCEPT ![b] = "NONE"]
  BY DEF Report, qualVars, nodeVars
<1>3. result' \in [Benchmark -> Results \cup {"NONE"}]
  BY <1>1, <1>2, AgentShape
<1>4. CASE /\ result[b] \in Outcomes /\ Registrable(b)
           /\ Registered(Of[b], result[b], brun[b].found)
           /\ brun' = [brun EXCEPT ![b].status = "SUCCEEDED"]
           /\ task' = [task EXCEPT ![b] = "SUCCEEDED"]
  <2>1. brun[b].found = inv[Site[Of[b]]]
    BY <1>4 DEF Registrable, NodeOf
  <2>2. Registered(Of[b], result[b], inv[Site[Of[b]]])
    BY <1>4, <2>1
  <2>3. /\ evidence' \in [Manual -> BenchmarkEvidences] /\ failedLater' \subseteq Benchmark
        /\ lastTry' \in [Manual -> [ok : BOOLEAN, found : Inventory]]
        /\ \A x \in Manual : evidence[x].status # "NONE" => evidence'[x].status # "NONE"
        /\ evidence'[Of[b]].status # "NONE"
        /\ TryInv'
    BY <1>1, <1>4, <2>2, RegisteredShape
  <2> QED
    BY <1>2, <1>3, <1>4, <2>3, EndsAgree, RunEnds
<1>5. CASE RunFailed(b, "FAILED")
  <2>1. brun' = [brun EXCEPT ![b].status = "FAILED"] /\ task' = [task EXCEPT ![b] = "FAILED"]
    BY <1>5 DEF RunFailed
  <2>2. /\ evidence' = evidence /\ failedLater' \subseteq Benchmark
        /\ lastTry' \in [Manual -> [ok : BOOLEAN, found : Inventory]] /\ TryInv'
    BY <1>5, RunFailedShape
  <2>3. evidence \in [Manual -> BenchmarkEvidences]
    BY <1>1, BenchShape
  <2> QED
    BY <1>2, <1>3, <2>1, <2>2, <2>3, EndsAgree, RunEnds
<1> QED
  BY <1>4, <1>5 DEF Report

LEMMA RegisterByHandStep ==
  ASSUME EvidenceInv, NEW p \in Manual, NEW st \in Outcomes, RegisterByHand(p, st)
  PROVE  BenchKeeps
<1>1. TypeInv
  BY DEF EvidenceInv
<1>2. /\ UNCHANGED <<brun, task, doing, result, container, qrun, visitors>>
      /\ Registered(p, st, inv[Site[p]]) /\ Bounded(st = "PASSED") /\ (st = "PASSED") \in BOOLEAN
  BY DEF RegisterByHand, qualVars, agentVars
<1>3. faults' \in 0 .. MaxFaults
  BY <1>1, <1>2, BoundedFaults
<1>4. /\ evidence' \in [Manual -> BenchmarkEvidences] /\ failedLater' \subseteq Benchmark
      /\ lastTry' \in [Manual -> [ok : BOOLEAN, found : Inventory]]
      /\ \A x \in Manual : evidence[x].status # "NONE" => evidence'[x].status # "NONE"
      /\ TryInv'
  BY <1>2, RegisteredShape
<1>5. \A b \in Benchmark : RunAgreesWithTask(b)'
  BY <1>1, <1>2, <1>4, BenchShape DEF EvidenceInv, RunAgreesWithTask, Live
<1>6. Alone' /\ OneBenchmark'
  BY <1>2, Frames
<1>7. BenchTyped(brun', evidence', task', failedLater', lastTry')
  BY <1>1, <1>2, <1>4, BenchShape DEF BenchTyped
<1>8. AgentTyped(doing', result', container')
  BY <1>1, <1>2, AgentShape DEF AgentTyped
<1> QED
  BY <1>3, <1>4, <1>5, <1>6, <1>7, <1>8 DEF BenchKeeps

LEMMA BenchStep == ASSUME EvidenceInv, BenchAct PROVE BenchKeeps
BY PrepareBenchmarkStep, ApplyBenchmarkStep, LeaseStep, CancelBenchmarkStep, ReportStep,
   RegisterByHandStep DEF BenchAct

----------------------------------------------------------------------------
(* Nodes and containers *)

LEMMA AgentStep ==
  ASSUME EvidenceInv, AgentAct
  PROVE  AgentTyped(doing', result', container') /\ faults' \in 0 .. MaxFaults /\ OneContainer'
<1> DEFINE Doings == [run : Benchmark, step : {"CLAIMED", "ATTACHED"}] \cup {None}
           Keeps == /\ doing' \in [Node -> Doings] /\ result' \in [Benchmark -> Results \cup {"NONE"}]
                    /\ container' \in [Benchmark -> {"NONE", "RUNNING", "OLD"}]
                    /\ faults' \in 0 .. MaxFaults /\ OneContainer'
<1>1. TypeInv /\ OneContainer
  BY DEF EvidenceInv
<1>2. /\ doing \in [Node -> Doings] /\ result \in [Benchmark -> Results \cup {"NONE"}]
      /\ container \in [Benchmark -> {"NONE", "RUNNING", "OLD"}]
      /\ faults \in 0 .. MaxFaults
  BY <1>1, AgentShape, BenchShape
<1>3. ASSUME NEW b \in Benchmark, NEW s \in {"NONE", "OLD"}, container' = [container EXCEPT ![b] = s],
             s = "NONE" \/ container[b] # "NONE"
      PROVE  container' \in [Benchmark -> {"NONE", "RUNNING", "OLD"}] /\ OneContainer'
  <2>1. \A c \in Benchmark : container'[c] # "NONE" => container[c] # "NONE"
    BY <1>2, <1>3
  <2> QED
    BY <1>1, <1>2, <1>3, <2>1 DEF OneContainer, NodeOf
<1>4. ASSUME NEW b \in Benchmark, NEW r \in Results, Recorded(b, r)
      PROVE  doing' \in [Node -> Doings] /\ result' \in [Benchmark -> Results \cup {"NONE"}]
  BY <1>1, <1>2, <1>4, BenchShape DEF Recorded
<1>5. ASSUME NEW b \in Benchmark, Defer(b)
      PROVE  Keeps
  <2>1. doing' = [doing EXCEPT ![NodeOf(b)] = None] /\ UNCHANGED <<result, container, faults>>
    BY <1>5 DEF Defer, nodeVars
  <2> QED
    BY <1>1, <1>2, <2>1, Frames
<1>6. ASSUME NEW b \in Benchmark, Start(b)
      PROVE  Keeps
  <2>1. /\ container' = [container EXCEPT ![b] = "RUNNING"] /\ UNCHANGED <<result, faults>>
        /\ doing' = [doing EXCEPT ![NodeOf(b)].step = "ATTACHED"]
        /\ NoOtherContainer(b) /\ doing[NodeOf(b)] = [run |-> b, step |-> "CLAIMED"]
    BY <1>6 DEF Start, Runnable, Executing, nodeVars
  <2>2. doing' \in [Node -> Doings]
    <3> DEFINE row == [doing[NodeOf(b)] EXCEPT !.step = "ATTACHED"]
    <3>1. row \in Doings
      BY <2>1
    <3>2. doing' = [doing EXCEPT ![NodeOf(b)] = row]
      BY <2>1
    <3> HIDE DEF row, Doings
    <3> QED
      BY <1>2, <3>1, <3>2
  <2>3. \A c \in Benchmark : c # b /\ NodeOf(c) = NodeOf(b) => container'[c] = "NONE"
    BY <1>2, <2>1 DEF NoOtherContainer
  <2>4. container' \in [Benchmark -> {"NONE", "RUNNING", "OLD"}]
    BY <1>2, <2>1
  <2>5. \A c \in Benchmark : c # b => container'[c] = container[c]
    BY <1>2, <2>1
  <2>6. OneContainer'
    BY <1>1, <2>3, <2>5 DEF OneContainer, NodeOf
  <2> QED
    BY <1>2, <2>1, <2>2, <2>4, <2>6
<1>7. ASSUME NEW b \in Benchmark, Refuse(b)
      PROVE  Keeps
  <2>1. container' = [container EXCEPT ![b] = "NONE"] /\ Recorded(b, "ERROR") /\ faults' = faults
    BY <1>7 DEF Refuse, nodeVars
  <2>2. "ERROR" \in Results
    BY DEF Results
  <2> QED
    BY <1>2, <1>3, <1>4, <2>1, <2>2
<1>8. ASSUME NEW b \in Benchmark, Measure(b)
      PROVE  Keeps
  <2>1. PICK r \in Results : Recorded(b, r) /\ Bounded(r = "PASSED")
    BY <1>8 DEF Measure
  <2>2. container' = [container EXCEPT ![b] = "NONE"] /\ (r = "PASSED") \in BOOLEAN
    BY <1>8 DEF Measure
  <2>3. faults' \in 0 .. MaxFaults
    BY <1>1, <2>1, <2>2, BoundedFaults
  <2> QED
    BY <1>3, <1>4, <2>1, <2>2, <2>3
<1>9. ASSUME NEW b \in Benchmark, ContainerEnds(b)
      PROVE  Keeps
  BY <1>2, <1>3, <1>9 DEF ContainerEnds, nodeVars
<1>10. ASSUME NEW b \in Benchmark, CleanUp(b)
       PROVE  Keeps
  BY <1>2, <1>3, <1>10 DEF CleanUp, nodeVars
<1>11. ASSUME NEW n \in Node, Crash(n)
       PROVE  Keeps
  <2>1. doing' = [doing EXCEPT ![n] = None] /\ UNCHANGED <<result, container>> /\ Bounded(FALSE)
    BY <1>11 DEF Crash
  <2>2. faults' \in 0 .. MaxFaults
    BY <1>1, <2>1, BoundedFaults
  <2> QED
    BY <1>1, <1>2, <2>1, <2>2, Frames
<1>12. Keeps
  <2> HIDE DEF Keeps
  <2> QED
    BY <1>5, <1>6, <1>7, <1>8, <1>9, <1>10, <1>11 DEF AgentAct
<1> QED
  BY <1>12 DEF AgentTyped

LEMMA WorldStep ==
  ASSUME EvidenceInv, WorldAct
  PROVE  NodeTyped(host', inv', visitors', faults') /\ Alone'
<1>1. TypeInv /\ Alone
  BY DEF EvidenceInv
<1>2. NodeTyped(host, inv, visitors, faults)
  BY <1>1, TypesNow
<1>3. UNCHANGED <<qrun, task>>
  BY WorldFrame
<1>4. \A n \in Node : (InQualification(n)' <=> InQualification(n)) /\ (InBenchmark(n)' <=> InBenchmark(n))
  BY <1>3 DEF InQualification, InBenchmark, Qualifying, Live, NodeOf
<1>5. ASSUME NEW v \in Visits, Visit(v)
      PROVE  NodeTyped(host', inv', visitors', faults') /\ Alone'
  <2>1. /\ visitors' = visitors \cup {v} /\ UNCHANGED <<host, inv, faults>>
        /\ v[2] = "WORK" => ~InQualification(v[1]) /\ ~InBenchmark(v[1])
    BY <1>5 DEF Visit
  <2>2. ASSUME NEW n \in Node, <<n, "WORK">> \in visitors'
        PROVE  ~InQualification(n) /\ ~InBenchmark(n)
    <3>1. <<n, "WORK">> \in visitors \/ v = <<n, "WORK">>
      BY <2>1, <2>2
    <3>2. v = <<n, "WORK">> => v[1] = n /\ v[2] = "WORK"
      OBVIOUS
    <3> QED
      BY <1>1, <2>1, <3>1, <3>2 DEF Alone
  <2>3. Alone'
    BY <1>1, <1>4, <2>2 DEF Alone
  <2> QED
    BY <1>2, <2>1, <2>3 DEF NodeTyped
<1>6. ASSUME NEW v \in Visits, Leave(v)
      PROVE  NodeTyped(host', inv', visitors', faults') /\ Alone'
  <2>1. visitors' \subseteq visitors /\ UNCHANGED <<host, inv, faults>>
    BY <1>6 DEF Leave
  <2> QED
    BY <1>1, <1>2, <1>4, <2>1 DEF NodeTyped, Alone
<1>7. ASSUME NEW n \in Node, NEW st \in {"UP", "DOWN", "REVOKED"}, SetHost(n, st)
      PROVE  NodeTyped(host', inv', visitors', faults') /\ Alone'
  <2>1. host' = [host EXCEPT ![n] = st] /\ UNCHANGED <<inv, visitors>> /\ Bounded(st = "UP")
        /\ (st = "UP") \in BOOLEAN
    BY <1>7 DEF SetHost
  <2>2. faults' \in 0 .. MaxFaults
    BY <1>1, <2>1, BoundedFaults
  <2> QED
    BY <1>2, <1>3, <2>1, <2>2, Frames DEF NodeTyped
<1>8. ASSUME NEW n \in Node, NEW i \in Inventory, SetInventory(n, i)
      PROVE  NodeTyped(host', inv', visitors', faults') /\ Alone'
  <2>1. inv' = [inv EXCEPT ![n] = i] /\ UNCHANGED <<host, visitors>> /\ Bounded(FALSE)
    BY <1>8 DEF SetInventory
  <2>2. faults' \in 0 .. MaxFaults
    BY <1>1, <2>1, BoundedFaults
  <2> QED
    BY <1>2, <1>3, <2>1, <2>2, Frames DEF NodeTyped
<1> QED
  BY <1>5, <1>6, <1>7, <1>8 DEF WorldAct

----------------------------------------------------------------------------
(* The invariant *)

LEMMA InitEvidence == Init => EvidenceInv
<1> SUFFICES ASSUME Init PROVE EvidenceInv
  OBVIOUS
<1>1. QualTyped(release, profile, qualified, qrun)
  BY DEF Init, QualTyped, ReleaseStatus, ProfileStatus, Qualifications, QualificationRuns
<1>2. BenchTyped(brun, evidence, task, failedLater, lastTry)
  BY DEF Init, BenchTyped, BenchmarkRuns, BenchmarkEvidences, TaskStatus, Inventory
<1>3. AgentTyped(doing, result, container)
  BY DEF Init, AgentTyped
<1>4. NodeTyped(host, inv, visitors, faults)
  BY EvidenceAssumption DEF Init, NodeTyped, Inventory
<1>5. TypeInv
  <2>1. \A b \in Benchmark : task[b] \in TaskStatus
    BY <1>2 DEF BenchTyped
  <2> QED
    BY <1>1, <1>2, <1>3, <1>4, <2>1 DEF QualTyped, BenchTyped, AgentTyped, NodeTyped, TypeInv,
       TypeOK, TaskStatus
<1>6. \A q \in Qualification : qrun[q].status = "NONE"
  BY DEF Init, NoQualification
<1>7. \A b \in Benchmark : ~Live(b) /\ task[b] = "NONE" /\ brun[b].status = "NONE"
  BY DEF Init, Live
<1>8. \A p \in Generated : ProfileInv(p)
  <2>1. \A p \in Generated : profile[p] = "NONE"
    BY <1>5, QualShape DEF Init
  <2> QED
    BY <1>6, <2>1 DEF ProfileInv, Primary
<1>9. Apart /\ Alone /\ OneBenchmark
  BY <1>6, <1>7 DEF Init, Apart, Alone, OneBenchmark, InQualification, InBenchmark, Qualifying
<1>10. OneContainer
  BY DEF Init, OneContainer
<1>11. TryInv
  BY DEF Init, TryInv
<1>12. \A b \in Benchmark : RunAgreesWithTask(b)
  BY <1>7 DEF RunAgreesWithTask
<1> QED
  BY <1>5, <1>8, <1>9, <1>10, <1>11, <1>12 DEF EvidenceInv

LEMMA NextEvidence == EvidenceInv /\ [Next]_vars => EvidenceInv'
<1> SUFFICES ASSUME EvidenceInv, [Next]_vars PROVE EvidenceInv'
  OBVIOUS
<1>1. /\ QualTyped(release, profile, qualified, qrun)
      /\ BenchTyped(brun, evidence, task, failedLater, lastTry)
      /\ AgentTyped(doing, result, container) /\ NodeTyped(host, inv, visitors, faults)
  BY TypesNow DEF EvidenceInv
<1>2. CASE ControlAct
  <2>1. ControlKeeps /\ UNCHANGED <<brun, task, evidence, failedLater, lastTry, doing, result,
                                    container, host, inv, visitors>>
    BY <1>2, ControlStep, ControlFrame
  <2>2. TypeInv'
    BY <1>1, <2>1, TypesNext DEF ControlKeeps, NodeTyped
  <2> QED
    BY <2>1, <2>2, Frames DEF ControlKeeps, EvidenceInv
<1>3. CASE BenchAct
  <2>1. BenchKeeps /\ UNCHANGED <<release, profile, qualified, qrun, container, host, inv, visitors>>
    BY <1>3, BenchStep, BenchFrame
  <2>2. TypeInv'
    BY <1>1, <2>1, TypesNext DEF BenchKeeps, NodeTyped
  <2> QED
    BY <2>1, <2>2, Frames DEF BenchKeeps, EvidenceInv
<1>4. CASE AgentAct
  <2>1. /\ AgentTyped(doing', result', container') /\ faults' \in 0 .. MaxFaults /\ OneContainer'
        /\ UNCHANGED <<release, profile, qualified, qrun, brun, task, evidence, failedLater, lastTry,
                       host, inv, visitors>>
    BY <1>4, AgentStep, AgentFrame
  <2>2. TypeInv'
    BY <1>1, <2>1, TypesNext DEF NodeTyped
  <2> QED
    BY <2>1, <2>2, Frames DEF EvidenceInv
<1>5. CASE WorldAct
  <2>1. /\ NodeTyped(host', inv', visitors', faults') /\ Alone'
        /\ UNCHANGED <<release, profile, qualified, qrun, brun, task, evidence, failedLater, lastTry,
                       doing, result, container>>
    BY <1>5, WorldStep, WorldFrame
  <2>2. TypeInv'
    BY <1>1, <2>1, TypesNext
  <2> QED
    BY <2>1, <2>2, Frames DEF EvidenceInv
<1>6. CASE UNCHANGED vars
  <2>1. UNCHANGED <<release, profile, qualified, qrun, brun, task, evidence, failedLater, lastTry,
                    doing, result, container, host, inv, visitors, faults>>
    BY <1>6 DEF vars, qualVars, benchVars, agentVars, nodeVars
  <2>2. TypeInv'
    BY <1>1, <2>1, TypesNext
  <2> QED
    BY <2>1, <2>2, Frames DEF EvidenceInv
<1> QED
  BY <1>2, <1>3, <1>4, <1>5, <1>6, NextKinds

(* The inductive invariant holds through every request, report, cancellation,    *)
(* crash and change of a node.                                                *)
THEOREM EvidenceInvariant == Spec => []EvidenceInv
BY InitEvidence, NextEvidence, PTL DEF Spec

----------------------------------------------------------------------------
(* What follows from it *)

(* Every row keeps the shape and the status values of its table (models.py).    *)
THEOREM TypeCorrect == Spec => []TypeOK
<1>1. EvidenceInv => TypeOK
  BY DEF EvidenceInv, TypeInv
<1> QED
  BY <1>1, EvidenceInvariant, PTL

LEMMA AtMostOne ==
  ASSUME NEW S, \A x, y \in S : x = y
  PROVE  Cardinality(S) <= 1
<1>1. CASE S = {}
  BY <1>1, FS_EmptySet
<1>2. CASE S # {}
  <2>1. PICK x \in S : TRUE
    BY <1>2
  <2>2. S = {x}
    BY <2>1
  <2>3. Cardinality(S) = 1
    BY <2>2, FS_Singleton
  <2> QED
    BY <2>3
<1> QED
  BY <1>1, <1>2

(* Nobody measures on a node that another uses (_qualification_occupancy,        *)
(* apply_benchmark_run, benchmark_runtime.py).                                *)
THEOREM NodesOnce == Spec => []NodesUsedOnce
<1>1. EvidenceInv => NodesUsedOnce
  <2> SUFFICES ASSUME EvidenceInv PROVE NodesUsedOnce
    OBVIOUS
  <2>1. ASSUME NEW n \in Node
        PROVE  /\ Cardinality({b \in Benchmark : Live(b) /\ NodeOf(b) = n}) <= 1
               /\ Cardinality({b \in Benchmark : container[b] # "NONE" /\ NodeOf(b) = n}) <= 1
    <3> DEFINE L == {b \in Benchmark : Live(b) /\ NodeOf(b) = n}
               C == {b \in Benchmark : container[b] # "NONE" /\ NodeOf(b) = n}
    <3>1. \A b, c \in L : b = c
      BY DEF EvidenceInv, OneBenchmark
    <3>2. \A b, c \in C : b = c
      BY DEF EvidenceInv, OneContainer
    <3> HIDE DEF L, C
    <3>3. Cardinality(L) <= 1 /\ Cardinality(C) <= 1
      BY <3>1, <3>2, AtMostOne
    <3> QED
      BY <3>3 DEF L, C
  <2> QED
    BY <2>1 DEF EvidenceInv, Apart, Alone, NodesUsedOnce
<1> QED
  BY <1>1, EvidenceInvariant, PTL

(* A profile, its primary runs and its evidence tell one story, and so do a      *)
(* benchmark run and its task (qualification.py, benchmark.py).               *)
THEOREM RecordsInAgreement == Spec => []RecordsAgree
<1>1. EvidenceInv => RecordsAgree
  <2> SUFFICES ASSUME EvidenceInv PROVE RecordsAgree
    OBVIOUS
  <2>1. ASSUME NEW p \in Generated
        PROVE  ProfileAgreesWithRuns(p)
    <3> DEFINE primary(st) == {q \in Qualification : qrun[q].status = st
                 /\ qrun[q].request.placement = p /\ qrun[q].request.purpose = "PRIMARY"}
    <3>1. ProfileInv(p)
      BY DEF EvidenceInv
    <3>2. \A st, q : q \in primary(st) <=> q \in Qualification /\ Primary(q, p, st)
      BY DEF Primary
    <3>3. primary("PASSED") = IF profile[p] \in {"VALIDATED", "ACTIVE"} THEN {qualified[p]} ELSE {}
      <4> HIDE DEF primary
      <4>1. CASE profile[p] \in {"VALIDATED", "ACTIVE"}
        BY <3>1, <3>2, <4>1 DEF ProfileInv
      <4>2. CASE profile[p] \notin {"VALIDATED", "ACTIVE"}
        BY <3>1, <3>2, <4>2 DEF ProfileInv
      <4> QED
        BY <4>1, <4>2
    <3>4. Cardinality(primary("QUALIFYING")) = IF profile[p] = "QUALIFYING" THEN 1 ELSE 0
      <4> HIDE DEF primary
      <4>1. CASE profile[p] = "QUALIFYING"
        <5>1. PICK q \in Qualification : Primary(q, p, "QUALIFYING")
          BY <3>1, <4>1 DEF ProfileInv
        <5>2. primary("QUALIFYING") = {q}
          BY <3>1, <3>2, <5>1 DEF ProfileInv
        <5>3. Cardinality(primary("QUALIFYING")) = 1
          BY <5>2, FS_Singleton
        <5> QED
          BY <4>1, <5>3
      <4>2. CASE profile[p] # "QUALIFYING"
        <5>1. primary("QUALIFYING") = {}
          BY <3>1, <3>2, <4>2 DEF ProfileInv
        <5>2. Cardinality(primary("QUALIFYING")) = 0
          BY <5>1, FS_EmptySet
        <5> QED
          BY <4>2, <5>2
      <4> QED
        BY <4>1, <4>2
    <3> QED
      BY <3>3, <3>4 DEF ProfileAgreesWithRuns
  <2> QED
    BY <2>1 DEF EvidenceInv, RecordsAgree
<1> QED
  BY <1>1, EvidenceInvariant, PTL

(* The gate of promote_model_release asks enough: behind every active profile is  *)
(* a success that is the last word, on nodes that are still what was measured. *)
THEOREM PromotionEarned == Spec => PromotionIsEarned
<1> DEFINE Shown ==
      \A p \in ActiveProfiles :
        \/ /\ p \in Manual /\ lastTry[p].ok
           /\ host[Site[p]] # "REVOKED" /\ inv[Site[p]] = lastTry[p].found
           /\ \A b \in Benchmark : Of[b] = p => ~Live(b)
        \/ /\ p \in Generated /\ qrun[qualified[p]].status = "PASSED"
           /\ \A n \in qrun[qualified[p]].request.nodes :
                host[n] = "UP" /\ inv[n] = qrun[qualified[p]].found[n]
<1>1. EvidenceInv /\ [Next]_vars => [release' = "ACTIVE" => Shown]_release
  <2> SUFFICES ASSUME EvidenceInv, [Next]_vars, release' # release, release' = "ACTIVE"
               PROVE  Shown
    BY Zenon
  <2>1. Promote
    <3>1. ControlAct
      BY NextKinds, BenchFrame, AgentFrame, WorldFrame DEF vars
    <3>2. CASE \E st \in {"VALIDATED", "DEPRECATED", "REVOKED"} : Transition(st)
      BY <3>2 DEF Transition
    <3> QED
      BY <3>1, <3>2 DEF ControlAct, GenerateProfiles, AddManual, AddProfiles, PrepareQualification,
         RegisterQualification, CancelQualification, ActivateProfile
  <2>2. ASSUME NEW p \in ActiveProfiles, p \in Generated
        PROVE  /\ qrun[qualified[p]].status = "PASSED"
               /\ \A n \in qrun[qualified[p]].request.nodes :
                    host[n] = "UP" /\ inv[n] = qrun[qualified[p]].found[n]
    <3>1. QualificationHolds(p)
      BY <2>1, <2>2 DEF Promote, Earned
    <3>2. /\ qrun[qualified[p]].status = "PASSED"
          /\ \A n \in qrun[qualified[p]].request.nodes : host[n] = "UP"
          /\ qrun[qualified[p]].found = Found(qrun[qualified[p]].request.nodes)
      BY <3>1 DEF QualificationHolds, Eligible, Usable, Unchanged
    <3> QED
      BY <3>2 DEF Found
  <2>3. ASSUME NEW p \in ActiveProfiles, p \notin Generated
        PROVE  /\ p \in Manual /\ lastTry[p].ok
               /\ host[Site[p]] # "REVOKED" /\ inv[Site[p]] = lastTry[p].found
               /\ \A b \in Benchmark : Of[b] = p => ~Live(b)
    <3>1. p \in Manual
      BY <2>3 DEF ActiveProfiles, Placement
    <3>2. /\ evidence[p].status = "PASSED" /\ ~Unresolved(p)
          /\ host[Site[p]] # "REVOKED" /\ inv[Site[p]] = evidence[p].found
      BY <2>1, <2>3 DEF Promote, Earned
    <3>3. failedLater \subseteq Benchmark
      BY BenchShape DEF EvidenceInv
    <3>4. lastTry[p].ok /\ lastTry[p].found = evidence[p].found
      BY <3>1, <3>2, <3>3 DEF EvidenceInv, TryInv, Unresolved
    <3>5. \A b \in Benchmark : Of[b] = p => ~Live(b)
      BY <3>2 DEF EvidenceInv, RunAgreesWithTask, Unresolved
    <3> QED
      BY <3>1, <3>2, <3>4, <3>5
  <2> QED
    BY <2>2, <2>3
<1> QED
  BY <1>1, EvidenceInvariant, PTL DEF Spec, PromotionIsEarned
=============================================================================
