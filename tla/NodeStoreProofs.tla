-------------------------- MODULE NodeStoreProofs --------------------------
(* Theorems of NodeStore for every number of processes, artifacts, chunks,      *)
(* retries and faults.                                                       *)
EXTENDS NodeStore, FiniteSetTheorems, TLAPS

----------------------------------------------------------------------------
(* The inductive invariant *)

Trees == {NoTree} \cup UNION {Tree(a) : a \in Artifact}
TypeInv ==
  /\ TypeOK
  /\ tree \in [Artifact -> Trees] /\ final \in [Artifact -> Trees]

AllFiles(a, t) == \A f \in FilesOf[a] : t.files[f] = "DONE"
Vouched(a, t) == AllFiles(a, t) /\ (a \in Staged => t.sidecar = "DONE")

(* A published name has verified bytes behind it.                              *)
ChunkOK(cs, pt, c) ==
  /\ cs[c] = "LINKED" => pt[c] = "FULL"
  /\ cs[c] = "STORED" => pt[c] = "NONE"

(* What a process whose row is r relies on, in the part of the disk that its    *)
(* locks protect: the state of its chunk, and how far its staging tree is.    *)
HoldsChunk(r, cs, pt) ==
  /\ r.chunk # "NONE" <=> r.step \in {"RECEIVE", "PUBLISH", "UNLINK"}
  /\ r.step = "RECEIVE" => cs[r.chunk] = "NONE" /\ pt[r.chunk] # "NONE"
  /\ r.step = "PUBLISH" => cs[r.chunk] = "NONE" /\ pt[r.chunk] = "FULL"
  /\ r.step = "UNLINK" => cs[r.chunk] = "LINKED"
HoldsTree(r, tr) ==
  /\ r.step # "IDLE" => r.art \in Artifact
  /\ r.step \in {"COPY", "SIDECAR", "MARKER", "VERIFY", "ACTIVATE"} => tr[r.art] \in Tree(r.art)
  /\ r.step \in {"SIDECAR", "MARKER"} => AllFiles(r.art, tr[r.art])
  /\ r.step = "MARKER" => Vouched(r.art, tr[r.art])
  /\ r.step = "ACTIVATE" => Exact(r.art, tr[r.art])
WorkersOK == \A w \in Worker : HoldsChunk(worker[w], cas, part) /\ HoldsTree(worker[w], tree)

(* The locks exclude: no two processes work on one artifact or on one chunk.     *)
Exclusive ==
  /\ \A v, w \in Worker :
       v # w /\ worker[v].step # "IDLE" /\ worker[w].step # "IDLE" => worker[v].art # worker[w].art
  /\ \A v, w \in Worker :
       v # w /\ worker[v].chunk # "NONE" => worker[v].chunk # worker[w].chunk

StoreInv ==
  /\ TypeInv
  /\ FinalIsWhole /\ MarkerIsLast
  /\ \A c \in Chunk : ChunkOK(cas, part, c)
  /\ WorkersOK /\ Exclusive

----------------------------------------------------------------------------
(* A step of one process                                                      *)

(* Process w becomes r.  It may take a lock that is free, and changes only what  *)
(* its locks protect; what it leaves behind is in order.                      *)
DiskTypes ==
  /\ cas' \in [Chunk -> ChunkNames] /\ part' \in [Chunk -> PartFiles]
  /\ \A a \in Artifact : tree'[a] \in Tree(a) \cup {NoTree} /\ final'[a] \in Tree(a) \cup {NoTree}
  /\ tree' \in [Artifact -> Trees] /\ final' \in [Artifact -> Trees]
Becomes(w, r) ==
  /\ worker' = [worker EXCEPT ![w] = r] /\ r \in Workers
  /\ \/ r = Idle
     \/ worker[w].step # "IDLE" /\ r.art = worker[w].art
     \/ ArtifactFree(r.art)
  /\ r.chunk \in {"NONE", worker[w].chunk} \/ ChunkFree(r.chunk)
Confined(w) ==
  /\ \A c \in Chunk : worker[w].chunk = c \/ ChunkFree(c) \/ (cas'[c] = cas[c] /\ part'[c] = part[c])
  /\ \A a \in Artifact : tree'[a] = tree[a] \/ (worker[w].step # "IDLE" /\ worker[w].art = a)
StepOf(w, r) ==
  /\ Becomes(w, r) /\ Confined(w) /\ DiskTypes
  /\ kept' = kept /\ faults' \in 0 .. MaxFaults
  /\ FinalIsWhole' /\ MarkerIsLast'
  /\ \A c \in Chunk : ChunkOK(cas', part', c)
  /\ HoldsChunk(r, cas', part') /\ HoldsTree(r, tree')

LEMMA IdleShape ==
  /\ Idle \in Workers
  /\ Idle.step = "IDLE" /\ Idle.chunk = "NONE" /\ Idle.art = "NONE"
BY StoreAssumption DEF Idle, Workers, Steps

LEMMA StepOfKeeps ==
  ASSUME StoreInv, NEW w \in Worker, NEW r, StepOf(w, r)
  PROVE  StoreInv'
<1>1. /\ worker \in [Worker -> Workers] /\ worker' = [worker EXCEPT ![w] = r] /\ r \in Workers
      /\ worker'[w] = r
  BY DEF StoreInv, TypeInv, TypeOK, StepOf, Becomes
<1>2. \A v \in Worker : v # w => worker'[v] = worker[v]
  BY <1>1
<1>3. TypeInv'
  <2>1. worker' \in [Worker -> Workers]
    BY <1>1
  <2>2. kept' \subseteq Quarantine
    BY DEF StepOf, StoreInv, TypeInv, TypeOK
  <2> QED
    BY <2>1, <2>2 DEF StepOf, DiskTypes, TypeInv, TypeOK, Trees, Tree
<1>4. Exclusive'
  <2>1. ASSUME NEW v \in Worker, v # w, worker[v].step # "IDLE", r.step # "IDLE"
        PROVE  worker[v].art # r.art
    BY <2>1, <1>1, IdleShape DEF StepOf, Becomes, ArtifactFree, StoreInv, Exclusive
  <2>2. ASSUME NEW v \in Worker, v # w, r.chunk # "NONE"
        PROVE  worker[v].chunk # r.chunk
    BY <2>2, <1>1 DEF StepOf, Becomes, ChunkFree, StoreInv, Exclusive
  <2>3. Exclusive
    BY DEF StoreInv
  <2> QED
    BY <1>1, <1>2, <2>1, <2>2, <2>3 DEF Exclusive
<1>5. WorkersOK'
  <2>1. ASSUME NEW v \in Worker, v # w
        PROVE  HoldsChunk(worker[v], cas', part') /\ HoldsTree(worker[v], tree')
    <3>1. HoldsChunk(worker[v], cas, part) /\ HoldsTree(worker[v], tree)
      BY DEF StoreInv, WorkersOK
    <3>2. worker[v].chunk # "NONE" =>
            /\ worker[v].chunk \in Chunk
            /\ cas'[worker[v].chunk] = cas[worker[v].chunk]
            /\ part'[worker[v].chunk] = part[worker[v].chunk]
      BY <1>1, <2>1 DEF StepOf, Confined, ChunkFree, StoreInv, Exclusive, Workers
    <3>3. HoldsChunk(worker[v], cas', part')
      BY <3>1, <3>2 DEF HoldsChunk
    <3>4. worker[v].step # "IDLE" =>
            worker[v].art \in Artifact /\ tree'[worker[v].art] = tree[worker[v].art]
      BY <2>1, <3>1 DEF HoldsTree, StepOf, Confined, StoreInv, Exclusive
    <3>5. HoldsTree(worker[v], tree')
      BY <3>1, <3>4 DEF HoldsTree
    <3> QED
      BY <3>3, <3>5
  <2>2. HoldsChunk(worker'[w], cas', part') /\ HoldsTree(worker'[w], tree')
    BY <1>1 DEF StepOf
  <2>3. \A v \in Worker : HoldsChunk(worker'[v], cas', part') /\ HoldsTree(worker'[v], tree')
    BY <1>2, <2>1, <2>2
  <2> QED
    BY <2>3 DEF WorkersOK, HoldsChunk, HoldsTree, AllFiles, Vouched, Exact, Scanned, Materialized, Tree
<1>6. \A c \in Chunk : ChunkOK(cas', part', c)
  BY DEF StepOf
<1> QED
  BY <1>3, <1>4, <1>5, <1>6 DEF StoreInv, StepOf, ChunkOK

----------------------------------------------------------------------------
(* The kinds of step *)

LEMMA DiskShape ==
  ASSUME StoreInv
  PROVE  /\ cas \in [Chunk -> ChunkNames] /\ part \in [Chunk -> PartFiles]
         /\ tree \in [Artifact -> Trees] /\ final \in [Artifact -> Trees]
         /\ \A a \in Artifact : tree[a] \in Tree(a) \cup {NoTree} /\ final[a] \in Tree(a) \cup {NoTree}
         /\ kept \subseteq Quarantine
         /\ worker \in [Worker -> Workers] /\ faults \in 0 .. MaxFaults
         /\ FinalIsWhole /\ MarkerIsLast
         /\ \A c \in Chunk : ChunkOK(cas, part, c)
BY DEF StoreInv, TypeInv, TypeOK

LEMMA RowShape ==
  ASSUME StoreInv, NEW w \in Worker
  PROVE  /\ worker[w] \in Workers
         /\ worker[w].art \in Artifact \cup {"NONE"} /\ worker[w].chunk \in Chunk \cup {"NONE"}
         /\ worker[w].tries \in 1 .. Attempts /\ worker[w].todo \subseteq Chunk
         /\ HoldsChunk(worker[w], cas, part) /\ HoldsTree(worker[w], tree)
BY DEF StoreInv, TypeInv, TypeOK, WorkersOK, Workers

LEMMA IdleHolds == ASSUME NEW cs, NEW pt, NEW tr PROVE HoldsChunk(Idle, cs, pt) /\ HoldsTree(Idle, tr)
BY IdleShape DEF HoldsChunk, HoldsTree

(* Its locks are the process's own, or were free.                              *)
Locked(w, r) ==
  /\ r = Idle \/ (worker[w].step # "IDLE" /\ r.art = worker[w].art) \/ ArtifactFree(r.art)
  /\ r.chunk \in {"NONE", worker[w].chunk} \/ ChunkFree(r.chunk)
TreesKept == tree' = tree /\ final' = final /\ kept' = kept

(* A step that leaves the disk alone.                                          *)
LEMMA QuietStep ==
  ASSUME StoreInv, NEW w \in Worker, NEW r \in Workers,
         worker' = [worker EXCEPT ![w] = r], UNCHANGED disk, faults' \in 0 .. MaxFaults,
         Locked(w, r), HoldsChunk(r, cas, part), HoldsTree(r, tree)
  PROVE  StepOf(w, r)
<1>1. cas' = cas /\ part' = part /\ tree' = tree /\ final' = final /\ kept' = kept
  BY DEF disk
<1>2. FinalIsWhole' /\ MarkerIsLast'
  BY <1>1, DiskShape DEF FinalIsWhole, MarkerIsLast, Exact, Scanned, Materialized, Empty, Complete
<1>3. DiskTypes
  BY <1>1, DiskShape DEF DiskTypes
<1>4. \A c \in Chunk : ChunkOK(cas', part', c)
  BY <1>1, DiskShape
<1>5. HoldsChunk(r, cas', part') /\ HoldsTree(r, tree')
  BY <1>1
<1> QED
  BY <1>1, <1>2, <1>3, <1>4, <1>5 DEF StepOf, Becomes, Confined, Locked

(* A step on one chunk, whose lock the process holds or may take.               *)
LEMMA ChunkStep ==
  ASSUME StoreInv, NEW w \in Worker, NEW r \in Workers, NEW c \in Chunk,
         NEW name \in ChunkNames, NEW p \in PartFiles,
         worker' = [worker EXCEPT ![w] = r],
         cas' = [cas EXCEPT ![c] = name], part' = [part EXCEPT ![c] = p], TreesKept,
         faults' \in 0 .. MaxFaults,
         worker[w].chunk = c \/ ChunkFree(c),
         Locked(w, r), HoldsChunk(r, cas', part'), HoldsTree(r, tree),
         name = "LINKED" => p = "FULL", name = "STORED" => p = "NONE"
  PROVE  StepOf(w, r)
<1>1. /\ cas' \in [Chunk -> ChunkNames] /\ part' \in [Chunk -> PartFiles]
      /\ cas'[c] = name /\ part'[c] = p
      /\ \A d \in Chunk : d # c => cas'[d] = cas[d] /\ part'[d] = part[d]
  BY DiskShape
<1>2. FinalIsWhole' /\ MarkerIsLast'
  BY DiskShape DEF TreesKept, FinalIsWhole, MarkerIsLast, Exact, Scanned, Materialized, Empty, Complete
<1>3. DiskTypes
  BY <1>1, DiskShape DEF DiskTypes, TreesKept
<1>4. \A d \in Chunk : ChunkOK(cas', part', d)
  BY <1>1, DiskShape DEF ChunkOK
<1>5. Confined(w)
  BY <1>1 DEF Confined, TreesKept
<1>6. HoldsTree(r, tree')
  BY DEF TreesKept
<1> QED
  BY <1>2, <1>3, <1>4, <1>5, <1>6 DEF StepOf, Becomes, Locked, TreesKept

(* A step on the staging tree of the process's own artifact.                    *)
LEMMA TreeStep ==
  ASSUME StoreInv, NEW w \in Worker, NEW r \in Workers, NEW a \in Artifact, NEW t \in Tree(a),
         worker' = [worker EXCEPT ![w] = r],
         worker[w].step # "IDLE", worker[w].art = a, r.art = a, r.chunk = worker[w].chunk,
         tree' = [tree EXCEPT ![a] = t], UNCHANGED <<cas, part, final, kept>>,
         faults' \in 0 .. MaxFaults,
         HoldsChunk(r, cas, part), HoldsTree(r, tree'),
         t.marker = "DONE" => AllFiles(a, t) /\ (a \in Staged => t.sidecar = "DONE")
  PROVE  StepOf(w, r)
<1>1. /\ tree'[a] = t /\ \A b \in Artifact : b # a => tree'[b] = tree[b]
      /\ tree' \in [Artifact -> Trees]
  BY DiskShape DEF Trees
<1>2. FinalIsWhole'
  BY DiskShape DEF FinalIsWhole, Exact, Scanned, Materialized, Empty
<1>3. MarkerIsLast'
  BY <1>1, DiskShape DEF MarkerIsLast, Complete, AllFiles
<1>4. DiskTypes
  BY <1>1, DiskShape DEF DiskTypes
<1>5. Confined(w)
  BY <1>1 DEF Confined
<1>6. \A c \in Chunk : ChunkOK(cas', part', c)
  BY DiskShape
<1>7. HoldsChunk(r, cas', part')
  OBVIOUS
<1> QED
  BY <1>2, <1>3, <1>4, <1>5, <1>6, <1>7 DEF StepOf, Becomes

(* A process that ends, well or badly.                                          *)
LEMMA Ends ==
  ASSUME StoreInv, NEW w \in Worker, Release(w), UNCHANGED disk, faults' \in 0 .. MaxFaults
  PROVE  StepOf(w, Idle)
BY QuietStep, IdleShape, IdleHolds DEF Release, Locked

(* A process that goes on to a step where it relies on no more of the disk.      *)
LEMMA RowStep ==
  ASSUME StoreInv, NEW w \in Worker, NEW s \in Steps, GoTo(w, s)
  PROVE  LET r == [worker[w] EXCEPT !.step = s]
         IN  /\ r \in Workers /\ worker' = [worker EXCEPT ![w] = r]
             /\ r.step = s /\ r.art = worker[w].art /\ r.chunk = worker[w].chunk
             /\ r.todo = worker[w].todo /\ r.tries = worker[w].tries
BY RowShape DEF GoTo, Workers

LEMMA ActiveIsAt ==
  ASSUME NEW w \in Worker, NEW s, At(w, s)
  PROVE  worker[w].step = s
BY DEF At

----------------------------------------------------------------------------
(* Beginning, ending and the download *)

LEMMA StartStep ==
  ASSUME StoreInv, NEW w \in Worker, NEW a \in Artifact, Start(w, a)
  PROVE  \E r : StepOf(w, r)
<1> DEFINE r == [Idle EXCEPT !.step = "INSPECT", !.art = a]
<1>1. r \in Workers /\ r.step = "INSPECT" /\ r.art = a /\ r.chunk = "NONE"
  BY IdleShape DEF Idle, Workers, Steps
<1>2. worker' = [worker EXCEPT ![w] = r] /\ UNCHANGED disk /\ faults' = faults /\ ArtifactFree(a)
  BY DEF Start
<1> HIDE DEF r
<1>3. Locked(w, r)
  BY <1>1, <1>2 DEF Locked
<1>4. HoldsChunk(r, cas, part) /\ HoldsTree(r, tree)
  BY <1>1 DEF HoldsChunk, HoldsTree
<1> QED
  BY <1>1, <1>2, <1>3, <1>4, QuietStep, DiskShape

(* A step that only moves the process, to one that relies on nothing of its chunk. *)
LEMMA MoveStep ==
  ASSUME StoreInv, NEW w \in Worker, worker[w].step # "IDLE",
         NEW s \in Steps, GoTo(w, s), UNCHANGED <<disk, faults>>,
         s \notin {"RECEIVE", "PUBLISH", "UNLINK", "IDLE"}, worker[w].chunk = "NONE",
         s \in {"COPY", "SIDECAR", "MARKER", "VERIFY", "ACTIVATE"} =>
             tree[worker[w].art] \in Tree(worker[w].art),
         s \notin {"SIDECAR", "MARKER"},
         s = "ACTIVATE" => Exact(worker[w].art, tree[worker[w].art])
  PROVE  \E r : StepOf(w, r)
<1> DEFINE r == [worker[w] EXCEPT !.step = s]
<1>1. /\ r \in Workers /\ worker' = [worker EXCEPT ![w] = r]
      /\ r.step = s /\ r.art = worker[w].art /\ r.chunk = worker[w].chunk
  BY RowStep
<1> HIDE DEF r
<1>2. Locked(w, r)
  BY <1>1 DEF Locked
<1>3. HoldsChunk(r, cas, part) /\ HoldsTree(r, tree)
  BY <1>1, RowShape DEF HoldsChunk, HoldsTree
<1> QED
  BY <1>1, <1>2, <1>3, QuietStep, DiskShape

LEMMA InspectStep ==
  ASSUME StoreInv, NEW w \in Worker, InspectStaging(w)
  PROVE  \E r : StepOf(w, r)
<1> DEFINE a == worker[w].art
<1>1. At(w, "INSPECT") /\ worker[w].step = "INSPECT" /\ faults' = faults
  BY DEF InspectStaging, At
<1>2. CASE End(w)
  BY <1>1, <1>2, Ends, DiskShape DEF End
<1>3. CASE ~End(w)
  <2> DEFINE r == IF Complete(a, tree[a]) THEN [worker[w] EXCEPT !.step = "ASSEMBLE"]
                  ELSE [worker[w] EXCEPT !.step = "DOWNLOAD", !.todo = UniqueChunks(a)]
  <2>1. worker' = [worker EXCEPT ![w] = r] /\ UNCHANGED disk
    <3>1. worker \in [Worker -> Workers]
      BY DiskShape
    <3> QED
      BY <1>3, <3>1 DEF InspectStaging
  <2>2. a \in Artifact
    BY <1>1, RowShape DEF HoldsTree
  <2>3. UniqueChunks(a) \subseteq Chunk
    BY <2>2, StoreAssumption DEF UniqueChunks
  <2>4. r \in Workers /\ r.step \in {"ASSEMBLE", "DOWNLOAD"} /\ r.art = a /\ r.chunk = worker[w].chunk
    <3>1. worker[w] \in Workers
      BY RowShape
    <3>2. CASE Complete(a, tree[a])
      <4>1. r = [worker[w] EXCEPT !.step = "ASSEMBLE"]
        BY <3>2
      <4> QED
        BY <3>1, <4>1 DEF Workers, Steps
    <3>3. CASE ~Complete(a, tree[a])
      <4>1. r = [worker[w] EXCEPT !.step = "DOWNLOAD", !.todo = UniqueChunks(a)]
        BY <3>3
      <4> QED
        BY <3>1, <4>1, <2>3 DEF Workers, Steps
    <3> QED
      BY <3>2, <3>3
  <2> HIDE DEF r
  <2>5. Locked(w, r)
    BY <2>4, <1>1 DEF Locked
  <2>6. HoldsChunk(r, cas, part) /\ HoldsTree(r, tree)
    BY <2>4, <2>2, <1>1, RowShape DEF HoldsChunk, HoldsTree
  <2> QED
    BY <1>1, <2>1, <2>4, <2>5, <2>6, QuietStep, DiskShape
<1> QED
  BY <1>2, <1>3

LEMMA UseStoredStep ==
  ASSUME StoreInv, NEW w \in Worker, NEW c \in Chunk, UseStored(w, c)
  PROVE  \E r : StepOf(w, r)
<1> DEFINE r == [worker[w] EXCEPT !.todo = @ \ {c}]
           p == IF cas[c] = "LINKED" THEN "NONE" ELSE part[c]
<1>1. worker[w].step = "DOWNLOAD" /\ ChunkFree(c) /\ cas[c] \in {"LINKED", "STORED"}
  BY DiskShape DEF UseStored, At, ChunkNames
<1>2. r \in Workers /\ r.step = "DOWNLOAD" /\ r.art = worker[w].art /\ r.chunk = worker[w].chunk
  BY <1>1, RowShape DEF Workers
<1>3. worker' = [worker EXCEPT ![w] = r]
  BY DEF UseStored
<1>4. cas' = [cas EXCEPT ![c] = "STORED"] /\ part' = [part EXCEPT ![c] = p]
  BY DiskShape DEF UseStored
<1>5. TreesKept /\ faults' = faults
  BY DEF UseStored, TreesKept
<1>6. p = "NONE"
  BY <1>1, DiskShape DEF ChunkOK
<1> HIDE DEF r, p
<1>7. Locked(w, r)
  BY <1>1, <1>2 DEF Locked
<1>8. HoldsChunk(r, cas', part') /\ HoldsTree(r, tree)
  BY <1>1, <1>2, RowShape DEF HoldsChunk, HoldsTree
<1>9. p \in PartFiles /\ "STORED" \in ChunkNames
  BY <1>6 DEF PartFiles, ChunkNames
<1> QED
  BY <1>1, <1>2, <1>3, <1>4, <1>5, <1>6, <1>7, <1>8, <1>9, ChunkStep, DiskShape

LEMMA OpenPartialStep ==
  ASSUME StoreInv, NEW w \in Worker, NEW c \in Chunk, OpenPartial(w, c)
  PROVE  \E r : StepOf(w, r)
<1> DEFINE r == [worker[w] EXCEPT !.step = "RECEIVE", !.chunk = c, !.tries = Attempts]
           p == IF part[c] = "NONE" THEN "PREFIX" ELSE part[c]
<1>1. worker[w].step = "DOWNLOAD" /\ ChunkFree(c) /\ cas[c] = "NONE"
  BY DEF OpenPartial, At
<1>2. r \in Workers /\ r.step = "RECEIVE" /\ r.art = worker[w].art /\ r.chunk = c
  <2>1. worker[w] \in Workers /\ Attempts \in 1 .. Attempts
    BY RowShape, StoreAssumption
  <2> QED
    BY <2>1 DEF Workers, Steps
<1>3. worker' = [worker EXCEPT ![w] = r]
  BY DiskShape DEF OpenPartial
<1>4. cas' = [cas EXCEPT ![c] = "NONE"] /\ part' = [part EXCEPT ![c] = p]
  BY <1>1, DiskShape DEF OpenPartial
<1>5. TreesKept /\ faults' = faults
  BY DEF OpenPartial, TreesKept
<1>6. p \in PartFiles /\ p # "NONE" /\ "NONE" \in ChunkNames
  BY DiskShape DEF PartFiles, ChunkNames
<1>7. cas'[c] = "NONE" /\ part'[c] = p
  BY <1>4, DiskShape
<1> HIDE DEF r, p
<1>8. Locked(w, r)
  BY <1>1, <1>2 DEF Locked
<1>9. HoldsChunk(r, cas', part') /\ HoldsTree(r, tree)
  BY <1>1, <1>2, <1>6, <1>7, RowShape, StoreAssumption DEF HoldsChunk, HoldsTree
<1> QED
  BY <1>1, <1>2, <1>3, <1>4, <1>5, <1>6, <1>8, <1>9, ChunkStep, DiskShape

(* The chunk of a process that is at one.                                       *)
LEMMA ChunkAt ==
  ASSUME StoreInv, NEW w \in Worker, worker[w].step \in {"RECEIVE", "PUBLISH", "UNLINK"}
  PROVE  /\ worker[w].chunk \in Chunk /\ worker[w].chunk # "NONE"
         /\ worker[w].art \in Artifact
         /\ worker[w].step \in {"RECEIVE", "PUBLISH"} => cas[worker[w].chunk] = "NONE"
         /\ worker[w].step = "PUBLISH" => part[worker[w].chunk] = "FULL"
BY RowShape DEF HoldsChunk, HoldsTree

(* The .part of the chunk changes, the process receives on or is Idle.          *)
LEMMA PartStep ==
  ASSUME StoreInv, NEW w \in Worker, worker[w].step = "RECEIVE",
         NEW p \in PartFiles, p # "NONE",
         part' = [part EXCEPT ![worker[w].chunk] = p], cas' = cas, TreesKept,
         faults' \in 0 .. MaxFaults,
         NEW r \in Workers, worker' = [worker EXCEPT ![w] = r],
         r = Idle \/ (r.step = "RECEIVE" /\ r.chunk = worker[w].chunk /\ r.art = worker[w].art)
  PROVE  StepOf(w, r)
<1> DEFINE c == worker[w].chunk
<1>1. c \in Chunk /\ c # "NONE" /\ cas[c] = "NONE" /\ worker[w].art \in Artifact
  BY ChunkAt
<1>2. cas' = [cas EXCEPT ![c] = "NONE"] /\ cas'[c] = "NONE" /\ part'[c] = p
  BY <1>1, DiskShape
<1>3. Locked(w, r)
  BY IdleShape DEF Locked
<1>4. HoldsChunk(r, cas', part') /\ HoldsTree(r, tree)
  <2>1. CASE r = Idle
    BY <2>1, IdleHolds
  <2>2. CASE r # Idle
    BY <2>2, <1>1, <1>2 DEF HoldsChunk, HoldsTree
  <2> QED
    BY <2>1, <2>2
<1>5. "NONE" \in ChunkNames
  BY DEF ChunkNames
<1> HIDE DEF c
<1> QED
  BY <1>1, <1>2, <1>3, <1>4, <1>5, ChunkStep DEF c

LEMMA ReceiveStep ==
  ASSUME StoreInv, NEW w \in Worker, Receive(w)
  PROVE  \E r : StepOf(w, r)
<1>1. worker[w].step = "RECEIVE" /\ cas' = cas /\ worker' = worker /\ TreesKept
  BY DEF Receive, At, TreesKept
<1>2. PICK p \in {"FULL", "BAD"} : part' = [part EXCEPT ![worker[w].chunk] = p]
  BY DEF Receive
<1>3. faults' \in 0 .. MaxFaults
  BY DiskShape, StoreAssumption DEF Receive
<1>4. worker' = [worker EXCEPT ![w] = worker[w]] /\ worker[w] \in Workers
  BY <1>1, DiskShape
<1>5. p \in PartFiles /\ p # "NONE"
  BY <1>2 DEF PartFiles
<1> QED
  BY <1>1, <1>2, <1>3, <1>4, <1>5, PartStep

LEMMA DownloadFailedStep ==
  ASSUME StoreInv, NEW w \in Worker, worker[w].step = "RECEIVE",
         NEW reset \in BOOLEAN, DownloadFailed(w, reset), faults' \in 0 .. MaxFaults
  PROVE  \E r : StepOf(w, r)
<1> DEFINE c == worker[w].chunk
           p == IF reset THEN "PREFIX" ELSE part[c]
<1>1. c \in Chunk /\ cas' = cas /\ TreesKept
  BY ChunkAt DEF DownloadFailed, TreesKept
<1>2. part' = [part EXCEPT ![c] = p]
  BY <1>1, DiskShape DEF DownloadFailed, ResetPart
<1>3. p \in PartFiles /\ p # "NONE"
  BY <1>1, DiskShape, RowShape DEF PartFiles, HoldsChunk
<1> HIDE DEF p, c
<1>4. CASE LastTry(w)
  <2>1. worker' = [worker EXCEPT ![w] = Idle]
    BY <1>4 DEF DownloadFailed, Release
  <2> QED
    BY <1>1, <1>2, <1>3, <2>1, PartStep, IdleShape DEF c
<1>5. CASE ~LastTry(w)
  <2> DEFINE r == [worker[w] EXCEPT !.tries = @ - 1]
  <2>1. worker' = [worker EXCEPT ![w] = r]
    BY <1>5 DEF DownloadFailed
  <2>2. worker[w].tries - 1 \in 1 .. Attempts
    BY <1>5, RowShape, StoreAssumption DEF LastTry
  <2>3. r \in Workers /\ r.step = "RECEIVE" /\ r.chunk = worker[w].chunk /\ r.art = worker[w].art
    BY <2>2, RowShape DEF Workers
  <2> HIDE DEF r
  <2> QED
    BY <1>1, <1>2, <1>3, <2>1, <2>3, PartStep DEF c
<1> QED
  BY <1>4, <1>5

LEMMA CheckDigestStep ==
  ASSUME StoreInv, NEW w \in Worker, CheckDigest(w)
  PROVE  \E r : StepOf(w, r)
<1>1. worker[w].step = "RECEIVE" /\ faults' = faults /\ faults' \in 0 .. MaxFaults
  BY DiskShape DEF CheckDigest, At
<1>2. CASE DigestMatches(part[worker[w].chunk])
  <2> DEFINE r == [worker[w] EXCEPT !.step = "PUBLISH"]
  <2>1. GoTo(w, "PUBLISH") /\ UNCHANGED disk
    BY <1>2 DEF CheckDigest
  <2>2. "PUBLISH" \in Steps
    BY DEF Steps
  <2>3. /\ r \in Workers /\ worker' = [worker EXCEPT ![w] = r]
        /\ r.step = "PUBLISH" /\ r.art = worker[w].art /\ r.chunk = worker[w].chunk
    BY <2>1, <2>2, RowStep
  <2> HIDE DEF r
  <2>4. Locked(w, r)
    BY <2>3, <1>1 DEF Locked
  <2>5. HoldsChunk(r, cas, part) /\ HoldsTree(r, tree)
    BY <1>1, <1>2, <2>3, ChunkAt, RowShape DEF HoldsChunk, HoldsTree, DigestMatches
  <2> QED
    BY <1>1, <2>1, <2>3, <2>4, <2>5, QuietStep
<1>3. CASE ~DigestMatches(part[worker[w].chunk])
  BY <1>1, <1>3, DownloadFailedStep DEF CheckDigest
<1> QED
  BY <1>2, <1>3

LEMMA LinkStep ==
  ASSUME StoreInv, NEW w \in Worker, Link(w)
  PROVE  \E r : StepOf(w, r)
<1> DEFINE c == worker[w].chunk
           r == [worker[w] EXCEPT !.step = "UNLINK"]
<1>1. worker[w].step = "PUBLISH" /\ cas' = [cas EXCEPT ![c] = "LINKED"] /\ part' = part
      /\ faults' = faults /\ TreesKept /\ GoTo(w, "UNLINK")
  BY DEF Link, At, TreesKept
<1>2. c \in Chunk /\ c # "NONE" /\ part[c] = "FULL" /\ worker[w].art \in Artifact
  BY <1>1, ChunkAt
<1>3. "UNLINK" \in Steps
  BY DEF Steps
<1>4. /\ r \in Workers /\ worker' = [worker EXCEPT ![w] = r]
      /\ r.step = "UNLINK" /\ r.art = worker[w].art /\ r.chunk = worker[w].chunk
  BY <1>1, <1>3, RowStep
<1> HIDE DEF r
<1>5. part' = [part EXCEPT ![c] = "FULL"] /\ cas'[c] = "LINKED"
  BY <1>1, <1>2, DiskShape
<1>6. Locked(w, r)
  BY <1>1, <1>4 DEF Locked
<1>7. HoldsChunk(r, cas', part') /\ HoldsTree(r, tree)
  BY <1>2, <1>4, <1>5 DEF HoldsChunk, HoldsTree
<1>8. "LINKED" \in ChunkNames /\ "FULL" \in PartFiles
  BY DEF ChunkNames, PartFiles
<1> HIDE DEF c
<1> QED
  BY <1>1, <1>2, <1>4, <1>5, <1>6, <1>7, <1>8, ChunkStep, DiskShape DEF c

LEMMA UnlinkStep ==
  ASSUME StoreInv, NEW w \in Worker, Unlink(w)
  PROVE  \E r : StepOf(w, r)
<1> DEFINE c == worker[w].chunk
           r == [worker[w] EXCEPT !.step = "DOWNLOAD", !.chunk = "NONE", !.todo = @ \ {c}]
<1>1. worker[w].step = "UNLINK" /\ faults' = faults /\ TreesKept
      /\ cas' = [cas EXCEPT ![c] = "STORED"] /\ part' = [part EXCEPT ![c] = "NONE"]
      /\ worker' = [worker EXCEPT ![w] = r]
  BY DiskShape DEF Unlink, At, TreesKept
<1>2. c \in Chunk /\ worker[w].art \in Artifact
  BY <1>1, ChunkAt
<1>3. r \in Workers /\ r.step = "DOWNLOAD" /\ r.chunk = "NONE" /\ r.art = worker[w].art
  BY RowShape DEF Workers, Steps
<1> HIDE DEF r
<1>4. Locked(w, r)
  BY <1>1, <1>3 DEF Locked
<1>5. HoldsChunk(r, cas', part') /\ HoldsTree(r, tree)
  BY <1>2, <1>3 DEF HoldsChunk, HoldsTree
<1>6. "STORED" \in ChunkNames /\ "NONE" \in PartFiles
  BY DEF ChunkNames, PartFiles
<1> HIDE DEF c
<1> QED
  BY <1>1, <1>2, <1>3, <1>4, <1>5, <1>6, ChunkStep, DiskShape DEF c

LEMMA DownloadedStep ==
  ASSUME StoreInv, NEW w \in Worker, Downloaded(w)
  PROVE  \E r : StepOf(w, r)
<1>1. worker[w].step = "DOWNLOAD" /\ GoTo(w, "ASSEMBLE") /\ UNCHANGED <<disk, faults>>
  BY DEF Downloaded, At
<1>2. worker[w].chunk = "NONE" /\ "ASSEMBLE" \in Steps
  BY <1>1, RowShape DEF HoldsChunk, Steps
<1> QED
  BY <1>1, <1>2, MoveStep

----------------------------------------------------------------------------
(* The assembly *)

LEMMA TreeFields ==
  ASSUME NEW a \in Artifact, NEW t \in Tree(a)
  PROVE  /\ t.files \in [FilesOf[a] -> Parts] /\ t.work \in BOOLEAN
         /\ t.sidecar \in Parts /\ t.marker \in Parts
BY DEF Tree

(* The staging tree of a process that assembles.                               *)
LEMMA HereShape ==
  ASSUME StoreInv, NEW w \in Worker,
         worker[w].step \in {"ASSEMBLE", "COPY", "SIDECAR", "MARKER", "VERIFY", "ACTIVATE"}
  PROVE  /\ worker[w].art \in Artifact /\ worker[w].chunk = "NONE"
         /\ Here(w) \in Tree(worker[w].art) \cup {NoTree}
         /\ worker[w].step # "ASSEMBLE" => Here(w) \in Tree(worker[w].art)
         /\ Here(w) # NoTree /\ Here(w).marker = "DONE" =>
              /\ \A f \in FilesOf[worker[w].art] : Here(w).files[f] = "DONE"
              /\ worker[w].art \in Staged => Here(w).sidecar = "DONE"
BY RowShape, DiskShape DEF HoldsChunk, HoldsTree, Here, MarkerIsLast, Complete

(* A step of the assembly: the tree becomes t, the process is at s.             *)
LEMMA AssembleStep ==
  ASSUME StoreInv, NEW w \in Worker,
         worker[w].step \in {"ASSEMBLE", "COPY", "SIDECAR", "MARKER"},
         NEW s \in Steps, s \in {"COPY", "SIDECAR", "MARKER", "VERIFY"},
         GoTo(w, s) \/ (worker' = worker /\ worker[w].step = s),
         NEW t \in Tree(worker[w].art), SetTree(w, t),
         UNCHANGED <<cas, part, final, kept, faults>>,
         s \in {"SIDECAR", "MARKER"} => AllFiles(worker[w].art, t),
         s = "MARKER" => Vouched(worker[w].art, t),
         t.marker = "DONE" => Vouched(worker[w].art, t)
  PROVE  \E r : StepOf(w, r)
<1> DEFINE a == worker[w].art
           r == [worker[w] EXCEPT !.step = s]
<1>1. a \in Artifact /\ worker[w].chunk = "NONE" /\ worker[w].step # "IDLE"
  BY HereShape
<1>2. /\ r \in Workers /\ worker' = [worker EXCEPT ![w] = r]
      /\ r.step = s /\ r.art = a /\ r.chunk = worker[w].chunk
  <2>1. CASE GoTo(w, s)
    BY <2>1, RowStep
  <2>2. CASE worker' = worker /\ worker[w].step = s
    <3>1. worker[w] \in Workers /\ worker \in [Worker -> Workers]
      BY DiskShape
    <3>2. r = worker[w]
      BY <2>2, <3>1 DEF Workers
    <3> HIDE DEF r
    <3> QED
      BY <2>2, <3>1, <3>2
  <2> QED
    BY <2>1, <2>2
<1>3. tree' = [tree EXCEPT ![a] = t] /\ tree'[a] = t
  BY <1>1, DiskShape DEF SetTree
<1> HIDE DEF r
<1>4. HoldsChunk(r, cas, part)
  BY <1>1, <1>2 DEF HoldsChunk
<1>5. HoldsTree(r, tree')
  BY <1>1, <1>2, <1>3 DEF HoldsTree
<1>6. t.marker = "DONE" => AllFiles(a, t) /\ (a \in Staged => t.sidecar = "DONE")
  BY DEF Vouched
<1>7. faults' \in 0 .. MaxFaults /\ UNCHANGED <<cas, part, final, kept>> /\ t \in Tree(a)
  BY DiskShape
<1> HIDE DEF a
<1> QED
  BY <1>1, <1>2, <1>3, <1>4, <1>5, <1>6, <1>7, TreeStep DEF a

LEMMA CreateDirectoriesStep ==
  ASSUME StoreInv, NEW w \in Worker, CreateDirectories(w)
  PROVE  \E r : StepOf(w, r)
<1> DEFINE a == worker[w].art
           u == IF Here(w) = NoTree THEN Empty(a) ELSE Here(w)
           t == [u EXCEPT !.work = TRUE]
<1>1. worker[w].step = "ASSEMBLE" /\ SetTree(w, t) /\ GoTo(w, "COPY")
      /\ UNCHANGED <<cas, part, final, kept, faults>>
  BY DEF CreateDirectories, At
<1>2. a \in Artifact
  BY <1>1, HereShape
<1>3. /\ u \in Tree(a)
      /\ u.marker = "DONE" => Vouched(a, u)
  <2>1. Empty(a) \in Tree(a) /\ Empty(a).marker = "NONE"
    BY DEF Empty, Tree, Parts
  <2>2. CASE Here(w) = NoTree
    BY <2>1, <2>2
  <2>3. CASE Here(w) # NoTree
    BY <1>1, <2>3, HereShape DEF Vouched, AllFiles
  <2> QED
    BY <2>2, <2>3
<1> HIDE DEF u
<1>4. t \in Tree(a) /\ t.marker = u.marker /\ t.files = u.files /\ t.sidecar = u.sidecar
  BY <1>3 DEF Tree
<1> HIDE DEF t
<1>5. t.marker = "DONE" => Vouched(a, t)
  BY <1>3, <1>4 DEF Vouched, AllFiles
<1>6. "COPY" \in Steps
  BY DEF Steps
<1> QED
  BY <1>1, <1>4, <1>5, <1>6, AssembleStep

LEMMA CopyFileStep ==
  ASSUME StoreInv, NEW w \in Worker, NEW f \in File, CopyFile(w, f)
  PROVE  \E r : StepOf(w, r)
<1> DEFINE a == worker[w].art
           p == IF Here(w).files[f] = "NONE" THEN "PART" ELSE "DONE"
           t == [Here(w) EXCEPT !.files[f] = p]
<1>1. worker[w].step = "COPY" /\ f \in FilesOf[a] /\ Here(w).files[f] # "DONE" /\ faults' = faults
  BY DEF CopyFile, At
<1>2. CASE End(w)
  BY <1>1, <1>2, Ends, DiskShape DEF End
<1>3. CASE ~End(w)
  <2>1. /\ Here(w) \in Tree(a) /\ a \in Artifact
        /\ Here(w) # NoTree /\ Here(w).marker = "DONE" => AllFiles(a, Here(w))
    BY <1>1, HereShape DEF AllFiles
  <2>2. Here(w).marker # "DONE" \/ Here(w) = NoTree
    BY <1>1, <2>1 DEF AllFiles
  <2>3. SetTree(w, t) /\ UNCHANGED <<cas, part, final, kept, worker, faults>>
    BY <1>1, <1>3 DEF CopyFile
  <2>4. p \in Parts
    BY DEF Parts
  <2> HIDE DEF p
  <2>5. t \in Tree(a) /\ t.marker = Here(w).marker
    BY <2>1, <2>4, <1>1 DEF Tree
  <2> HIDE DEF t
  <2>6. "COPY" \in Steps
    BY DEF Steps
  <2>7. Here(w) # NoTree
    BY <2>1, NoTreeAssumption
  <2> QED
    BY <1>1, <2>2, <2>3, <2>5, <2>6, <2>7, AssembleStep
<1> QED
  BY <1>2, <1>3

LEMMA RemoveWorkStep ==
  ASSUME StoreInv, NEW w \in Worker, RemoveWork(w)
  PROVE  \E r : StepOf(w, r)
<1> DEFINE a == worker[w].art
           t == [Here(w) EXCEPT !.work = FALSE]
           s == AfterFiles(a)
<1>1. worker[w].step = "COPY" /\ SetTree(w, t) /\ GoTo(w, s) /\ Complete(a, Here(w))
      /\ UNCHANGED <<cas, part, final, kept, faults>>
  BY DEF RemoveWork, At
<1>2. Here(w) \in Tree(a) /\ a \in Artifact /\ Here(w) # NoTree /\ AllFiles(a, Here(w))
  BY <1>1, HereShape DEF AllFiles, Complete
<1>3. /\ t \in Tree(a) /\ t.marker = Here(w).marker /\ t.files = Here(w).files
      /\ t.sidecar = Here(w).sidecar
  BY <1>2 DEF Tree
<1> HIDE DEF t
<1>4. AllFiles(a, t)
  BY <1>2, <1>3 DEF AllFiles
<1>5. t.marker = "DONE" => Vouched(a, t)
  BY <1>1, <1>2, <1>3, <1>4, HereShape DEF Vouched
<1>6. s \in Steps /\ s \in {"SIDECAR", "MARKER"} /\ (s = "MARKER" => a \notin Staged)
  BY DEF Steps, AfterFiles
<1> HIDE DEF s
<1>7. s = "MARKER" => Vouched(a, t)
  BY <1>4, <1>6 DEF Vouched
<1> QED
  BY <1>1, <1>3, <1>4, <1>5, <1>6, <1>7, AssembleStep

LEMMA WriteSidecarStep ==
  ASSUME StoreInv, NEW w \in Worker, WriteSidecar(w)
  PROVE  \E r : StepOf(w, r)
<1> DEFINE a == worker[w].art
           g == Grown(Here(w).sidecar)
           t == [Here(w) EXCEPT !.sidecar = g]
<1>1. worker[w].step = "SIDECAR" /\ SetTree(w, t) /\ UNCHANGED <<cas, part, final, kept, faults>>
      /\ (IF g = "DONE" THEN GoTo(w, "MARKER") ELSE UNCHANGED worker)
  BY DEF WriteSidecar, At
<1>2. Here(w) \in Tree(a) /\ a \in Artifact /\ AllFiles(a, Here(w))
  BY <1>1, HereShape, RowShape DEF HoldsTree, Here
<1>3. g \in Parts /\ (Here(w).sidecar = "DONE" => g = "DONE")
  BY DEF Grown, Parts
<1> HIDE DEF g
<1>4. t \in Tree(a) /\ t.marker = Here(w).marker /\ t.files = Here(w).files /\ t.sidecar = g
  BY <1>2, <1>3 DEF Tree
<1> HIDE DEF t
<1>5. AllFiles(a, t) /\ Here(w) # NoTree
  BY <1>2, <1>4, NoTreeAssumption DEF AllFiles
<1>6. t.marker = "DONE" => Vouched(a, t)
  BY <1>1, <1>3, <1>4, <1>5, HereShape DEF Vouched
<1>7. "SIDECAR" \in Steps /\ "MARKER" \in Steps
  BY DEF Steps
<1>8. CASE g = "DONE"
  <2>1. Vouched(a, t)
    BY <1>4, <1>5, <1>8 DEF Vouched
  <2>2. GoTo(w, "MARKER")
    BY <1>1, <1>8
  <2> QED
    BY <1>1, <1>4, <1>5, <1>7, <2>1, <2>2, AssembleStep
<1>9. CASE g # "DONE"
  <2>1. worker' = worker
    BY <1>1, <1>9
  <2> QED
    BY <1>1, <1>4, <1>5, <1>6, <1>7, <2>1, AssembleStep
<1> QED
  BY <1>8, <1>9

LEMMA WriteMarkerStep ==
  ASSUME StoreInv, NEW w \in Worker, WriteMarker(w)
  PROVE  \E r : StepOf(w, r)
<1> DEFINE a == worker[w].art
           g == Grown(Here(w).marker)
           t == [Here(w) EXCEPT !.marker = g]
<1>1. worker[w].step = "MARKER" /\ SetTree(w, t) /\ UNCHANGED <<cas, part, final, kept, faults>>
      /\ (IF g = "DONE" THEN GoTo(w, "VERIFY") ELSE UNCHANGED worker)
  BY DEF WriteMarker, At
<1>2. Here(w) \in Tree(a) /\ a \in Artifact /\ Vouched(a, Here(w))
  BY <1>1, HereShape, RowShape DEF HoldsTree, Here
<1>3. g \in Parts
  BY DEF Grown, Parts
<1> HIDE DEF g
<1>4. t \in Tree(a) /\ t.files = Here(w).files /\ t.sidecar = Here(w).sidecar
  BY <1>2, <1>3 DEF Tree
<1> HIDE DEF t
<1>5. Vouched(a, t) /\ AllFiles(a, t)
  BY <1>2, <1>4 DEF Vouched, AllFiles
<1>6. "MARKER" \in Steps /\ "VERIFY" \in Steps
  BY DEF Steps
<1>7. GoTo(w, "VERIFY") \/ worker' = worker
  BY <1>1
<1> QED
  BY <1>1, <1>4, <1>5, <1>6, <1>7, AssembleStep

LEMMA VerifyStep ==
  ASSUME StoreInv, NEW w \in Worker, VerifyStaging(w)
  PROVE  \E r : StepOf(w, r)
<1>1. worker[w].step = "VERIFY" /\ faults' = faults
  BY DEF VerifyStaging, At
<1>2. CASE End(w)
  BY <1>1, <1>2, Ends, DiskShape DEF End
<1>3. CASE ~End(w)
  <2>1. Exact(worker[w].art, Here(w)) /\ GoTo(w, "ACTIVATE") /\ UNCHANGED <<disk, faults>>
    BY <1>1, <1>3 DEF VerifyStaging
  <2>2. "ACTIVATE" \in Steps /\ worker[w].chunk = "NONE" /\ Here(w) \in Tree(worker[w].art)
    BY <1>1, HereShape DEF Steps
  <2> QED
    BY <1>1, <2>1, <2>2, MoveStep DEF Here
<1> QED
  BY <1>2, <1>3

LEMMA ActivateStep ==
  ASSUME StoreInv, NEW w \in Worker, Activate(w)
  PROVE  \E r : StepOf(w, r)
<1> DEFINE a == worker[w].art
           r == [worker[w] EXCEPT !.step = "CONFIRM"]
<1>1. worker[w].step = "ACTIVATE" /\ faults' = faults
  BY DEF Activate, At
<1>2. CASE End(w)
  BY <1>1, <1>2, Ends, DiskShape DEF End
<1>3. CASE ~End(w)
  <2>1. /\ final' = [final EXCEPT ![a] = tree[a]] /\ tree' = [tree EXCEPT ![a] = NoTree]
        /\ GoTo(w, "CONFIRM") /\ UNCHANGED <<cas, part, kept>>
    BY <1>3 DEF Activate, Renamed
  <2>2. a \in Artifact /\ worker[w].chunk = "NONE" /\ tree[a] \in Tree(a) /\ Exact(a, tree[a])
    BY <1>1, HereShape, RowShape DEF Here, HoldsTree
  <2>3. "CONFIRM" \in Steps
    BY DEF Steps
  <2>4. /\ r \in Workers /\ worker' = [worker EXCEPT ![w] = r]
        /\ r.step = "CONFIRM" /\ r.art = a /\ r.chunk = "NONE"
    BY <2>1, <2>2, <2>3, RowStep
  <2> HIDE DEF r
  <2>5. /\ final'[a] = tree[a] /\ tree'[a] = NoTree
        /\ \A b \in Artifact : b # a => final'[b] = final[b] /\ tree'[b] = tree[b]
        /\ tree' \in [Artifact -> Trees] /\ final' \in [Artifact -> Trees]
    <3>1. tree[a] \in Trees /\ NoTree \in Trees
      BY <2>2 DEF Trees
    <3>2. tree \in [Artifact -> Trees] /\ final \in [Artifact -> Trees]
      BY DiskShape
    <3> HIDE DEF a
    <3> QED
      BY <2>1, <2>2, <3>1, <3>2
  <2>6. FinalIsWhole'
    <3>1. \A b \in Artifact : final'[b] # NoTree =>
            (Exact(b, final'[b]) \/ final'[b] = Empty(b))
      BY <2>2, <2>5, DiskShape DEF FinalIsWhole
    <3> QED
      BY <3>1 DEF FinalIsWhole, Exact, Scanned, Materialized, Empty
  <2>7. MarkerIsLast'
    BY <2>5, DiskShape DEF MarkerIsLast, Complete
  <2>8. DiskTypes
    BY <2>1, <2>2, <2>5, DiskShape DEF DiskTypes
  <2>9. Confined(w)
    BY <1>1, <2>1, <2>5 DEF Confined
  <2>10. \A c \in Chunk : ChunkOK(cas', part', c)
    BY <2>1, DiskShape
  <2>11. HoldsChunk(r, cas', part') /\ HoldsTree(r, tree')
    BY <2>2, <2>4 DEF HoldsChunk, HoldsTree
  <2>12. Becomes(w, r)
    BY <1>1, <2>4 DEF Becomes
  <2>13. kept' = kept /\ faults' \in 0 .. MaxFaults
    BY <1>1, <2>1, DiskShape
  <2> QED
    BY <2>6, <2>7, <2>8, <2>9, <2>10, <2>11, <2>12, <2>13 DEF StepOf
<1> QED
  BY <1>2, <1>3

----------------------------------------------------------------------------
(* The invariant *)

(* What a process may do.                                                       *)
LEMMA WorkStep ==
  ASSUME StoreInv, NEW w \in Worker,
         Work(w) \/ Interrupted(w) \/ DiskFault(w) \/ Crash(w)
  PROVE  \E r : StepOf(w, r)
<1>1. CASE Reuse(w) \/ Confirm(w)
  BY <1>1, Ends, DiskShape DEF Reuse, Confirm, End
<1>2. CASE InspectStaging(w)
  BY <1>2, InspectStep
<1>3. CASE Download(w)
  BY <1>3, UseStoredStep, OpenPartialStep, ReceiveStep, CheckDigestStep, LinkStep, UnlinkStep,
     DownloadedStep DEF Download
<1>4. CASE Assemble(w)
  BY <1>4, CreateDirectoriesStep, CopyFileStep, RemoveWorkStep, WriteSidecarStep, WriteMarkerStep
     DEF Assemble
<1>5. CASE VerifyStaging(w)
  BY <1>5, VerifyStep
<1>6. CASE Activate(w)
  BY <1>6, ActivateStep
<1>7. CASE Interrupted(w)
  <2>1. faults' \in 0 .. MaxFaults /\ worker[w].step = "RECEIVE"
    BY <1>7, DiskShape, StoreAssumption DEF Interrupted, At
  <2>2. PICK reset \in BOOLEAN : DownloadFailed(w, reset)
    BY <1>7 DEF Interrupted
  <2> QED
    BY <2>1, <2>2, DownloadFailedStep
<1>8. CASE DiskFault(w) \/ Crash(w)
  <2>1. faults' \in 0 .. MaxFaults
    BY <1>8, DiskShape, StoreAssumption DEF DiskFault, Crash
  <2>2. Release(w) /\ UNCHANGED disk
    BY <1>8 DEF DiskFault, Crash, End
  <2> QED
    BY <2>1, <2>2, Ends
<1> QED
  BY <1>1, <1>2, <1>3, <1>4, <1>5, <1>6, <1>7, <1>8 DEF Work

(* A final name that becomes free, or somebody else's, disturbs nothing else.    *)
LEMMA FinalStep ==
  ASSUME StoreInv, NEW a \in Artifact, NEW t \in {NoTree, Empty(a)},
         final' = [final EXCEPT ![a] = t], UNCHANGED <<cas, part, tree, worker>>,
         kept' \subseteq Quarantine, faults' \in 0 .. MaxFaults
  PROVE  StoreInv'
<1>1. Empty(a) \in Tree(a)
  BY DEF Empty, Tree, Parts
<1>2. /\ final'[a] = t /\ \A b \in Artifact : b # a => final'[b] = final[b]
      /\ final' \in [Artifact -> Trees] /\ t \in Tree(a) \cup {NoTree}
  BY <1>1, DiskShape DEF Trees
<1>3. TypeInv'
  BY <1>2, DiskShape DEF TypeInv, TypeOK, Trees, Tree
<1>4. FinalIsWhole'
  <2>1. \A b \in Artifact : final'[b] # NoTree => (Exact(b, final'[b]) \/ final'[b] = Empty(b))
    BY <1>2, DiskShape DEF FinalIsWhole
  <2> QED
    BY <2>1 DEF FinalIsWhole, Exact, Scanned, Materialized, Empty
<1>5. MarkerIsLast'
  BY DiskShape DEF MarkerIsLast, Complete
<1>6. \A c \in Chunk : ChunkOK(cas, part, c)'
  BY DiskShape DEF ChunkOK
<1>7. WorkersOK' /\ Exclusive'
  BY DEF StoreInv, WorkersOK, Exclusive, HoldsChunk, HoldsTree, AllFiles, Vouched, Exact,
     Scanned, Materialized, Tree
<1> QED
  BY <1>3, <1>4, <1>5, <1>6, <1>7 DEF StoreInv

LEMMA InitStore == Init => StoreInv
<1> SUFFICES ASSUME Init PROVE StoreInv
  OBVIOUS
<1>1. TypeInv
  BY StoreAssumption, IdleShape DEF Init, TypeInv, TypeOK, Trees, ChunkNames, PartFiles
<1>2. FinalIsWhole /\ MarkerIsLast
  BY DEF Init, FinalIsWhole, MarkerIsLast
<1>3. \A c \in Chunk : ChunkOK(cas, part, c)
  BY DEF Init, ChunkOK
<1>4. WorkersOK
  BY IdleHolds DEF Init, WorkersOK
<1>5. Exclusive
  BY IdleShape DEF Init, Exclusive
<1> QED
  BY <1>1, <1>2, <1>3, <1>4, <1>5 DEF StoreInv

LEMMA NextStore == StoreInv /\ [Next]_vars => StoreInv'
<1> SUFFICES ASSUME StoreInv, [Next]_vars PROVE StoreInv'
  OBVIOUS
<1>1. CASE \E w \in Worker : Work(w) \/ Interrupted(w) \/ DiskFault(w) \/ Crash(w)
  BY <1>1, WorkStep, StepOfKeeps
<1>2. CASE \E w \in Worker, a \in Artifact : Start(w, a)
  BY <1>2, StartStep, StepOfKeeps
<1>3. ASSUME NEW w \in Worker, NEW q \in Quarantine, MoveAway(w, q)
      PROVE  StoreInv'
  BY <1>3, FinalStep, DiskShape, StoreAssumption DEF MoveAway
<1>4. ASSUME NEW a \in Artifact, Intrude(a)
      PROVE  StoreInv'
  <2>1. final' = [final EXCEPT ![a] = Empty(a)] /\ UNCHANGED <<cas, part, tree, kept, worker>>
    BY <1>4 DEF Intrude
  <2>2. faults' \in 0 .. MaxFaults /\ kept' \subseteq Quarantine
    BY <1>4, <2>1, DiskShape, StoreAssumption DEF Intrude
  <2> QED
    BY <2>1, <2>2, FinalStep
<1>5. CASE UNCHANGED vars
  BY <1>5 DEF vars, disk, StoreInv, TypeInv, TypeOK, FinalIsWhole, MarkerIsLast, ChunkOK, WorkersOK,
     Exclusive, HoldsChunk, HoldsTree, AllFiles, Vouched, Exact, Scanned, Materialized, Complete,
     Trees, Tree, Empty
<1> QED
  BY <1>1, <1>2, <1>3, <1>4, <1>5 DEF Next

(* The inductive invariant holds whatever the processes do, at whichever system  *)
(* call they are cut off.                                                     *)
THEOREM StoreInvariant == Spec => []StoreInv
BY InitStore, NextStore, PTL DEF Spec

----------------------------------------------------------------------------
(* What follows from it *)

(* Every row, name and worker keeps the shape and the values of its kind         *)
(* (model_store.py, artifact_download.py).                                     *)
THEOREM TypeCorrect == Spec => []TypeOK
<1>1. StoreInv => TypeOK
  BY DEF StoreInv, TypeInv
<1> QED
  BY <1>1, StoreInvariant, PTL

(* No crash, failure or race exposes a partial tree under a final name           *)
(* (_activate_no_replace of model_store.py).                                  *)
THEOREM FinalWhole == Spec => []FinalIsWhole
<1>1. StoreInv => FinalIsWhole
  BY DEF StoreInv
<1> QED
  BY <1>1, StoreInvariant, PTL

(* A published chunk is a verified one, its .part is gone unless its publisher   *)
(* is, or died, between link and unlink, one process at most works on it, and a *)
(* marker vouches for a whole tree (publish_chunk_partial, _assemble).        *)
THEOREM PublishedVerified == Spec => []PublishedIsVerified
<1>1. StoreInv => PublishedIsVerified
  <2> SUFFICES ASSUME StoreInv PROVE PublishedIsVerified
    OBVIOUS
  <2>1. ASSUME NEW c \in Chunk
        PROVE  Cardinality({w \in Worker : worker[w].chunk = c}) <= 1
    <3> DEFINE S == {w \in Worker : worker[w].chunk = c}
    <3>1. c # "NONE"
      BY StoreAssumption
    <3>2. \A v, w \in S : v = w
      BY <3>1 DEF StoreInv, Exclusive
    <3>3. CASE S = {}
      BY <3>3, FS_EmptySet
    <3>4. CASE S # {}
      <4>1. PICK w \in S : TRUE
        BY <3>4
      <4>2. S = {w}
        BY <3>2, <4>1
      <4>3. Cardinality(S) = 1
        BY <4>2, FS_Singleton
      <4> QED
        BY <4>3
    <3> QED
      BY <3>3, <3>4
  <2> QED
    BY <2>1, DiskShape DEF PublishedIsVerified, ChunkOK
<1> QED
  BY <1>1, StoreInvariant, PTL

(* Under the final names only Activate, MoveAway and Intrude change anything.    *)
FinalsKept == final' = final /\ kept' = kept
LEMMA StepKeepsFinal ==
  ASSUME NEW w \in Worker,
         Work(w) \/ Interrupted(w) \/ DiskFault(w) \/ Crash(w) \/ \E a \in Artifact : Start(w, a)
  PROVE  kept' = kept /\ (FinalsKept \/ Activate(w))
<1>1. CASE InspectStaging(w) \/ Reuse(w) \/ Confirm(w) \/ VerifyStaging(w) \/ DiskFault(w)
           \/ Crash(w) \/ \E a \in Artifact : Start(w, a)
  BY <1>1 DEF InspectStaging, Reuse, Confirm, VerifyStaging, DiskFault, Crash, Start, End, disk,
     FinalsKept
<1>2. CASE Download(w)
  BY <1>2 DEF Download, UseStored, OpenPartial, Receive, CheckDigest, DownloadFailed, Link, Unlink,
     Downloaded, disk, FinalsKept
<1>3. CASE Assemble(w)
  BY <1>3 DEF Assemble, CreateDirectories, CopyFile, RemoveWork, WriteSidecar, WriteMarker, End,
     disk, FinalsKept
<1>4. CASE Interrupted(w)
  BY <1>4 DEF Interrupted, DownloadFailed, FinalsKept
<1>5. CASE Activate(w)
  BY <1>5 DEF Activate, End, disk
<1> QED
  BY <1>1, <1>2, <1>3, <1>4, <1>5 DEF Work

(* A published chunk stays published, whoever works on it.                       *)
LEMMA StepKeepsChunk ==
  ASSUME StoreInv, NEW w \in Worker,
         Work(w) \/ Interrupted(w) \/ DiskFault(w) \/ Crash(w) \/ \E a \in Artifact : Start(w, a),
         NEW c \in Chunk, cas[c] # "NONE"
  PROVE  cas'[c] # "NONE" /\ part'[c] \in {"NONE", part[c]}
<1>1. CASE cas' = cas /\ part' = part
  BY <1>1
<1>2. CASE \E d \in Chunk : UseStored(w, d)
  BY <1>2, DiskShape DEF UseStored
<1>3. CASE \E d \in Chunk : OpenPartial(w, d)
  BY <1>3, DiskShape DEF OpenPartial
<1>4. CASE Receive(w) \/ CheckDigest(w) \/ Interrupted(w)
  <2>1. worker[w].step = "RECEIVE"
    BY <1>4 DEF Receive, CheckDigest, Interrupted, At
  <2>2. worker[w].chunk \in Chunk /\ worker[w].chunk # c
    BY <2>1, ChunkAt
  <2>3. cas' = cas /\ part'[c] = part[c]
    <3>1. CASE Receive(w)
      BY <3>1, <2>2, DiskShape DEF Receive
    <3>2. CASE CheckDigest(w)
      BY <3>2, <2>2, DiskShape DEF CheckDigest, DownloadFailed, disk
    <3>3. CASE Interrupted(w)
      BY <3>3, <2>2, DiskShape DEF Interrupted, DownloadFailed
    <3> QED
      BY <1>4, <3>1, <3>2, <3>3
  <2> QED
    BY <2>3
<1>5. CASE Link(w)
  BY <1>5, DiskShape DEF Link
<1>6. CASE Unlink(w)
  BY <1>6, DiskShape DEF Unlink
<1>7. CASE Downloaded(w) \/ Assemble(w) \/ InspectStaging(w) \/ Reuse(w) \/ Confirm(w)
           \/ VerifyStaging(w) \/ Activate(w) \/ DiskFault(w) \/ Crash(w)
           \/ \E a \in Artifact : Start(w, a)
  <2>1. cas' = cas /\ part' = part
    BY <1>7 DEF Downloaded, Assemble, CreateDirectories, CopyFile, RemoveWork, WriteSidecar,
       WriteMarker, InspectStaging, Reuse, Confirm, VerifyStaging, Activate, DiskFault, Crash, Start,
       End, disk
  <2> QED
    BY <2>1
<1> QED
  BY <1>2, <1>3, <1>4, <1>5, <1>6, <1>7 DEF Work, Download

(* A cache leaves its final name only into quarantine, under the name of a task  *)
(* that had none; nothing published or quarantined is taken back               *)
(* (_activate_no_replace, cache_quarantine.py, publish_chunk_partial).        *)
THEOREM NothingReplaced == Spec => NothingIsReplaced
<1> DEFINE Step ==
      /\ \A a \in Artifact : final[a] # NoTree /\ final'[a] # final[a] =>
           final'[a] = NoTree /\ \E q \in kept' \ kept : Target[q] = a
      /\ \A c \in Chunk : cas[c] # "NONE" => cas'[c] # "NONE" /\ part'[c] \in {"NONE", part[c]}
      /\ kept \subseteq kept'
<1>1. StoreInv /\ [Next]_vars => [Step]_vars
  <2> SUFFICES ASSUME StoreInv, Next PROVE Step
    OBVIOUS
  <2>1. ASSUME NEW w \in Worker,
               Work(w) \/ Interrupted(w) \/ DiskFault(w) \/ Crash(w) \/ \E a \in Artifact : Start(w, a)
        PROVE  Step
    <3>1. \A c \in Chunk : cas[c] # "NONE" => cas'[c] # "NONE" /\ part'[c] \in {"NONE", part[c]}
      BY <2>1, StepKeepsChunk
    <3>2. kept' = kept /\ (FinalsKept \/ Activate(w))
      BY <2>1, StepKeepsFinal
    <3>3. \A a \in Artifact : final[a] # NoTree => final'[a] = final[a]
      <4>1. CASE FinalsKept
        BY <4>1 DEF FinalsKept
      <4>2. CASE Activate(w)
        BY <4>2, DiskShape DEF Activate, End, disk, MayActivate, Renamed
      <4> QED
        BY <3>2, <4>1, <4>2
    <3> QED
      BY <3>1, <3>2, <3>3
  <2>2. ASSUME NEW w \in Worker, NEW q \in Quarantine, MoveAway(w, q)
        PROVE  Step
    <3>1. /\ final' = [final EXCEPT ![Target[q]] = NoTree] /\ kept' = kept \cup {q} /\ q \notin kept
          /\ UNCHANGED <<cas, part>>
      BY <2>2 DEF MoveAway
    <3> QED
      BY <3>1, DiskShape
  <2>3. ASSUME NEW a \in Artifact, Intrude(a)
        PROVE  Step
    <3>1. final' = [final EXCEPT ![a] = Empty(a)] /\ final[a] = NoTree /\ UNCHANGED <<cas, part, kept>>
      BY <2>3 DEF Intrude
    <3> QED
      BY <3>1, DiskShape
  <2> QED
    BY <2>1, <2>2, <2>3 DEF Next
<1> QED
  BY <1>1, StoreInvariant, PTL DEF Spec, NothingIsReplaced

----------------------------------------------------------------------------
(* The abstract store.  A file in a staging tree was copied from published      *)
(* chunks, and a published chunk stays so: the tree that is renamed has every  *)
(* chunk of its manifest behind it, whichever attempts it was assembled in.   *)
Published == {c \in Chunk : cas[c] # "NONE"}
AllShown == [a \in Artifact |-> Shown(a, final[a])]
Begun(a, f) == tree[a] # NoTree /\ tree[a].files[f] # "NONE"
TreesBacked ==
  \A a \in Artifact : \A f \in FilesOf[a] : Begun(a, f) => ChunksOf[f] \subseteq Published
RefInv == StoreInv /\ TreesBacked

(* What one process does between two looks at the disk.                         *)
Proceeds(w) ==
  Work(w) \/ Interrupted(w) \/ DiskFault(w) \/ Crash(w) \/ \E a \in Artifact : Start(w, a)

(* The steps of a process that leave the staging trees alone.                   *)
LEMMA StepKeepsTrees ==
  ASSUME NEW w \in Worker, Proceeds(w)
  PROVE  tree' = tree \/ Assemble(w) \/ Activate(w)
<1>1. CASE InspectStaging(w) \/ Reuse(w) \/ Confirm(w) \/ VerifyStaging(w) \/ DiskFault(w)
           \/ Crash(w) \/ \E a \in Artifact : Start(w, a)
  BY <1>1 DEF InspectStaging, Reuse, Confirm, VerifyStaging, DiskFault, Crash, Start, End, disk
<1>2. CASE Download(w)
  BY <1>2 DEF Download, UseStored, OpenPartial, Receive, CheckDigest, DownloadFailed, Link, Unlink,
     Downloaded, disk
<1>3. CASE Interrupted(w)
  BY <1>3 DEF Interrupted, DownloadFailed
<1> QED
  BY <1>1, <1>2, <1>3 DEF Work, Proceeds

(* A process publishes one chunk at a time, and takes none back.                *)
LEMMA StepPublishes ==
  ASSUME StoreInv, NEW w \in Worker, Proceeds(w)
  PROVE  \/ Published' = Published
         \/ \E c \in Chunk : Published' = Published \cup {c} /\ TreesKept
<1>1. CASE cas' = cas
  BY <1>1 DEF Published
<1>2. CASE \E d \in Chunk : UseStored(w, d)
  <2>1. PICK d \in Chunk : cas[d] # "NONE" /\ cas' = [cas EXCEPT ![d] = "STORED"]
    BY <1>2 DEF UseStored
  <2> QED
    BY <2>1, DiskShape DEF Published
<1>3. CASE Link(w)
  <2> DEFINE c == worker[w].chunk
  <2>1. cas' = [cas EXCEPT ![c] = "LINKED"] /\ TreesKept /\ c \in Chunk
    BY <1>3, ChunkAt DEF Link, At, TreesKept
  <2> HIDE DEF c
  <2>2. Published' = Published \cup {c}
    BY <2>1, DiskShape DEF Published
  <2> QED
    BY <2>1, <2>2
<1>4. CASE Unlink(w)
  <2> DEFINE c == worker[w].chunk
  <2>1. cas' = [cas EXCEPT ![c] = "STORED"] /\ c \in Chunk /\ cas[c] = "LINKED"
    BY <1>4, ChunkAt, RowShape DEF Unlink, At, HoldsChunk
  <2> HIDE DEF c
  <2> QED
    BY <2>1, DiskShape DEF Published
<1>5. CASE ~Link(w) /\ ~Unlink(w) /\ ~\E d \in Chunk : UseStored(w, d)
  <2>1. cas' = cas
    BY <1>5 DEF Proceeds, Work, Download, OpenPartial, Receive, CheckDigest, Interrupted,
       DownloadFailed, Downloaded, Assemble, CreateDirectories, CopyFile, RemoveWork, WriteSidecar,
       WriteMarker, InspectStaging, Reuse, Confirm, VerifyStaging, Activate, DiskFault, Crash, Start,
       End, disk
  <2> QED
    BY <1>1, <2>1
<1> QED
  BY <1>2, <1>3, <1>4, <1>5

(* A file that appears in a staging tree is copied from stored chunks.          *)
LEMMA StepBegins ==
  ASSUME StoreInv, NEW w \in Worker, Proceeds(w),
         NEW a \in Artifact, NEW f \in FilesOf[a], Begun(a, f)'
  PROVE  Begun(a, f) \/ ChunksOf[f] \subseteq Published
<1> DEFINE b == worker[w].art
<1>1. CASE tree' = tree
  BY <1>1 DEF Begun
<1>2. CASE Activate(w)
  <2>1. tree'[a] = tree[a] \/ tree'[a] = NoTree
    BY <1>2, DiskShape DEF Activate, End, disk
  <2> QED
    BY <2>1 DEF Begun
<1>3. CASE CreateDirectories(w)
  <2>1. b \in Artifact /\ Here(w) \in Tree(b) \cup {NoTree}
    BY <1>3, HereShape DEF CreateDirectories, At
  <2>2. a # b => tree'[a] = tree[a]
    BY <1>3, DiskShape DEF CreateDirectories, SetTree
  <2>3. tree'[b].files = IF Here(w) = NoTree THEN Empty(b).files ELSE Here(w).files
    <3>1. tree'[b] = [(IF Here(w) = NoTree THEN Empty(b) ELSE Here(w)) EXCEPT !.work = TRUE]
      BY <1>3, <2>1, DiskShape DEF CreateDirectories, SetTree
    <3>2. CASE Here(w) = NoTree
      BY <3>1, <3>2 DEF Empty
    <3>3. CASE Here(w) # NoTree
      BY <2>1, <3>1, <3>3 DEF Tree
    <3> QED
      BY <3>2, <3>3
  <2>4. CASE a = b /\ Here(w) = NoTree
    BY <2>3, <2>4 DEF Begun, Empty
  <2>5. CASE a = b /\ Here(w) # NoTree
    BY <2>3, <2>5 DEF Begun, Here
  <2> QED
    BY <2>2, <2>4, <2>5 DEF Begun
<1>4. CASE \E g \in File : CopyFile(w, g)
  <2>1. PICK g \in File : CopyFile(w, g)
    BY <1>4
  <2>2. CASE tree' = tree
    BY <2>2 DEF Begun
  <2>3. CASE tree' # tree
    <3>1. /\ \A c \in ChunksOf[g] : cas[c] = "STORED"
          /\ SetTree(w, [Here(w) EXCEPT !.files[g] = IF @ = "NONE" THEN "PART" ELSE "DONE"])
          /\ g \in FilesOf[b]
      BY <2>1, <2>3 DEF CopyFile, End, disk
    <3>2. b \in Artifact /\ Here(w) \in Tree(b)
      BY <2>1, HereShape DEF CopyFile, At
    <3>3. a # b => tree'[a] = tree[a]
      BY <3>1, DiskShape DEF SetTree
    <3>4. f # g => tree'[b].files[f] = tree[b].files[f] 
      <4>1. tree'[b] = [Here(w) EXCEPT !.files[g] = IF @ = "NONE" THEN "PART" ELSE "DONE"]
        BY <3>1, <3>2, DiskShape DEF SetTree
      <4> QED
        BY <3>2, <4>1 DEF Tree, Here
    <3>5. tree[b] # NoTree
      BY <3>2, NoTreeAssumption DEF Here
    <3>6. ChunksOf[g] \subseteq Published
      BY <2>1, <3>1, StoreAssumption DEF Published
    <3> QED
      BY <3>3, <3>4, <3>5, <3>6 DEF Begun
  <2> QED
    BY <2>2, <2>3
<1>5. CASE RemoveWork(w) \/ WriteSidecar(w) \/ WriteMarker(w)
  <2>1. b \in Artifact /\ Here(w) \in Tree(b)
    BY <1>5, HereShape DEF RemoveWork, WriteSidecar, WriteMarker, At
  <2>2. \E t : SetTree(w, t) /\ t.files = Here(w).files
    BY <1>5, <2>1 DEF RemoveWork, WriteSidecar, WriteMarker, Tree
  <2>3. PICK t : SetTree(w, t) /\ t.files = Here(w).files
    BY <2>2
  <2>4. tree'[b] = t /\ \A d \in Artifact : d # b => tree'[d] = tree[d]
    BY <2>1, <2>3, DiskShape DEF SetTree
  <2>5. tree[b] # NoTree
    BY <2>1, NoTreeAssumption DEF Here
  <2> QED
    BY <2>3, <2>4, <2>5 DEF Begun, Here
<1> QED
  BY <1>1, <1>2, <1>3, <1>4, <1>5, StepKeepsTrees DEF Assemble

(* No file of a staging tree outlives the chunks it was copied from.            *)
LEMMA BackedKept == RefInv /\ [Next]_vars => TreesBacked'
<1> SUFFICES ASSUME RefInv, [Next]_vars PROVE TreesBacked'
  OBVIOUS
<1>1. ASSUME NEW w \in Worker, Proceeds(w) PROVE TreesBacked'
  <2> SUFFICES ASSUME NEW a \in Artifact, NEW f \in FilesOf[a], Begun(a, f)'
               PROVE  ChunksOf[f] \subseteq Published'
    BY DEF TreesBacked, Begun
  <2>1. ChunksOf[f] \subseteq Published
    BY <1>1, StepBegins DEF RefInv, TreesBacked
  <2>2. Published \subseteq Published'
    BY <1>1, StepPublishes DEF RefInv
  <2> QED
    BY <2>1, <2>2
<1>2. CASE UNCHANGED <<tree, cas>>
  BY <1>2 DEF RefInv, TreesBacked, Begun, Published
<1> QED
  BY <1>1, <1>2 DEF Next, Proceeds, MoveAway, Intrude, vars, disk

(* What is shown of an artifact, by what stands under its final name.           *)
LEMMA ShownIs ==
  ASSUME NEW a \in Artifact, NEW t
  PROVE  /\ t = NoTree => Shown(a, t) = "ABSENT"
         /\ t # NoTree /\ Exact(a, t) => Shown(a, t) = "WHOLE"
         /\ t = Empty(a) => Shown(a, t) = "FOREIGN"
<1>1. Empty(a) # NoTree
  <2>1. Empty(a) \in Tree(a)
    BY DEF Empty, Tree, Parts
  <2> QED
    BY <2>1, NoTreeAssumption
<1>2. ~Exact(a, Empty(a))
  BY StoreAssumption DEF Exact, Scanned, Empty
<1>3. CASE t = NoTree
  BY <1>1, <1>3 DEF Shown
<1>4. CASE t # NoTree /\ Exact(a, t)
  BY <1>2, <1>4 DEF Shown
<1>5. CASE t = Empty(a)
  BY <1>1, <1>2, <1>5 DEF Shown
<1> QED
  BY <1>1, <1>2, <1>3, <1>4, <1>5

(* A name is shown as free only when it is.                                     *)
LEMMA ShownTaken ==
  ASSUME StoreInv, NEW a \in Artifact, final[a] # NoTree
  PROVE  Shown(a, final[a]) # "ABSENT"
BY ShownIs, DiskShape DEF FinalIsWhole

(* One final name changes: one entry of what is shown changes.                  *)
LEMMA ShownChange ==
  ASSUME StoreInv, NEW a \in Artifact, NEW t, final' = [final EXCEPT ![a] = t]
  PROVE  AllShown' = [AllShown EXCEPT ![a] = Shown(a, t)]
<1>1. final'[a] = t /\ \A b \in Artifact : b # a => final'[b] = final[b]
  BY DiskShape
<1>2. AllShown' = [b \in Artifact |-> Shown(b, final'[b])]
  BY DEF AllShown, Shown, Exact, Scanned, Materialized, Empty
<1>3. AllShown = [b \in Artifact |-> Shown(b, final[b])]
  BY DEF AllShown
<1> QED
  BY <1>1, <1>2, <1>3

AbstractStep == Promised!Next \/ UNCHANGED <<Published, AllShown, kept>>

(* A process publishes a chunk, publishes a cache, or shows nothing of what it   *)
(* does.                                                                      *)
LEMMA StepRefines ==
  ASSUME RefInv, NEW w \in Worker, Proceeds(w)
  PROVE  AbstractStep
<1>1. StoreInv
  BY DEF RefInv
<1>2. CASE FinalsKept
  <2>1. AllShown' = AllShown /\ kept' = kept
    BY <1>2 DEF FinalsKept, AllShown, Shown, Exact, Scanned, Materialized, Empty
  <2>2. ASSUME NEW c \in Chunk, Published' = Published \cup {c}
        PROVE  Promised!Next
    <3>1. Promised!PublishChunk(c)
      BY <2>1, <2>2 DEF Promised!PublishChunk, Published, AllShown
    <3> QED
      BY <3>1 DEF Promised!Next
  <2> QED
    BY <1>1, <2>1, <2>2, StepPublishes DEF AbstractStep
<1>3. CASE Activate(w) /\ ~FinalsKept
  <2> DEFINE a == worker[w].art
  <2>1. /\ final[a] = NoTree /\ final' = [final EXCEPT ![a] = tree[a]]
        /\ UNCHANGED <<cas, kept>> /\ worker[w].step = "ACTIVATE"
    BY <1>3 DEF Activate, At, End, disk, MayActivate, Renamed, FinalsKept
  <2>2. a \in Artifact /\ tree[a] \in Tree(a) /\ Exact(a, tree[a])
    BY <1>1, <2>1, RowShape DEF HoldsTree
  <2> HIDE DEF a
  <2>3. tree[a] # NoTree
    BY <2>2, NoTreeAssumption
  <2>4. AllShown[a] = "ABSENT" /\ AllShown' = [AllShown EXCEPT ![a] = "WHOLE"]
    <3>1. Shown(a, final[a]) = "ABSENT" /\ Shown(a, tree[a]) = "WHOLE"
      BY <2>1, <2>2, <2>3, ShownIs
    <3>2. AllShown' = [AllShown EXCEPT ![a] = Shown(a, tree[a])]
      BY <1>1, <2>1, <2>2, ShownChange
    <3>3. AllShown[a] = Shown(a, final[a])
      BY <2>2 DEF AllShown
    <3> QED
      BY <3>1, <3>2, <3>3
  <2>5. UniqueChunks(a) \subseteq Published
    BY <2>2, <2>3 DEF RefInv, TreesBacked, Begun, Exact, Scanned, UniqueChunks
  <2>6. Published' = Published
    BY <2>1 DEF Published
  <2>7. Promised!PublishCache(a)
    BY <2>1, <2>2, <2>4, <2>5, <2>6 DEF Promised!PublishCache, Published, AllShown
  <2> QED
    BY <2>2, <2>7 DEF AbstractStep, Promised!Next
<1> QED
  BY <1>2, <1>3, StepKeepsFinal DEF Proceeds

(* However many processes assemble, die and try again, a cache appears whole,    *)
(* under a free name and after every chunk of its manifest was verified, and    *)
(* only a quarantine takes it away (model_store.py, cache_quarantine.py).      *)
THEOREM Implements == Spec => ImplementsCacheStore
<1>1. Init => Promised!Init
  <2> SUFFICES ASSUME Init PROVE Promised!Init
    OBVIOUS
  <2>1. \A a \in Artifact : Shown(a, final[a]) = "ABSENT"
    BY ShownIs DEF Init
  <2> QED
    BY <2>1 DEF Init, Promised!Init
<1>2. Init => RefInv
  BY InitStore DEF Init, RefInv, TreesBacked, Begun
<1>3. RefInv /\ [Next]_vars => RefInv'
  BY NextStore, BackedKept DEF RefInv
<1>4. RefInv /\ [Next]_vars => AbstractStep
  <2> SUFFICES ASSUME RefInv, [Next]_vars PROVE AbstractStep
    OBVIOUS
  <2>1. StoreInv
    BY DEF RefInv
  <2>2. ASSUME NEW w \in Worker, Proceeds(w) PROVE AbstractStep
    BY <2>1, <2>2, StepRefines
  <2>3. ASSUME NEW w \in Worker, NEW q \in Quarantine, MoveAway(w, q)
        PROVE  AbstractStep
    <3> DEFINE a == Target[q]
    <3>1. /\ a \in Artifact /\ final[a] # NoTree /\ final' = [final EXCEPT ![a] = NoTree]
          /\ q \notin kept /\ kept' = kept \cup {q} /\ cas' = cas
      BY <2>3, StoreAssumption DEF MoveAway
    <3>2. AllShown[a] # "ABSENT" /\ AllShown' = [AllShown EXCEPT ![a] = "ABSENT"]
      <4> HIDE DEF a
      <4>1. Shown(a, final[a]) # "ABSENT" /\ Shown(a, NoTree) = "ABSENT"
        BY <2>1, <3>1, ShownIs, ShownTaken
      <4>2. AllShown' = [AllShown EXCEPT ![a] = Shown(a, NoTree)]
        BY <2>1, <3>1, ShownChange
      <4>3. AllShown[a] = Shown(a, final[a])
        BY <3>1 DEF AllShown
      <4> QED
        BY <4>1, <4>2, <4>3
    <3>3. Promised!MoveAway(q)
      BY <3>1, <3>2 DEF Promised!MoveAway, Published, AllShown
    <3> QED
      BY <3>3 DEF AbstractStep, Promised!Next
  <2>4. ASSUME NEW a \in Artifact, Intrude(a)
        PROVE  AbstractStep
    <3>1. /\ final[a] = NoTree /\ final' = [final EXCEPT ![a] = Empty(a)]
          /\ kept' = kept /\ cas' = cas
      BY <2>4 DEF Intrude
    <3>2. AllShown[a] = "ABSENT" /\ AllShown' = [AllShown EXCEPT ![a] = "FOREIGN"]
      <4>1. Shown(a, final[a]) = "ABSENT" /\ Shown(a, Empty(a)) = "FOREIGN"
        BY <3>1, ShownIs
      <4>2. AllShown' = [AllShown EXCEPT ![a] = Shown(a, Empty(a))]
        BY <2>1, <3>1, ShownChange
      <4>3. AllShown[a] = Shown(a, final[a])
        BY DEF AllShown
      <4> QED
        BY <4>1, <4>2, <4>3
    <3>3. Promised!Intrude(a)
      BY <3>1, <3>2 DEF Promised!Intrude, Published, AllShown
    <3> QED
      BY <3>3 DEF AbstractStep, Promised!Next
  <2>5. CASE UNCHANGED vars
    BY <2>5 DEF vars, disk, AbstractStep, Published, AllShown, Shown, Exact, Scanned, Materialized, Empty
  <2> QED
    BY <2>2, <2>3, <2>4, <2>5 DEF Next, Proceeds
<1>5. RefInv /\ [Next]_vars => [Promised!Next]_<<Published, AllShown, kept>>
  BY <1>4 DEF AbstractStep
<1> QED
  BY <1>1, <1>2, <1>3, <1>5, PTL
     DEF Spec, ImplementsCacheStore, Promised!Spec, Published, AllShown
=============================================================================
