----------------------------- MODULE NodeStore -----------------------------
(***************************************************************************)
(* The content-addressed model store of a node (model_store.py) with its     *)
(* chunk downloader (artifact_download.py), the checks of a materialized    *)
(* cache (stage_cache.py, model_cache.py) and the quarantine that moves a   *)
(* cache away (cache_quarantine.py).                                       *)
(*                                                                         *)
(* To prepare an artifact a worker takes the artifact's lock, downloads the  *)
(* missing chunks under one chunk lock at a time, assembles the files in a  *)
(* staging directory of fixed name, writes the marker last, and renames the *)
(* directory to its final name without replacing anything.  Every step may  *)
(* be the last one of the process; locks are flocks and go with it, names   *)
(* stay.  Only what a name can be seen to hold between two system calls is  *)
(* kept: bytes reach the disk in the order they were written (a power       *)
(* failure that tears an unsynced file is not modelled).                   *)
(***************************************************************************)
EXTENDS Integers, FiniteSets

CONSTANTS
  Worker,      \* processes that use the store
  Artifact, File, Chunk,
  FilesOf,     \* [Artifact -> SUBSET File]: the files of its manifest
  ChunksOf,    \* [File -> SUBSET Chunk]: the chunks of a file
  Staged,      \* artifacts of kind STAGE, which also have a manifest sidecar
  Quarantine,  \* quarantine tasks that may reach the node
  Target,      \* [Quarantine -> Artifact]
  Intruded,    \* artifacts whose final name somebody else may create
  Attempts,    \* downloads of a chunk before giving up
  MaxFaults,   \* bound: crashes, failures of the disk and of the origin
  NoTree       \* no directory of that name

ASSUME StoreAssumption ==
  /\ FilesOf \in [Artifact -> (SUBSET File) \ {{}}]
  /\ ChunksOf \in [File -> (SUBSET Chunk) \ {{}}]
  /\ Staged \subseteq Artifact /\ Intruded \subseteq Artifact
  /\ Target \in [Quarantine -> Artifact]
  /\ Attempts \in Nat \ {0} /\ MaxFaults \in Nat
  /\ "NONE" \notin Chunk   \* a chunk is named by its digest

VARIABLES
  cas,      \* the published name of a chunk
  part,     \* its .part file
  tree,     \* the staging directory of an artifact
  final,    \* the directory under its final name
  kept,     \* quarantine directories, named after their task
  worker,   \* where each process is
  faults    \* faults so far

disk == <<cas, part, tree, final, kept>>
vars == <<disk, worker, faults>>

----------------------------------------------------------------------------
(* Names on disk *)

(* A chunk is published by a hard link from its .part: for a moment both      *)
(* names are the same file.                                                *)
ChunkNames == {"NONE", "LINKED", "STORED"}
PartFiles == {"NONE", "PREFIX", "FULL", "BAD"}
Parts == {"NONE", "PART", "DONE"}
Tree(a) == [files : [FilesOf[a] -> Parts], work : BOOLEAN, sidecar : Parts, marker : Parts]

ASSUME NoTreeAssumption == \A a \in Artifact : NoTree \notin Tree(a)

Empty(a) ==
  [files |-> [f \in FilesOf[a] |-> "NONE"], work |-> FALSE, sidecar |-> "NONE", marker |-> "NONE"]

(* parse_artifact_manifest, unique_chunks                                    *)
UniqueChunks(a) == UNION {ChunksOf[f] : f \in FilesOf[a]}

(* _scan_exact_tree: nothing is missing, nothing is extra.  A stage also has its *)
(* manifest beside it (validate_materialized_stage_cache).                   *)
Scanned(a, t) == t.work = FALSE /\ t.marker = "DONE" /\ \A f \in FilesOf[a] : t.files[f] = "DONE"
Materialized(a, t) == t.sidecar = (IF a \in Staged THEN "DONE" ELSE "NONE")
Exact(a, t) == Scanned(a, t) /\ Materialized(a, t)

(* _verified_staging_bytes: how an earlier attempt left the staging directory. *)
(* With a marker it must be the exact tree.                                *)
Polluted(a, t) == t # NoTree /\ t.marker = "DONE" /\ ~Exact(a, t)
Complete(a, t) == t # NoTree /\ \A f \in FilesOf[a] : t.files[f] = "DONE"

Steps == {"IDLE", "INSPECT", "DOWNLOAD", "RECEIVE", "PUBLISH", "UNLINK",
          "ASSEMBLE", "COPY", "SIDECAR", "MARKER", "VERIFY", "ACTIVATE", "CONFIRM"}
Workers == [step : Steps, art : Artifact \cup {"NONE"}, todo : SUBSET Chunk,
            chunk : Chunk \cup {"NONE"}, tries : 1 .. Attempts]
Idle == [step |-> "IDLE", art |-> "NONE", todo |-> {}, chunk |-> "NONE",
         tries |-> Attempts]

(* artifact_lock and chunk_lock                                              *)
ArtifactFree(a) == \A w \in Worker : worker[w].art # a
ChunkFree(c) == \A w \in Worker : worker[w].chunk # c

At(w, step) == worker[w].step = step
GoTo(w, step) == worker' = [worker EXCEPT ![w].step = step]
Release(w) == worker' = [worker EXCEPT ![w] = Idle]

(* The attempt ends, well or with a ModelStoreError: the locks go, and every   *)
(* file stays for inspection or resumption.  (The attempt journal only tells  *)
(* an operator what happened; nothing reads it to decide anything.)          *)
End(w) == Release(w) /\ UNCHANGED disk

----------------------------------------------------------------------------
(* Beginning an attempt *)

(* _prepare_model calls prepare_full_snapshot or prepare_stage.               *)
Start(w, a) ==
  /\ At(w, "IDLE") /\ ArtifactFree(a)
  /\ worker' = [worker EXCEPT ![w] = [Idle EXCEPT !.step = "INSPECT", !.art = a]]
  /\ UNCHANGED <<disk, faults>>

(* An exact final directory is reused, anything else under that name refused;  *)
(* both end the attempt and leave the directory alone.                       *)
Reuse(w) ==
  /\ At(w, "INSPECT") /\ final[worker[w].art] # NoTree
  /\ End(w) /\ UNCHANGED faults

InspectStaging(w) ==
  LET a == worker[w].art
  IN  /\ At(w, "INSPECT") /\ final[a] = NoTree
      /\ \/ Polluted(a, tree[a]) /\ End(w)
         \/ /\ ~Polluted(a, tree[a])
            /\ worker' = [worker EXCEPT ![w] =
                 IF Complete(a, tree[a]) THEN [@ EXCEPT !.step = "ASSEMBLE"]
                 ELSE [@ EXCEPT !.step = "DOWNLOAD",
                                !.todo = UniqueChunks(a)]]
            /\ UNCHANGED disk
      /\ UNCHANGED faults

----------------------------------------------------------------------------
(* Chunks *)

(* _verified_chunk_without_lock: a published chunk is verified and used again. *)
(* A link left by a publisher that died is completed first.                 *)
UseStored(w, c) ==
  /\ At(w, "DOWNLOAD") /\ c \in worker[w].todo /\ ChunkFree(c)
  /\ cas[c] # "NONE"
  /\ cas' = [cas EXCEPT ![c] = "STORED"]
  /\ part' = [part EXCEPT ![c] = IF cas[c] = "LINKED" THEN "NONE" ELSE @]
  /\ worker' = [worker EXCEPT ![w].todo = @ \ {c}]
  /\ UNCHANGED <<tree, final, kept, faults>>

(* download_chunk_locked opens the .part file; what an earlier attempt left in *)
(* it is continued.  (The code takes the chunks in the order of their digests; *)
(* here any order.)                                                        *)
OpenPartial(w, c) ==
  /\ At(w, "DOWNLOAD") /\ c \in worker[w].todo /\ ChunkFree(c)
  /\ cas[c] = "NONE"
  /\ part' = [part EXCEPT ![c] = IF @ = "NONE" THEN "PREFIX" ELSE @]
  /\ worker' = [worker EXCEPT ![w].step = "RECEIVE", ![w].chunk = c, ![w].tries = Attempts]
  /\ UNCHANGED <<cas, tree, final, kept, faults>>

(* _download_once: the rest of the chunk arrives, perhaps with wrong bytes.    *)
Receive(w) ==
  LET c == worker[w].chunk
  IN  /\ At(w, "RECEIVE") /\ part[c] = "PREFIX"
      /\ \/ part' = [part EXCEPT ![c] = "FULL"] /\ UNCHANGED faults
         \/ /\ faults < MaxFaults /\ faults' = faults + 1
            /\ part' = [part EXCEPT ![c] = "BAD"]
      /\ UNCHANGED <<cas, tree, final, kept, worker>>

ResetPartMutKept(p) == p
(* What a rejected or mismatching download leaves: nothing of it.             *)
ResetPart(p) == "PREFIX"

LastTryMutAfter(w) == worker[w].tries = 0
LastTry(w) == worker[w].tries = 1

(* A download that failed is tried again while attempts are left.  reset: the  *)
(* response was rejected or the digest is wrong, so the bytes are dropped.   *)
DownloadFailed(w, reset) ==
  LET c == worker[w].chunk
  IN  /\ part' = [part EXCEPT ![c] = IF reset THEN ResetPart(@) ELSE @]
      /\ IF LastTry(w)
         THEN Release(w)
         ELSE worker' = [worker EXCEPT ![w].tries = @ - 1]
      /\ UNCHANGED <<cas, tree, final, kept>>

Interrupted(w) ==
  /\ At(w, "RECEIVE") /\ part[worker[w].chunk] = "PREFIX"
  /\ faults < MaxFaults /\ faults' = faults + 1
  /\ \E reset \in BOOLEAN : DownloadFailed(w, reset)

DigestMatchesMutSize(p) == p \in {"FULL", "BAD"}
(* _hash_partial over the whole chunk, resumed bytes included                 *)
DigestMatches(p) == p = "FULL"

CheckDigest(w) ==
  LET p == part[worker[w].chunk]
  IN  /\ At(w, "RECEIVE") /\ p \in {"FULL", "BAD"}
      /\ \/ DigestMatches(p) /\ GoTo(w, "PUBLISH") /\ UNCHANGED disk
         \/ ~DigestMatches(p) /\ DownloadFailed(w, TRUE)
      /\ UNCHANGED faults

(* publish_chunk_partial: link, then unlink.                                 *)
Link(w) ==
  LET c == worker[w].chunk
  IN  /\ At(w, "PUBLISH") /\ cas[c] = "NONE"
      /\ cas' = [cas EXCEPT ![c] = "LINKED"]
      /\ GoTo(w, "UNLINK")
      /\ UNCHANGED <<part, tree, final, kept, faults>>

Unlink(w) ==
  LET c == worker[w].chunk
  IN  /\ At(w, "UNLINK")
      /\ cas' = [cas EXCEPT ![c] = "STORED"] /\ part' = [part EXCEPT ![c] = "NONE"]
      /\ worker' = [worker EXCEPT ![w].step = "DOWNLOAD", ![w].chunk = "NONE",
                                 ![w].todo = @ \ {c}]
      /\ UNCHANGED <<tree, final, kept, faults>>

Downloaded(w) ==
  /\ At(w, "DOWNLOAD") /\ worker[w].todo = {}
  /\ GoTo(w, "ASSEMBLE") /\ UNCHANGED <<disk, faults>>

----------------------------------------------------------------------------
(* Assembly *)

Here(w) == tree[worker[w].art]
SetTree(w, t) == tree' = [tree EXCEPT ![worker[w].art] = t]

(* _create_directories: the staging directory and, again, its work directory. *)
CreateDirectories(w) ==
  /\ At(w, "ASSEMBLE")
  /\ SetTree(w, [(IF Here(w) = NoTree THEN Empty(worker[w].art) ELSE Here(w))
                   EXCEPT !.work = TRUE])
  /\ GoTo(w, "COPY")
  /\ UNCHANGED <<cas, part, final, kept, faults>>

(* _assemble_file: a file grows in the work directory from verified chunks and *)
(* gets its name when it is whole; a file that has its name is only verified. *)
CopyFile(w, f) ==
  /\ At(w, "COPY") /\ f \in FilesOf[worker[w].art] /\ Here(w).files[f] # "DONE"
  /\ IF \A c \in ChunksOf[f] : cas[c] = "STORED"
     THEN /\ SetTree(w, [Here(w) EXCEPT !.files[f] = IF @ = "NONE" THEN "PART" ELSE "DONE"])
          /\ UNCHANGED <<cas, part, final, kept, worker>>
     ELSE End(w)
  /\ UNCHANGED faults

AfterFiles(a) == IF a \in Staged THEN "SIDECAR" ELSE "MARKER"

(* _assemble, once every file is there: the work directory goes.              *)
RemoveWork(w) ==
  /\ At(w, "COPY") /\ Complete(worker[w].art, Here(w))
  /\ SetTree(w, [Here(w) EXCEPT !.work = FALSE])
  /\ GoTo(w, AfterFiles(worker[w].art))
  /\ UNCHANGED <<cas, part, final, kept, faults>>

(* A small file is written under a temporary name and renamed; one that has    *)
(* its name already is accepted as it is.                                  *)
Grown(p) == IF p = "NONE" THEN "PART" ELSE "DONE"
WriteSidecar(w) ==
  /\ At(w, "SIDECAR")
  /\ SetTree(w, [Here(w) EXCEPT !.sidecar = Grown(@)])
  /\ IF Grown(Here(w).sidecar) = "DONE" THEN GoTo(w, "MARKER") ELSE UNCHANGED worker
  /\ UNCHANGED <<cas, part, final, kept, faults>>
WriteMarker(w) ==
  /\ At(w, "MARKER")
  /\ SetTree(w, [Here(w) EXCEPT !.marker = Grown(@)])
  /\ IF Grown(Here(w).marker) = "DONE" THEN GoTo(w, "VERIFY") ELSE UNCHANGED worker
  /\ UNCHANGED <<cas, part, final, kept, faults>>

VerifyStaging(w) ==
  /\ At(w, "VERIFY")
  /\ IF Exact(worker[w].art, Here(w))
     THEN GoTo(w, "ACTIVATE") /\ UNCHANGED disk
     ELSE End(w)
  /\ UNCHANGED faults

MayActivateMutReplace(a) == TRUE
(* RENAME_NOREPLACE                                                          *)
MayActivate(a) == final[a] = NoTree

(* What a process that stops in the middle may leave under the final name: a    *)
(* rename shows the whole tree or nothing.                                   *)
RenamedMutCopied(t) == {t, [t EXCEPT !.marker = "NONE"]}
Renamed(t) == {t}

Activate(w) ==
  LET a == worker[w].art
  IN  /\ At(w, "ACTIVATE")
      /\ \/ /\ MayActivate(a)
            /\ \E t \in Renamed(tree[a]) : final' = [final EXCEPT ![a] = t]
            /\ tree' = [tree EXCEPT ![a] = NoTree]
            /\ GoTo(w, "CONFIRM")
            /\ UNCHANGED <<cas, part, kept>>
         \/ ~MayActivate(a) /\ End(w)
      /\ UNCHANGED faults

(* The last look at the final directory decides only between success and error. *)
Confirm(w) ==
  /\ At(w, "CONFIRM")
  /\ End(w) /\ UNCHANGED faults

----------------------------------------------------------------------------
(* ArtifactCacheQuarantineExecutor.execute takes no lock of the store.  The    *)
(* target is named after the task, so a repeated task finds it and is done.  *)
MoveAway(w, q) ==
  LET a == Target[q]
  IN  /\ At(w, "IDLE") /\ q \notin kept /\ final[a] # NoTree
      /\ final' = [final EXCEPT ![a] = NoTree]
      /\ kept' = kept \cup {q}
      /\ UNCHANGED <<cas, part, tree, worker, faults>>

(* Any system call may fail: no space, an I/O error.                          *)
DiskFault(w) ==
  /\ ~At(w, "IDLE") /\ faults < MaxFaults
  /\ faults' = faults + 1
  /\ End(w)

(* The process dies and its locks with it.                                    *)
Crash(w) ==
  /\ ~At(w, "IDLE") /\ faults < MaxFaults
  /\ faults' = faults + 1
  /\ Release(w) /\ UNCHANGED disk

(* Somebody else creates the final name.                                      *)
Intrude(a) ==
  /\ a \in Intruded /\ final[a] = NoTree
  /\ faults < MaxFaults /\ faults' = faults + 1
  /\ final' = [final EXCEPT ![a] = Empty(a)]
  /\ UNCHANGED <<cas, part, tree, kept, worker>>

----------------------------------------------------------------------------
Init ==
  /\ cas = [c \in Chunk |-> "NONE"] /\ part = [c \in Chunk |-> "NONE"]
  /\ tree = [a \in Artifact |-> NoTree] /\ final = [a \in Artifact |-> NoTree]
  /\ kept = {}
  /\ worker = [w \in Worker |-> Idle]
  /\ faults = 0

Download(w) ==
  \/ \E c \in Chunk : UseStored(w, c) \/ OpenPartial(w, c)
  \/ Receive(w) \/ CheckDigest(w) \/ Link(w) \/ Unlink(w) \/ Downloaded(w)
Assemble(w) ==
  \/ CreateDirectories(w) \/ (\E f \in File : CopyFile(w, f)) \/ RemoveWork(w)
  \/ WriteSidecar(w) \/ WriteMarker(w)
Work(w) ==
  \/ Reuse(w) \/ InspectStaging(w) \/ Download(w) \/ Assemble(w)
  \/ VerifyStaging(w) \/ Activate(w) \/ Confirm(w)

Next ==
  \/ \E w \in Worker : Work(w) \/ Interrupted(w) \/ DiskFault(w) \/ Crash(w)
  \/ \E w \in Worker, a \in Artifact : Start(w, a)
  \/ \E w \in Worker, q \in Quarantine : MoveAway(w, q)
  \/ \E a \in Artifact : Intrude(a)

(* A running process goes on; every artifact is asked for again and again.     *)
Spec == Init /\ [][Next]_vars
FairSpec ==
  /\ Spec
  /\ \A w \in Worker : WF_vars(Work(w))
  /\ \A a \in Artifact : SF_vars(\E w \in Worker : Start(w, a))

----------------------------------------------------------------------------
(* Properties *)

(* Every row, name and worker keeps the shape and the values of its kind.      *)
TypeOK ==
  /\ cas \in [Chunk -> ChunkNames] /\ part \in [Chunk -> PartFiles]
  /\ \A a \in Artifact : tree[a] \in Tree(a) \cup {NoTree} /\ final[a] \in Tree(a) \cup {NoTree}
  /\ kept \subseteq Quarantine
  /\ worker \in [Worker -> Workers] /\ faults \in 0 .. MaxFaults

(* What stands under a final name is a whole cache, or was never ours: no      *)
(* crash, failure or race exposes a partial tree.                           *)
FinalIsWhole ==
  \A a \in Artifact : final[a] # NoTree => Exact(a, final[a]) \/ final[a] = Empty(a)

(* The store seen from outside: which chunks are published, and what stands     *)
(* under each final name.                                                   *)
Shown(a, t) ==
  CASE t = NoTree -> "ABSENT"
    [] t # NoTree /\ Exact(a, t) -> "WHOLE"
    [] t = Empty(a) -> "FOREIGN"
    [] OTHER -> "TORN"

Promised == INSTANCE CacheStore
       WITH Needs <- [a \in Artifact |-> UniqueChunks(a)], Request <- Quarantine,
            published <- {c \in Chunk : cas[c] # "NONE"},
            cache <- [a \in Artifact |-> Shown(a, final[a])], quarantined <- kept

(* However many processes assemble, die and try again, a cache appears whole,   *)
(* under a free name and after every chunk of its manifest was verified, and   *)
(* only a quarantine takes it away.                                          *)
ImplementsCacheStore == Promised!Spec

(* The marker is the last name written into a staging tree.                    *)
MarkerIsLast ==
  \A a \in Artifact : tree[a] # NoTree /\ tree[a].marker = "DONE" =>
    Complete(a, tree[a]) /\ (a \in Staged => tree[a].sidecar = "DONE")

(* A chunk has its published name only with verified bytes, and its .part is    *)
(* gone unless a publisher died, or is, between link and unlink; a tree has    *)
(* its marker only when everything it vouches for is in it, and a final name   *)
(* only when it is whole.                                                    *)
PublishedIsVerified ==
  /\ FinalIsWhole /\ MarkerIsLast
  /\ \A c \in Chunk :
       /\ cas[c] = "LINKED" => part[c] = "FULL"
       /\ cas[c] = "STORED" => part[c] = "NONE"
       /\ Cardinality({w \in Worker : worker[w].chunk = c}) <= 1

(* A cache leaves its final name only into quarantine, a published chunk is     *)
(* never taken back or downloaded again, and what is quarantined is kept.     *)
NothingIsReplaced ==
  [][/\ \A a \in Artifact : final[a] # NoTree /\ final'[a] # final[a] =>
          final'[a] = NoTree /\ \E q \in kept' \ kept : Target[q] = a
     /\ \A c \in Chunk : cas[c] # "NONE" => cas'[c] # "NONE" /\ part'[c] \in {"NONE", part[c]}
     /\ kept \subseteq kept']_vars

(* When faults stop, asking again ends in a cache, however the earlier attempts *)
(* were cut off and whichever locks the other worker takes, unless the staging *)
(* directory is one that is refused.                                         *)
RetriesSucceed ==
  \A a \in Artifact : <>(final[a] # NoTree \/ Polluted(a, tree[a]))

(* docs/artifact-distribution.md:332: an interrupted assembly stays in the one  *)
(* staging directory and the next call continues it.  So nothing the store    *)
(* itself leaves behind is refused by the next attempt.                      *)
StagingCanBeResumed ==
  \A a \in Artifact : ArtifactFree(a) => ~Polluted(a, tree[a])

=============================================================================
