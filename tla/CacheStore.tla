----------------------------- MODULE CacheStore -----------------------------
(***************************************************************************)
(* What the model store of a node promises, with no process, no lock, no   *)
(* staging directory, no partial file and no crash: chunks are published   *)
(* once each, a cache appears whole, in one step, under a free name and    *)
(* after every chunk of its manifest, and leaves that name only into a     *)
(* quarantine directory of its own.  A name that somebody else has taken   *)
(* is FOREIGN, and stays so until it is quarantined.                       *)
(***************************************************************************)
CONSTANTS
  Artifact, Chunk,
  Needs,    \* the chunks of the manifest of an artifact
  Request,  \* quarantine requests
  Target    \* the artifact of a request

VARIABLES
  published,   \* the chunks anybody may use
  cache,       \* per artifact: "ABSENT", "WHOLE" or "FOREIGN"
  quarantined  \* the requests that moved something away

Init == /\ published = {}
        /\ cache = [a \in Artifact |-> "ABSENT"]
        /\ quarantined = {}

PublishChunk(c) == /\ published' = published \cup {c}
                   /\ UNCHANGED <<cache, quarantined>>

PublishCache(a) == /\ cache[a] = "ABSENT" /\ Needs[a] \subseteq published
                   /\ cache' = [cache EXCEPT ![a] = "WHOLE"]
                   /\ UNCHANGED <<published, quarantined>>

MoveAway(q) == /\ q \notin quarantined /\ cache[Target[q]] # "ABSENT"
               /\ cache' = [cache EXCEPT ![Target[q]] = "ABSENT"]
               /\ quarantined' = quarantined \cup {q}
               /\ UNCHANGED published

Intrude(a) == /\ cache[a] = "ABSENT"
              /\ cache' = [cache EXCEPT ![a] = "FOREIGN"]
              /\ UNCHANGED <<published, quarantined>>

Next == \/ \E c \in Chunk : PublishChunk(c)
        \/ \E a \in Artifact : PublishCache(a) \/ Intrude(a)
        \/ \E q \in Request : MoveAway(q)

Spec == Init /\ [][Next]_<<published, cache, quarantined>>
=============================================================================
