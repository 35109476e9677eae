----------------------------- MODULE FaceGallery -----------------------------
(***************************************************************************)
(* The gallery of known faces, shared by all channels and kept in a file.  *)
(* Each channel looks faces up in one thread, with a cache of its own:     *)
(* that of its frame_offload element when msgagg is enabled, that of its   *)
(* appsink callback when it is not.  A face whose track is not in the      *)
(* cache is matched with the gallery and, when nothing matches and the     *)
(* face is good enough, enrolled.  Match and Enroll lock the gallery one   *)
(* after the other, not together.                                          *)
(*                                                                         *)
(* A person stands for the embeddings that match one another; a track may  *)
(* show several persons when it is none: all objects without a tracking-id *)
(* have track 0.                                                           *)
(***************************************************************************)
EXTENDS Naturals, FiniteSets

CONSTANTS Threads,      \* one per channel
          Persons,
          Tracks,
          Shows,        \* per track, the persons its faces may be of
          MaxId,        \* bound: the ids that may be given out
          Faults        \* the faults of the environment a run includes

ASSUME FaceGalleryAssumption ==
  /\ IsFiniteSet(Threads)
  /\ Shows \in [Tracks -> SUBSET Persons]
  /\ MaxId \in Nat
  /\ Faults \subseteq {"save_fails", "load_fails"}

VARIABLES entries,      \* the gallery's entries_, as pairs of id and person
          nextId,
          file,         \* what the gallery's file holds
          enabled,      \* the gallery was loaded
          cache,        \* per thread, its track_id_to_face_
          unknown,      \* per thread, the face Match has not found
          issued,       \* the ids given out by any run of the program, with
                        \* the persons they were given to
          unsaved,      \* ids given out since the file was last written
          forgotten     \* ids given out that a restart did not find

galleryVars == <<entries, nextId, file, enabled>>
threadVars == <<cache, unknown>>
idVars == <<issued, unsaved, forgotten>>
vars == <<galleryVars, threadVars, idVars>>

Id == 1 .. MaxId

Entry == Id \X Persons

NoFace == <<>>

NoTracks == [t \in {} |-> 0]

Empty == [entries |-> {}, nextId |-> 1]

(* Ids in use are below the next one, in memory and in the file, and a     *)
(* thread enrols only faces of tracks it has not cached.                   *)
FaceGalleryTypeOK ==
  /\ entries \subseteq Entry
  /\ nextId \in 1 .. MaxId + 1
  /\ \A e \in entries : e[1] < nextId
  /\ file \in [entries : SUBSET Entry, nextId : 1 .. MaxId + 1]
  /\ \A e \in file.entries : e[1] < file.nextId
  /\ enabled \in BOOLEAN
  /\ DOMAIN cache = Threads
  /\ DOMAIN unknown = Threads
  /\ \A th \in Threads :
       /\ DOMAIN cache[th] \subseteq Tracks
       /\ \A t \in DOMAIN cache[th] : cache[th][t] \in Id
       /\ unknown[th] \in (Tracks \X Persons) \cup {NoFace}
       /\ unknown[th] # NoFace => unknown[th][1] \notin DOMAIN cache[th]
  /\ issued \subseteq Entry
  /\ unsaved \subseteq Id
  /\ forgotten \subseteq Id

(* Load has found no file and written an empty gallery. *)
Init ==
  /\ entries = {}
  /\ nextId = 1
  /\ file = Empty
  /\ enabled = TRUE
  /\ cache = [th \in Threads |-> NoTracks]
  /\ unknown = [th \in Threads |-> NoFace]
  /\ issued = {}
  /\ unsaved = {}
  /\ forgotten = {}

-----------------------------------------------------------------------------

Remember(th, track, id) ==
  cache' = [cache EXCEPT ![th] =
             [t \in DOMAIN @ \cup {track} |-> IF t = track THEN id ELSE @[t]]]

(* Mutant: the entry with the highest id is passed over. *)
MatchesButLast(person) == {e[1] : e \in {d \in entries : d[2] = person /\ d[1] + 1 < nextId}}

(* The ids Match may return: of several entries of a person the best one   *)
(* depends on the embedding.                                               *)
Matches(person) == {e[1] : e \in {d \in entries : d[2] = person}}

(* A face of a track that is not cached.  One that is has its id from the  *)
(* cache, and nothing changes.                                             *)
Match(th) ==
  \E track \in Tracks \ DOMAIN cache[th] : \E person \in Shows[track] :
    /\ enabled
    /\ unknown[th] = NoFace
    /\ \/ /\ \E id \in Matches(person) : Remember(th, track, id)
          /\ UNCHANGED unknown
       \/ /\ Matches(person) = {}
          /\ unknown' = [unknown EXCEPT ![th] = <<track, person>>]
          /\ UNCHANGED cache
    /\ UNCHANGED <<galleryVars, idVars>>

(* The face is too small, or its score too low. *)
NotEnrolled(th) ==
  /\ unknown[th] # NoFace
  /\ unknown' = [unknown EXCEPT ![th] = NoFace]
  /\ UNCHANGED <<galleryVars, cache, idVars>>

(* Save writes the file as a whole or not at all. *)
Save(gallery) ==
  \/ file' = gallery /\ unsaved' = {}
  \/ "save_fails" \in Faults /\ file' = file /\ unsaved' = unsaved \cup {nextId}

(* Mutant: the counter is advanced after the file is written. *)
EnrollCountsLate(th) ==
  /\ unknown[th] # NoFace
  /\ nextId <= MaxId
  /\ entries' = entries \cup {<<nextId, unknown[th][2]>>}
  /\ nextId' = nextId + 1
  /\ Save([entries |-> entries', nextId |-> nextId])
  /\ issued' = issued \cup {<<nextId, unknown[th][2]>>}
  /\ Remember(th, unknown[th][1], nextId)
  /\ unknown' = [unknown EXCEPT ![th] = NoFace]
  /\ UNCHANGED <<enabled, forgotten>>

(* The lock is held over the whole of Enroll; what Save returns is not     *)
(* looked at.                                                              *)
Enroll(th) ==
  /\ unknown[th] # NoFace
  /\ nextId <= MaxId
  /\ entries' = entries \cup {<<nextId, unknown[th][2]>>}
  /\ nextId' = nextId + 1
  /\ Save([entries |-> entries', nextId |-> nextId'])
  /\ issued' = issued \cup {<<nextId, unknown[th][2]>>}
  /\ Remember(th, unknown[th][1], nextId)
  /\ unknown' = [unknown EXCEPT ![th] = NoFace]
  /\ UNCHANGED <<enabled, forgotten>>

(* A track that has not been seen for a while leaves the cache. *)
EvictTrack(th) ==
  /\ unknown[th] = NoFace
  /\ \E t \in DOMAIN cache[th] :
       cache' = [cache EXCEPT ![th] = [u \in DOMAIN @ \ {t} |-> @[u]]]
  /\ UNCHANGED <<galleryVars, unknown, idVars>>

(* The program ends, or dies, at any moment and is started again.          *)
Restart ==
  /\ entries' = file.entries
  /\ nextId' = file.nextId
  /\ enabled' = TRUE
  /\ cache' = [th \in Threads |-> NoTracks]
  /\ unknown' = [th \in Threads |-> NoFace]
  /\ forgotten' = forgotten \cup unsaved
  /\ unsaved' = {}
  /\ UNCHANGED <<file, issued>>

(* Load fails: this run of the program has no gallery. *)
RestartWithout ==
  /\ "load_fails" \in Faults
  /\ entries' = {}
  /\ nextId' = 1
  /\ enabled' = FALSE
  /\ cache' = [th \in Threads |-> NoTracks]
  /\ unknown' = [th \in Threads |-> NoFace]
  /\ forgotten' = forgotten \cup unsaved
  /\ unsaved' = {}
  /\ UNCHANGED <<file, issued>>

Next ==
  \/ \E th \in Threads : Match(th) \/ NotEnrolled(th) \/ Enroll(th) \/ EvictTrack(th)
  \/ Restart
  \/ RestartWithout

Spec == Init /\ [][Next]_vars

-----------------------------------------------------------------------------

(* An id names one person for ever, over restarts too: ids end up in the   *)
(* records of earlier runs.  The exception is an id whose enrolment could  *)
(* not be written to the file before the program ended.                    *)
OneIdOnePerson ==
  \A d, e \in issued : d[1] = e[1] => d[2] = e[2] \/ d[1] \in forgotten

(* A person may be enrolled more than once, because threads that look it   *)
(* up at the same time do not find one another's entry; but once for each  *)
(* thread at most, however often it is seen.                               *)
DuplicatesBounded ==
  \A p \in Persons : Cardinality({e \in entries : e[2] = p}) <= Cardinality(Threads)

=============================================================================
