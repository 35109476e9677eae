------------------------- MODULE FaceGallery_proofs -------------------------
(***************************************************************************)
(* Proofs about FaceGallery, for any finite set of threads, any persons    *)
(* and tracks, any number of ids, and with or without the faults.          *)
(***************************************************************************)
EXTENDS FaceGallery, FiniteSetTheorems, TLAPS

-----------------------------------------------------------------------------
(* Type correctness, one lemma for the steps of a thread. *)

(* Remembering a face puts one track into one thread's cache. *)
LEMMA RememberType ==
  ASSUME FaceGalleryTypeOK, NEW th \in Threads, NEW track \in Tracks, NEW id \in Id,
         Remember(th, track, id)
  PROVE  /\ DOMAIN cache' = Threads
         /\ \A u \in Threads \ {th} : cache'[u] = cache[u]
         /\ DOMAIN cache'[th] \subseteq Tracks
         /\ \A t \in DOMAIN cache'[th] : cache'[th][t] \in Id
  BY DEF FaceGalleryTypeOK, Remember

(* The ids Match may return have been given out. *)
LEMMA MatchesAreIds ==
  ASSUME FaceGalleryTypeOK, NEW person \in Persons
  PROVE  Matches(person) \subseteq Id
  BY DEF FaceGalleryTypeOK, Matches, Entry

LEMMA MatchType ==
  ASSUME FaceGalleryTypeOK, NEW th \in Threads, Match(th)
  PROVE  FaceGalleryTypeOK'
<1>1. PICK track \in Tracks \ DOMAIN cache[th] : \E person \in Shows[track] :
        /\ unknown[th] = NoFace
        /\ \/ /\ \E id \in Matches(person) : Remember(th, track, id)
              /\ UNCHANGED unknown
           \/ /\ unknown' = [unknown EXCEPT ![th] = <<track, person>>]
              /\ UNCHANGED cache
        /\ UNCHANGED <<galleryVars, idVars>>
  BY DEF Match
<1>2. PICK person \in Shows[track] :
        /\ unknown[th] = NoFace
        /\ \/ /\ \E id \in Matches(person) : Remember(th, track, id)
              /\ UNCHANGED unknown
           \/ /\ unknown' = [unknown EXCEPT ![th] = <<track, person>>]
              /\ UNCHANGED cache
        /\ UNCHANGED <<galleryVars, idVars>>
  BY <1>1
<1>3. person \in Persons
  BY FaceGalleryAssumption
<1>4. CASE (\E id \in Matches(person) : Remember(th, track, id)) /\ UNCHANGED unknown
  <2>1. PICK id \in Id : Remember(th, track, id)
    BY <1>3, <1>4, MatchesAreIds
  <2> QED  BY <1>2, <1>4, <2>1, RememberType DEF FaceGalleryTypeOK, galleryVars, idVars
<1>5. CASE unknown' = [unknown EXCEPT ![th] = <<track, person>>] /\ UNCHANGED cache
  BY <1>2, <1>3, <1>5 DEF FaceGalleryTypeOK, galleryVars, idVars
<1> QED  BY <1>2, <1>4, <1>5

LEMMA EnrollType ==
  ASSUME FaceGalleryTypeOK, NEW th \in Threads, Enroll(th)
  PROVE  FaceGalleryTypeOK'
<1>1. PICK track \in Tracks, person \in Persons : unknown[th] = <<track, person>>
  BY DEF FaceGalleryTypeOK, Enroll
<1>2. nextId \in Id /\ nextId + 1 \in 1 .. MaxId + 1 /\ <<nextId, person>> \in Entry
  BY FaceGalleryAssumption DEF FaceGalleryTypeOK, Enroll, Id, Entry
<1>3. /\ entries' = entries \cup {<<nextId, person>>}
      /\ nextId' = nextId + 1
      /\ issued' = issued \cup {<<nextId, person>>}
      /\ Remember(th, track, nextId)
      /\ unknown' = [unknown EXCEPT ![th] = NoFace]
      /\ UNCHANGED <<enabled, forgotten>>
  BY <1>1 DEF Enroll
<1>4. /\ entries' \subseteq Entry
      /\ nextId' \in 1 .. MaxId + 1
      /\ \A e \in entries' : e[1] < nextId'
      /\ issued' \subseteq Entry
  BY <1>2, <1>3, FaceGalleryAssumption DEF FaceGalleryTypeOK, Entry, Id
<1>5. /\ file' \in [entries : SUBSET Entry, nextId : 1 .. MaxId + 1]
      /\ \A e \in file'.entries : e[1] < file'.nextId
      /\ unsaved' \subseteq Id
  BY <1>2, <1>4 DEF Enroll, Save, FaceGalleryTypeOK
<1>6. /\ DOMAIN cache' = Threads
      /\ \A u \in Threads \ {th} : cache'[u] = cache[u]
      /\ DOMAIN cache'[th] \subseteq Tracks
      /\ \A t \in DOMAIN cache'[th] : cache'[th][t] \in Id
  BY <1>2, <1>3, RememberType
<1>7. /\ DOMAIN unknown' = Threads
      /\ \A u \in Threads \ {th} : unknown'[u] = unknown[u]
      /\ unknown'[th] = NoFace
  BY <1>3 DEF FaceGalleryTypeOK
<1> QED  BY <1>3, <1>4, <1>5, <1>6, <1>7 DEF FaceGalleryTypeOK

LEMMA EvictTrackType ==
  ASSUME FaceGalleryTypeOK, NEW th \in Threads, EvictTrack(th)
  PROVE  FaceGalleryTypeOK'
<1>1. PICK t \in DOMAIN cache[th] :
        cache' = [cache EXCEPT ![th] = [u \in DOMAIN cache[th] \ {t} |-> cache[th][u]]]
  BY DEF EvictTrack
<1> QED  BY <1>1 DEF EvictTrack, FaceGalleryTypeOK, galleryVars, idVars

(* Starting again: the gallery is what the file holds, or empty. *)
LEMMA RestartType ==
  ASSUME FaceGalleryTypeOK, Restart \/ RestartWithout
  PROVE  FaceGalleryTypeOK'
<1>1. /\ cache' = [u \in Threads |-> NoTracks]
      /\ unknown' = [u \in Threads |-> NoFace]
      /\ forgotten' = forgotten \cup unsaved
      /\ unsaved' = {}
      /\ UNCHANGED <<file, issued>>
  BY DEF Restart, RestartWithout
<1>2. /\ entries' \subseteq Entry
      /\ nextId' \in 1 .. MaxId + 1
      /\ \A e \in entries' : e[1] < nextId'
      /\ enabled' \in BOOLEAN
  <2>1. CASE Restart
    BY <2>1 DEF Restart, FaceGalleryTypeOK
  <2>2. CASE RestartWithout
    <3>1. entries' = {} /\ nextId' = 1 /\ enabled' = FALSE
      BY <2>2 DEF RestartWithout
    <3>2. 1 \in 1 .. MaxId + 1
      BY FaceGalleryAssumption
    <3> QED  BY <3>1, <3>2
  <2> QED  BY <2>1, <2>2
<1>3. DOMAIN NoTracks = {}
  BY DEF NoTracks
<1> QED  BY <1>1, <1>2, <1>3 DEF FaceGalleryTypeOK

(* Any step. *)
LEMMA NextType == FaceGalleryTypeOK /\ [Next]_vars => FaceGalleryTypeOK'
<1> SUFFICES ASSUME FaceGalleryTypeOK, [Next]_vars
             PROVE  FaceGalleryTypeOK'
  OBVIOUS
<1>1. ASSUME NEW th \in Threads, Match(th)
      PROVE  FaceGalleryTypeOK'
  BY <1>1, MatchType
<1>2. ASSUME NEW th \in Threads, NotEnrolled(th)
      PROVE  FaceGalleryTypeOK'
  BY <1>2 DEF NotEnrolled, FaceGalleryTypeOK, galleryVars, idVars
<1>3. ASSUME NEW th \in Threads, Enroll(th)
      PROVE  FaceGalleryTypeOK'
  BY <1>3, EnrollType
<1>4. ASSUME NEW th \in Threads, EvictTrack(th)
      PROVE  FaceGalleryTypeOK'
  BY <1>4, EvictTrackType
<1>5. CASE Restart \/ RestartWithout
  BY <1>5, RestartType
<1>6. CASE UNCHANGED vars
  BY <1>6 DEF vars, galleryVars, threadVars, idVars, FaceGalleryTypeOK
<1> QED  BY <1>1, <1>2, <1>3, <1>4, <1>5, <1>6 DEF Next

LEMMA InitType == Init => FaceGalleryTypeOK
<1>1. DOMAIN NoTracks = {}
  BY DEF NoTracks
<1> QED  BY <1>1, FaceGalleryAssumption DEF Init, Empty, FaceGalleryTypeOK, Entry, Id, NoFace

(* The gallery, its file, the caches and the ids given out stay in range,  *)
(* and no id in memory or in the file reaches the next one.                *)
THEOREM GalleryTypeCorrect == Spec => []FaceGalleryTypeOK
BY InitType, NextType, PTL DEF Spec

-----------------------------------------------------------------------------
(***************************************************************************)
(* Ids.  Enroll gives out nextId; it must not have been given to anybody.  *)
(* In memory that is IssuedBelowNext; after a restart nextId comes from    *)
(* the file, so the file must be as far as the ids are, but for those that *)
(* were not saved.  A run without a gallery gives out no ids.              *)
(***************************************************************************)

IssuedBelowNext ==
  enabled => \A d \in issued : d[1] < nextId \/ d[1] \in forgotten

IssuedBelowFile ==
  \A d \in issued : d[1] < file.nextId \/ d[1] \in unsaved \cup forgotten

EnrollingNeedsGallery ==
  \A th \in Threads : unknown[th] # NoFace => enabled

IdInv ==
  /\ FaceGalleryTypeOK
  /\ IssuedBelowNext
  /\ IssuedBelowFile
  /\ EnrollingNeedsGallery
  /\ OneIdOnePerson

(* Steps of a thread that neither give out ids nor touch the file. *)
LEMMA QuietStepKeepsIds ==
  ASSUME IdInv, NEW th \in Threads, Match(th) \/ NotEnrolled(th) \/ EvictTrack(th)
  PROVE  IdInv'
<1>1. FaceGalleryTypeOK'
  BY NextType DEF IdInv, Next
<1>2. UNCHANGED <<galleryVars, idVars>>
  BY DEF Match, NotEnrolled, EvictTrack
<1>3. EnrollingNeedsGallery'
  <2>1. CASE Match(th)
    BY <1>2, <2>1 DEF Match, IdInv, EnrollingNeedsGallery, galleryVars
  <2>2. CASE NotEnrolled(th)
    BY <1>2, <2>2 DEF NotEnrolled, IdInv, FaceGalleryTypeOK, EnrollingNeedsGallery, galleryVars
  <2>3. CASE EvictTrack(th)
    BY <1>2, <2>3 DEF EvictTrack, IdInv, EnrollingNeedsGallery, galleryVars
  <2> QED  BY <2>1, <2>2, <2>3
<1>4. IssuedBelowNext' /\ IssuedBelowFile' /\ OneIdOnePerson'
  BY <1>2 DEF IdInv, IssuedBelowNext, IssuedBelowFile, OneIdOnePerson, galleryVars, idVars
<1> QED  BY <1>1, <1>3, <1>4 DEF IdInv

(* Enrolment: the id is a new one, or one that was forgotten. *)
LEMMA EnrollKeepsIds ==
  ASSUME IdInv, NEW th \in Threads, Enroll(th)
  PROVE  IdInv'
<1>1. FaceGalleryTypeOK'
  BY NextType DEF IdInv, Next
<1>2. nextId \in Nat /\ issued \subseteq Entry
  BY FaceGalleryAssumption DEF IdInv, FaceGalleryTypeOK
<1>3. enabled /\ enabled' /\ forgotten' = forgotten
  BY DEF Enroll, IdInv, EnrollingNeedsGallery
<1>4. PICK person : issued' = issued \cup {<<nextId, person>>}
  BY DEF Enroll
<1>5. \A d \in issued : d[1] \in Nat /\ (d[1] < nextId \/ d[1] \in forgotten)
  BY <1>2, <1>3 DEF IdInv, IssuedBelowNext, Entry, Id
<1>6. IssuedBelowNext'
  BY <1>2, <1>3, <1>4, <1>5 DEF Enroll, IssuedBelowNext
<1>7. IssuedBelowFile'
  <2>1. CASE file' = [entries |-> entries', nextId |-> nextId'] /\ unsaved' = {}
    <3>1. file'.nextId = nextId + 1
      BY <2>1 DEF Enroll
    <3> QED  BY <1>2, <1>3, <1>4, <1>5, <3>1 DEF IssuedBelowFile
  <2>2. CASE file' = file /\ unsaved' = unsaved \cup {nextId}
    BY <1>3, <1>4, <2>2 DEF IdInv, IssuedBelowFile
  <2> QED  BY <2>1, <2>2 DEF Enroll, Save
<1>8. EnrollingNeedsGallery'
  BY <1>3 DEF EnrollingNeedsGallery
<1>9. OneIdOnePerson'
  <2>1. SUFFICES ASSUME NEW d \in issued', NEW e \in issued', d[1] = e[1]
                 PROVE  d[2] = e[2] \/ d[1] \in forgotten'
    BY DEF OneIdOnePerson
  <2>2. CASE d \in issued /\ e \in issued
    BY <1>3, <2>1, <2>2 DEF IdInv, OneIdOnePerson
  <2>3. CASE d = <<nextId, person>> /\ e = <<nextId, person>>
    BY <2>3
  <2>4. CASE d \in issued /\ e = <<nextId, person>>
    BY <1>2, <1>3, <1>5, <2>1, <2>4
  <2>5. CASE d = <<nextId, person>> /\ e \in issued
    BY <1>2, <1>3, <1>5, <2>1, <2>5
  <2> QED  BY <1>4, <2>1, <2>2, <2>3, <2>4, <2>5
<1> QED  BY <1>1, <1>6, <1>7, <1>8, <1>9 DEF IdInv

(* A restart forgets what was not saved, and goes on from the file. *)
LEMMA RestartKeepsIds ==
  ASSUME IdInv, Restart \/ RestartWithout
  PROVE  IdInv'
<1>1. FaceGalleryTypeOK'
  BY NextType DEF IdInv, Next
<1>2. /\ forgotten' = forgotten \cup unsaved
      /\ unsaved' = {}
      /\ UNCHANGED <<file, issued>>
      /\ \A th \in Threads : unknown'[th] = NoFace
  BY DEF Restart, RestartWithout
<1>3. IssuedBelowFile' /\ EnrollingNeedsGallery' /\ OneIdOnePerson'
  BY <1>2 DEF IdInv, IssuedBelowFile, EnrollingNeedsGallery, OneIdOnePerson
<1>4. IssuedBelowNext'
  <2>1. CASE Restart
    BY <1>2, <2>1 DEF Restart, IdInv, IssuedBelowFile, IssuedBelowNext
  <2>2. CASE RestartWithout
    BY <2>2 DEF RestartWithout, IssuedBelowNext
  <2> QED  BY <2>1, <2>2
<1> QED  BY <1>1, <1>3, <1>4 DEF IdInv

LEMMA NextIds == IdInv /\ [Next]_vars => IdInv'
<1> SUFFICES ASSUME IdInv, [Next]_vars
             PROVE  IdInv'
  OBVIOUS
<1>1. ASSUME NEW th \in Threads, Match(th) \/ NotEnrolled(th) \/ EvictTrack(th)
      PROVE  IdInv'
  BY <1>1, QuietStepKeepsIds
<1>2. ASSUME NEW th \in Threads, Enroll(th)
      PROVE  IdInv'
  BY <1>2, EnrollKeepsIds
<1>3. CASE Restart \/ RestartWithout
  BY <1>3, RestartKeepsIds
<1>4. CASE UNCHANGED vars
  <2>1. FaceGalleryTypeOK'
    BY NextType DEF IdInv
  <2> QED  BY <1>4, <2>1 DEF vars, galleryVars, threadVars, idVars, IdInv,
              IssuedBelowNext, IssuedBelowFile, EnrollingNeedsGallery, OneIdOnePerson
<1> QED  BY <1>1, <1>2, <1>3, <1>4 DEF Next

LEMMA InitIds == Init => IdInv
  BY InitType DEF Init, IdInv, IssuedBelowNext, IssuedBelowFile,
     EnrollingNeedsGallery, OneIdOnePerson

(* Whatever the threads do and whenever the program is restarted, an id    *)
(* names two persons only if its first enrolment never reached the file.   *)
THEOREM IdsNameOnePerson == Spec => []OneIdOnePerson
<1>1. IdInv => OneIdOnePerson
  BY DEF IdInv
<1> QED  BY <1>1, InitIds, NextIds, PTL DEF Spec

-----------------------------------------------------------------------------
(***************************************************************************)
(* Duplicates.  A thread that is about to enrol a person has looked it up  *)
(* when the gallery had no entry of it; once there is one, nobody looks it *)
(* up in vain.  So the entries of a person and the threads about to enrol  *)
(* it are together no more than the threads.                               *)
(***************************************************************************)

EntriesOf(es, p) == {e \in es : e[2] = p}

Enrolling(p) == {th \in Threads : unknown[th] # NoFace /\ unknown[th][2] = p}

FewDuplicates(p) ==
  /\ IsFiniteSet(EntriesOf(entries, p))
  /\ IsFiniteSet(EntriesOf(file.entries, p))
  /\ Cardinality(EntriesOf(entries, p)) + Cardinality(Enrolling(p)) <= Cardinality(Threads)
  /\ Cardinality(EntriesOf(file.entries, p)) <= Cardinality(Threads)

DuplicateInv ==
  /\ FaceGalleryTypeOK
  /\ \A p \in Persons : FewDuplicates(p)

LEMMA EnrollingIsFinite ==
  ASSUME NEW p
  PROVE  /\ IsFiniteSet(Enrolling(p))
         /\ Cardinality(Enrolling(p)) \in Nat
         /\ Cardinality(Threads) \in Nat
         /\ Cardinality(Enrolling(p)) <= Cardinality(Threads)
<1>1. Enrolling(p) \subseteq Threads
  BY DEF Enrolling
<1> QED  BY <1>1, FaceGalleryAssumption, FS_Subset, FS_CardinalityType

LEMMA EnrollingIsFiniteNext ==
  ASSUME NEW p
  PROVE  /\ IsFiniteSet(Enrolling(p)')
         /\ Cardinality(Enrolling(p)') \in Nat
         /\ Cardinality(Enrolling(p)') <= Cardinality(Threads)
<1>1. Enrolling(p)' \subseteq Threads
  BY DEF Enrolling
<1> QED  BY <1>1, FaceGalleryAssumption, FS_Subset, FS_CardinalityType

(* With no more threads about to enrol p and the same gallery. *)
LEMMA FewerEnrolling ==
  ASSUME NEW p \in Persons, FewDuplicates(p),
         UNCHANGED galleryVars, Enrolling(p)' \subseteq Enrolling(p)
  PROVE  FewDuplicates(p)'
<1>1. Cardinality(Enrolling(p)') <= Cardinality(Enrolling(p))
  BY EnrollingIsFinite, FS_Subset
<1>2. /\ Cardinality(EntriesOf(entries, p)) \in Nat
      /\ Cardinality(Enrolling(p)) \in Nat
      /\ Cardinality(Enrolling(p)') \in Nat
      /\ Cardinality(Threads) \in Nat
  BY EnrollingIsFinite, EnrollingIsFiniteNext, FS_CardinalityType DEF FewDuplicates
<1>3. /\ EntriesOf(entries, p)' = EntriesOf(entries, p)
      /\ EntriesOf(file.entries, p)' = EntriesOf(file.entries, p)
  BY DEF galleryVars, EntriesOf
<1> QED  BY <1>1, <1>2, <1>3 DEF FewDuplicates

LEMMA MatchKeepsFew ==
  ASSUME DuplicateInv, NEW th \in Threads, Match(th), NEW p \in Persons
  PROVE  FewDuplicates(p)'
<1>1. FewDuplicates(p) /\ DOMAIN unknown = Threads
  BY DEF DuplicateInv, FaceGalleryTypeOK
<1>2. UNCHANGED galleryVars
  BY DEF Match
<1>3. CASE UNCHANGED unknown
  BY <1>1, <1>2, <1>3, FewerEnrolling DEF Enrolling
<1>4. ASSUME NEW track, NEW person,
             Matches(person) = {},
             unknown[th] = NoFace,
             unknown' = [unknown EXCEPT ![th] = <<track, person>>]
      PROVE  FewDuplicates(p)'
  <2>1. CASE p = person
    <3>1. EntriesOf(entries, p) = {}
      BY <1>4, <2>1 DEF Matches, EntriesOf
    <3>2. EntriesOf(entries, p)' = {} /\ EntriesOf(file.entries, p)' = EntriesOf(file.entries, p)
      BY <1>2, <3>1 DEF galleryVars, EntriesOf
    <3>3. IsFiniteSet({}) /\ Cardinality({}) = 0
      BY FS_EmptySet
    <3> QED  BY <1>1, <3>2, <3>3, EnrollingIsFiniteNext DEF FewDuplicates
  <2>2. CASE p # person
    <3>1. \A u \in Threads : unknown'[u] = IF u = th THEN <<track, person>> ELSE unknown[u]
      BY <1>1, <1>4
    <3>2. Enrolling(p)' \subseteq Enrolling(p)
      BY <2>2, <3>1 DEF Enrolling
    <3> QED  BY <1>1, <1>2, <3>2, FewerEnrolling
  <2> QED  BY <2>1, <2>2
<1>5. \/ UNCHANGED unknown
      \/ \E track \in Tracks \ DOMAIN cache[th] : \E person \in Shows[track] :
           /\ Matches(person) = {}
           /\ unknown[th] = NoFace
           /\ unknown' = [unknown EXCEPT ![th] = <<track, person>>]
  BY DEF Match
<1> QED  BY <1>3, <1>4, <1>5

LEMMA EnrollKeepsFew ==
  ASSUME DuplicateInv, NEW th \in Threads, Enroll(th), NEW p \in Persons
  PROVE  FewDuplicates(p)'
<1> DEFINE person == unknown[th][2]
           new == <<nextId, person>>
<1>1. FewDuplicates(p) /\ DOMAIN unknown = Threads
  BY DEF DuplicateInv, FaceGalleryTypeOK
<1>2. /\ entries' = entries \cup {new}
      /\ file' = [entries |-> entries', nextId |-> nextId'] \/ file' = file
      /\ unknown[th] # NoFace
      /\ \A u \in Threads : unknown'[u] = IF u = th THEN NoFace ELSE unknown[u]
  BY <1>1 DEF Enroll, Save
<1>3. Enrolling(p)' = Enrolling(p) \ {th}
  BY <1>2 DEF Enrolling
<1>4. /\ Cardinality(EntriesOf(entries, p)) \in Nat
      /\ Cardinality(Enrolling(p)) \in Nat
      /\ Cardinality(Threads) \in Nat
      /\ Cardinality(Enrolling(p)') \in Nat
      /\ IsFiniteSet(Enrolling(p))
  BY <1>1, EnrollingIsFinite, EnrollingIsFiniteNext, FS_CardinalityType DEF FewDuplicates
<1>5. /\ IsFiniteSet(EntriesOf(entries', p))
      /\ Cardinality(EntriesOf(entries', p)) \in Nat
      /\ Cardinality(EntriesOf(entries', p)) + Cardinality(Enrolling(p)') <= Cardinality(Threads)
  <2>1. CASE p = person
    <3>1. EntriesOf(entries', p) = EntriesOf(entries, p) \cup {new}
      BY <1>2, <2>1 DEF EntriesOf
    <3>2. /\ IsFiniteSet(EntriesOf(entries', p))
          /\ Cardinality(EntriesOf(entries', p)) <= Cardinality(EntriesOf(entries, p)) + 1
          /\ Cardinality(EntriesOf(entries', p)) \in Nat
      <4> DEFINE E == EntriesOf(entries, p)
      <4>1. IsFiniteSet(E) /\ Cardinality(E) \in Nat
        BY <1>1, <1>4 DEF FewDuplicates
      <4> HIDE DEF E, new
      <4>2. /\ IsFiniteSet(E \cup {new})
            /\ Cardinality(E \cup {new}) = IF new \in E THEN Cardinality(E) ELSE Cardinality(E) + 1
        BY <4>1, FS_AddElement
      <4>3. /\ Cardinality(E \cup {new}) \in Nat
            /\ Cardinality(E \cup {new}) <= Cardinality(E) + 1
        BY <4>1, <4>2
      <4> QED  BY <3>1, <4>2, <4>3 DEF E
    <3>3. th \in Enrolling(p)
      BY <1>2, <2>1 DEF Enrolling
    <3>4. Cardinality(Enrolling(p)') = Cardinality(Enrolling(p)) - 1
      BY <1>3, <1>4, <3>3, FS_RemoveElement
    <3> QED  BY <1>1, <1>4, <3>2, <3>4 DEF FewDuplicates
  <2>2. CASE p # person
    <3>1. EntriesOf(entries', p) = EntriesOf(entries, p)
      BY <1>2, <2>2 DEF EntriesOf
    <3>2. Cardinality(Enrolling(p)') <= Cardinality(Enrolling(p))
      BY <1>3, <1>4, FS_RemoveElement
    <3> QED  BY <1>1, <1>4, <3>1, <3>2 DEF FewDuplicates
  <2> QED  BY <2>1, <2>2
<1>6. file'.entries = entries' \/ file'.entries = file.entries
  BY <1>2
<1>7. /\ IsFiniteSet(EntriesOf(file'.entries, p))
      /\ Cardinality(EntriesOf(file'.entries, p)) <= Cardinality(Threads)
  BY <1>1, <1>4, <1>5, <1>6 DEF FewDuplicates
<1>8. EntriesOf(entries, p)' = EntriesOf(entries', p) /\
      EntriesOf(file.entries, p)' = EntriesOf(file'.entries, p)
  BY DEF EntriesOf
<1> QED  BY <1>5, <1>7, <1>8 DEF FewDuplicates

LEMMA RestartKeepsFew ==
  ASSUME DuplicateInv, Restart \/ RestartWithout, NEW p \in Persons
  PROVE  FewDuplicates(p)'
<1>1. FewDuplicates(p)
  BY DEF DuplicateInv
<1>2. /\ file' = file
      /\ \A th \in Threads : unknown'[th] = NoFace
      /\ entries' = file.entries \/ entries' = {}
  BY DEF Restart, RestartWithout
<1>3. Enrolling(p)' = {}
  BY <1>2 DEF Enrolling
<1>4. EntriesOf({}, p) = {}
  BY DEF EntriesOf
<1>5. /\ EntriesOf(file.entries, p)' = EntriesOf(file.entries, p)
      /\ \/ EntriesOf(entries, p)' = EntriesOf(file.entries, p)
         \/ EntriesOf(entries, p)' = {}
  BY <1>2, <1>4 DEF EntriesOf
<1>6. /\ IsFiniteSet({}) /\ Cardinality({}) = 0
      /\ Cardinality(EntriesOf(file.entries, p)) \in Nat
      /\ Cardinality(Threads) \in Nat
  BY <1>1, FS_EmptySet, FS_CardinalityType, EnrollingIsFinite DEF FewDuplicates
<1> QED  BY <1>1, <1>3, <1>5, <1>6 DEF FewDuplicates

LEMMA NextDuplicates == DuplicateInv /\ [Next]_vars => DuplicateInv'
<1> SUFFICES ASSUME DuplicateInv, [Next]_vars
             PROVE  DuplicateInv'
  OBVIOUS
<1>1. FaceGalleryTypeOK'
  BY NextType DEF DuplicateInv
<1>2. ASSUME NEW p \in Persons
      PROVE  FewDuplicates(p)'
  <2>1. FewDuplicates(p) /\ DOMAIN unknown = Threads
    BY DEF DuplicateInv, FaceGalleryTypeOK
  <2>2. ASSUME NEW th \in Threads, Match(th)
        PROVE  FewDuplicates(p)'
    BY <2>2, MatchKeepsFew
  <2>3. ASSUME NEW th \in Threads, NotEnrolled(th)
        PROVE  FewDuplicates(p)'
    <3>1. \A u \in Threads : unknown'[u] = IF u = th THEN NoFace ELSE unknown[u]
      BY <2>1, <2>3 DEF NotEnrolled
    <3>2. Enrolling(p)' \subseteq Enrolling(p) /\ UNCHANGED galleryVars
      BY <2>3, <3>1 DEF Enrolling, NotEnrolled
    <3> QED  BY <2>1, <3>2, FewerEnrolling
  <2>4. ASSUME NEW th \in Threads, Enroll(th)
        PROVE  FewDuplicates(p)'
    BY <2>4, EnrollKeepsFew
  <2>5. ASSUME NEW th \in Threads, EvictTrack(th)
        PROVE  FewDuplicates(p)'
    BY <2>1, <2>5, FewerEnrolling DEF EvictTrack, Enrolling
  <2>6. CASE Restart \/ RestartWithout
    BY <2>6, RestartKeepsFew
  <2>7. CASE UNCHANGED vars
    BY <2>1, <2>7, FewerEnrolling DEF vars, threadVars, Enrolling
  <2> QED  BY <2>2, <2>3, <2>4, <2>5, <2>6, <2>7 DEF Next
<1> QED  BY <1>1, <1>2 DEF DuplicateInv

LEMMA InitDuplicates == Init => DuplicateInv
<1> SUFFICES ASSUME Init
             PROVE  DuplicateInv
  OBVIOUS
<1>1. ASSUME NEW p \in Persons
      PROVE  FewDuplicates(p)
  <2>1. /\ EntriesOf(entries, p) = {}
        /\ EntriesOf(file.entries, p) = {}
        /\ Enrolling(p) = {}
    BY DEF Init, Empty, EntriesOf, Enrolling
  <2>2. IsFiniteSet({}) /\ Cardinality({}) = 0 /\ Cardinality(Threads) \in Nat
    BY FS_EmptySet, EnrollingIsFinite
  <2> QED  BY <2>1, <2>2 DEF FewDuplicates
<1> QED  BY <1>1, InitType DEF DuplicateInv

(* However often a person is seen, by however many threads at a time, and  *)
(* over restarts, it has at most one entry for each thread.                *)
THEOREM DuplicatesAreBounded == Spec => []DuplicatesBounded
<1>1. DuplicateInv => DuplicatesBounded
  <2> SUFFICES ASSUME DuplicateInv, NEW p \in Persons
               PROVE  Cardinality({e \in entries : e[2] = p}) <= Cardinality(Threads)
    BY DEF DuplicatesBounded
  <2>1. /\ Cardinality(EntriesOf(entries, p)) \in Nat
        /\ Cardinality(Enrolling(p)) \in Nat
        /\ Cardinality(Threads) \in Nat
    BY EnrollingIsFinite, FS_CardinalityType DEF DuplicateInv, FewDuplicates
  <2>2. Cardinality(EntriesOf(entries, p)) + Cardinality(Enrolling(p)) <= Cardinality(Threads)
    BY DEF DuplicateInv, FewDuplicates
  <2>3. Cardinality(EntriesOf(entries, p)) <= Cardinality(Threads)
    BY <2>1, <2>2
  <2> QED  BY <2>3 DEF EntriesOf
<1> QED  BY <1>1, InitDuplicates, NextDuplicates, PTL DEF Spec

=============================================================================
