---------------------------- MODULE ReconcilerProofs ----------------------------
(***************************************************************************)
(* What the steps of Reconciler do to its invariants, for any controller   *)
(* and any resources: the lemmas of the proofs about deletions.            *)
(***************************************************************************)
EXTENDS Reconciler, TLAPS

\* What the lemmas need of the objects, the cache and the worker's copy.
Sound(resources, untouched) ==
    /\ obj = [g \in resources |-> obj[g]]
    /\ cache = [g \in resources |-> cache[g]]
    /\ at # "idle" => me \in resources /\ mine # Absent
    /\ at = "idle" => ~fresh
    /\ CopiesAgree(resources, untouched)
    /\ "finalizer" \in untouched

\* A reconcile ends, or nothing happens to objects and copies: no copy is newer for that.
LEMMA DeletionAfterEnd ==
    ASSUME NEW R, DeletionIsLasting(R), UNCHANGED <<obj, cache>>,
           Done \/ UNCHANGED worker
    PROVE  DeletionIsLasting(R)'
BY DEF DeletionIsLasting, Done, Guarded, worker

\* A reconcile begins with the cache's copy.
LEMMA DeletionAfterStart ==
    ASSUME NEW R, DeletionIsLasting(R), NEW g \in R, Start(g)
    PROVE  DeletionIsLasting(R)'
BY DEF DeletionIsLasting, Start, Guarded, cluster

\* The worker goes on, its copy as much, or as little, marked for deletion as before.
LEMMA DeletionAfterWork ==
    ASSUME NEW R, NEW E, Sound(R, E), DeletionIsLasting(R),
           at # "idle", UNCHANGED <<obj, cache, me, fresh>>,
           mine'.deleting = mine.deleting,
           at' = "finalizer" => at = "client" /\ mine' = mine
    PROVE  DeletionIsLasting(R)'
BY DEF DeletionIsLasting, Sound, CopiesAgree, Guarded

\* The worker writes its copy, not marked for deletion: the object was not marked either,
\* and a cache that shows a deletion is not what the copy was read from.
LEMMA DeletionAfterWrite ==
    ASSUME NEW R, NEW E, Sound(R, E), DeletionIsLasting(R), NEW o, Written(o),
           at # "idle", at' # "finalizer", me' = me,
           ~mine.deleting, ~o.deleting, at = "finalizer" \/ Guarded(me)
    PROVE  DeletionIsLasting(R)'
<1>1. /\ me \in R /\ fresh /\ obj' = [obj EXCEPT ![me] = o] /\ cache' = cache /\ mine' = o
      /\ obj[me].deleting = mine.deleting
  BY DEF Written, Sound, CopiesAgree
<1>2. cache[me] # Absent => ~cache[me].deleting
  BY <1>1 DEF DeletionIsLasting
<1>3. \A g \in R : g # me => obj'[g] = obj[g]
  BY <1>1 DEF Sound
<1>4. ASSUME NEW g \in R, cache'[g] # Absent, cache'[g].deleting, Guarded(g)'
      PROVE  obj'[g].deleting
  <2>1. g # me
    BY <1>1, <1>2, <1>4
  <2>2. Guarded(g)
    BY <1>3, <1>4, <2>1 DEF Guarded
  <2>3. QED BY <1>1, <1>3, <1>4, <2>1, <2>2 DEF DeletionIsLasting
<1>5. QED BY <1>1, <1>4 DEF DeletionIsLasting

\* A status is written into the object the cache shows.
LEMMA DeletionAfterStatus ==
    ASSUME NEW R, NEW E, Sound(R, E), DeletionIsLasting(R), NEW o, StatusAccepted(o),
           o # Absent, o.deleting = cache[me].deleting, o.finalizer = cache[me].finalizer
    PROVE  DeletionIsLasting(R)'
<1>1. /\ me \in R /\ obj' = [obj EXCEPT ![me] = o] /\ cache' = cache /\ at' = "idle"
      /\ obj[me] = cache[me] /\ cache[me] # Absent
  BY DEF StatusAccepted, Done, Sound, CopiesAgree
<1>2. /\ obj'[me] = o /\ \A g \in R : g # me => obj'[g] = obj[g]
  BY <1>1 DEF Sound
<1>3. \A g \in R : (Guarded(g)' => Guarded(g)) /\ (Guarded(g)' => obj'[g].deleting = obj[g].deleting)
  BY <1>1, <1>2 DEF Guarded
<1>4. QED BY <1>1, <1>3 DEF DeletionIsLasting

\* An object goes with its finalizer.
LEMMA DeletionAfterRelease ==
    ASSUME NEW R, NEW E, Sound(R, E), DeletionIsLasting(R), RemoveFinalizer
    PROVE  DeletionIsLasting(R)'
<1>1. at' = "idle" /\ cache' = cache
  BY DEF RemoveFinalizer, Done, cluster
<1>2. \A g \in R : obj'[g] = obj[g] \/ obj'[g] = Absent
  BY DEF RemoveFinalizer, cluster, Sound
<1>3. QED BY <1>1, <1>2 DEF DeletionIsLasting, Guarded

\* Another client writes an object: it takes back no deletion and adds no finalizer.
LEMMA DeletionAfterTouch ==
    ASSUME NEW R, NEW E, Sound(R, E), DeletionIsLasting(R), NEW g \in R, NEW o, Touched(g, o),
           o # Absent /\ o.finalizer => Guarded(g) /\ (obj[g].deleting => o.deleting)
    PROVE  DeletionIsLasting(R)'
<1>1. /\ obj' = [obj EXCEPT ![g] = o] /\ UNCHANGED <<cache, at, me, mine>>
      /\ fresh' => fresh /\ me # g
  BY DEF Touched
<1>2. /\ obj'[g] = o /\ \A h \in R : h # g => obj'[h] = obj[h]
  BY <1>1 DEF Sound
<1>3. \A h \in R : Guarded(h)' => Guarded(h) /\ (obj[h].deleting => obj'[h].deleting)
  BY <1>2 DEF Guarded
<1>4. at # "idle" => me \in R
  BY DEF Sound
<1>5. QED BY <1>1, <1>3, <1>4 DEF DeletionIsLasting

\* The informer brings the object as it is.
LEMMA DeletionAfterSync ==
    ASSUME NEW R, NEW E, Sound(R, E), DeletionIsLasting(R), NEW g \in R, Sync(g)
    PROVE  DeletionIsLasting(R)'
<1>1. /\ cache' = [cache EXCEPT ![g] = obj[g]] /\ UNCHANGED <<obj, at, me, mine, fresh>>
  BY DEF Sync, worker
<1>2. /\ cache'[g] = obj[g] /\ \A h \in R : h # g => cache'[h] = cache[h]
  BY <1>1 DEF Sound
<1>3. \A h \in R : cache'[h] # Absent /\ cache'[h].deleting /\ Guarded(h) => obj[h].deleting
  BY <1>2 DEF DeletionIsLasting
<1>4. at = "finalizer" /\ fresh => me \in R /\ obj[me] = mine /\ cache[me] = mine
  BY DEF Sound, CopiesAgree, DeletionIsLasting
<1>5. QED BY <1>1, <1>2, <1>3, <1>4 DEF DeletionIsLasting, Guarded
=============================================================================
