-------------------------- MODULE MediaGroupProofs --------------------------
(***************************************************************************)
(* The album buffer for any photos, instances, limits and faults: types,   *)
(* and the five safety properties of the aggregator.                       *)
(***************************************************************************)
EXTENDS MediaGroup, SequenceTheorems, FiniteSetTheorems, TLAPS

\* How often photo p stands in the buffer s.
Occurrences(s, p) == Cardinality({n \in DOMAIN s : s[n] = p})

\* An empty buffer holds nothing.
LEMMA EmptyBuffer ==
  ASSUME NEW p
  PROVE  ToSet(<<>>) = {} /\ Occurrences(<<>>, p) = 0 /\ <<>> \in Seq(Photos)
  <1>1. {n \in DOMAIN <<>> : (<<>>)[n] = p} = {}
    OBVIOUS
  <1> QED
    BY <1>1, FS_EmptySet DEF ToSet, Occurrences

\* RPUSH adds one photo at the end.
LEMMA AppendBuffer ==
  ASSUME NEW s \in Seq(Photos), NEW q \in Photos
  PROVE  /\ Append(s, q) \in Seq(Photos)
         /\ Append(s, q) # <<>>
         /\ ToSet(Append(s, q)) = ToSet(s) \cup {q}
         /\ q \notin ToSet(s) /\ IsInjective(s) => IsInjective(Append(s, q))
         /\ \A p : Occurrences(s, p) \in Nat
         /\ \A p : p # q => Occurrences(Append(s, q), p) = Occurrences(s, p)
         /\ Occurrences(Append(s, q), q) = Occurrences(s, q) + 1
  <1> DEFINE t == Append(s, q)
             k == Len(s) + 1
             At(u, p) == {n \in DOMAIN u : u[n] = p}
  <1>1. /\ t \in Seq(Photos) /\ t # <<>> /\ Len(s) \in Nat
        /\ DOMAIN s = 1..Len(s) /\ DOMAIN t = 1..k
        /\ t[k] = q /\ \A n \in 1..Len(s) : t[n] = s[n]
    BY AppendProperties, LenProperties
  <1> HIDE DEF t
  <1>2. DOMAIN t = DOMAIN s \cup {k} /\ k \notin DOMAIN s
    BY <1>1
  <1>3. ToSet(t) = ToSet(s) \cup {q}
    BY <1>1, <1>2 DEF ToSet
  <1>4. q \notin ToSet(s) /\ IsInjective(s) => IsInjective(t)
    BY <1>1, <1>2 DEF ToSet, IsInjective
  <1>5. \A p : IsFiniteSet(At(s, p)) /\ Cardinality(At(s, p)) \in Nat
    <2> TAKE p
    <2>1. IsFiniteSet(1..Len(s)) /\ At(s, p) \subseteq 1..Len(s)
      BY <1>1, FS_Interval
    <2>2. IsFiniteSet(At(s, p))
      BY <2>1, FS_Subset
    <2> QED
      BY <2>2, FS_CardinalityType
  <1>6. \A p : p # q => At(t, p) = At(s, p)
    BY <1>1, <1>2
  <1>7. At(t, q) = At(s, q) \cup {k} /\ k \notin At(s, q)
    BY <1>1, <1>2
  <1>8. Cardinality(At(t, q)) = Cardinality(At(s, q)) + 1
    <2> HIDE DEF At
    <2>1. IsFiniteSet(At(s, q)) /\ Cardinality(At(s, q)) \in Nat
      BY <1>5
    <2> QED
      BY <1>7, <2>1, FS_AddElement
  <1>9. \A p : Occurrences(s, p) \in Nat
    BY <1>5 DEF Occurrences
  <1>10. \A p : p # q => Occurrences(t, p) = Occurrences(s, p)
    BY <1>6 DEF Occurrences
  <1>11. Occurrences(t, q) = Occurrences(s, q) + 1
    BY <1>8 DEF Occurrences
  <1> QED
    BY <1>1, <1>3, <1>4, <1>9, <1>10, <1>11 DEF t
-----------------------------------------------------------------------------
\* The photos that callbacks are answering.
InCallbacks == UNION {c.photos : c \in callbacks}

\* Every arrival is taken at most once, and what is buffered is still to take.
TakenCounted ==
  \A p \in Photos : taken[p] + Occurrences(list, p) <= arrivals[p]

\* The album is answered in one part: a callback ends a window, and photos that
\* are all in time cannot be buffered once it has.
OnePart ==
  /\ parts > 0 => windows > 0
  /\ ~late /\ list # <<>> => parts = 0

\* The seen ids are those of buffered photos; all of them unless they expired.
SeenBuffered ==
  /\ seen \subseteq Buffered
  /\ ~forgot => Buffered \subseteq seen

\* Without a fault every instance hears of the expiry, and there is one.
AllListen ==
  /\ faults = 0 => listening = Instances
  /\ list # <<>> => Instances # {}

GInv == /\ TypeOK /\ TakenCounted /\ OnePart /\ SeenBuffered /\ AllListen
        /\ AnsweredOnce /\ BufferedOnce /\ NoPhotoLost /\ FlushInSight

\* At the start nothing has come and every instance listens.
LEMMA InitGInv == Init => GInv
  <1> SUFFICES ASSUME Init PROVE GInv
    OBVIOUS
  <1>1. /\ list = <<>> /\ list \in Seq(Photos) /\ Buffered = {}
        /\ \A p \in Photos : Occurrences(list, p) = 0
    BY EmptyBuffer DEF Init, Buffered
  <1>2. TypeOK
    <2>1. /\ seen = {} /\ callbacks = {} /\ answered = {} /\ dropped = {} /\ lost = {}
          /\ listening = Instances /\ flushes = [j \in Instances |-> 0]
          /\ arrivals = [p \in Photos |-> 0] /\ taken = [p \in Photos |-> 0]
          /\ parts = 0 /\ windows = 0 /\ faults = 0
          /\ sentinel = FALSE /\ late = FALSE /\ forgot = FALSE
      BY DEF Init
    <2>2. /\ seen \subseteq Photos /\ callbacks \subseteq Running /\ answered \subseteq Photos
          /\ dropped \subseteq Photos /\ lost \subseteq Photos /\ listening \subseteq Instances
      BY <2>1
    <2>3. /\ flushes \in [Instances -> Nat] /\ arrivals \in [Photos -> Nat]
          /\ taken \in [Photos -> Nat]
          /\ parts \in Nat /\ windows \in Nat /\ faults \in 0..MaxFaults
      BY <2>1, ConstantsAssumption
    <2>4. sentinel \in BOOLEAN /\ late \in BOOLEAN /\ forgot \in BOOLEAN
      BY <2>1
    <2> QED
      BY <1>1, <2>2, <2>3, <2>4 DEF TypeOK
  <1>3. TakenCounted /\ OnePart /\ SeenBuffered /\ AllListen
    BY <1>1 DEF Init, TakenCounted, OnePart, SeenBuffered, AllListen
  <1>4. AnsweredOnce /\ NoPhotoLost /\ FlushInSight
    BY <1>1 DEF Init, AnsweredOnce, NoPhotoLost, FlushInSight
  <1>5. BufferedOnce
    BY <1>1 DEF BufferedOnce, IsInjective
  <1> QED
    BY <1>2, <1>3, <1>4, <1>5 DEF GInv

\* add() keeps the invariant, for a new photo and for a duplicate.
LEMMA AddKeeps ==
  ASSUME GInv, NEW i \in Instances, NEW p \in Photos, AddPhoto(i, p)
  PROVE  GInv'
  <1> USE DEF IsNew
  <1>0. TypeOK /\ SeenBuffered /\ AllListen
    BY DEF GInv
  <1>1. /\ arrivals' \in [Photos -> Nat] /\ arrivals'[p] = arrivals[p] + 1
        /\ \A q \in Photos : q # p => arrivals'[q] = arrivals[q]
    BY <1>0 DEF AddPhoto, TypeOK
  <1>2. /\ flushes' \in [Instances -> Nat]
        /\ \A j \in Instances : flushes[j] > 0 => flushes'[j] > 0
    BY <1>0 DEF AddPhoto, TypeOK
  <1>3. UNCHANGED <<listening, callbacks, taken, answered, dropped, lost, parts, windows, forgot, faults>>
    BY DEF AddPhoto
  <1>4. CASE IsNew(p)
    <2>1. /\ list' = Append(list, p) /\ seen' = seen \cup {p} /\ sentinel' = TRUE
          /\ late' = (late \/ windows > 0)
      BY <1>4 DEF AddPhoto
    <2>2. /\ list' \in Seq(Photos) /\ list' # <<>> /\ Buffered' = Buffered \cup {p}
          /\ p \notin Buffered /\ IsInjective(list) => IsInjective(list')
          /\ \A q \in Photos : Occurrences(list, q) \in Nat
          /\ \A q \in Photos : q # p => Occurrences(list', q) = Occurrences(list, q)
          /\ Occurrences(list', p) = Occurrences(list, p) + 1
      BY <1>0, <2>1, AppendBuffer DEF TypeOK, Buffered
    <2>3. TypeOK'
      BY <1>0, <1>1, <1>2, <1>3, <2>1, <2>2 DEF TypeOK, Running
    <2>4. TakenCounted'
      <3> SUFFICES ASSUME NEW q \in Photos
                   PROVE  taken'[q] + Occurrences(list', q) <= arrivals'[q]
        BY DEF TakenCounted
      <3>1. /\ taken[q] \in Nat /\ arrivals[q] \in Nat /\ taken'[q] = taken[q]
            /\ taken[q] + Occurrences(list, q) <= arrivals[q]
        BY <1>0, <1>3 DEF GInv, TakenCounted, TypeOK
      <3>2. CASE q = p
        BY <1>1, <2>2, <3>1, <3>2
      <3>3. CASE q # p
        BY <1>1, <2>2, <3>1, <3>3
      <3> QED
        BY <3>2, <3>3
    <2>5. OnePart' /\ AnsweredOnce'
      <3>1. parts \in Nat /\ windows \in Nat /\ OnePart /\ AnsweredOnce
        BY <1>0 DEF GInv, TypeOK
      <3>2. parts' = parts /\ windows' = windows /\ (~late' => ~late /\ ~(windows > 0))
        BY <1>3, <2>1
      <3> QED
        BY <3>1, <3>2 DEF OnePart, AnsweredOnce
    <2>6. SeenBuffered' /\ BufferedOnce'
      BY <1>3, <1>4, <2>1, <2>2 DEF GInv, SeenBuffered, BufferedOnce
    <2>7. AllListen' /\ FlushInSight'
      BY <1>0, <1>3, <2>1 DEF AllListen, FlushInSight
    <2>8. NoPhotoLost'
      BY <1>0, <1>1, <1>3, <2>2 DEF GInv, NoPhotoLost, TypeOK
    <2> QED
      BY <2>3, <2>4, <2>5, <2>6, <2>7, <2>8 DEF GInv
  <1>5. CASE ~IsNew(p)
    <2>1. UNCHANGED <<list, seen, sentinel, late>> /\ Buffered' = Buffered /\ p \in Buffered
      BY <1>0, <1>5 DEF AddPhoto, SeenBuffered, Buffered
    <2>2. \A q \in Photos : Occurrences(list, q) \in Nat
      BY <1>0, AppendBuffer DEF TypeOK
    <2>3. TypeOK'
      BY <1>0, <1>1, <1>2, <1>3, <2>1 DEF TypeOK, Running
    <2>4. TakenCounted'
      <3> SUFFICES ASSUME NEW q \in Photos
                   PROVE  taken'[q] + Occurrences(list', q) <= arrivals'[q]
        BY DEF TakenCounted
      <3>1. /\ taken[q] \in Nat /\ arrivals[q] \in Nat /\ taken'[q] = taken[q]
            /\ taken[q] + Occurrences(list, q) <= arrivals[q] /\ list' = list
        BY <1>0, <1>3, <2>1 DEF GInv, TakenCounted, TypeOK
      <3> QED
        BY <1>1, <2>2, <3>1
    <2>5. OnePart' /\ AnsweredOnce' /\ SeenBuffered' /\ BufferedOnce' /\ AllListen'
      BY <1>3, <2>1 DEF GInv, OnePart, AnsweredOnce, SeenBuffered, BufferedOnce, AllListen
    <2>6. FlushInSight'
      BY <1>2, <1>3, <2>1 DEF GInv, FlushInSight
    <2>7. NoPhotoLost'
      BY <1>0, <1>1, <1>3, <2>1 DEF GInv, NoPhotoLost, TypeOK
    <2> QED
      BY <2>3, <2>4, <2>5, <2>6, <2>7 DEF GInv
  <1> QED
    BY <1>4, <1>5

\* What the flush script leaves: an empty buffer and no ids.
LEMMA FlushScriptEffect ==
  ASSUME GInv, FlushScript
  PROVE  /\ list' = <<>> /\ list' \in Seq(Photos) /\ Buffered' = {}
         /\ \A p \in Photos : Occurrences(list', p) = 0 /\ Occurrences(list, p) \in Nat
         /\ windows' \in Nat /\ windows' >= windows /\ (list # <<>> => windows' > 0)
         /\ SeenBuffered' /\ BufferedOnce' /\ FlushInSight'
  <1>1. TypeOK
    BY DEF GInv
  <1>2. list' = <<>> /\ seen' = {}
    BY DEF FlushScript, AfterFlush
  <1>3. /\ list' \in Seq(Photos) /\ Buffered' = {}
        /\ \A p \in Photos : Occurrences(list', p) = 0
    BY <1>2, EmptyBuffer DEF Buffered
  <1>4. \A p \in Photos : Occurrences(list, p) \in Nat
    BY <1>1, AppendBuffer DEF TypeOK
  <1>5. windows' \in Nat /\ windows' >= windows /\ (list # <<>> => windows' > 0)
    BY <1>1 DEF TypeOK, FlushScript
  <1>6. SeenBuffered' /\ FlushInSight'
    BY <1>2, <1>3 DEF SeenBuffered, FlushInSight
  <1>7. BufferedOnce'
    BY <1>2 DEF BufferedOnce, IsInjective
  <1> QED
    BY <1>2, <1>3, <1>4, <1>5, <1>6, <1>7

\* A flush that finds photos begins the one callback; one that finds none does
\* nothing.
LEMMA FlushKeeps ==
  ASSUME GInv, NEW i \in Instances, Flush(i)
  PROVE  GInv'
  <1> USE DEF TakenByFlush
  <1>0. TypeOK
    BY DEF GInv
  <1>1. /\ list' = <<>> /\ list' \in Seq(Photos) /\ Buffered' = {}
        /\ \A p \in Photos : Occurrences(list', p) = 0 /\ Occurrences(list, p) \in Nat
        /\ windows' \in Nat /\ windows' >= windows /\ (list # <<>> => windows' > 0)
        /\ SeenBuffered' /\ BufferedOnce' /\ FlushInSight'
    BY FlushScriptEffect DEF Flush
  <1>2. UNCHANGED <<listening, arrivals, answered, dropped, lost, late, forgot, faults>>
    BY DEF Flush
  <1>3. AllListen'
    BY <1>1, <1>2 DEF GInv, AllListen
  <1>4. seen' = {} /\ sentinel' = FALSE /\ flushes' \in [Instances -> Nat]
    BY <1>0 DEF Flush, FlushCall, FlushScript, TypeOK
  <1>5. Buffered \subseteq Photos
    BY <1>0, LenProperties DEF TypeOK, Buffered, ToSet
  <1>6. CASE list = <<>>
    <2>1. UNCHANGED <<callbacks, taken, parts>> /\ Buffered = {}
      BY <1>6, EmptyBuffer DEF Flush, Buffered
    <2>2. TypeOK'
      BY <1>0, <1>1, <1>2, <1>4, <2>1 DEF TypeOK, Running
    <2>3. TakenCounted'
      BY <1>0, <1>1, <1>2, <1>6, <2>1 DEF GInv, TakenCounted
    <2>4. OnePart' /\ AnsweredOnce'
      BY <1>0, <1>1, <1>2, <2>1 DEF GInv, TypeOK, OnePart, AnsweredOnce
    <2>5. NoPhotoLost'
      BY <1>1, <1>2, <2>1 DEF GInv, NoPhotoLost
    <2> QED
      BY <1>1, <1>3, <2>2, <2>3, <2>4, <2>5 DEF GInv
  <1>7. CASE list # <<>>
    <2>1. /\ callbacks' = callbacks \cup {[part |-> parts, by |-> i, size |-> Len(list), photos |-> Buffered]}
          /\ parts' = parts + 1
      BY <1>7 DEF Flush
    <2>2. \A p \in Photos :
            taken'[p] = taken[p] + (IF p \in Buffered THEN Occurrences(list, p) ELSE 0)
      BY <1>7 DEF Flush, Occurrences
    <2>3. taken' \in [Photos -> Nat]
      <3>1. \A p \in Photos :
              taken[p] + (IF p \in Buffered THEN Occurrences(list, p) ELSE 0) \in Nat
        BY <1>0, <1>1 DEF TypeOK
      <3>2. taken' = [p \in Photos |->
                        taken[p] + (IF p \in Buffered THEN Occurrences(list, p) ELSE 0)]
        BY <1>7 DEF Flush, Occurrences
      <3> QED
        BY <3>1, <3>2
    <2>4. callbacks' \subseteq [part : 0..parts', by : Instances, size : Nat, photos : SUBSET Photos]
      <3>1. callbacks \subseteq [part : 0..parts, by : Instances, size : Nat, photos : SUBSET Photos]
        BY <1>0 DEF TypeOK, Running
      <3>2. parts \in Nat /\ 0..parts \subseteq 0..parts' /\ parts \in 0..parts'
        BY <1>0, <2>1 DEF TypeOK
      <3>3. \A c \in callbacks : c \in [part : 0..parts', by : Instances, size : Nat, photos : SUBSET Photos]
        BY <3>1, <3>2
      <3>4. [part |-> parts, by |-> i, size |-> Len(list), photos |-> Buffered]
              \in [part : 0..parts', by : Instances, size : Nat, photos : SUBSET Photos]
        BY <1>0, <1>5, <3>2, LenProperties DEF TypeOK
      <3> QED
        BY <2>1, <3>3, <3>4
    <2>5. TypeOK'
      <3>1. callbacks' \subseteq Running' /\ parts' \in Nat
        BY <1>0, <2>1, <2>4 DEF Running, TypeOK
      <3>2. seen' \subseteq Photos /\ sentinel' \in BOOLEAN
        BY <1>4
      <3> QED
        BY <1>0, <1>1, <1>2, <1>4, <2>3, <3>1, <3>2 DEF TypeOK
    <2>6. TakenCounted'
      <3> SUFFICES ASSUME NEW q \in Photos
                   PROVE  taken'[q] + Occurrences(list', q) <= arrivals'[q]
        BY DEF TakenCounted
      <3>1. /\ taken[q] \in Nat /\ arrivals[q] \in Nat /\ arrivals'[q] = arrivals[q]
            /\ taken[q] + Occurrences(list, q) <= arrivals[q]
            /\ Occurrences(list', q) = 0 /\ Occurrences(list, q) \in Nat
        BY <1>0, <1>1, <1>2 DEF GInv, TakenCounted, TypeOK
      <3> QED
        BY <2>2, <3>1
    <2>7. OnePart' /\ AnsweredOnce'
      <3>1. ~late => parts' <= 1
        BY <1>7, <2>1 DEF GInv, OnePart
      <3> QED
        BY <1>1, <1>2, <1>7, <3>1 DEF OnePart, AnsweredOnce
    <2>8. NoPhotoLost'
      <3>1. InCallbacks' = InCallbacks \cup Buffered
        <4> DEFINE new == [part |-> parts, by |-> i, size |-> Len(list), photos |-> Buffered]
        <4>1. new.photos = Buffered /\ callbacks' = callbacks \cup {new}
          BY <2>1
        <4> HIDE DEF new
        <4> QED
          BY <4>1 DEF InCallbacks
      <3> QED
        BY <1>2, <3>1 DEF GInv, NoPhotoLost, InCallbacks
    <2> QED
      BY <1>1, <1>3, <2>5, <2>6, <2>7, <2>8 DEF GInv
  <1> QED
    BY <1>6, <1>7

\* Nor does a flush whose call fails break it: the photos it took are lost.
LEMMA FlushFailsKeeps ==
  ASSUME GInv, NEW i \in Instances, FlushFails(i)
  PROVE  GInv'
  <1>0. TypeOK
    BY DEF GInv
  <1>1. /\ UNCHANGED <<listening, callbacks, arrivals, taken, answered, dropped, parts, late, forgot>>
        /\ flushes' \in [Instances -> Nat]
        /\ faults' = faults + 1 /\ faults' \in 0..MaxFaults /\ faults' > 0
    BY <1>0, ConstantsAssumption DEF FlushFails, FlushCall, FaultHappens, TypeOK
  <1>2. CASE UNCHANGED <<redis, lost, windows>>
    <2>1. UNCHANGED <<list, seen, sentinel, lost, windows>> /\ Buffered' = Buffered
      BY <1>2 DEF redis, Buffered
    <2>2. TypeOK'
      BY <1>0, <1>1, <2>1 DEF TypeOK, Running
    <2>3. TakenCounted' /\ OnePart' /\ SeenBuffered' /\ AnsweredOnce' /\ BufferedOnce'
      BY <1>1, <2>1
      DEF GInv, TakenCounted, OnePart, SeenBuffered, AnsweredOnce, BufferedOnce
    <2>4. AllListen' /\ FlushInSight'
      BY <1>1, <2>1 DEF GInv, AllListen, FlushInSight
    <2>5. NoPhotoLost'
      BY <1>1, <2>1 DEF GInv, NoPhotoLost
    <2> QED
      BY <2>2, <2>3, <2>4, <2>5 DEF GInv
  <1>3. CASE FlushScript /\ lost' = lost \cup Buffered
    <2>1. /\ list' = <<>> /\ list' \in Seq(Photos) /\ Buffered' = {}
          /\ \A p \in Photos : Occurrences(list', p) = 0 /\ Occurrences(list, p) \in Nat
          /\ windows' \in Nat /\ windows' >= windows
          /\ SeenBuffered' /\ BufferedOnce' /\ FlushInSight'
      BY <1>3, FlushScriptEffect
    <2>2. Buffered \subseteq Photos /\ seen' = {} /\ sentinel' = FALSE
      BY <1>0, <1>3, LenProperties DEF TypeOK, Buffered, ToSet, FlushScript
    <2>3. TypeOK'
      BY <1>0, <1>1, <1>3, <2>1, <2>2 DEF TypeOK, Running
    <2>4. TakenCounted'
      <3> SUFFICES ASSUME NEW q \in Photos
                   PROVE  taken'[q] + Occurrences(list', q) <= arrivals'[q]
        BY DEF TakenCounted
      <3>1. /\ taken[q] \in Nat /\ arrivals[q] \in Nat
            /\ taken[q] + Occurrences(list, q) <= arrivals[q]
        BY <1>0 DEF GInv, TakenCounted, TypeOK
      <3> QED
        BY <1>1, <2>1, <3>1
    <2>5. OnePart' /\ AnsweredOnce' /\ AllListen'
      BY <1>0, <1>1, <2>1 DEF GInv, OnePart, AnsweredOnce, AllListen, TypeOK
    <2>6. NoPhotoLost'
      BY <1>1, <1>3 DEF GInv, NoPhotoLost
    <2> QED
      BY <2>1, <2>3, <2>4, <2>5, <2>6 DEF GInv
  <1> QED
    BY <1>2, <1>3 DEF FlushFails

\* The expiry of a key: of the sentinel, which every listener hears of, or of
\* the seen ids.
LEMMA ExpiryKeeps ==
  ASSUME GInv, SentinelExpires \/ SeenExpires
  PROVE  GInv'
  <1> USE DEF Hears, local
  <1>0. TypeOK
    BY DEF GInv
  <1>1. /\ UNCHANGED <<list, listening, callbacks, arrivals, taken, answered, dropped, lost, parts, late, faults>>
        /\ Buffered' = Buffered
    BY DEF SentinelExpires, SeenExpires, Buffered
  <1>2. TakenCounted' /\ AllListen' /\ AnsweredOnce' /\ NoPhotoLost'
    BY <1>1 DEF GInv, TakenCounted, AllListen, AnsweredOnce, NoPhotoLost
  <1>3. CASE SentinelExpires
    <2>1. /\ UNCHANGED <<seen, forgot>> /\ sentinel' = FALSE /\ windows' = windows + 1
          /\ flushes' \in [Instances -> Nat]
          /\ \A i \in listening : flushes'[i] > 0
      BY <1>0, <1>3 DEF SentinelExpires, TypeOK
    <2>2. TypeOK'
      <3>1. callbacks' \subseteq Running'
        BY <1>0, <1>1 DEF Running, TypeOK
      <3>2. windows' \in Nat
        BY <1>0, <1>3 DEF SentinelExpires, TypeOK
      <3>3. sentinel' \in BOOLEAN
        BY <1>3 DEF SentinelExpires
      <3> QED
        BY <1>0, <1>1, <2>1, <3>1, <3>2, <3>3 DEF TypeOK
    <2>3. OnePart' /\ SeenBuffered' /\ BufferedOnce'
      BY <1>0, <1>1, <2>1 DEF GInv, OnePart, SeenBuffered, BufferedOnce, TypeOK
    <2>4. FlushInSight'
      BY <1>0, <1>1, <2>1 DEF GInv, AllListen, FlushInSight, TypeOK
    <2> QED
      BY <1>2, <2>2, <2>3, <2>4 DEF GInv
  <1>4. CASE SeenExpires
    <2>1. /\ UNCHANGED <<sentinel, flushes, windows>> /\ seen' = {}
          /\ forgot' = (forgot \/ list # <<>>)
      BY <1>4 DEF SeenExpires
    <2>2. TypeOK'
      BY <1>0, <1>1, <2>1 DEF TypeOK, Running
    <2>3. OnePart' /\ FlushInSight' /\ BufferedOnce'
      BY <1>1, <2>1 DEF GInv, OnePart, FlushInSight, BufferedOnce
    <2>4. SeenBuffered'
      BY <1>1, <2>1, EmptyBuffer DEF SeenBuffered, Buffered
    <2> QED
      BY <1>2, <2>2, <2>3, <2>4 DEF GInv
  <1> QED
    BY <1>3, <1>4

\* What changes neither the keys nor the album's records: the end of a
\* callback, an instance's subscription, a crash.
LEMMA InstanceKeeps ==
  ASSUME GInv, UNCHANGED <<redis, arrivals, taken, parts, windows, late, forgot>>,
         listening' \subseteq Instances, flushes' \in [Instances -> Nat],
         callbacks' \subseteq callbacks, answered' \subseteq Photos,
         dropped' \subseteq Photos, lost' \subseteq Photos,
         answered \subseteq answered', dropped \subseteq dropped', lost \subseteq lost',
         \A c \in callbacks \ callbacks' : c.photos \subseteq answered' \cup dropped' \cup lost',
         \/ faults' = faults /\ listening \subseteq listening' /\ flushes' = flushes
         \/ faults' \in 1..MaxFaults
  PROVE  GInv'
  <1>0. TypeOK
    BY DEF GInv
  <1>1. UNCHANGED <<list, seen, sentinel>> /\ Buffered' = Buffered
    BY DEF redis, Buffered
  <1>2. callbacks' \subseteq Running' /\ faults' \in 0..MaxFaults
    BY <1>0 DEF TypeOK, Running
  <1>3. TypeOK'
    BY <1>0, <1>1, <1>2 DEF TypeOK
  <1>4. TakenCounted' /\ OnePart' /\ SeenBuffered' /\ AnsweredOnce' /\ BufferedOnce'
    BY <1>1 DEF GInv, TakenCounted, OnePart, SeenBuffered, AnsweredOnce, BufferedOnce
  <1>5. AllListen' /\ FlushInSight'
    <2>1. CASE faults' = faults /\ listening \subseteq listening' /\ flushes' = flushes
      BY <1>1, <2>1 DEF GInv, AllListen, FlushInSight
    <2>2. CASE faults' \in 1..MaxFaults
      <3>1. faults' > 0 /\ faults' # 0
        BY <2>2, ConstantsAssumption
      <3> QED
        BY <1>1, <3>1 DEF GInv, AllListen, FlushInSight
    <2> QED
      BY <2>1, <2>2
  <1>6. NoPhotoLost'
    <2>1. InCallbacks \subseteq InCallbacks' \cup answered' \cup dropped' \cup lost'
      BY DEF InCallbacks
    <2> QED
      BY <1>1, <2>1 DEF GInv, NoPhotoLost, InCallbacks
  <1> QED
    BY <1>3, <1>4, <1>5, <1>6 DEF GInv

\* Every step keeps the invariant.
LEMMA NextGInv ==
  ASSUME GInv, [Next]_vars
  PROVE  GInv'
  <1> USE DEF redis, local, history
  <1>0. TypeOK
    BY DEF GInv
  <1>1. \A c \in callbacks : c.photos \subseteq Photos
    BY <1>0 DEF TypeOK, Running
  <1>2. ASSUME NEW c \in callbacks, CallbackEnds(c)
        PROVE  GInv'
    BY <1>0, <1>1, <1>2, InstanceKeeps DEF CallbackEnds, CallbackReturns, CallbackRaises, TypeOK
  <1>3. ASSUME NEW i \in Instances, ListenerDrops(i)
        PROVE  GInv'
    <2>1. faults' \in 1..MaxFaults
      BY <1>0, <1>3, ConstantsAssumption DEF ListenerDrops, FaultHappens, TypeOK
    <2> QED
      BY <1>0, <1>3, <2>1, InstanceKeeps DEF ListenerDrops, TypeOK
  <1>4. ASSUME NEW i \in Instances, ListenerBack(i)
        PROVE  GInv'
    BY <1>0, <1>4, InstanceKeeps DEF ListenerBack, TypeOK
  <1>5. ASSUME NEW i \in Instances, Crash(i)
        PROVE  GInv'
    <2>1. faults' \in 1..MaxFaults
      BY <1>0, <1>5, ConstantsAssumption DEF Crash, FaultHappens, TypeOK
    <2>2. /\ callbacks' \subseteq callbacks
          /\ lost' = lost \cup UNION {c.photos : c \in callbacks \ callbacks'}
          /\ listening' \subseteq Instances /\ flushes' \in [Instances -> Nat]
      BY <1>0, <1>5 DEF Crash, TypeOK
    <2>3. /\ lost' \subseteq Photos /\ lost \subseteq lost'
          /\ \A c \in callbacks \ callbacks' : c.photos \subseteq lost'
      BY <1>0, <1>1, <2>2 DEF TypeOK
    <2> QED
      BY <1>0, <1>5, <2>1, <2>2, <2>3, InstanceKeeps DEF Crash, TypeOK
  <1>6. CASE UNCHANGED vars
    BY <1>0, <1>6, InstanceKeeps DEF vars, TypeOK
  <1> QED
    BY <1>2, <1>3, <1>4, <1>5, <1>6, AddKeeps, FlushKeeps, FlushFailsKeeps, ExpiryKeeps
    DEF Next

\* Every state of the buffer satisfies the inductive invariant.
LEMMA GInvAlways == Spec => []GInv
  BY InitGInv, NextGInv, PTL DEF Spec

\* The types of the buffer hold at every step.
THEOREM TypeCorrect == Spec => []TypeOK
  BY GInvAlways, PTL DEF GInv

\* An album whose photos all came within one window is handed to one
\* callback, however many instances hear of the expiry.
THEOREM AnsweredOnceAlways == Spec => []AnsweredOnce
  BY GInvAlways, PTL DEF GInv

\* Two flushes never hand the same arrival of a photo to two callbacks.
THEOREM TakenPerArrivalAlways == Spec => []TakenPerArrival
  <1>1. GInv => TakenPerArrival
    <2> SUFFICES ASSUME GInv, NEW p \in Photos PROVE taken[p] <= arrivals[p]
      BY DEF TakenPerArrival
    <2>1. /\ taken[p] \in Nat /\ arrivals[p] \in Nat /\ Occurrences(list, p) \in Nat
          /\ taken[p] + Occurrences(list, p) <= arrivals[p]
      BY AppendBuffer DEF GInv, TypeOK, TakenCounted
    <2> QED
      BY <2>1
  <1> QED
    BY <1>1, GInvAlways, PTL

\* A photo is buffered once while its id is remembered.
THEOREM BufferedOnceAlways == Spec => []BufferedOnce
  BY GInvAlways, PTL DEF GInv

\* A photo that came is buffered or with a callback until the callback ends, or
\* was lost with a flush or a callback that died.
THEOREM NoPhotoLostAlways == Spec => []NoPhotoLost
  BY GInvAlways, PTL DEF GInv

\* Without a fault a buffered album has a sentinel or a flush ahead of it.
THEOREM FlushInSightAlways == Spec => []FlushInSight
  BY GInvAlways, PTL DEF GInv
=============================================================================
