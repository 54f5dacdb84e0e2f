----------------------------- MODULE MediaGroup -----------------------------
(***************************************************************************)
(* One Telegram album.  Each photo is an update of its own; add() buffers  *)
(* them in Redis under the album's group id, and the expiry of a sentinel  *)
(* key, set anew by each photo, tells every listening instance to flush    *)
(* the buffer and answer the album at once.  Both scripts, add and flush,  *)
(* are atomic; the expiry event is published once and never repeated.      *)
(* Keys of different albums are disjoint, so one album is enough.          *)
(***************************************************************************)
EXTENDS Naturals, FiniteSets, Sequences, SequencesExt

CONSTANTS
  Photos,          \* the photos of the album
  Instances,       \* bot instances
  MAX_GROUP_SIZE,  \* the buffer is flushed at once at this size
  MAX_GROUP_IMAGES, \* handle_vision_group refuses more images than this
  MaxArrivals,     \* bound: add() calls for each photo (an edit repeats its id)
  MaxFaults        \* bound: crashes, dropped subscriptions, failed scripts

ASSUME ConstantsAssumption ==
  /\ MAX_GROUP_SIZE \in Nat \ {0}
  /\ MAX_GROUP_IMAGES \in Nat
  /\ MaxArrivals \in [Photos -> Nat]
  /\ MaxFaults \in Nat

VARIABLES
  list,       \* media_group:{id}, the buffered photos
  seen,       \* media_group:{id}:seen
  sentinel,   \* media_group:{id}:ttl exists
  listening,  \* instances subscribed to the expired events
  flushes,    \* _flush calls each instance is about to make
  callbacks,  \* on_group_ready calls that run
  arrivals,   \* add() calls so far for each photo
  taken,      \* how often each photo was handed to a callback
  answered,   \* photos of callbacks that returned
  dropped,    \* photos of callbacks that raised
  lost,       \* photos whose callback died or never began
  parts,      \* callbacks begun
  windows,    \* debounce windows that have ended, by expiry or by flush
  late,       \* some photo came after the first window had ended
  forgot,     \* the seen ids expired while photos were buffered
  faults

redis   == <<list, seen, sentinel>>
local   == <<listening, flushes, callbacks>>
history == <<arrivals, taken, answered, dropped, lost, parts, windows, late, forgot>>
vars    == <<redis, local, history, faults>>

Init ==
  /\ list = <<>>
  /\ seen = {}
  /\ sentinel = FALSE
  /\ listening = Instances
  /\ flushes = [i \in Instances |-> 0]
  /\ callbacks = {}
  /\ arrivals = [p \in Photos |-> 0]
  /\ taken = [p \in Photos |-> 0]
  /\ answered = {}
  /\ dropped = {}
  /\ lost = {}
  /\ parts = 0
  /\ windows = 0
  /\ late = FALSE
  /\ forgot = FALSE
  /\ faults = 0

FaultHappens == faults < MaxFaults /\ faults' = faults + 1

Buffered == ToSet(list)
-----------------------------------------------------------------------------
\* _LUA_ADD's deduplication
MutIsNew(p) == TRUE
IsNew(p) == p \notin seen

\* add(): the script, and the immediate flush when the buffer is full (a
\* duplicate returns the length too).
AddPhoto(i, p) ==
  /\ arrivals[p] < MaxArrivals[p]
  /\ arrivals' = [arrivals EXCEPT ![p] = @ + 1]
  /\ LET list2 == IF IsNew(p) THEN Append(list, p) ELSE list
     IN /\ list' = list2
        /\ flushes' = [flushes EXCEPT ![i] =
                         IF Len(list2) >= MAX_GROUP_SIZE THEN @ + 1 ELSE @]
  /\ IF IsNew(p)
     THEN /\ seen' = seen \cup {p}
          /\ sentinel' = TRUE
          /\ late' = (late \/ windows > 0)
     ELSE UNCHANGED <<seen, sentinel, late>>
  /\ UNCHANGED <<listening, callbacks, taken, answered, dropped, lost, parts, windows, forgot, faults>>

\* Who learns of the expiry: the instances subscribed at that moment.
MutHears(i) == FALSE
Hears(i) == i \in listening

SentinelExpires ==
  /\ sentinel
  /\ sentinel' = FALSE
  /\ windows' = windows + 1
  /\ flushes' = [i \in Instances |-> IF Hears(i) THEN flushes[i] + 1 ELSE flushes[i]]
  /\ UNCHANGED <<list, seen, listening, callbacks,
                 arrivals, taken, answered, dropped, lost, parts, late, forgot, faults>>

\* The set of seen ids lives ten times as long as the sentinel set with it;
\* the list has no expiry.
SeenExpires ==
  /\ seen # {}
  /\ ~sentinel
  /\ seen' = {}
  /\ forgot' = (forgot \/ list # <<>>)
  /\ UNCHANGED <<list, sentinel, local,
                 arrivals, taken, answered, dropped, lost, parts, windows, late, faults>>

\* _LUA_FLUSH: the list is read, then it, the sentinel and the seen ids are
\* deleted.  (The lock is taken and deleted in the same script: no caller
\* ever finds it taken.)
MutAfterFlush == list
MutTakenByFlush == {list[n] : n \in 1..(Len(list) - 1)}
AfterFlush == <<>>
TakenByFlush == Buffered

FlushScript ==
  /\ list' = AfterFlush
  /\ seen' = {}
  /\ sentinel' = FALSE
  /\ windows' = IF list # <<>> THEN windows + 1 ELSE windows

MutFlushCall(i) == flushes' = [flushes EXCEPT ![i] = @ - 1]
FlushCall(i) ==
  /\ flushes[i] > 0
  /\ flushes' = [flushes EXCEPT ![i] = @ - 1]

\* _flush: an empty answer means that another flush was first.
Flush(i) ==
  /\ FlushCall(i)
  /\ FlushScript
  /\ IF list = <<>>
     THEN UNCHANGED <<callbacks, taken, parts>>
     ELSE /\ callbacks' = callbacks \cup {[part |-> parts, by |-> i, size |-> Len(list), photos |-> TakenByFlush]}
          /\ parts' = parts + 1
          /\ taken' = [p \in Photos |-> taken[p] +
                         (IF p \in TakenByFlush
                          THEN Cardinality({n \in DOMAIN list : list[n] = p}) ELSE 0)]
  /\ UNCHANGED <<listening, arrivals, answered, dropped, lost, late, forgot, faults>>

\* The script's call fails, run or not: the task's exception is not caught.
FlushFails(i) ==
  /\ FlushCall(i)
  /\ FaultHappens
  /\ \/ UNCHANGED <<redis, lost, windows>>
     \/ FlushScript /\ lost' = lost \cup Buffered
  /\ UNCHANGED <<listening, callbacks, arrivals, taken, answered, dropped, parts, late, forgot>>

\* _on_group_ready returns: the user was sent a reply or an error message
\* (one photo, too many, none that could be loaded).
CallbackReturns(c) ==
  /\ c \in callbacks
  /\ callbacks' = callbacks \ {c}
  /\ answered' = answered \cup c.photos
  /\ UNCHANGED <<redis, listening, flushes, arrivals, taken, dropped, lost,
                 parts, windows, late, forgot, faults>>

\* handle_vision_group ends without a result when an image of the album was
\* loaded, _on_group_ready reads `.failed' of it and raises, and _flush
\* swallows that: the user hears nothing.
CallbackRaises(c) ==
  /\ c \in callbacks
  /\ c.size \in 2..MAX_GROUP_IMAGES
  /\ callbacks' = callbacks \ {c}
  /\ dropped' = dropped \cup c.photos
  /\ UNCHANGED <<redis, listening, flushes, arrivals, taken, answered, lost,
                 parts, windows, late, forgot, faults>>

CallbackEnds(c) == CallbackReturns(c) \/ CallbackRaises(c)

\* The subscription breaks; the supervisor subscribes again after a while.
ListenerDrops(i) ==
  /\ i \in listening
  /\ FaultHappens
  /\ listening' = listening \ {i}
  /\ UNCHANGED <<redis, flushes, callbacks, history>>

ListenerBack(i) ==
  /\ i \notin listening
  /\ listening' = listening \cup {i}
  /\ UNCHANGED <<redis, flushes, callbacks, history, faults>>

Crash(i) ==
  /\ FaultHappens
  /\ listening' = listening \ {i}
  /\ flushes' = [flushes EXCEPT ![i] = 0]
  /\ callbacks' = {c \in callbacks : c.by # i}
  /\ lost' = lost \cup UNION {c.photos : c \in callbacks \ callbacks'}
  /\ UNCHANGED <<redis, arrivals, taken, answered, dropped, parts, windows, late, forgot>>

Running == [part : 0..parts, by : Instances, size : Nat, photos : SUBSET Photos]

Next == \/ \E i \in Instances : \/ \E p \in Photos : AddPhoto(i, p)
                                \/ Flush(i) \/ FlushFails(i)
                                \/ ListenerDrops(i) \/ ListenerBack(i) \/ Crash(i)
        \/ SentinelExpires
        \/ SeenExpires
        \/ \E c \in callbacks : CallbackEnds(c)

Spec == Init /\ [][Next]_vars

\* Redis expires keys, the supervisor resubscribes, a task that may run runs
\* and every call of the callback has a timeout.
Fairness == /\ WF_vars(SentinelExpires)
            /\ \A i \in Instances : WF_vars(Flush(i)) /\ WF_vars(ListenerBack(i))
            /\ WF_vars(\E c \in callbacks : CallbackEnds(c))

FairSpec == Spec /\ Fairness
-----------------------------------------------------------------------------
TypeOK ==
  /\ list \in Seq(Photos)
  /\ seen \subseteq Photos
  /\ sentinel \in BOOLEAN
  /\ listening \subseteq Instances
  /\ flushes \in [Instances -> Nat]
  /\ callbacks \subseteq Running
  /\ arrivals \in [Photos -> Nat]
  /\ taken \in [Photos -> Nat]
  /\ answered \subseteq Photos
  /\ dropped \subseteq Photos
  /\ lost \subseteq Photos
  /\ parts \in Nat
  /\ windows \in Nat
  /\ late \in BOOLEAN
  /\ forgot \in BOOLEAN
  /\ faults \in 0..MaxFaults

(***************************************************************************)
(* "10 photos -> 10 separate responses" is what the aggregator is for: an  *)
(* album whose photos all came within one debounce window is handed to     *)
(* one callback, though every instance hears of the expiry and a full      *)
(* buffer is flushed besides.                                              *)
(***************************************************************************)
AnsweredOnce == ~late => parts <= 1

(***************************************************************************)
(* A photo is handed to a callback at most once per time it was added: the *)
(* flushes of two instances never both take it.                            *)
(***************************************************************************)
TakenPerArrival == \A p \in Photos : taken[p] <= arrivals[p]

(***************************************************************************)
(* "duplicate message_id arrivals are deduplicated": a photo added twice   *)
(* while its album is buffered is buffered once, unless the album was      *)
(* stranded so long that the seen ids expired.                             *)
(***************************************************************************)
BufferedOnce == ~forgot => IsInjective(list)

(***************************************************************************)
(* A photo that was added is buffered or in a running callback until a     *)
(* callback ends with it, unless a crash or a lost answer took it after    *)
(* the flush had deleted it.  How the callback ended is not promised: the  *)
(* one of an album of 2..MAX_GROUP_IMAGES photos raises, and the user gets *)
(* no reply.                                                               *)
(***************************************************************************)
NoPhotoLost ==
  \A p \in Photos : arrivals[p] > 0 =>
    p \in Buffered \cup answered \cup dropped \cup lost \cup UNION {c.photos : c \in callbacks}

(***************************************************************************)
(* The buffer is never left without anything that will flush it, neither   *)
(* its sentinel nor a flush under way, unless a fault made the one expiry  *)
(* event go unheard.                                                       *)
(***************************************************************************)
FlushInSight ==
  list # <<>> => sentinel \/ (\E i \in Instances : flushes[i] > 0) \/ faults > 0

(***************************************************************************)
(* Every buffered photo is eventually handed to a callback that ends,      *)
(* unless a fault occurs; that it is answered holds only of albums of one  *)
(* photo, of too many, and of photos none of which could be loaded.        *)
(***************************************************************************)
EventuallyHandled ==
  \A p \in Photos :
    p \in Buffered ~> p \in answered \/ p \in dropped \/ faults > 0
=============================================================================
