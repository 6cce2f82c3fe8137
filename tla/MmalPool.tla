------------------------------ MODULE MmalPool ------------------------------
(***************************************************************************)
(* Buffer headers, the queue and the pool of the MMAL core                 *)
(* (mmal_buffer.c, mmal_queue.c, mmal_pool.c).                             *)
(*                                                                         *)
(* One pool of headers 1 .. poolNum with payloads that can be resized, and *)
(* the header Replica of another pool, without a payload, that replicates  *)
(* one of them.  A queue operation is atomic: each runs under queue->lock. *)
(***************************************************************************)
EXTENDS Integers, Sequences, SequencesExt, FiniteSets

CONSTANTS
    MaxHeaders,   \* headers a pool is created with or resized to (bound)
    MaxRefs       \* references a user takes on one header (bound)

ASSUME PoolAssumption == MaxHeaders \in Nat \ {0} /\ MaxRefs \in Nat \ {0}

Replica == 0
Headers == 0 .. MaxHeaders
Sizes == 0 .. 2                  \* payload sizes; 0: headers without payload
Callbacks == {"none", "queue", "keep"}

VARIABLES
    poolUp,       \* the pool exists
    poolNum,      \* pool->headers_num
    poolLayout,   \* the count that the headers in memory are laid out with
    poolSize,     \* private->payload_size
    poolCb,       \* private->cb: none, one that returns 1, one that keeps the buffer
    poolQueue,    \* pool->queue
    payload,      \* header->priv->payload: its size, 0 for NULL
    refcount,     \* header->priv->refcount
    reference,    \* header->priv->reference, or Replica
    delayed,      \* headers whose pf_pre_release() delays the release
    replicaHome,  \* Replica is in the queue of its own pool
    held,         \* references the users hold on each header
    heap,         \* payloads allocated and not freed
    misread       \* headers were looked for where there are none

poolVars == <<poolUp, poolNum, poolLayout, poolSize, poolCb, poolQueue, payload, refcount,
              reference, delayed, replicaHome, held, heap, misread>>

Live == 1 .. poolNum

PoolInit ==
    /\ poolUp = FALSE /\ poolNum = 0 /\ poolLayout = 0 /\ poolSize = 0 /\ poolCb = "none"
    /\ poolQueue = <<>>
    /\ payload = [h \in Headers |-> 0] /\ refcount = [h \in Headers |-> 1]
    /\ reference = [h \in Headers |-> Replica]
    /\ delayed = {} /\ replicaHome = TRUE
    /\ held = [h \in Headers |-> 0]
    /\ heap = 0 /\ misread = FALSE

-----------------------------------------------------------------------------
(* Creating, resizing and destroying a pool *)

\* The first n headers get a payload of the given size; all others have none.
Payloads(n, size) == [h \in Headers |-> IF h \in 1 .. n THEN size ELSE 0]

\* mmal_pool_initialise_buffer_headers() with reinitialise: the headers are laid out for n,
\* and the k first get a payload (k < n: an allocation failed).
LaidOut(n, k, size) ==
    /\ poolNum' = k /\ poolLayout' = n /\ poolSize' = size
    /\ payload' = Payloads(k, size)
    /\ refcount' = [h \in Headers |-> IF h \in 1 .. k THEN 1 ELSE refcount[h]]
    /\ reference' = [h \in Headers |-> IF h = Replica THEN reference[h] ELSE Replica]

\* Payloads cannot fail to be allocated when there are none.
PoolFilled(n, k, size) == k \in 0 .. n /\ (size = 0 => k = n)

\* mmal_pool_create_with_allocator(): all the headers are queued.
PoolCreate(n, size) ==
    /\ ~poolUp /\ poolUp' = TRUE
    /\ LaidOut(n, n, size)
    /\ heap' = heap + (IF size = 0 THEN 0 ELSE n)
    /\ poolQueue' = [i \in 1 .. n |-> i]
    /\ poolCb' = "none"
    /\ UNCHANGED <<delayed, replicaHome, held, misread>>

\* A payload cannot be allocated: the pool is destroyed again, with the payloads of the
\* headers that are counted.
PoolCreateFails(n, size) ==
    /\ ~poolUp /\ size # 0
    /\ \E k \in 0 .. n - 1 : heap' = heap + k - Cardinality({h \in Headers : Payloads(k, size)[h] # 0})
    /\ UNCHANGED <<poolUp, poolNum, poolLayout, poolSize, poolCb, poolQueue, payload, refcount,
                   reference, delayed, replicaHome, held, misread>>

\* The pool is used by nobody: what its owner sees to before it is resized or destroyed.
Idle == \A h \in Live : held[h] = 0 /\ h \notin delayed /\ reference[Replica] # h

\* Mutant: headers without a payload are freed as well.
DestroyUnchecked ==
    /\ poolUp /\ Idle /\ ~misread
    /\ heap' = heap - poolNum
    /\ poolUp' = FALSE /\ poolNum' = 0 /\ poolQueue' = <<>>
    /\ payload' = Payloads(0, 0)
    /\ UNCHANGED <<poolLayout, poolSize, poolCb, refcount, reference, delayed, replicaHome,
                   held, misread>>

\* mmal_pool_destroy(): the payloads of the headers_num headers are freed.
PoolDestroy ==
    /\ poolUp /\ Idle /\ ~misread
    /\ heap' = heap - Cardinality({h \in Live : payload[h] # 0})
    /\ poolUp' = FALSE /\ poolNum' = 0 /\ poolQueue' = <<>>
    /\ payload' = Payloads(0, 0)
    /\ UNCHANGED <<poolLayout, poolSize, poolCb, refcount, reference, delayed, replicaHome,
                   held, misread>>

\* The queue of a resized pool: headers_num headers are taken out, k are put in.
ResizedQueue(k) == SubSeq(poolQueue, poolNum + 1, Len(poolQueue)) \o [i \in 1 .. k |-> i]

\* mmal_pool_resize(): the payloads are freed, the headers are laid out again and queued.  The
\* first pass finds the headers behind an array of headers_num pointers, which is where they are
\* only if all of them were initialised the last time.
PoolResize(n, size) ==
    /\ poolUp /\ Idle /\ ~misread
    /\ \/ /\ n = poolNum /\ size = poolSize
          /\ UNCHANGED <<poolNum, poolLayout, poolSize, payload, refcount, reference, heap,
                         poolQueue, misread>>
       \/ /\ n # poolNum \/ size # poolSize
          /\ \E k \in 0 .. n :
                /\ PoolFilled(n, k, size)
                /\ LaidOut(n, k, size)
                /\ poolQueue' = ResizedQueue(k)
                /\ heap' = heap - Cardinality({h \in Live : payload[h] # 0})
                                + (IF size = 0 THEN 0 ELSE k)
          /\ misread' = (poolLayout # poolNum)
    /\ UNCHANGED <<poolUp, poolCb, delayed, replicaHome, held>>

\* mmal_pool_callback_set()
PoolCallbackSet(cb) ==
    /\ poolUp /\ poolCb' = cb
    /\ UNCHANGED <<poolUp, poolNum, poolLayout, poolSize, poolQueue, payload, refcount,
                   reference, delayed, replicaHome, held, heap, misread>>

-----------------------------------------------------------------------------
(* Using a buffer header *)

unusedByBuffers == <<poolUp, poolNum, poolLayout, poolSize, poolCb, payload, heap, misread>>

\* mmal_queue_get()
BufferGet ==
    /\ poolQueue # <<>> /\ ~misread
    /\ poolQueue' = Tail(poolQueue)
    /\ held' = [held EXCEPT ![Head(poolQueue)] = 1]
    /\ UNCHANGED <<unusedByBuffers, refcount, reference, delayed, replicaHome>>

\* mmal_queue_put_back(): a header that was taken and not used goes to the head.
BufferPutBack(h) ==
    /\ held[h] = 1 /\ refcount[h] = 1 /\ h \in Live
    /\ poolQueue' = <<h>> \o poolQueue
    /\ held' = [held EXCEPT ![h] = 0]
    /\ UNCHANGED <<unusedByBuffers, refcount, reference, delayed, replicaHome>>

\* mmal_buffer_header_acquire()
BufferAcquire(h) ==
    /\ held[h] \in 1 .. MaxRefs - 1
    /\ refcount' = [refcount EXCEPT ![h] = @ + 1]
    /\ held' = [held EXCEPT ![h] = @ + 1]
    /\ UNCHANGED <<unusedByBuffers, poolQueue, reference, delayed, replicaHome>>

\* Replica is taken from its pool and mmal_buffer_header_replicate() is called for it.
BufferReplicate(src) ==
    /\ replicaHome /\ held[src] > 0 /\ src # Replica /\ reference[Replica] = Replica
    /\ refcount' = [refcount EXCEPT ![src] = @ + 1]
    /\ reference' = [reference EXCEPT ![Replica] = src]
    /\ replicaHome' = FALSE /\ held' = [held EXCEPT ![Replica] = 1]
    /\ UNCHANGED <<unusedByBuffers, poolQueue, delayed>>

\* mmal_pool_buffer_header_release(): the callback of the pool decides whether the header is
\* queued.  A header that is not queued is the callback's from then on.
Returned(h, refs, users) ==
    IF poolCb = "keep"
    THEN /\ poolQueue' = poolQueue /\ held' = [users EXCEPT ![h] = 1]
         /\ refcount' = [refs EXCEPT ![h] = 1]
    ELSE /\ poolQueue' = Append(poolQueue, h) /\ held' = users
         /\ refcount' = [refs EXCEPT ![h] = 1]

\* The last reference to Replica is dropped: mmal_buffer_header_release_continue() first releases
\* what Replica refers to, and Replica goes home.
ReplicaReturned(users) ==
    LET src == reference[Replica]
        refs == [refcount EXCEPT ![src] = @ - 1, ![Replica] = 1]
    IN  /\ replicaHome' = TRUE /\ reference' = [reference EXCEPT ![Replica] = Replica]
        /\ IF refs[src] = 0 THEN Returned(src, refs, users)
           ELSE refcount' = refs /\ held' = users /\ UNCHANGED poolQueue

\* pf_pre_release() delays the release.
Delay(h, users) ==
    /\ delayed' = delayed \cup {h}
    /\ refcount' = [refcount EXCEPT ![h] = 0] /\ held' = users
    /\ UNCHANGED <<poolQueue, reference, replicaHome>>

\* mmal_buffer_header_release(), which may end in the pre-release callback.
BufferRelease(h) ==
    /\ held[h] > 0
    /\ LET users == [held EXCEPT ![h] = @ - 1]
       IN  \/ /\ refcount[h] > 1
              /\ refcount' = [refcount EXCEPT ![h] = @ - 1] /\ held' = users
              /\ UNCHANGED <<poolQueue, reference, delayed, replicaHome>>
           \/ /\ refcount[h] = 1 /\ h # Replica
              /\ Delay(h, users)
           \/ /\ refcount[h] = 1 /\ h # Replica
              /\ Returned(h, refcount, users) /\ UNCHANGED <<reference, delayed, replicaHome>>
           \/ /\ refcount[h] = 1 /\ h = Replica
              /\ ReplicaReturned(users) /\ UNCHANGED delayed
    /\ UNCHANGED unusedByBuffers

\* mmal_buffer_header_release_continue(), called for a header whose release was delayed.
BufferReleaseContinue(h) ==
    /\ h \in delayed
    /\ delayed' = delayed \ {h}
    /\ Returned(h, refcount, held)
    /\ UNCHANGED <<unusedByBuffers, reference, replicaHome>>

PoolNext ==
    \/ \E n \in 1 .. MaxHeaders, s \in Sizes :
          PoolCreate(n, s) \/ PoolCreateFails(n, s) \/ PoolResize(n, s)
    \/ PoolDestroy
    \/ \E cb \in Callbacks : PoolCallbackSet(cb)
    \/ BufferGet
    \/ \E h \in Headers : \/ BufferPutBack(h) \/ BufferAcquire(h) \/ BufferReplicate(h)
                          \/ BufferRelease(h) \/ BufferReleaseContinue(h)

PoolSpec == PoolInit /\ [][PoolNext]_poolVars

-----------------------------------------------------------------------------
(* Properties *)

PoolTypeOK ==
    /\ poolUp \in BOOLEAN /\ poolNum \in 0 .. MaxHeaders /\ poolLayout \in 0 .. MaxHeaders
    /\ poolSize \in Sizes /\ poolCb \in Callbacks /\ poolQueue \in Seq(Headers)
    /\ payload \in [Headers -> Sizes] /\ refcount \in [Headers -> 0 .. MaxRefs + 2]
    /\ reference \in [Headers -> Headers] /\ delayed \subseteq Headers
    /\ replicaHome \in BOOLEAN /\ held \in [Headers -> 0 .. MaxRefs]
    /\ heap \in 0 .. 2 * MaxHeaders /\ misread \in BOOLEAN

\* The count of mmal_buffer_header_acquire(), mmal_buffer_header_release() and
\* mmal_buffer_header_replicate() is the number of references there are: those of the users, one
\* more if a replica refers to the header, and one while the header waits in the queue.
RefcountExact ==
    ~misread =>
    \A h \in Live :
        refcount[h] = held[h] + (IF ~replicaHome /\ reference[Replica] = h THEN 1 ELSE 0)
                              + (IF h \in ToSet(poolQueue) THEN 1 ELSE 0)

\* A header that mmal_queue_get() hands out is nobody else's: no header is in the queue twice,
\* and none that a user, a replica or a delayed release still refers to.
QueuedOnce ==
    ~misread => /\ IsInjective(poolQueue)
                /\ \A h \in ToSet(poolQueue) :
                      /\ h \in Live /\ held[h] = 0 /\ h \notin delayed
                      /\ replicaHome \/ reference[Replica] # h

\* mmal_pool_resize() and mmal_pool_destroy() free every payload once: what is allocated is what
\* the headers of the pool have.
PayloadsOwned ==
    ~misread => heap = Cardinality({h \in Live : payload[h] # 0})

-----------------------------------------------------------------------------
(***************************************************************************)
(* The queue of the MMAL core (mmal_queue.c) between threads: a list under *)
(* a lock and a semaphore that counts its buffers.  mmal_queue_wait()      *)
(* takes the semaphore and gives it back before it looks at the list, and  *)
(* mmal_queue_get() waits for the semaphore with the lock held.            *)
(***************************************************************************)

CONSTANTS
    QThreads,   \* threads that use the queue
    QBuffers    \* buffer headers

ASSUME QueueAssumption == IsFiniteSet(QThreads) /\ IsFiniteSet(QBuffers)

QNone == "none"

VARIABLES
    qList,      \* first ... last
    qSem,       \* queue->semaphore
    qLock,      \* the thread that holds queue->lock, or QNone
    qAt,        \* control point of each thread
    qHas,       \* buffers each thread holds
    qNull       \* threads whose last mmal_queue_wait() returned NULL

queueVars == <<qList, qSem, qLock, qAt, qHas, qNull>>

QPoints == {"out", "wait", "post", "get", "waitget", "take", "waittake"}

QueueInit ==
    /\ qList = <<>> /\ qSem = 0 /\ qLock = QNone
    /\ qAt = [t \in QThreads |-> "out"]
    /\ \E owner \in [QBuffers -> QThreads] :
          qHas = [t \in QThreads |-> {b \in QBuffers : owner[b] = t}]
    /\ qNull = {}

QGoto(t, to) == qAt' = [qAt EXCEPT ![t] = to]

\* mmal_queue_put() and mmal_queue_put_back(), under the lock: the list, then the semaphore.
QueuePut(t, b, list) ==
    /\ qAt[t] = "out" /\ b \in qHas[t] /\ qLock = QNone
    /\ qList' = list /\ qSem' = qSem + 1
    /\ qHas' = [qHas EXCEPT ![t] = @ \ {b}]
    /\ UNCHANGED <<qLock, qAt, qNull>>

\* mmal_queue_get() and mmal_queue_wait() are called.
QueueCall(t) ==
    /\ qAt[t] = "out" /\ qHas[t] = {}
    /\ \E to \in {"get", "wait"} : QGoto(t, to)
    /\ qNull' = qNull \ {t}
    /\ UNCHANGED <<qList, qSem, qLock, qHas>>

\* mmal_queue_wait(): vcos_semaphore_wait() ...
QueueWait(t) ==
    /\ qAt[t] = "wait" /\ qSem > 0
    /\ qSem' = qSem - 1 /\ QGoto(t, "post")
    /\ UNCHANGED <<qList, qLock, qHas, qNull>>

\* ... vcos_semaphore_post(), and mmal_queue_get() follows.
QueuePost(t) ==
    /\ qAt[t] = "post"
    /\ qSem' = qSem + 1 /\ QGoto(t, "waitget")
    /\ UNCHANGED <<qList, qLock, qHas, qNull>>

\* mmal_queue_get(): an empty list gives NULL; otherwise the lock is kept ...
QueueLook(t) ==
    /\ qAt[t] \in {"get", "waitget"} /\ qLock = QNone
    /\ IF qList = <<>>
       THEN /\ QGoto(t, "out")
            /\ qNull' = IF qAt[t] = "waitget" THEN qNull \cup {t} ELSE qNull
            /\ UNCHANGED qLock
       ELSE /\ QGoto(t, IF qAt[t] = "get" THEN "take" ELSE "waittake")
            /\ qLock' = t /\ UNCHANGED qNull
    /\ UNCHANGED <<qList, qSem, qHas>>

\* Mutant: the list is advanced by two.
QueueTakeSkips(t) ==
    /\ qAt[t] \in {"take", "waittake"} /\ qSem > 0
    /\ qSem' = qSem - 1
    /\ qList' = SubSeq(qList, 3, Len(qList))
    /\ qHas' = [qHas EXCEPT ![t] = @ \cup {Head(qList)}]
    /\ qLock' = QNone /\ QGoto(t, "out")
    /\ UNCHANGED qNull

\* ... while the semaphore is waited for, which "will always succeed".
QueueTake(t) ==
    /\ qAt[t] \in {"take", "waittake"} /\ qSem > 0
    /\ qSem' = qSem - 1
    /\ qList' = Tail(qList)
    /\ qHas' = [qHas EXCEPT ![t] = @ \cup {Head(qList)}]
    /\ qLock' = QNone /\ QGoto(t, "out")
    /\ UNCHANGED qNull

QueueStep(t) == QueueWait(t) \/ QueuePost(t) \/ QueueLook(t) \/ QueueTake(t)

QueueNext ==
    \E t \in QThreads :
        \/ QueueCall(t) \/ QueueStep(t)
        \/ \E b \in QBuffers : \/ QueuePut(t, b, Append(qList, b))
                               \/ QueuePut(t, b, <<b>> \o qList)

\* Each thread runs on; the lock is fair.
QueueFair == \A t \in QThreads : WF_queueVars(QueuePost(t) \/ QueueTake(t)) /\ SF_queueVars(QueueLook(t))

-----------------------------------------------------------------------------
(* Properties *)

QueueTypeOK ==
    /\ qList \in Seq(QBuffers) /\ qSem \in Nat /\ qLock \in QThreads \cup {QNone}
    /\ qAt \in [QThreads -> QPoints] /\ qHas \in [QThreads -> SUBSET QBuffers]
    /\ qNull \subseteq QThreads

\* The semaphore counts the list: one less for each thread that is inside mmal_queue_wait()
\* between its wait and its post.
SemaphoreCounts == qSem + Cardinality({t \in QThreads : qAt[t] = "post"}) = Len(qList)

\* A buffer is in the list once or with one thread, whatever the threads do at the same time.
BufferInOnePlace ==
    /\ IsInjective(qList)
    /\ \A b \in QBuffers :
          Cardinality({t \in QThreads : b \in qHas[t]}) + (IF b \in ToSet(qList) THEN 1 ELSE 0) = 1

\* The wait of mmal_queue_get() for the semaphore with the lock held, of which the comment says
\* that it "will always succeed", ends even when a mmal_queue_wait() has the semaphore for a moment.
GetSucceeds == \A t \in QThreads : (qLock = t) ~> (qLock # t)

\* Every buffer header is in one place, its count is the number of its references, and what is allocated is what the
\* headers have; the semaphore of a queue counts its list.
BuffersCounted == RefcountExact /\ QueuedOnce /\ PayloadsOwned /\ SemaphoreCounts /\ BufferInOnePlace
=============================================================================
