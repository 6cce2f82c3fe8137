---------------------------- MODULE MmalVcClient ----------------------------
(***************************************************************************)
(* The client side of MMAL between the host and VideoCore                  *)
(* (mmal_vc_client.c): one client per process, shared by its threads.  A   *)
(* call sends a message and waits on a waiter of a small pool until the    *)
(* callback of VCHIQ, which runs in a thread of its own, has copied the    *)
(* reply.  Data that does not fit a message follows as a bulk transfer on  *)
(* a second channel, matched to its message by its place only.             *)
(*                                                                         *)
(* VCHIQ and VideoCore are external: two channels that keep the order, and *)
(* a peer that answers each message.                                       *)
(***************************************************************************)
EXTENDS Integers, Sequences, FiniteSets

CONSTANTS
    VcThreads,    \* threads of the process
    MaxWaiters,   \* MAX_WAITERS
    MaxQueued,    \* messages VCHIQ holds before vchiq_queue_message() blocks
    MaxUseFaults  \* calls of vchiq_use_service() that fail (bound)

Waiters == 1 .. MaxWaiters
NoThread == "nothread"

ASSUME VcAssumption ==
    /\ IsFiniteSet(VcThreads) /\ NoThread \notin VcThreads
    /\ MaxWaiters \in Nat \ {0} /\ MaxQueued \in Nat /\ MaxUseFaults \in Nat

VARIABLES
    vcRefs,      \* client.refcount
    vcInited,    \* client.inited
    useCount,    \* client.usecount
    poolSem,     \* waitpool.sem
    inUse,       \* waiters[].inuse
    dest,        \* the thread whose buffer waiters[].dest is
    waiterSem,   \* waiters[].sem
    bulkLock,    \* the thread that holds client.bulk_lock
    vcAt,        \* control point of each thread
    mine,        \* the waiter of each thread
    isBulk,      \* its call has a bulk transfer
    answer,      \* whose request the reply in its buffer answers
    toVc,        \* messages to VideoCore: <<thread, waiter, with bulk>>; waiter 0 wants no reply
    bulkTo,      \* bulk transfers to VideoCore: the thread that sent them
    toHost,      \* replies: <<thread, waiter>>
    mixedUp,     \* VideoCore took the bulk transfer of another message
    noWaiter,    \* get_waiter() found none free
    useFaults

vcClientVars == <<vcRefs, vcInited, useCount, poolSem, inUse, dest, waiterSem, bulkLock, vcAt, mine, isBulk,
                  answer, toVc, bulkTo, toHost, mixedUp, noWaiter, useFaults>>
setup == <<vcRefs, vcInited>>
waitPool == <<poolSem, inUse, dest, waiterSem>>
channels == <<toVc, bulkTo, toHost, mixedUp>>
own == <<mine, isBulk, answer>>

VcClientInit ==
    /\ vcRefs = 0 /\ vcInited = FALSE /\ useCount = 0
    /\ poolSem = 0 /\ inUse = {} /\ dest = [w \in Waiters |-> NoThread] /\ waiterSem = [w \in Waiters |-> 0]
    /\ bulkLock = NoThread
    /\ vcAt = [t \in VcThreads |-> "out"] /\ mine = [t \in VcThreads |-> 0]
    /\ isBulk = [t \in VcThreads |-> FALSE] /\ answer = [t \in VcThreads |-> NoThread]
    /\ toVc = <<>> /\ bulkTo = <<>> /\ toHost = <<>>
    /\ mixedUp = FALSE /\ noWaiter = FALSE /\ useFaults = 0

\* Back from a call: nothing of it is left.
Back(t) == mine' = [mine EXCEPT ![t] = 0] /\ isBulk' = [isBulk EXCEPT ![t] = FALSE] /\ answer' = [answer EXCEPT ![t] = NoThread]

VcGoes(t, from, to) == vcAt[t] = from /\ vcAt' = [vcAt EXCEPT ![t] = to]

-----------------------------------------------------------------------------
(* mmal_vc_init(), mmal_vc_deinit(), mmal_vc_use(), mmal_vc_release() *)

\* All under client.lock: the first one opens the service, which counts as one use, and makes the
\* waiters.  The others find it done.
VcInit(t) ==
    /\ vcRefs' = vcRefs + 1
    /\ IF vcRefs > 0
       THEN VcGoes(t, "out", "ready") /\ UNCHANGED <<vcInited, useCount, waitPool>>
       ELSE /\ VcGoes(t, "out", "unuse")
            /\ vcInited' = TRUE /\ useCount' = 1
            /\ poolSem' = MaxWaiters /\ inUse' = {} /\ waiterSem' = [w \in Waiters |-> 0] /\ UNCHANGED dest
    /\ UNCHANGED <<bulkLock, own, channels, noWaiter, useFaults>>

\* A failure of the service, the waiters or the lock undoes what was done and the reference.
VcInitFails(t) ==
    /\ vcAt[t] = "out" /\ vcRefs = 0 /\ useCount' = 0
    /\ UNCHANGED <<setup, waitPool, bulkLock, vcAt, own, channels, noWaiter, useFaults>>

\* mmal_vc_use_internal(): the first use switches the service on.
Use == \/ useCount' = useCount + 1 /\ UNCHANGED useFaults
       \/ /\ useCount = 0 /\ useFaults < MaxUseFaults
          /\ useFaults' = useFaults + 1 /\ UNCHANGED useCount

\* mmal_vc_release_internal(): the last use switches it off.
Unuse == useCount' = useCount - 1

\* The end of mmal_vc_init(): the use of the open call is given back, outside the lock.
VcInitRelease(t) ==
    /\ VcGoes(t, "unuse", "ready") /\ Unuse
    /\ UNCHANGED <<setup, waitPool, bulkLock, own, channels, noWaiter, useFaults>>

\* mmal_vc_use() and mmal_vc_release(), by a component.
VcUse(t) ==
    /\ VcGoes(t, "ready", "using") /\ useCount' = useCount + 1
    /\ UNCHANGED <<setup, waitPool, bulkLock, own, channels, noWaiter, useFaults>>

VcRelease(t) ==
    /\ VcGoes(t, "using", "ready") /\ Unuse
    /\ UNCHANGED <<setup, waitPool, bulkLock, own, channels, noWaiter, useFaults>>

\* mmal_vc_deinit(): the last one destroys the waiters and closes the service.
VcDeinit(t) ==
    /\ VcGoes(t, "ready", "out") /\ vcRefs' = vcRefs - 1
    /\ IF vcRefs > 1 THEN UNCHANGED <<vcInited, waitPool, channels>>
       ELSE /\ vcInited' = FALSE /\ poolSem' = 0 /\ inUse' = {} /\ dest' = [w \in Waiters |-> NoThread]
            /\ waiterSem' = [w \in Waiters |-> 0]
            /\ toVc' = <<>> /\ bulkTo' = <<>> /\ toHost' = <<>> /\ UNCHANGED mixedUp
    /\ UNCHANGED <<useCount, bulkLock, own, noWaiter, useFaults>>

-----------------------------------------------------------------------------
(* mmal_vc_sendwait_message() and mmal_vc_send_message() *)

\* With a bulk transfer the lock is held from before the message to after the transfer.
Call(t, reply, bulk) ==
    /\ VcGoes(t, "ready", IF reply THEN "getwaiter" ELSE "send")
    /\ IF bulk THEN bulkLock = NoThread /\ bulkLock' = t ELSE UNCHANGED bulkLock
    /\ isBulk' = [isBulk EXCEPT ![t] = bulk]
    /\ UNCHANGED <<mine, answer, setup, useCount, waitPool, channels, noWaiter, useFaults>>

\* get_waiter(): the semaphore counts the free ones ...
WaiterWait(t) ==
    /\ VcGoes(t, "getwaiter", "pickwaiter") /\ poolSem > 0 /\ poolSem' = poolSem - 1
    /\ UNCHANGED <<setup, useCount, inUse, dest, waiterSem, bulkLock, own, channels, noWaiter, useFaults>>

\* ... and the first free one is taken, under client.lock.
WaiterTake(t) ==
    LET free == Waiters \ inUse IN
    /\ IF free = {} THEN VcGoes(t, "pickwaiter", "pickwaiter") /\ noWaiter' = TRUE /\ UNCHANGED <<mine, inUse>>
       ELSE /\ VcGoes(t, "pickwaiter", "send") /\ UNCHANGED noWaiter
            /\ \E w \in free : /\ \A v \in free : w <= v
                             /\ mine' = [mine EXCEPT ![t] = w] /\ inUse' = inUse \cup {w}
    /\ UNCHANGED <<setup, useCount, poolSem, dest, waiterSem, bulkLock, isBulk, answer, channels, useFaults>>

\* The waiter is told where the reply goes, the service is used, the message is queued.
Send(t) ==
    /\ VcGoes(t, "send", IF isBulk[t] THEN "bulk" ELSE IF mine[t] # 0 THEN "await" ELSE "ready")
    /\ Len(toVc) < MaxQueued /\ toVc' = Append(toVc, <<t, mine[t], isBulk[t]>>)
    /\ IF mine[t] = 0 THEN UNCHANGED <<dest, useCount, useFaults>>
       ELSE dest' = [dest EXCEPT ![mine[t]] = t] /\ Use
    /\ IF mine[t] = 0 /\ ~isBulk[t] THEN Back(t) ELSE UNCHANGED own
    /\ UNCHANGED <<setup, poolSem, inUse, waiterSem, bulkLock, bulkTo, toHost, mixedUp, noWaiter>>

\* vchiq_queue_message() fails.
SendMsgFails(t) ==
    /\ VcGoes(t, "send", IF mine[t] # 0 THEN "unsent" ELSE "ready")
    /\ bulkLock' = (IF isBulk[t] THEN NoThread ELSE bulkLock)
    /\ IF mine[t] = 0 THEN UNCHANGED <<dest, useCount, useFaults>>
       ELSE dest' = [dest EXCEPT ![mine[t]] = t] /\ Use
    /\ IF mine[t] = 0 THEN Back(t) ELSE UNCHANGED own
    /\ UNCHANGED <<setup, poolSem, inUse, waiterSem, channels, noWaiter>>

\* vchiq_queue_bulk_transmit(), and the lock is given back.
SendBulk(t) ==
    /\ VcGoes(t, "bulk", IF mine[t] # 0 THEN "await" ELSE "ready")
    /\ bulkTo' = Append(bulkTo, t) /\ bulkLock' = (IF bulkLock = t THEN NoThread ELSE bulkLock)
    /\ IF mine[t] = 0 THEN Back(t) ELSE UNCHANGED own
    /\ UNCHANGED <<setup, useCount, waitPool, toVc, toHost, mixedUp, noWaiter, useFaults>>

\* vcos_semaphore_wait(&waiter->sem); the use of the service is given back.
Answered(t) ==
    /\ VcGoes(t, "await", "answered") /\ waiterSem[mine[t]] > 0 /\ Unuse
    /\ waiterSem' = [waiterSem EXCEPT ![mine[t]] = @ - 1]
    /\ UNCHANGED <<setup, poolSem, inUse, dest, bulkLock, own, channels, noWaiter, useFaults>>

\* fail_msg
Unsent(t) ==
    /\ VcGoes(t, "unsent", "answered") /\ Unuse
    /\ UNCHANGED <<setup, waitPool, bulkLock, own, channels, noWaiter, useFaults>>

\* Mutant: the semaphore of the pool is posted first.
ReleaseWaiterLate(t) ==
    /\ VcGoes(t, "answered", "releasewaiter") /\ poolSem' = poolSem + 1
    /\ UNCHANGED <<setup, useCount, inUse, dest, waiterSem, bulkLock, own, channels, noWaiter, useFaults>>

\* release_waiter(): inuse is reset without the lock ...
ReleaseWaiter(t) ==
    /\ VcGoes(t, "answered", "releasewaiter") /\ inUse' = inUse \ {mine[t]}
    /\ UNCHANGED <<setup, useCount, poolSem, dest, waiterSem, bulkLock, own, channels, noWaiter, useFaults>>

\* ... before the semaphore is posted.
PostWaiter(t) ==
    /\ VcGoes(t, "releasewaiter", "ready")
    /\ poolSem' = poolSem + 1 /\ Back(t)
    /\ UNCHANGED <<setup, useCount, inUse, dest, waiterSem, bulkLock, channels, noWaiter, useFaults>>

-----------------------------------------------------------------------------
(* VideoCore, and the callback of VCHIQ *)

\* VideoCore takes the next message, with the next bulk transfer if the message has one, and
\* replies.
VcHandles ==
    LET msg == Head(toVc) IN
    /\ toVc # <<>> /\ toVc' = Tail(toVc)
    /\ IF msg[3] THEN bulkTo # <<>> /\ mixedUp' = (mixedUp \/ Head(bulkTo) # msg[1]) /\ bulkTo' = Tail(bulkTo)
       ELSE UNCHANGED <<bulkTo, mixedUp>>
    /\ toHost' = IF msg[2] = 0 THEN toHost ELSE Append(toHost, <<msg[1], msg[2]>>)
    /\ UNCHANGED <<setup, useCount, waitPool, bulkLock, vcAt, own, noWaiter, useFaults>>

\* mmal_vc_vchiq_callback(), for a reply: it is copied to where the waiter says.
Callback ==
    LET msg == Head(toHost) IN
    /\ toHost # <<>> /\ toHost' = Tail(toHost)
    /\ answer' = [answer EXCEPT ![dest[msg[2]]] = msg[1]]
    /\ waiterSem' = [waiterSem EXCEPT ![msg[2]] = @ + 1]
    /\ UNCHANGED <<setup, useCount, poolSem, inUse, dest, bulkLock, vcAt, mine, isBulk, toVc, bulkTo, mixedUp,
                   noWaiter, useFaults>>

-----------------------------------------------------------------------------

VcStep(t) == \/ WaiterWait(t) \/ WaiterTake(t) \/ Send(t) \/ SendMsgFails(t) \/ SendBulk(t) \/ Answered(t)
             \/ Unsent(t) \/ ReleaseWaiter(t) \/ PostWaiter(t) \/ VcInitRelease(t)

VcClientNext ==
    \/ VcHandles \/ Callback
    \/ \E t \in VcThreads : \/ VcInit(t) \/ VcInitFails(t) \/ VcUse(t) \/ VcRelease(t) \/ VcDeinit(t) \/ VcStep(t)
                            \/ \E reply, bulk \in BOOLEAN : Call(t, reply, bulk)

VcClientSpec == VcClientInit /\ [][VcClientNext]_vcClientVars

\* The threads run on, VideoCore answers, and the semaphore of the pool is fair.
VcClientFair ==
    /\ WF_vcClientVars(VcHandles) /\ WF_vcClientVars(Callback)
    /\ \A t \in VcThreads : WF_vcClientVars(VcStep(t)) /\ SF_vcClientVars(WaiterWait(t))

-----------------------------------------------------------------------------
(* Properties *)

VcClientTypeOK ==
    /\ vcRefs \in 0 .. Cardinality(VcThreads) /\ vcInited = (vcRefs > 0)
    /\ poolSem \in Int /\ inUse \subseteq Waiters /\ dest \in [Waiters -> VcThreads \cup {NoThread}]
    /\ waiterSem \in [Waiters -> Nat] /\ bulkLock \in VcThreads \cup {NoThread}
    /\ mine \in [VcThreads -> 0 .. MaxWaiters] /\ isBulk \in [VcThreads -> BOOLEAN]
    /\ useCount \in Int /\ useFaults \in 0 .. MaxUseFaults

\* A call that is woken finds the reply to its own request in its buffer, whichever waiter it had
\* and in whatever order the replies came.
ReplyIsMine == \A t \in VcThreads : vcAt[t] = "await" /\ waiterSem[mine[t]] > 0 => answer[t] = t

\* get_waiter() finds a free waiter whenever the semaphore let it through, although waiters are
\* given back without the lock: the vcos_verify() there holds.
WaiterFound == ~noWaiter

\* VideoCore pairs each bulk transfer with the message it belongs to: the lock keeps two calls from
\* interleaving on the two channels.
BulkPaired == ~mixedUp

\* The service is in use as long as a call is under way, unless switching it on had failed.
ServiceInUse ==
    useFaults = 0 =>
        useCount = Cardinality({t \in VcThreads : vcAt[t] \in {"unuse", "using", "await", "unsent"} \/
                                                  (vcAt[t] = "bulk" /\ mine[t] # 0)})

\* Every call returns, with fewer waiters than threads.
CallsReturn == \A t \in VcThreads : (vcAt[t] = "getwaiter") ~> (vcAt[t] = "ready")

\* A call to the VideoCore gets its own reply, through a waiter of its own, with its bulk transfer and the service in use.
CallsPaired == ReplyIsMine /\ WaiterFound /\ BulkPaired /\ ServiceInUse
=============================================================================
