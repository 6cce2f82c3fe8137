---------------------------- MODULE MmalPayload -----------------------------
(***************************************************************************)
(* The payloads of a VideoCore port (mmal_vc_port_payload_alloc() and      *)
(* mmal_vc_port_payload_free()) and the list of shared memory behind them  *)
(* (mmal_vc_shm.c), which translates between an address of the host and    *)
(* the handle the VideoCore knows the memory by.                           *)
(*                                                                         *)
(* Threads of different ports allocate at the same time: the list is       *)
(* locked for the search of a slot, and the slot filled afterwards.        *)
(***************************************************************************)
EXTENDS Integers, FiniteSets

CONSTANTS
    PayloadThreads,   \* threads that allocate and free, each with a port of its own
    ShmSlots,         \* slots of mmal_vc_payload_list (MMAL_VC_PAYLOAD_ELEM_MAX in the code)
    PayloadMax        \* bound: payloads allocated over time, each with an address of its own

NoMem == 0
Kinds == {"heap", "shm", "opaque"}

VARIABLES
    slotUsed,     \* in_use
    slotMem,      \* mem, and with it the handles
    payloads,     \* the payloads a thread has: sets of [mem, kind, sent]
    payAt,        \* the slot a thread is filling, or 0
    fresh,        \* the next address
    zeroCopy,     \* is_zero_copy of the thread's port
    opaque,       \* the encoding of the thread's port is MMAL_ENCODING_OPAQUE
    misfreed      \* threads that gave a payload to another allocator than the one it came from

payloadVars == <<slotUsed, slotMem, payloads, payAt, fresh, zeroCopy, opaque, misfreed>>
portKind == <<zeroCopy, opaque>>

PayloadInit ==
    /\ slotUsed = [s \in ShmSlots |-> FALSE] /\ slotMem = [s \in ShmSlots |-> NoMem]
    /\ payloads = [t \in PayloadThreads |-> {}] /\ payAt = [t \in PayloadThreads |-> 0] /\ fresh = 1
    /\ zeroCopy \in [PayloadThreads -> BOOLEAN] /\ opaque \in [PayloadThreads -> BOOLEAN]
    /\ misfreed = {}

Gets(t, k) ==
    /\ fresh <= PayloadMax /\ fresh' = fresh + 1
    /\ payloads' = [payloads EXCEPT ![t] = @ \union {[mem |-> fresh, kind |-> k, sent |-> "no"]}]

\* mmal_vc_port_payload_alloc() of opaque images and of conventional memory.  What fails changes
\* nothing.
PayloadAlloc(t) ==
    /\ payAt[t] = 0 /\ ~(zeroCopy[t] /\ ~opaque[t])
    /\ Gets(t, IF zeroCopy[t] THEN "opaque" ELSE "heap")
    /\ UNCHANGED <<slotUsed, slotMem, payAt, portKind, misfreed>>

\* mmal_vc_payload_list_get(): the first free slot is marked under the lock.
ShmGet(t) ==
    /\ payAt[t] = 0 /\ zeroCopy[t] /\ ~opaque[t]
    /\ \E s \in ShmSlots :
          /\ ~slotUsed[s] /\ \A r \in ShmSlots : r < s => slotUsed[r]
          /\ slotUsed' = [slotUsed EXCEPT ![s] = TRUE] /\ payAt' = [payAt EXCEPT ![t] = s]
    /\ UNCHANGED <<slotMem, payloads, fresh, portKind, misfreed>>

\* mmal_vc_shm_alloc() has its memory and fills the slot.
ShmFill(t) ==
    /\ payAt[t] # 0 /\ Gets(t, "shm")
    /\ slotUsed' = [slotUsed EXCEPT ![payAt[t]] = TRUE]
    /\ slotMem' = [slotMem EXCEPT ![payAt[t]] = fresh] /\ payAt' = [payAt EXCEPT ![t] = 0]
    /\ UNCHANGED <<portKind, misfreed>>

\* There is no memory: mmal_vc_payload_list_release().
ShmFails(t) ==
    /\ payAt[t] # 0 /\ payAt' = [payAt EXCEPT ![t] = 0]
    /\ slotUsed' = [slotUsed EXCEPT ![payAt[t]] = FALSE] /\ slotMem' = [slotMem EXCEPT ![payAt[t]] = NoMem]
    /\ UNCHANGED <<payloads, fresh, portKind, misfreed>>

\* mmal_vc_payload_list_find_mem() and mmal_vc_payload_list_find_handle(), whose handle stands for
\* the same memory: the first slot in use with it.
Found(mem) == {s \in ShmSlots : slotUsed[s] /\ slotMem[s] = mem}

\* The threads that misfreed, when thread t gives p to the allocator of kind k.
Misfreed(t, p, k) == IF p.kind = k THEN misfreed ELSE misfreed \union {t}

\* mmal_vc_port_payload_free(): an opaque image is released, memory of the list freed with its
\* slot, and anything else goes to the heap.
PayloadFree(t, p) ==
    /\ payAt[t] = 0 /\ p \in payloads[t] /\ p.sent = "no"
    /\ payloads' = [payloads EXCEPT ![t] = @ \ {p}]
    /\ IF opaque[t] THEN misfreed' = Misfreed(t, p, "opaque") /\ UNCHANGED <<slotUsed, slotMem>>
       ELSE IF Found(p.mem) # {}
       THEN /\ slotUsed' = [s \in ShmSlots |-> slotUsed[s] /\ s \notin Found(p.mem)]
            /\ slotMem' = [s \in ShmSlots |-> IF s \in Found(p.mem) THEN NoMem ELSE slotMem[s]]
            /\ UNCHANGED misfreed
       ELSE misfreed' = Misfreed(t, p, "heap") /\ UNCHANGED <<slotUsed, slotMem>>
    /\ UNCHANGED <<payAt, fresh, portKind>>

\* mmal_vc_port_send(): mmal_vc_shm_unlock() gives the VideoCore the handle of shared memory, and
\* the address of any other.
PayloadSent(t, p) ==
    /\ payAt[t] = 0 /\ p \in payloads[t] /\ p.sent = "no"
    /\ payloads' = [payloads EXCEPT ![t] = (@ \ {p}) \union {[p EXCEPT !.sent = IF Found(p.mem) # {} THEN "handle" ELSE "address"]}]
    /\ UNCHANGED <<slotUsed, slotMem, payAt, fresh, portKind, misfreed>>

\* mmal_vc_do_callback(): mmal_vc_shm_lock() turns the handle back into the address.
PayloadBack(t, p) ==
    /\ payAt[t] = 0 /\ p \in payloads[t] /\ p.sent # "no"
    /\ payloads' = [payloads EXCEPT ![t] = (@ \ {p}) \union {[p EXCEPT !.sent = "no"]}]
    /\ UNCHANGED <<slotUsed, slotMem, payAt, fresh, portKind, misfreed>>

\* MMAL_PARAMETER_ZERO_COPY is set while the port has payloads: mmal_vc_port_parameter_set() does
\* not look at them.
ZeroCopySet(t) ==
    /\ payAt[t] = 0 /\ zeroCopy' = [zeroCopy EXCEPT ![t] = ~@]
    /\ UNCHANGED <<slotUsed, slotMem, payloads, payAt, fresh, opaque, misfreed>>

PayloadNext ==
    \E t \in PayloadThreads :
        \/ PayloadAlloc(t) \/ ShmGet(t) \/ ShmFill(t) \/ ShmFails(t) \/ ZeroCopySet(t)
        \/ \E p \in payloads[t] : PayloadFree(t, p) \/ PayloadSent(t, p) \/ PayloadBack(t, p)

-----------------------------------------------------------------------------
(* Properties *)

PayloadTypeOK ==
    /\ slotUsed \in [ShmSlots -> BOOLEAN] /\ slotMem \in [ShmSlots -> 0..PayloadMax]
    /\ \A t \in PayloadThreads : payloads[t] \subseteq [mem : 1..PayloadMax, kind : Kinds, sent : {"no", "handle", "address"}]
    /\ payAt \in [PayloadThreads -> {0} \union ShmSlots] /\ fresh \in 1..(PayloadMax + 1)
    /\ zeroCopy \in [PayloadThreads -> BOOLEAN] /\ opaque \in [PayloadThreads -> BOOLEAN]
    /\ misfreed \subseteq PayloadThreads

\* Every shared payload has a slot of its own, and every slot in use belongs to one payload or to a
\* thread that is filling it: no slot is lost, no two payloads share one, and the VideoCore is sent
\* the handle of shared memory and of nothing else, however allocations of two ports interleave.
SlotsExact ==
    /\ \A t \in PayloadThreads : \A p \in payloads[t] : 
          /\ Cardinality(Found(p.mem)) = (IF p.kind = "shm" THEN 1 ELSE 0)
          /\ p.sent = "no" \/ (p.sent = "handle" <=> p.kind = "shm")
    /\ \A s \in ShmSlots : slotUsed[s] =>
          Cardinality({t \in PayloadThreads : payAt[t] = s})
              + Cardinality({p \in UNION {payloads[t] : t \in PayloadThreads} : p.mem = slotMem[s]}) = 1

\* A payload goes back to the allocator it came from, also when zero copy was switched while the
\* port had payloads, on every port whose encoding is not opaque.
FreedWhereAllocated == \A t \in misfreed : opaque[t]
=============================================================================
