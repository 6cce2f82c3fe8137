---------------------------- MODULE FrameChannel ----------------------------
(***************************************************************************)
(* What one entry of pglobal->in[] promises to the clients of output_http: *)
(* a channel that holds the latest picture.  Pictures are published in the *)
(* order they are taken; a client is handed the latest one, whole, and may *)
(* miss pictures or be handed one again.  Once the input has ended the     *)
(* channel is closed and promises nothing.                                 *)
(***************************************************************************)
EXTENDS Integers

CONSTANTS Clients, Frames, Torn

VARIABLES
    current,  \* the picture published last
    open,     \* the input is running
    sent      \* the picture each client is sending, as a set: {} when it sends none

vars == <<current, open, sent>>

Init == current = 0 /\ open = TRUE /\ sent = [c \in Clients |-> {}]

Publish == /\ open
           /\ \E f \in Frames : f >= current /\ current' = f
           /\ UNCHANGED <<open, sent>>

Close == open /\ open' = FALSE /\ UNCHANGED <<current, sent>>

Deliver(c) == /\ sent[c] = {}
              /\ \E f \in Frames \cup {Torn} : /\ open => f = current
                                               /\ sent' = [sent EXCEPT ![c] = {f}]
              /\ UNCHANGED <<current, open>>

Finish(c) == /\ sent[c] # {}
             /\ sent' = [sent EXCEPT ![c] = {}]
             /\ UNCHANGED <<current, open>>

Next == Publish \/ Close \/ \E c \in Clients : Deliver(c) \/ Finish(c)

Spec == Init /\ [][Next]_vars
=============================================================================
