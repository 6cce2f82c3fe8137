----------------------------- MODULE MmalAction -----------------------------
(***************************************************************************)
(* The action of a component (mmal_component.c): a thread that runs        *)
(* pf_action() once for every trigger, a lock that keeps it from running,  *)
(* and the registration that starts and joins it.                          *)
(*                                                                         *)
(* The action is the one of mmal_vc_api.c, which takes one item of work    *)
(* from a queue; the disabling of a port takes items from it as well.      *)
(***************************************************************************)
EXTENDS Integers

CONSTANT MaxWork   \* bound: items of work queued at one time, and posts

ASSUME ActionAssumption == MaxWork \in Nat

VARIABLES
    acAction,   \* private->pf_action is set
    acQuit,     \* private->action_quit
    acSem,      \* private->action_sema
    acMutex,    \* who holds private->action_mutex
    acThread,   \* where the action thread is
    acClient,   \* where mmal_component_action_deregister() is
    acWork,     \* items of work in the queue
    acClosed    \* the ports are disabled: nothing more is triggered

actionVars == <<acAction, acQuit, acSem, acMutex, acThread, acClient, acWork, acClosed>>

ActionInit ==
    /\ acAction = FALSE /\ acQuit = FALSE /\ acSem = 0 /\ acMutex = "free"
    /\ acThread = "none" /\ acClient = "idle" /\ acWork = 0 /\ acClosed = FALSE

\* mmal_component_action_register(): the thread may run before pf_action is set, and waits.
ActionRegister ==
    /\ ~acAction /\ acClient = "idle"
    /\ acAction' = TRUE /\ acThread' = "wait" /\ acSem' = 0 /\ acMutex' = "free" /\ acClosed' = FALSE
    /\ UNCHANGED <<acQuit, acClient, acWork>>

\* Mutant: a thread that is at work is not posted.
ActionTriggerOnce ==
    /\ acAction /\ ~acClosed /\ acWork < MaxWork /\ acSem < MaxWork
    /\ acWork' = acWork + 1 /\ acSem' = IF acThread = "wait" THEN acSem + 1 ELSE acSem
    /\ UNCHANGED <<acAction, acQuit, acMutex, acThread, acClient, acClosed>>

\* Work is queued and mmal_component_action_trigger() called.
ActionTrigger ==
    /\ acAction /\ ~acClosed /\ acWork < MaxWork /\ acSem < MaxWork
    /\ acWork' = acWork + 1 /\ acSem' = acSem + 1
    /\ UNCHANGED <<acAction, acQuit, acMutex, acThread, acClient, acClosed>>

\* The action thread returns from its wait, and leaves if it is told to.
ActionWakes ==
    /\ acThread = "wait" /\ acSem > 0 /\ acSem' = acSem - 1
    /\ acThread' = IF acQuit THEN "gone" ELSE "lock"
    /\ UNCHANGED <<acAction, acQuit, acMutex, acClient, acWork, acClosed>>

\* It takes the mutex and calls pf_action().
ActionRuns ==
    /\ acThread = "lock" /\ acMutex = "free" /\ acMutex' = "thread" /\ acThread' = "run"
    /\ UNCHANGED <<acAction, acQuit, acSem, acClient, acWork, acClosed>>

\* pf_action() took an item, if there is one, and returns.
ActionRan ==
    /\ acThread = "run" /\ acThread' = "wait" /\ acMutex' = "free"
    /\ acWork' = IF acWork > 0 THEN acWork - 1 ELSE 0
    /\ UNCHANGED <<acAction, acQuit, acSem, acClient, acClosed>>

\* The disabling of the ports takes what is left of the work; after the last one nothing comes.
ActionDrained ==
    /\ acAction /\ acClient = "idle" /\ acMutex # "client" /\ ~acClosed
    /\ acWork' = 0 /\ acClosed' = TRUE
    /\ UNCHANGED <<acAction, acQuit, acSem, acMutex, acThread, acClient>>

\* mmal_component_action_lock() and mmal_component_action_unlock().
ActionLock ==
    /\ acAction /\ acClient = "idle" /\ acMutex = "free" /\ acMutex' = "client"
    /\ UNCHANGED <<acAction, acQuit, acSem, acThread, acClient, acWork, acClosed>>
ActionUnlock ==
    /\ acMutex = "client" /\ acMutex' = "free"
    /\ UNCHANGED <<acAction, acQuit, acSem, acThread, acClient, acWork, acClosed>>

\* mmal_component_action_deregister(), called when the ports are closed: it tells the thread to
\* leave, and joins it.
ActionDeregister ==
    /\ acAction /\ acClosed /\ acClient = "idle" /\ acMutex # "client"
    /\ acQuit' = TRUE /\ acSem' = acSem + 1 /\ acClient' = "join"
    /\ UNCHANGED <<acAction, acMutex, acThread, acWork, acClosed>>

ActionJoined ==
    /\ acClient = "join" /\ acThread = "gone"
    /\ acAction' = FALSE /\ acQuit' = FALSE /\ acSem' = 0 /\ acThread' = "none" /\ acClient' = "idle"
    /\ UNCHANGED <<acMutex, acWork, acClosed>>

ActionNext ==
    \/ ActionRegister \/ ActionTrigger \/ ActionWakes \/ ActionRuns \/ ActionRan \/ ActionDrained
    \/ ActionLock \/ ActionUnlock \/ ActionDeregister \/ ActionJoined

ActionSpec == ActionInit /\ [][ActionNext]_actionVars

\* The action thread is scheduled; a client that locked the action unlocks it, and a mutex that is
\* given back again and again is got in the end.
ActionFair ==
    /\ WF_actionVars(ActionWakes \/ ActionRan) /\ SF_actionVars(ActionRuns)
    /\ WF_actionVars(ActionUnlock) /\ WF_actionVars(ActionJoined)

-----------------------------------------------------------------------------
(* Properties *)

ActionTypeOK ==
    /\ acAction \in BOOLEAN /\ acQuit \in BOOLEAN /\ acClosed \in BOOLEAN
    /\ acSem \in 0..(MaxWork + 1) /\ acWork \in 0..MaxWork
    /\ acMutex \in {"free", "client", "thread"} /\ acClient \in {"idle", "join"}
    /\ acThread \in {"none", "wait", "lock", "run", "gone"}

\* The action never runs while a client holds it locked, nor after it was deregistered.
ActionExcluded == acThread = "run" => acMutex = "thread" /\ acAction

\* For every item of work there is a post, or a thread on its way, to run the action for it: the
\* action takes one item a time, so that one post less would leave work in the queue for ever.
EveryTriggerRuns ==
    acAction => acWork <= acSem + (IF acThread \in {"lock", "run"} THEN 1 ELSE 0)

\* A full queue is worked off, and mmal_component_action_deregister() returns.
ActionEnds == (acWork = MaxWork ~> acWork < MaxWork) /\ (acClient = "join" ~> acClient = "idle")

\* The action of a component runs for every trigger, and never beside a client that locked it out.
ActionKept == ActionExcluded /\ EveryTriggerRuns
=============================================================================
