---------------------------- MODULE PortPromise ----------------------------
(***************************************************************************)
(* What a task queue port promises the queues attached to it, context by   *)
(* context: an accepted callback is invoked once or its refusal is         *)
(* reported; a termination is signaled only when nobody suspends its       *)
(* context and the context's callbacks have returned.  TaskQueuePort is    *)
(* shown to keep the promise; TaskQueue is built on it.                    *)
(***************************************************************************)
EXTENDS Naturals, FiniteSets

CONSTANT Contexts

VARIABLES
    status,      \* status of each context
    accepted,    \* callbacks QueueItem has let in, delayed ones included
    ready,       \* callbacks in the list of those to run
    running,     \* callbacks being executed
    invoked,     \* ids of callbacks that were invoked
    late,        \* ids of callbacks that came while terminations were signaled
    prepared,    \* terminations with a token
    terminating, \* terminations under way
    signaled,    \* terminations whose callback is due
    finished,    \* ids of terminations called back or rolled back
    held,        \* suspensions of each context
    weak         \* contexts suspended while a resume was being carried out

itemVars == <<accepted, ready, running, invoked, late>>
termVars == <<prepared, terminating, signaled, finished>>
holdVars == <<held, weak>>
portVars == <<status, itemVars, termVars, holdVars>>

Closed == {"Terminating", "Terminated"}

PortInit ==
    /\ status = [c \in Contexts |-> "Active"]
    /\ accepted = {} /\ ready = {} /\ running = {} /\ invoked = {} /\ late = {}
    /\ prepared = {} /\ terminating = {} /\ signaled = {} /\ finished = {}
    /\ held = [c \in Contexts |-> 0] /\ weak = {}

-----------------------------------------------------------------------------
(* Callbacks: entries with an id and a ctx                                 *)

Open(c) == status[c] \notin Closed

Accept(e) ==
    /\ Open(e.ctx)
    /\ e.id \notin invoked /\ \A x \in accepted \cup ready \cup running : x.id # e.id
    /\ accepted' = accepted \cup {e}
    /\ UNCHANGED <<status, ready, running, invoked, late, termVars, holdVars>>

\* No memory: the caller is told so, and the callback never runs.
Refuse(e) ==
    /\ e \in accepted
    /\ accepted' = accepted \ {e}
    /\ UNCHANGED <<status, ready, running, invoked, late, termVars, holdVars>>

\* A callback that comes when terminations are about to be signaled may be late.
Enqueue(e, isLate) ==
    /\ e \in accepted
    /\ accepted' = accepted \ {e}
    /\ ready' = ready \cup {e}
    /\ late' = IF isLate THEN late \cup {e.id} ELSE late
    /\ UNCHANGED <<status, running, invoked, termVars, holdVars>>

Invoke(e) ==
    /\ e \in ready
    /\ e.id \notin invoked
    /\ ready' = ready \ {e}
    /\ running' = running \cup {e}
    /\ invoked' = invoked \cup {e.id}
    /\ UNCHANGED <<status, accepted, late, termVars, holdVars>>

Return(e) ==
    /\ e \in running
    /\ running' = running \ {e}
    /\ UNCHANGED <<status, accepted, ready, invoked, late, termVars, holdVars>>

-----------------------------------------------------------------------------
(* Terminations: entries with an id and a ctx                              *)

Prepare(x) ==
    /\ x.id \notin finished
    /\ \A y \in prepared \cup terminating \cup signaled : y.id # x.id
    /\ prepared' = prepared \cup {x}
    /\ status' = [status EXCEPT ![x.ctx] = IF @ = "Active" THEN "Canceled" ELSE @]
    /\ UNCHANGED <<itemVars, terminating, signaled, finished, holdVars>>

RollBack(x) ==
    /\ x \in prepared
    /\ prepared' = prepared \ {x}
    /\ finished' = finished \cup {x.id}
    /\ status' = [status EXCEPT ![x.ctx] = IF @ = "Canceled" THEN "Active" ELSE @]
    /\ UNCHANGED <<itemVars, terminating, signaled, holdVars>>

BeginTermination(x) ==
    /\ x \in prepared
    /\ prepared' = prepared \ {x}
    /\ terminating' = terminating \cup {x}
    /\ status' = [status EXCEPT ![x.ctx] = "Terminating"]
    /\ UNCHANGED <<itemVars, signaled, finished, holdVars>>

\* Nothing of context c is waiting to run or running, late ones excepted.
Drained(c) == \A e \in ready \cup running : e.ctx = c => e.id \in late

\* The mutant does not look at suspensions.
LooseAlways(c) == TRUE
Loose(c) == held[c] = 0 \/ c \in weak

Signal(hit) ==
    /\ hit # {} /\ hit \subseteq terminating
    /\ \A x \in hit : Drained(x.ctx) /\ Loose(x.ctx)
    /\ terminating' = terminating \ hit
    /\ signaled' = signaled \cup hit
    /\ status' = [c \in Contexts |-> IF \E x \in hit : x.ctx = c THEN "Terminated" ELSE status[c]]
    /\ UNCHANGED <<itemVars, prepared, finished, holdVars>>

CalledBack(x) ==
    /\ x \in signaled
    /\ signaled' = signaled \ {x}
    /\ finished' = finished \cup {x.id}
    /\ UNCHANGED <<status, itemVars, prepared, terminating, holdVars>>

Hold(c) ==
    /\ Open(c)
    /\ held' = [held EXCEPT ![c] = @ + 1]
    /\ UNCHANGED <<status, itemVars, termVars, weak>>

Unhold(c) ==
    /\ held[c] > 0
    /\ held' = [held EXCEPT ![c] = @ - 1]
    /\ UNCHANGED <<status, itemVars, termVars, weak>>

\* A suspension meets a resume that has counted down and not yet collected.
Weaken(c) ==
    /\ weak' = weak \cup {c}
    /\ UNCHANGED <<status, itemVars, termVars, held>>

\* The contexts are detached: nothing is left of them in the port.
Detach ==
    /\ accepted = {} /\ ready = {} /\ running = {}
    /\ prepared = {} /\ terminating = {} /\ signaled = {}
    /\ status' = [c \in Contexts |-> "Terminated"]
    /\ UNCHANGED <<itemVars, termVars, holdVars>>

PortNext ==
    \/ \E e \in accepted' : Accept(e)
    \/ \E e \in accepted : Refuse(e) \/ Enqueue(e, TRUE) \/ Enqueue(e, FALSE)
    \/ \E e \in ready : Invoke(e)
    \/ \E e \in running : Return(e)
    \/ \E x \in prepared' : Prepare(x)
    \/ \E x \in prepared : RollBack(x) \/ BeginTermination(x)
    \/ Signal(terminating \ terminating')
    \/ \E x \in signaled : CalledBack(x)
    \/ \E c \in Contexts : Hold(c) \/ Unhold(c) \/ Weaken(c)
    \/ Detach

PortSpec == PortInit /\ [][PortNext]_portVars
=============================================================================
