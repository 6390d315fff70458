------------------------------ MODULE AsyncInfo ------------------------------
(***************************************************************************)
(* The asynchronous operations of the runtime's internal services: an      *)
(* AsyncInfo runs a callback on the thread pool, keeps its status and      *)
(* outcome under a mutex, and invokes the completed handler.  The holder   *)
(* of an operation awaits it with put_Completed and an event; it may also  *)
(* cancel or close it.  Each action is one critical section of the mutex,  *)
(* with the Invoke that put_Completed makes inside it.                     *)
(***************************************************************************)
EXTENDS Naturals

CONSTANT Ops

VARIABLES
    status,    \* status, "none" before Create
    handler,   \* handler: "unset" (HANDLER_NOT_SET), "set" or "null"
    invoking,  \* operations whose callback has taken the handler to invoke it
    outcome,   \* hr and result once the callback has returned
    event,     \* the awaiter's event, which resets itself, is signaled
    awaiter,   \* where the awaiter stands
    invokes    \* history: times the handler was invoked

infoVars == <<status, handler, invoking, outcome, event, awaiter, invokes>>

InfoInit ==
    /\ status = [o \in Ops |-> "none"]
    /\ handler = [o \in Ops |-> "unset"]
    /\ invoking = {}
    /\ outcome = [o \in Ops |-> "none"]
    /\ event = [o \in Ops |-> FALSE]
    /\ awaiter = [o \in Ops |-> "none"]
    /\ invokes = [o \in Ops |-> 0]

\* AsyncInfo::Create and Start: the work is handed to the thread pool.
Create(o) ==
    /\ status[o] = "none"
    /\ status' = [status EXCEPT ![o] = "Started"]
    /\ UNCHANGED <<handler, invoking, outcome, event, awaiter, invokes>>

\* Invoke of the awaiter's handler sets its event.  The awaiter may have given up.
InvokeHandler(o) ==
    /\ event' = [event EXCEPT ![o] = TRUE]
    /\ invokes' = [invokes EXCEPT ![o] = @ + 1]

-----------------------------------------------------------------------------
(* The pool's side: async_info_callback                                    *)

\* The mutant completes an operation that was closed.
FinalStatusAlways(o, out) == IF out = "failed" THEN "Error" ELSE "Completed"
FinalStatus(o, out) ==
    IF status[o] = "Closed" THEN "Closed" ELSE IF out = "failed" THEN "Error" ELSE "Completed"

\* The callback has returned out; a completion overwrites a cancellation.
Complete(o, out) ==
    /\ status' = [status EXCEPT ![o] = FinalStatus(o, out)]
    /\ outcome' = [outcome EXCEPT ![o] = out]
    /\ IF handler[o] = "set"
       THEN invoking' = invoking \cup {o} /\ handler' = [handler EXCEPT ![o] = "null"]
       ELSE UNCHANGED <<invoking, handler>>
    /\ UNCHANGED <<event, awaiter, invokes>>

\* The handler is invoked outside the mutex.
CallbackInvokes(o) ==
    /\ o \in invoking
    /\ invoking' = invoking \ {o}
    /\ InvokeHandler(o)
    /\ UNCHANGED <<status, handler, outcome, awaiter>>

-----------------------------------------------------------------------------
(* The holder's side: await_AsyncOperation, Cancel and Close               *)

\* The mutant does not look whether the operation is over already.
OverAlreadyNot(o) == FALSE
OverAlready(o) == status[o] # "Started"

\* The mutant leaves the handler for the callback to find.
HandlerAfterKept == "set"
HandlerAfter == "null"

PutCompleted(o) ==
    /\ awaiter[o] = "none" /\ status[o] # "none"
    /\ IF status[o] = "Closed" \/ handler[o] # "unset"
       THEN /\ awaiter' = [awaiter EXCEPT ![o] = "refused"]
            /\ UNCHANGED <<handler, event, invokes>>
       ELSE /\ awaiter' = [awaiter EXCEPT ![o] = "waiting"]
            /\ IF OverAlready(o)
               THEN InvokeHandler(o) /\ handler' = [handler EXCEPT ![o] = HandlerAfter]
               ELSE handler' = [handler EXCEPT ![o] = "set"] /\ UNCHANGED <<event, invokes>>
    /\ UNCHANGED <<status, invoking, outcome>>

AwaitWakes(o) ==
    /\ awaiter[o] = "waiting" /\ event[o]
    /\ awaiter' = [awaiter EXCEPT ![o] = "woken"]
    /\ event' = [event EXCEPT ![o] = FALSE]
    /\ UNCHANGED <<status, handler, invoking, outcome, invokes>>

AwaitTimesOut(o) ==
    /\ awaiter[o] = "waiting" /\ ~event[o]
    /\ awaiter' = [awaiter EXCEPT ![o] = "timeout"]
    /\ UNCHANGED <<status, handler, invoking, outcome, event, invokes>>

Cancel(o) ==
    /\ status[o] = "Started"
    /\ status' = [status EXCEPT ![o] = "Canceled"]
    /\ UNCHANGED <<handler, invoking, outcome, event, awaiter, invokes>>

\* E_ILLEGAL_STATE_CHANGE while Started.
Close(o) ==
    /\ status[o] \notin {"none", "Started", "Closed"}
    /\ status' = [status EXCEPT ![o] = "Closed"]
    /\ UNCHANGED <<handler, invoking, outcome, event, awaiter, invokes>>

InfoTypeOK ==
    /\ status \in [Ops -> {"none", "Started", "Completed", "Canceled", "Error", "Closed"}]
    /\ handler \in [Ops -> {"unset", "set", "null"}]
    /\ invoking \subseteq Ops
    /\ outcome \in [Ops -> {"none", "ok", "failed"}]
    /\ event \in [Ops -> BOOLEAN]
    /\ awaiter \in [Ops -> {"none", "waiting", "woken", "timeout", "refused"}]
    /\ invokes \in [Ops -> Nat]

(* The completed handler is invoked at most once, however put_Completed,   *)
(* the completion and a cancellation race, and never before the operation  *)
(* has left Started.                                                       *)
InvokedOnce ==
    \A o \in Ops : invokes[o] <= 1 /\ (invokes[o] = 1 => status[o] # "Started")

(* An operation that is over stays over: a completion may replace a        *)
(* cancellation, nothing replaces a completion but Close, and nothing      *)
(* replaces Closed.                                                        *)
OverStaysOver ==
    [][\A o \in Ops :
         /\ status[o] = "Canceled" => status'[o] # "Started"
         /\ status[o] \in {"Completed", "Error"} => status'[o] \in {status[o], "Closed"}
         /\ status[o] = "Closed" => status'[o] = "Closed"]_status
=============================================================================
