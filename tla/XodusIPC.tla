------------------------------ MODULE XodusIPC ------------------------------
(***************************************************************************)
(* The requests that the runtime sends to the Xodus service over a socket. *)
(* A call of XodusService (Ping, MsaTokenRequest) is an AsyncInfo whose    *)
(* callback sends a packet with SendRequestAsync and awaits that operation *)
(* without a limit, which comes to calling SendRequest: it registers a     *)
(* response handler, writes the frame, waits for a response or a timeout,  *)
(* and unregisters.  One pump thread reads the socket, cuts the stream     *)
(* into frames and invokes every handler in the list with each.            *)
(*                                                                         *)
(* The handler list has no lock: adding and removing an entry are a step   *)
(* that reads pointers and a step that writes them, and the pump follows   *)
(* the pointers it finds.  Entries are never freed, handlers are.  The     *)
(* Xodus service and the kernel's socket are external.                     *)
(***************************************************************************)
EXTENDS AsyncInfo, FiniteSets, Sequences

CONSTANTS
    Calls,      \* calls of XodusService, and the requests they send
    Kinds,      \* kinds of call: some of "ping", "msa"
    Cap,        \* POLL_BUFFER_SIZE, in units of half a frame
    MaxFaults,  \* bound: unusual events (see Unusual)
    Root        \* the list's own element

ASSUME XodusAssumption ==
    /\ Ops = Calls
    /\ Kinds \subseteq {"ping", "msa"}
    /\ IsFiniteSet(Calls) /\ Root \notin Calls
    /\ Cap \in Nat /\ Cap > 1   \* the buffer holds the longest frame
    /\ MaxFaults \in Nat

VARIABLES
    kind,       \* kind of each call
    req,        \* where SendRequest stands
    links,      \* next and prev of each list element
    snap,       \* the pointers SendRequest has read to add or remove its entry
    response,   \* context.response of SendRequest
    ready,      \* context.event of SendRequest is signaled
    asked,      \* requests the Xodus service has received and not answered
    deaf,       \* frames of two writers were mixed: the service understands no more
    stream,     \* what the service has sent and the pump not read
    closed,     \* the connection is closed
    full,       \* the service does not read and the socket's send buffer is full
    faults,     \* number of unusual events
    buffer,     \* curr_buffer
    offset,     \* offset into curr_buffer
    pump,       \* where the pump stands
    cursor,     \* currCallback
    frame,      \* the packet being dispatched
    \* history
    due,        \* frames sent and not yet dispatched
    broken,     \* the pump has returned on an error of its own
    inOrder,    \* each frame dispatched was the first of those due
    handed,     \* whose responses have been handed to some request
    unsent,     \* requests whose write failed
    entered,    \* entries added to the list and not removed
    torn,       \* two threads were changing the list at the same time
    disturbed,  \* an entry was removed under the pump's cursor in this walk
    stray,      \* handlers invoked after their request had ended, unexplained
    settled     \* the responses handed before a request registered

reqVars   == <<kind, req, response, ready, settled>>
listVars  == <<links, snap, entered, torn, disturbed>>
sockVars  == <<asked, deaf, stream, closed, full, due, faults>>
pumpVars  == <<buffer, offset, pump, cursor, frame, broken, inOrder, handed, stray>>
vars == <<infoVars, reqVars, listVars, sockVars, pumpVars, unsent>>

Nodes == Calls \cup {Root}
NoFrame == [kind |-> "none", to |-> Root]
Nowhere == [next |-> Root, prev |-> Root]

Init ==
    /\ InfoInit
    /\ kind \in [Calls -> Kinds]
    /\ req = [c \in Calls |-> "idle"]
    /\ links = [n \in Nodes |-> Nowhere]
    /\ snap = [c \in Calls |-> Nowhere]
    /\ response = [c \in Calls |-> NoFrame]
    /\ ready = [c \in Calls |-> FALSE] /\ settled = [c \in Calls |-> {}]
    /\ asked = {} /\ deaf = FALSE /\ stream = <<>> /\ closed = FALSE
    /\ full = FALSE /\ faults = 0
    /\ buffer = <<>> /\ offset = 0 /\ pump = "poll" /\ cursor = Root /\ frame = NoFrame
    /\ due = <<>> /\ broken = FALSE /\ inOrder = TRUE /\ handed = {} /\ unsent = {} /\ entered = {}
    /\ torn = FALSE /\ disturbed = FALSE /\ stray = {}

-----------------------------------------------------------------------------
\* An event that the bound counts: the holder cancels, closes or gives up; a write is
\* cut short; the service sends a frame unasked, stops reading or closes the connection;
\* the pump fails.
Unusual == faults < MaxFaults /\ faults' = faults + 1

SetReq(c, p) == req' = [req EXCEPT ![c] = p]

-----------------------------------------------------------------------------
(* A call of XodusService and its holder                                   *)

Call(c) ==
    /\ Create(c)
    /\ SetReq(c, "queued")
    /\ UNCHANGED <<kind, response, ready, settled, listVars, sockVars, pumpVars, unsent>>

Await(c) ==
    /\ PutCompleted(c) \/ AwaitWakes(c)
    /\ UNCHANGED <<reqVars, listVars, sockVars, pumpVars, unsent>>

HandlerInvoked(c) ==
    /\ CallbackInvokes(c)
    /\ UNCHANGED <<reqVars, listVars, sockVars, pumpVars, unsent>>

\* The holder's await times out, or it cancels the call.
GivesUp(c) ==
    /\ Unusual
    /\ Cancel(c) \/ AwaitTimesOut(c)
    /\ UNCHANGED <<reqVars, listVars, asked, deaf, stream, closed, full, due, pumpVars, unsent>>

\* To cancel and to close count as one event.
CloseCall(c) ==
    /\ Close(c)
    /\ IF status[c] = "Canceled" THEN UNCHANGED faults ELSE Unusual
    /\ UNCHANGED <<reqVars, listVars, asked, deaf, stream, closed, full, due, pumpVars, unsent>>

-----------------------------------------------------------------------------
(* SendRequest                                                             *)

\* Threads between reading and writing pointers of the list.
Updating == {c \in Calls : req[c] \in {"link", "unlink", "unlinkLate"}}

\* list_add_head adds after the head.  The mutant adds at the tail.
AddAfterTail == links[Root].prev
AddAfter == Root

AddReads(c) ==
    /\ req[c] = "queued"
    /\ snap' = [snap EXCEPT ![c] = [next |-> links[AddAfter].next, prev |-> AddAfter]]
    /\ torn' = (torn \/ Updating # {})
    /\ settled' = [settled EXCEPT ![c] = handed]
    /\ SetReq(c, "link")
    /\ UNCHANGED <<infoVars, kind, response, ready, links, entered, disturbed,
                   sockVars, pumpVars, unsent>>

AddWrites(c) ==
    /\ req[c] = "link"
    /\ links' = [links EXCEPT ![c] = snap[c], ![snap[c].next].prev = c, ![snap[c].prev].next = c]
    /\ snap' = [snap EXCEPT ![c] = Nowhere]
    /\ entered' = entered \cup {c}
    /\ SetReq(c, "send")
    /\ UNCHANGED <<infoVars, kind, response, ready, settled, torn, disturbed,
                   sockVars, pumpVars, unsent>>

\* write sends the frame whole or in two parts, between which others may write.  The
\* socket is a blocking one without a limit: with its buffer full the writer waits.
Mixed(c) == \E q \in Calls \ {c} : req[q] = "rest"

Write(c) ==
    /\ req[c] = "send" /\ ~closed /\ ~full
    /\ deaf' = (deaf \/ Mixed(c))
    /\ \/ /\ SetReq(c, "wait")
          /\ asked' = (IF deaf' THEN asked ELSE asked \cup {c})
          /\ UNCHANGED faults
       \/ SetReq(c, "rest") /\ Unusual /\ UNCHANGED asked
    /\ UNCHANGED <<infoVars, kind, response, ready, settled, listVars, stream, closed, full,
                   due, pumpVars, unsent>>

WriteRest(c) ==
    /\ req[c] = "rest" /\ ~closed /\ ~full
    /\ deaf' = (deaf \/ Mixed(c))
    /\ asked' = (IF deaf' THEN asked ELSE asked \cup {c})
    /\ SetReq(c, "wait")
    /\ UNCHANGED <<infoVars, kind, response, ready, settled, listVars, stream, closed, full,
                   due, faults, pumpVars, unsent>>

\* The early return leaves the entry in the list.
WriteFails(c) ==
    /\ req[c] \in {"send", "rest"} /\ closed
    /\ unsent' = unsent \cup {c}
    /\ SetReq(c, "done")
    /\ Complete(c, "failed")
    /\ UNCHANGED <<kind, response, ready, settled, listVars, sockVars, pumpVars>>

\* The elements that can be reached from n; an element's next was always added before it.
Forward[k \in Nat] ==
    [n \in Nodes |-> IF k = 0 \/ n = Root THEN {} ELSE {n} \cup Forward[k - 1][links[n].next]]

Listed == Forward[Cardinality(Calls)][links[Root].next]

\* WaitForSingleObject ends with the event or with its limit.  The mutant waits without
\* a limit.
WaitEndsAnswered(c) == ready[c]
WaitEnds(c) == TRUE

\* The mutant does not unregister after a timeout.
UnregistersAnswered(c) == ready[c]
Unregisters(c) == TRUE

\* remove_ResponseReceived finds the entry and drops the reference to its handler.
RemoveReads(c) ==
    /\ req[c] = "wait" /\ WaitEnds(c)
    /\ Unregisters(c) /\ c \in Listed
    /\ snap' = [snap EXCEPT ![c] = links[c]]
    /\ torn' = (torn \/ Updating # {})
    /\ SetReq(c, IF ready[c] THEN "unlink" ELSE "unlinkLate")
    /\ UNCHANGED <<infoVars, kind, response, ready, settled, links, entered, disturbed, sockVars,
                   pumpVars, unsent>>

\* The mutant forgets the back pointer.
UnlinkedForward(c) == [links EXCEPT ![snap[c].prev].next = snap[c].next]
Unlinked(c) ==
    [links EXCEPT ![snap[c].next].prev = snap[c].prev, ![snap[c].prev].next = snap[c].next]

RemoveWrites(c) ==
    /\ req[c] \in {"unlink", "unlinkLate"}
    /\ links' = Unlinked(c)
    /\ entered' = entered \ {c}
    /\ disturbed' = (disturbed \/ (pump \in {"invoke", "advance"} /\ cursor = c))
    /\ SetReq(c, IF req[c] = "unlink" THEN "respond" ELSE "timeout")
    /\ snap' = [snap EXCEPT ![c] = Nowhere]
    /\ UNCHANGED <<infoVars, kind, response, ready, settled, torn, sockVars,
                   pumpVars, unsent>>

\* E_BOUNDS: the entry was lost from the list.
RemoveFails(c) ==
    /\ req[c] = "wait" /\ WaitEnds(c)
    /\ ~(Unregisters(c) /\ c \in Listed)
    /\ SetReq(c, "timeout")
    /\ UNCHANGED <<infoVars, kind, response, ready, settled, listVars, sockVars,
                   pumpVars, unsent>>

\* The handler is released and the event closed.  A response of another kind is an
\* error to the call.
RequestReturns(c) ==
    /\ req[c] \in {"respond", "timeout"}
    /\ Complete(c, IF req[c] = "respond" /\ response[c].kind = kind[c] THEN "ok" ELSE "failed")
    /\ SetReq(c, "done")
    /\ response' = [response EXCEPT ![c] = NoFrame] /\ ready' = [ready EXCEPT ![c] = FALSE]
    /\ UNCHANGED <<kind, settled, listVars, sockVars, pumpVars, unsent>>

-----------------------------------------------------------------------------
(* The Xodus service (external) sends frames: a header and, but for an     *)
(* echo, a payload.  One with another magic is "proto".                    *)

Units(f) == IF f.kind = "echo" THEN <<[f |-> f, part |-> "head"]>>
            ELSE <<[f |-> f, part |-> "head"], [f |-> f, part |-> "body"]>>

Transmit(f) ==
    /\ ~closed
    /\ stream' = stream \o Units(f)
    /\ due' = Append(due, f)

Answer(c) ==
    /\ c \in asked
    /\ asked' = asked \ {c}
    /\ Transmit([kind |-> kind[c], to |-> c])
    /\ UNCHANGED <<infoVars, reqVars, listVars, deaf, closed, full, faults, pumpVars, unsent>>

SendUnasked(k) ==
    /\ Unusual
    /\ Transmit([kind |-> k, to |-> Root])
    /\ UNCHANGED <<infoVars, reqVars, listVars, asked, deaf, closed, full, pumpVars, unsent>>

Disconnect ==
    /\ ~closed /\ Unusual
    /\ closed' = TRUE
    /\ UNCHANGED <<infoVars, reqVars, listVars, asked, deaf, stream, full, due,
                   pumpVars, unsent>>

\* The service stops reading, and frames fill the socket's buffer ...
Stall ==
    /\ ~full /\ Unusual
    /\ full' = TRUE
    /\ UNCHANGED <<infoVars, reqVars, listVars, asked, deaf, stream, closed, due,
                   pumpVars, unsent>>

\* ... until it reads again.
ServiceReads ==
    /\ full /\ full' = FALSE
    /\ UNCHANGED <<infoVars, reqVars, listVars, asked, deaf, stream, closed, due, faults,
                   pumpVars, unsent>>

-----------------------------------------------------------------------------
(* The pump: InitializeSocketThread and poll_sock                          *)

Room == Cap - Len(buffer)

Read ==
    /\ pump = "poll" /\ stream # <<>> /\ Room > 0
    /\ \E n \in 1 .. Room :
          /\ n <= Len(stream)
          /\ buffer' = buffer \o SubSeq(stream, 1, n)
          /\ stream' = SubSeq(stream, n + 1, Len(stream))
    /\ pump' = "parse" /\ offset' = 0
    /\ UNCHANGED <<infoVars, reqVars, listVars, asked, deaf, closed, full, due, faults,
                   cursor, frame, broken, inOrder, handed, stray, unsent>>

\* read returns 0 at the end of the stream, and when the buffer has no room.
ReadsNothing == (stream = <<>> /\ closed) \/ (stream # <<>> /\ Room <= 0)

ReadFails ==
    /\ pump = "poll"
    /\ ReadsNothing
    /\ pump' = "stopped"
    /\ UNCHANGED <<infoVars, reqVars, listVars, sockVars, buffer, offset, cursor, frame,
                   broken, inOrder, handed, stray, unsent>>

\* The pump returns on an error and tells nobody: requests go on without it.
PumpBreaks ==
    /\ Unusual
    /\ pump' = "stopped" /\ broken' = TRUE
    /\ UNCHANGED <<infoVars, reqVars, listVars, asked, deaf, stream, closed, full, due, buffer,
                   offset, cursor, frame, inOrder, handed, stray, unsent>>

\* poll or read fails.
PollFails == pump = "poll" /\ PumpBreaks

Rest == SubSeq(buffer, offset + 1, Len(buffer))

\* A whole frame that is XML is at the front.
Whole ==
    /\ Rest # <<>>
    /\ Rest[1].part = "head" /\ Rest[1].f.kind # "proto"
    /\ Len(Rest) >= Len(Units(Rest[1].f))

\* LIST_FOR_EACH_ENTRY: the walk goes on at element n, or is over.
WalkTo(n) ==
    /\ cursor' = n
    /\ pump' = IF n = Root THEN "parse" ELSE "invoke"
    /\ disturbed' = (disturbed /\ n # Root)

\* A header or a frame that is not complete ends the parsing instead.
Parse ==
    /\ pump = "parse" /\ Whole
    /\ frame' = Rest[1].f
    /\ offset' = offset + Len(Units(Rest[1].f))
    /\ inOrder' = (inOrder /\ due # <<>> /\ due[1] = frame')
    /\ due' = IF due = <<>> THEN due ELSE Tail(due)
    /\ WalkTo(links[Root].next)
    /\ UNCHANGED <<infoVars, reqVars, links, snap, entered, torn, asked, deaf, stream, closed,
                   full, faults, buffer, broken, handed, stray, unsent>>

\* There is no buffer for the packet.
ParseFails == pump = "parse" /\ Whole /\ PumpBreaks

\* memmove to the front of the buffer.  The mutant leaves it where it is.
RemainingAll == buffer
Remaining == Rest

ParseEnds ==
    /\ pump = "parse" /\ ~Whole
    /\ buffer' = Remaining
    /\ offset' = 0 /\ frame' = NoFrame
    /\ pump' = "poll"
    /\ UNCHANGED <<infoVars, reqVars, listVars, sockVars, cursor, broken, inOrder, handed, stray,
                   unsent>>

\* SendRequest has not returned: its handler and its context exist.
Alive(c) == req[c] # "done"

\* SendRequestResponseHandler skips an echo and keeps any other packet.
Invoke ==
    /\ pump = "invoke"
    /\ IF Alive(cursor) /\ frame.kind # "echo"
       THEN /\ response' = [response EXCEPT ![cursor] = frame]
            /\ ready' = [ready EXCEPT ![cursor] = TRUE]
            /\ handed' = handed \cup ({frame.to} \ {Root})
       ELSE UNCHANGED <<response, ready, handed>>
    /\ stray' = IF Alive(cursor) \/ cursor \in unsent \/ disturbed
                THEN stray ELSE stray \cup {cursor}
    /\ pump' = "advance"
    /\ UNCHANGED <<infoVars, kind, req, settled, listVars, sockVars, buffer, offset, cursor,
                   frame, broken, inOrder, unsent>>

Advance ==
    /\ pump = "advance"
    /\ WalkTo(links[cursor].next)
    /\ UNCHANGED <<infoVars, reqVars, links, snap, entered, torn, sockVars, buffer, offset, frame,
                   broken, inOrder, handed, stray, unsent>>

-----------------------------------------------------------------------------
SendRequest(c) ==
    \/ AddReads(c) \/ AddWrites(c) \/ Write(c) \/ WriteRest(c) \/ WriteFails(c)
    \/ RemoveReads(c) \/ RemoveWrites(c) \/ RemoveFails(c) \/ RequestReturns(c)

Pump == Read \/ ReadFails \/ Parse \/ ParseEnds \/ Invoke \/ Advance

System ==
    \/ Pump
    \/ \E c \in Calls : SendRequest(c) \/ Await(c) \/ HandlerInvoked(c)

External ==
    \/ \E c \in Calls : Call(c) \/ CloseCall(c) \/ GivesUp(c) \/ Answer(c)
    \/ \E k \in {"ping", "echo", "proto"} : SendUnasked(k)
    \/ Disconnect \/ Stall \/ ServiceReads
    \/ PollFails \/ ParseFails

Next == System \/ External

Spec == Init /\ [][Next]_vars

\* Pool threads and the pump go on, and who holds a call awaits it.  Nothing is assumed
\* of the service.
Fairness ==
    /\ WF_vars(Pump)
    /\ \A c \in Calls : WF_vars(SendRequest(c)) /\ WF_vars(Await(c)) /\ WF_vars(HandlerInvoked(c))

FairSpec == Spec /\ Fairness

-----------------------------------------------------------------------------
Frames == [kind : {"ping", "msa", "echo", "proto", "none"}, to : Nodes]

\* Types of the variables, those of the AsyncInfo objects included.
TypeOK ==
    /\ InfoTypeOK
    /\ req \in [Calls -> {"idle", "queued", "link", "send", "rest", "wait", "unlink",
                          "unlinkLate", "respond", "timeout", "done"}]
    /\ links \in [Nodes -> [next : Nodes, prev : Nodes]]
    /\ snap \in [Calls -> [next : Nodes, prev : Nodes]]
    /\ response \in [Calls -> Frames]
    /\ ready \in [Calls -> BOOLEAN] /\ settled \in [Calls -> SUBSET Calls] /\ handed \subseteq Calls
    /\ asked \subseteq Calls /\ unsent \subseteq Calls /\ entered \subseteq Calls /\ stray \subseteq Calls
    /\ deaf \in BOOLEAN /\ closed \in BOOLEAN /\ full \in BOOLEAN
    /\ broken \in BOOLEAN /\ torn \in BOOLEAN /\ disturbed \in BOOLEAN
    /\ faults \in 0 .. MaxFaults
    /\ Len(buffer) <= Cap /\ offset \in 0 .. Cap
    /\ pump \in {"poll", "parse", "invoke", "advance", "stopped"}
    /\ cursor \in Nodes /\ frame \in Frames

(* Unless two threads changed it at the same time, the handler list is the *)
(* entries added and not removed, read either way; and a reader never      *)
(* leaves the entries and the root, however torn the list is (TypeOK).     *)
ListIntact ==
    /\ TypeOK
    /\ ~torn /\ Updating = {} =>
          /\ Listed = entered
          /\ \A n \in entered \cup {Root} : links[links[n].next].prev = n

(* A handler is invoked after its request has returned, with its context   *)
(* gone, only when the write of the request had failed, when the pump      *)
(* stood at an entry that was removed, or when two threads had changed the *)
(* list at the same time; never because of a timeout as such.              *)
StrayExplained == stray = {} \/ torn

(* Responses are not told apart by request: every waiting request takes    *)
(* the same one, and one that comes late is taken by another request.  But *)
(* a response that some request has been handed is never handed to one     *)
(* that registered after that.                                             *)
ResponseNotReplayed == \A c \in Calls : response[c].to \notin settled[c]

(* Every frame that has arrived whole is dispatched once and in order,     *)
(* however the stream was cut by the reads, up to the first frame that is  *)
(* not XML: nothing after it is ever dispatched.  Unless an error of its   *)
(* own ends it (no memory for a packet, poll fails), the pump stops only   *)
(* when the connection is closed or such a frame has filled the buffer:    *)
(* the longest frame fits into it.                                         *)
FramesInOrder ==
    /\ inOrder
    /\ pump \in {"poll", "stopped"} /\ ~broken /\ due # <<>> =>
          due[1].kind = "proto" \/ Len(buffer) < Len(Units(due[1]))
    /\ pump = "stopped" /\ ~broken => closed \/ \E i \in DOMAIN due : due[i].kind = "proto"

\* The request's write waits for the service to read.
Blocked(c) == req[c] \in {"send", "rest"} /\ full /\ ~closed

\* What the threads have left to do: the guards of System's actions.
RequestGoesOn(c) == req[c] \notin {"idle", "done"} /\ ~Blocked(c)

AwaitGoesOn(c) ==
    \/ awaiter[c] = "none" /\ status[c] # "none"
    \/ awaiter[c] = "waiting" /\ event[c]
    \/ c \in invoking

PumpGoesOn == IF pump = "poll" THEN stream # <<>> \/ closed ELSE pump # "stopped"

Busy == PumpGoesOn \/ \E c \in Calls : RequestGoesOn(c) \/ AwaitGoesOn(c)

(* Nobody waits for ever but a request whose write the service blocks and  *)
(* who awaits it.  A step of System never undoes another, so it comes to   *)
(* rest when the application and the Xodus service do nothing more; by     *)
(* then every other request has returned, answered or timed out, every     *)
(* call has completed, and every awaiter has been woken or has given up.   *)
NothingStuck ==
    ~Busy =>
        \A c \in Calls : /\ req[c] \in {"idle", "done"} \/ Blocked(c)
                         /\ req[c] = "done" => outcome[c] # "none"
                         /\ awaiter[c] = "waiting" => Blocked(c)

(* A call ends, and who awaits it is told, whether or not the service      *)
(* answers and whatever becomes of the pump and of the connection: each    *)
(* wait but the write has a limit.  Only a service that never reads again  *)
(* keeps a call for ever.                                                  *)
CallsEnd ==
    []<>(~full \/ closed) =>
        \A c \in Calls :
            req[c] # "idle" ~> (req[c] = "done" /\ awaiter[c] \notin {"none", "waiting"})
=============================================================================
