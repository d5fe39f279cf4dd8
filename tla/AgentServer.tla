----------------------------- MODULE AgentServer -----------------------------
(* The HTTP server of the agents: mcp_server.py with the Actions transport of *)
(* gpt_actions.py, over the tools of NoteTools. Every connection has a thread *)
(* and a request slot; an Actions request also holds a capacity permit from   *)
(* its start to its answer. A connection is kept alive between requests.      *)
EXTENDS NoteTools

CONSTANTS
    Slots,       \* MAX_HTTP_CONNECTIONS
    Capacity,    \* max_concurrency of ActionsConfig
    MaxCalls     \* bound on the requests of all clients

ASSUME ServerAssumption ==
    /\ Callers \subseteq Nat
    /\ IsFiniteSet(Callers)
    /\ Slots \in Nat \ {0}
    /\ Capacity \in Nat \ {0}
    /\ MaxCalls \in Nat
    /\ MaxFaults \in Nat

VARIABLES
    conn,        \* connection: see ConnStates
    slots,       \* value of _request_slots
    permits,     \* value of _capacity
    sent         \* requests sent so far
serverVars == <<conn, slots, permits, sent>>
vars == <<toolVars, serverVars>>

(* "reading" waits for a request; "garbled" too, but the body of a refused    *)
(* request is still unread and will be taken for the next request line;       *)
(* "admitted" holds a permit and is not checked yet; "mcp" and "actions" run  *)
(* a call.                                                                    *)
Threads == {"reading", "garbled", "admitted", "mcp", "actions"}
ConnStates == {"new", "queued", "closed"} \cup Threads

TypeOK ==
    /\ conn \in [Callers -> ConnStates]
    /\ slots \in 0..Slots
    /\ permits \in 0..Capacity
    /\ sent \in 0..MaxCalls
    /\ faults \in 0..MaxFaults
    /\ creating \in Callers \cup {None}
    /\ \A c \in Callers : call[c].answer \in Answers
    /\ \A i \in Ids : store[i].status \in Statuses

Init ==
    /\ ToolsInit
    /\ conn = [c \in Callers |-> "new"]
    /\ slots = Slots
    /\ permits = Capacity
    /\ sent = 0

Becomes(c, state) == conn' = [conn EXCEPT ![c] = state]
Counted == sent < MaxCalls /\ sent' = sent + 1

----------------------------------------------------------------------------
(* The accept loop: a slot without waiting, or the connection is shut down.   *)
(* Connections are numbered in the order they arrive.                         *)
Arrive(c) ==
    /\ conn[c] = "new"
    /\ \A d \in Callers : d < c => conn[d] # "new"
    /\ Becomes(c, "queued")
    /\ UNCHANGED <<toolVars, slots, permits, sent>>

Admit(c) ==
    /\ conn[c] = "queued"
    /\ slots > 0
    /\ Becomes(c, "reading")
    /\ slots' = slots - 1
    /\ UNCHANGED <<toolVars, permits, sent>>

TurnAway(c) ==
    /\ conn[c] = "queued"
    /\ slots = 0
    /\ Becomes(c, "closed")
    /\ UNCHANGED <<toolVars, slots, permits, sent>>

(* Mutant: the slot of a thread that did not start is returned twice.         *)
NoThreadReleasesTwice(c) ==
    /\ conn[c] = "queued"
    /\ slots > 0
    /\ Fault
    /\ Becomes(c, "closed")
    /\ slots' = slots + 1
    /\ UNCHANGED <<store, late, creating, call, permits, sent>>

(* The thread of the connection cannot be started.                            *)
NoThread(c) ==
    /\ conn[c] = "queued"
    /\ slots > 0
    /\ Fault
    /\ Becomes(c, "closed")
    /\ UNCHANGED <<store, late, creating, call, slots, permits, sent>>

(* The thread ends with its connection: the client closed it, was silent for  *)
(* the timeout, was answered with Connection: close, or is gone. What a       *)
(* garbled connection reads next is no request line: 400 and close.           *)
Ends(c) == Becomes(c, "closed") /\ slots' = slots + 1

(* Mutant: what is no request line is neither answered nor ends the thread.   *)
CloseOnlyReading(c) ==
    /\ conn[c] = "reading"
    /\ Ends(c)
    /\ UNCHANGED <<toolVars, permits, sent>>

Close(c) ==
    /\ conn[c] \in {"reading", "garbled"}
    /\ Ends(c)
    /\ UNCHANGED <<toolVars, permits, sent>>

----------------------------------------------------------------------------
(* MCP: path, origin and authorization close the connection; media type,      *)
(* Accept and length leave the body unread; a body that is not JSON, another  *)
(* protocol version or method is answered; tools/call runs a call.            *)
McpRequest(c) == conn[c] = "reading" /\ Counted /\ UNCHANGED permits

McpUnauthorized(c) == McpRequest(c) /\ Ends(c) /\ UNCHANGED toolVars

McpUnread(c) == McpRequest(c) /\ Becomes(c, "garbled") /\ UNCHANGED <<toolVars, slots>>

McpAnswered(c) == McpRequest(c) /\ UNCHANGED <<toolVars, conn, slots>>

McpCall(c) ==
    /\ McpRequest(c)
    /\ Becomes(c, "mcp")
    /\ \E r \in Requests : Ask(c, r)
    /\ UNCHANGED <<store, late, creating, faults, slots>>

(* Actions: the permit is taken before anything is checked, or 503 and close. *)
TakePermit(c) ==
    /\ conn[c] = "reading"
    /\ Counted
    /\ IF permits > 0 THEN Becomes(c, "admitted") /\ permits' = permits - 1 /\ UNCHANGED slots
       ELSE Ends(c) /\ UNCHANGED permits
    /\ UNCHANGED toolVars

(* Length, size and authorization close the connection, as does a body that   *)
(* does not come in time; the rate limit, the route, the method and the media *)
(* type leave the body unread; a body that is no JSON object was read.        *)
Release == permits' = permits + 1

(* Mutant: an early answer forgets the permit.                                *)
ActionUnauthorizedKeepsPermit(c) ==
    /\ conn[c] = "admitted"
    /\ Ends(c)
    /\ UNCHANGED <<toolVars, permits, sent>>

ActionUnauthorized(c) ==
    /\ conn[c] = "admitted"
    /\ Ends(c)
    /\ Release
    /\ UNCHANGED <<toolVars, sent>>

ActionUnread(c) ==
    /\ conn[c] = "admitted"
    /\ Becomes(c, "garbled")
    /\ Release
    /\ UNCHANGED <<toolVars, slots, sent>>

ActionAnswered(c) ==
    /\ conn[c] = "admitted"
    /\ Becomes(c, "reading")
    /\ Release
    /\ UNCHANGED <<toolVars, slots, sent>>

ActionCall(c) ==
    /\ conn[c] = "admitted"
    /\ Becomes(c, "actions")
    /\ \E r \in Requests : Ask(c, r)
    /\ UNCHANGED <<store, late, creating, faults, slots, permits, sent>>

(* The answer is written, or the client is gone. Both transports go on        *)
(* reading after it, and the permit of an Actions request is released.        *)
Respond(c) ==
    /\ conn[c] \in {"mcp", "actions"}
    /\ Idle(c)
    /\ \/ Becomes(c, "reading") /\ UNCHANGED slots
       \/ Ends(c)
    /\ IF conn[c] = "actions" THEN Release ELSE UNCHANGED permits
    /\ call' = [call EXCEPT ![c] = NoCall]
    /\ UNCHANGED <<store, late, creating, faults, sent>>

Call(c) ==
    /\ conn[c] \in {"mcp", "actions"}
    /\ CallStep(c)
    /\ UNCHANGED serverVars

(* What the accept loop and the threads go on with by themselves: a request   *)
(* that stalls and a connection that sends no more end by the timeout of the  *)
(* socket, and a call by the timeouts of its requests to Joplin.              *)
Forced(c) ==
    \/ Admit(c)
    \/ TurnAway(c)
    \/ Close(c)
    \/ ActionUnauthorized(c)
    \/ Respond(c)
    \/ Progress(c) /\ conn[c] \in {"mcp", "actions"} /\ UNCHANGED serverVars

Next ==
    \/ \E c \in Callers :
         \/ Arrive(c) \/ Admit(c) \/ TurnAway(c) \/ NoThread(c) \/ Close(c)
         \/ McpUnauthorized(c) \/ McpUnread(c) \/ McpAnswered(c) \/ McpCall(c)
         \/ TakePermit(c) \/ ActionUnauthorized(c) \/ ActionUnread(c) \/ ActionAnswered(c)
         \/ ActionCall(c) \/ Respond(c) \/ Call(c)
    \/ Land /\ UNCHANGED serverVars

(* As long as a thread or the accept loop can go on, one of them does; with   *)
(* finitely many requests that is enough for each of them.                    *)
Spec == Init /\ [][Next]_vars /\ WF_vars(\E c \in Callers : Forced(c))

----------------------------------------------------------------------------
(* Slots and permits are what the threads hold, no more and no less: none is  *)
(* lost on an error path, none is returned twice (process_request,            *)
(* process_request_thread, the finally of handle).                            *)
In(states) == {c \in Callers : conn[c] \in states}

PermitsAreHeld ==
    /\ slots = Slots - Cardinality(In(Threads))
    /\ permits = Capacity - Cardinality(In({"admitted", "actions"}))

(* A write whose outcome is not known is never answered as done, as refused   *)
(* or as retryable, and the call sends nothing after it: the agent is told of *)
(* an ambiguous write or, when an answer came that cannot be read, of an      *)
(* internal error (api.py:112-143, tool_executor.py:82-113; AIF-005).         *)
LostWritesAreFinal ==
    \A c \in Callers :
      call[c].lost => Idle(c) /\ call[c].answer \in {"ambiguous", "partial", "internal"}

(* A creation that is told the object exists has written nothing               *)
(* (docs/user/MCP_API.md:151), with one exception: the notebook it has made   *)
(* for its note (mcp_service.py:743) stays when, before it looks for the note *)
(* (750), somebody has moved or renamed a note to that identity, which no     *)
(* lock stops (813-832). No other creation can come in between.               *)
Refusal(c) == call[c].answer # "exists" /\ call'[c].answer = "exists"

ConflictChangesNothing ==
    [][\A c \in Callers : Refusal(c) =>
         /\ ~call'[c].lost
         /\ call'[c].wrote =>
              \E i \in Named(Req(c).kind, call[c].parent, Req(c).name) : ~store[i].sure]_vars

(* The server with its tools implements AgentService: of the threads only     *)
(* that they are served, of Joplin's objects the identities that creations    *)
(* gave and nobody changed.                                                   *)
Service == INSTANCE AgentService WITH
    Clients <- Callers,
    conn    <- [c \in Callers |-> IF conn[c] \in Threads THEN "served" ELSE conn[c]],
    named   <- {<<i, Identity(store[i])>> : i \in {j \in Ids : store[j].sure /\ Present(j)}}

ImplementsService == Service!Safety

(* Every connection that is admitted ends, whatever its client and Joplin do  *)
(* (the timeouts of the sockets and of the requests to Joplin).               *)
EverybodyLeaves == Service!Fairness
=============================================================================
