----------------------------- MODULE AgentService -----------------------------
(* What the agent server promises, whatever tools and transports it has: at   *)
(* most Slots connections are served at a time, every connection is served or *)
(* turned away and ends, and an object is created only under an identity that *)
(* no other object has, by a step that checks and creates at once.            *)
EXTENDS Integers, FiniteSets

CONSTANTS Clients, Slots

VARIABLES
    conn,    \* "new", "queued", "served" or "closed"
    named    \* the identities of Joplin's objects: pairs of an id and an identity
vars == <<conn, named>>

Served == {c \in Clients : conn[c] = "served"}

Move(c, from, to) == conn[c] = from /\ conn' = [conn EXCEPT ![c] = to] /\ UNCHANGED named

Arrive(c) == Move(c, "new", "queued")
Admit(c) == Cardinality(Served) < Slots /\ Move(c, "queued", "served")
TurnAway(c) == Move(c, "queued", "closed")
Leave(c) == Move(c, "served", "closed")

(* Only a call of a served connection creates; what is renamed or deleted     *)
(* gives its identity up.                                                     *)
Create(id, identity) ==
    /\ Served # {}
    /\ \A n \in named : n[1] # id /\ n[2] # identity
    /\ named' = named \cup {<<id, identity>>}
    /\ UNCHANGED conn

Forget == named' \in SUBSET named /\ named' # named /\ UNCHANGED conn

Creates == \E n \in named' \ named : Create(n[1], n[2])

Next ==
    \/ \E c \in Clients : Arrive(c) \/ Admit(c) \/ TurnAway(c) \/ Leave(c)
    \/ Creates
    \/ Forget

Init ==
    /\ conn = [c \in Clients |-> "new"]
    /\ \A n, m \in named : n[2] = m[2] => n = m

(* Nobody waits or is served for ever: while somebody can be admitted, turned *)
(* away or finished, somebody is, and every client is so at most twice.       *)
Ending == \E c \in Clients : Admit(c) \/ TurnAway(c) \/ Leave(c)

Safety == Init /\ [][Next]_vars
Fairness == WF_vars(Ending)
Spec == Safety /\ Fairness
=============================================================================
