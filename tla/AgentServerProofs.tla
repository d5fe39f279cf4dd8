-------------------------- MODULE AgentServerProofs --------------------------
(* What holds of the agent server for any number of connections, slots and    *)
(* permits, any requests and any objects: slots and permits are accounted     *)
(* for, lost writes are answered as what they are, a creation takes only an   *)
(* identity that is free, and so the server does what AgentService promises.  *)
EXTENDS AgentServer, FiniteSetTheorems, SequenceTheorems, TLAPS

Permitted == {"admitted", "actions"}

(* The part of the state the accounting needs, which no tool step touches.    *)
Accounts ==
    /\ conn \in [Callers -> ConnStates]
    /\ slots \in Nat
    /\ permits \in Nat
    /\ PermitsAreHeld

----------------------------------------------------------------------------
(* One connection changes its state: the number of connections in a set of    *)
(* states changes by whether it leaves and whether it enters that set.        *)
LEMMA OneMoves ==
    ASSUME NEW states, NEW c \in Callers, NEW state, conn \in [Callers -> ConnStates],
           Becomes(c, state)
    PROVE  /\ Cardinality(In(states)) \in Nat
           /\ Cardinality(In(states)') \in Nat
           /\ conn[c] \in states /\ state \in states
                => Cardinality(In(states)') = Cardinality(In(states))
           /\ conn[c] \notin states /\ state \notin states
                => Cardinality(In(states)') = Cardinality(In(states))
           /\ conn[c] \notin states /\ state \in states
                => Cardinality(In(states)') = Cardinality(In(states)) + 1
           /\ conn[c] \in states /\ state \notin states
                => Cardinality(In(states)') = Cardinality(In(states)) - 1
<1> DEFINE S == In(states)
           T == {d \in Callers : conn'[d] \in states}
<1>1. IsFiniteSet(S) /\ IsFiniteSet(T)
  <2>1. S \subseteq Callers /\ T \subseteq Callers
    BY DEF In
  <2> QED BY <2>1, FS_Subset, ServerAssumption DEF ServerAssumption
<1>2. Cardinality(S) \in Nat /\ Cardinality(T) \in Nat
  BY <1>1, FS_CardinalityType
<1>3. \A d \in Callers : conn'[d] = IF d = c THEN state ELSE conn[d]
  BY DEF Becomes
<1>4. In(states)' = T
  BY DEF In
<1>5. (conn[c] \in states) = (state \in states) => T = S
  BY <1>3 DEF In
<1>6. ASSUME conn[c] \notin states, state \in states
      PROVE  Cardinality(T) = Cardinality(S) + 1
  <2>1. T = S \cup {c} /\ c \notin S
    BY <1>3, <1>6 DEF In
  <2> QED BY <1>1, <2>1, FS_AddElement
<1>7. ASSUME conn[c] \in states, state \notin states
      PROVE  Cardinality(T) = Cardinality(S) - 1
  <2>1. T = S \ {c} /\ c \in S
    BY <1>3, <1>7 DEF In
  <2> QED BY <1>1, <2>1, FS_RemoveElement
<1> HIDE DEF S, T
<1>8. Cardinality(In(states)) = Cardinality(S) /\ Cardinality(In(states)') = Cardinality(T)
  BY <1>4 DEF S
<1> QED BY <1>2, <1>5, <1>6, <1>7, <1>8

LEMMA AccountsInit == Init => Accounts
<1> SUFFICES ASSUME Init PROVE Accounts
  OBVIOUS
<1>1. In(Threads) = {} /\ In(Permitted) = {}
  BY DEF Init, In, Threads, Permitted
<1>2. conn \in [Callers -> ConnStates]
  BY DEF Init, ConnStates
<1> QED BY <1>1, <1>2, FS_EmptySet, ServerAssumption
        DEF Accounts, PermitsAreHeld, Init, Permitted, ServerAssumption

----------------------------------------------------------------------------
(* Each action of the server, with the tools left alone or not.               *)
LEMMA AccountsStep == Accounts /\ [Next]_vars => Accounts'
<1> SUFFICES ASSUME Accounts, [Next]_vars PROVE Accounts'
  OBVIOUS
<1> USE ServerAssumption DEF ServerAssumption
<1>0. ASSUME UNCHANGED <<conn, slots, permits>> PROVE Accounts'
  BY <1>0 DEF Accounts, PermitsAreHeld, In
<1>1. ASSUME NEW c \in Callers, NEW state \in ConnStates, Becomes(c, state),
             slots' = slots + (IF conn[c] \in Threads THEN 1 ELSE 0)
                            - (IF state \in Threads THEN 1 ELSE 0),
             permits' = permits + (IF conn[c] \in Permitted THEN 1 ELSE 0)
                                - (IF state \in Permitted THEN 1 ELSE 0),
             slots' \in Nat, permits' \in Nat
      PROVE  Accounts'
  <2>1. conn' \in [Callers -> ConnStates]
    BY <1>1 DEF Accounts, Becomes
  <2> DEFINE n == Cardinality(In(Threads))
             m == Cardinality(In(Permitted))
             n1 == Cardinality(In(Threads)')
             m1 == Cardinality(In(Permitted)')
  <2>3. n \in Nat /\ n1 \in Nat
        /\ n1 = n - (IF conn[c] \in Threads THEN 1 ELSE 0) + (IF state \in Threads THEN 1 ELSE 0)
    BY <1>1, OneMoves DEF Accounts
  <2>4. m \in Nat /\ m1 \in Nat
        /\ m1 = m - (IF conn[c] \in Permitted THEN 1 ELSE 0)
                  + (IF state \in Permitted THEN 1 ELSE 0)
    BY <1>1, OneMoves DEF Accounts
  <2>5. slots = Slots - n /\ permits = Capacity - m
    BY DEF Accounts, PermitsAreHeld, Permitted
  <2> HIDE DEF n, m, n1, m1
  <2>6. slots' = Slots - n1 /\ permits' = Capacity - m1
    BY <1>1, <2>3, <2>4, <2>5
  <2> QED BY <1>1, <2>1, <2>6 DEF Accounts, PermitsAreHeld, n1, m1, Permitted
<1>2. ASSUME NEW c \in Callers, Arrive(c) \/ Admit(c) \/ TurnAway(c) \/ NoThread(c) PROVE Accounts'
  BY <1>1, <1>2 DEF Arrive, Admit, TurnAway, NoThread, ConnStates, Threads, Permitted, Accounts
<1>3. ASSUME NEW c \in Callers, Close(c) PROVE Accounts'
  BY <1>1, <1>3 DEF Close, Ends, ConnStates, Threads, Permitted, Accounts
<1>4. ASSUME NEW c \in Callers, McpUnauthorized(c) \/ McpUnread(c) \/ McpAnswered(c) PROVE Accounts'
  BY <1>0, <1>1, <1>4
     DEF McpUnauthorized, McpUnread, McpAnswered, McpRequest, Ends, ConnStates, Threads, Permitted, Accounts
<1>5. ASSUME NEW c \in Callers, McpCall(c) \/ ActionCall(c) PROVE Accounts'
  BY <1>1, <1>5 DEF McpCall, McpRequest, ActionCall, ConnStates, Threads, Permitted, Accounts
<1>6. ASSUME NEW c \in Callers, TakePermit(c) PROVE Accounts'
  BY <1>1, <1>6 DEF TakePermit, Ends, ConnStates, Threads, Permitted, Accounts
<1>7. ASSUME NEW c \in Callers, ActionUnauthorized(c) \/ ActionUnread(c) \/ ActionAnswered(c)
      PROVE  Accounts'
  BY <1>1, <1>7
     DEF ActionUnauthorized, ActionUnread, ActionAnswered, Release, Ends, ConnStates, Threads, Permitted, Accounts
<1>8. ASSUME NEW c \in Callers, Respond(c) PROVE Accounts'
  BY <1>1, <1>8 DEF Respond, Release, Ends, ConnStates, Threads, Permitted, Accounts
<1>9. ASSUME NEW c \in Callers, Call(c) PROVE Accounts'
  BY <1>0, <1>9 DEF Call, serverVars
<1>10. CASE Land /\ UNCHANGED serverVars
  BY <1>0, <1>10 DEF serverVars
<1>11. CASE UNCHANGED vars
  BY <1>0, <1>11 DEF vars, serverVars
<1> QED BY <1>2, <1>3, <1>4, <1>5, <1>6, <1>7, <1>8, <1>9, <1>10, <1>11 DEF Next

(* No slot and no permit is ever lost or returned twice, whatever goes wrong  *)
(* in a thread, in its transport or in Joplin (mcp_server.py process_request, *)
(* gpt_actions.py handle).                                                    *)
THEOREM PermitsNeverLeak == Spec => []PermitsAreHeld
<1>1. Accounts => PermitsAreHeld
  BY DEF Accounts
<1> QED BY AccountsInit, AccountsStep, <1>1, PTL DEF Spec

(* At most Slots connections have a thread and at most Capacity Actions       *)
(* requests are handled at a time (AIF-008).                                  *)
AdmissionBounded == Cardinality(In(Threads)) <= Slots /\ Cardinality(In(Permitted)) <= Capacity

THEOREM AdmissionIsBounded == Spec => []AdmissionBounded
<1>1. Accounts => AdmissionBounded
  <2> SUFFICES ASSUME Accounts PROVE AdmissionBounded
    OBVIOUS
  <2>1. \A states : Cardinality(In(states)) \in Nat
    <3> SUFFICES ASSUME NEW states PROVE Cardinality(In(states)) \in Nat
      OBVIOUS
    <3>1. In(states) \subseteq Callers
      BY DEF In
    <3> QED BY <3>1, FS_Subset, FS_CardinalityType, ServerAssumption DEF ServerAssumption
  <2> QED BY <2>1, ServerAssumption
          DEF Accounts, PermitsAreHeld, AdmissionBounded, Permitted, ServerAssumption
<1> QED BY AccountsInit, AccountsStep, <1>1, PTL DEF Spec

----------------------------------------------------------------------------
(* A call that has lost the answer of a write ends there: it sends no further *)
(* request, whose outcome could be taken for that of the call.                *)
Fields == {"req", "todo", "parent", "id", "had", "wrote", "lost", "answer"}

LostEnds ==
    /\ DOMAIN call = Callers
    /\ \A c \in Callers :
         /\ DOMAIN call[c] = Fields
         /\ call[c].lost => Idle(c) /\ call[c].answer \in {"ambiguous", "partial", "internal"}

LEMMA LostEndsInit == Init => LostEnds
BY DEF Init, ToolsInit, LostEnds, NoCall, Fields

(* One call changes and has lost nothing.                                     *)
LEMMA OneCall ==
    ASSUME LostEnds, NEW c \in Callers, NEW e, DOMAIN e = Fields, ~e.lost,
           call' = [call EXCEPT ![c] = e]
    PROVE  LostEnds'
<1>1. DOMAIN call' = Callers
  BY DEF LostEnds
<1>2. ASSUME NEW d \in Callers
      PROVE  /\ DOMAIN call'[d] = Fields
             /\ call'[d].lost => Idle(d)' /\ call'[d].answer \in {"ambiguous", "partial", "internal"}
  BY <1>2 DEF LostEnds, Idle
<1> QED BY <1>1, <1>2 DEF LostEnds

LEMMA AnsweredCall ==
    ASSUME LostEnds, NEW c \in Callers, NEW e, NEW verdict, Answered(c, e, verdict),
           ~e.lost \/ (e.lost = TRUE /\ verdict \in {"ambiguous", "internal"})
    PROVE  LostEnds'
<1> DEFINE f == [NoCall EXCEPT !.wrote = e.wrote, !.lost = e.lost,
                    !.answer = IF Attaching(c) /\ verdict \notin {"ok", "internal"}
                               THEN "partial" ELSE verdict]
<1>1. call' = [call EXCEPT ![c] = f]
  BY DEF Answered
<1>2. DOMAIN f = Fields /\ f.lost = e.lost /\ f.todo = <<>>
  BY DEF NoCall, Fields
<1>3. CASE ~e.lost
  <2> HIDE DEF f
  <2> QED BY <1>1, <1>2, <1>3, OneCall
<1>4. CASE e.lost = TRUE /\ verdict \in {"ambiguous", "internal"}
  <2>1. f.answer \in {"ambiguous", "partial", "internal"}
    BY <1>4 DEF NoCall
  <2> HIDE DEF f
  <2>2. DOMAIN call' = Callers /\ \A d \in Callers : call'[d] = IF d = c THEN f ELSE call[d]
    BY <1>1 DEF LostEnds
  <2> QED BY <1>2, <2>1, <2>2 DEF LostEnds, Idle
<1> QED BY <1>3, <1>4

LEMMA GoesOn ==
    ASSUME LostEnds, NEW c \in Callers, NEW e, DOMAIN e = Fields, ~e.lost, Goes(c, e)
    PROVE  LostEnds'
<1>1. CASE Len(e.todo) = 1
  BY <1>1, AnsweredCall DEF Goes
<1>2. CASE Len(e.todo) # 1
  <2> DEFINE f == [e EXCEPT !.todo = Tail(@)]
  <2>1. call' = [call EXCEPT ![c] = f]
    BY <1>2 DEF Goes
  <2>2. DOMAIN f = Fields /\ ~f.lost
    BY DEF Fields
  <2> HIDE DEF f
  <2> QED BY <2>1, <2>2, OneCall
<1> QED BY <1>1, <1>2

LEMMA CallStepLost ==
    ASSUME LostEnds, NEW c \in Callers, CallStep(c)
    PROVE  LostEnds'
<1>1. DOMAIN call[c] = Fields /\ (~Idle(c) => ~call[c].lost)
  BY DEF LostEnds
<1>2. ASSUME ~Idle(c), NEW verdict, Answer(c, verdict) PROVE LostEnds'
  BY <1>1, <1>2, AnsweredCall DEF Answer
<1>3. ASSUME ~Idle(c), Goes(c, call[c]) PROVE LostEnds'
  BY <1>1, <1>3, GoesOn
<1>4. ASSUME ~Idle(c), NEW todo, Goes(c, [call[c] EXCEPT !.todo = todo]) PROVE LostEnds'
  <2>1. DOMAIN [call[c] EXCEPT !.todo = todo] = Fields /\ ~[call[c] EXCEPT !.todo = todo].lost
    BY <1>1, <1>4 DEF Fields
  <2> QED BY <1>4, <2>1, GoesOn
<1>5. ASSUME ~Idle(c), NEW todo, call' = [call EXCEPT ![c].todo = todo] PROVE LostEnds'
  <2>1. call' = [call EXCEPT ![c] = [call[c] EXCEPT !.todo = todo]]
    BY <1>5 DEF LostEnds
  <2>2. DOMAIN [call[c] EXCEPT !.todo = todo] = Fields /\ ~[call[c] EXCEPT !.todo = todo].lost
    BY <1>1, <1>5 DEF Fields
  <2> QED BY <2>1, <2>2, OneCall
<1>6. CASE Invalid(c)
  BY <1>2, <1>6 DEF Invalid, At
<1>7. CASE Lock(c) \/ Unlock(c)
  BY <1>5, <1>7 DEF Lock, Unlock, At
<1>8. CASE Available(c) \/ CheckParent(c) \/ CheckFresh(c) \/ Require(c) \/ CheckStatus(c)
  BY <1>2, <1>3, <1>8 DEF Available, CheckParent, CheckFresh, Require, CheckStatus, At
<1>9. CASE FindNotebook(c)
  <2>1. ~Idle(c)
    BY <1>9 DEF FindNotebook, At
  <2>2. \/ \E todo : call' = [call EXCEPT ![c].todo = todo]
        \/ \E i : Goes(c, [call[c] EXCEPT !.parent = i])
        \/ Answer(c, "domain")
    BY <1>9 DEF FindNotebook
  <2>3. ASSUME NEW i, Goes(c, [call[c] EXCEPT !.parent = i]) PROVE LostEnds'
    <3>1. DOMAIN [call[c] EXCEPT !.parent = i] = Fields /\ ~[call[c] EXCEPT !.parent = i].lost
      BY <1>1, <2>1 DEF Fields
    <3> QED BY <2>3, <3>1, GoesOn
  <2> QED BY <1>2, <1>5, <2>1, <2>2, <2>3
<1>10. CASE CheckTagged(c)
  <2>1. ~Idle(c) /\ (Goes(c, call[c]) \/ \E todo : Goes(c, [call[c] EXCEPT !.todo = todo]))
    BY <1>10 DEF CheckTagged, At
  <2> QED BY <1>3, <1>4, <2>1
<1>11. CASE ReadNoteTags(c)
  <2>1. ~Idle(c)
    BY <1>11 DEF ReadNoteTags, At
  <2> DEFINE e == [call[c] EXCEPT !.had = store[call[c].id].tags]
  <2>2. Goes(c, e)
    BY <1>11 DEF ReadNoteTags
  <2>3. DOMAIN e = Fields /\ ~e.lost
    BY <1>1, <2>1 DEF Fields
  <2> HIDE DEF e
  <2> QED BY <2>2, <2>3, GoesOn
<1>12. CASE PlanTags(c)
  <2>1. ~Idle(c) /\ \E todo : Goes(c, [call[c] EXCEPT !.todo = todo])
    BY <1>12 DEF PlanTags, At
  <2> QED BY <1>4, <2>1
<1>13. CASE Write(c)
  <2>1. ~Idle(c)
    BY <1>13 DEF Write, Writing
  <2> DEFINE e == [call[c] EXCEPT !.wrote = TRUE]
  <2>2. DOMAIN e = Fields /\ ~e.lost
    BY <1>1, <2>1 DEF Fields
  <2>3. \/ Goes(c, e)
        \/ \E i : Goes(c, [e EXCEPT !.parent = i])
        \/ \E i : Goes(c, [e EXCEPT !.id = i])
        \/ \E todo : Goes(c, [e EXCEPT !.todo = todo])
    BY <1>13 DEF Write
  <2> HIDE DEF e
  <2>4. ASSUME NEW i PROVE /\ DOMAIN [e EXCEPT !.parent = i] = Fields /\ ~[e EXCEPT !.parent = i].lost
                           /\ DOMAIN [e EXCEPT !.id = i] = Fields /\ ~[e EXCEPT !.id = i].lost
                           /\ DOMAIN [e EXCEPT !.todo = i] = Fields /\ ~[e EXCEPT !.todo = i].lost
    BY <2>2 DEF Fields
  <2> QED BY <2>2, <2>3, <2>4, GoesOn
<1>14. CASE Refused(c) \/ ReadFails(c)
  BY <1>2, <1>14 DEF Refused, Writing, ReadFails
<1>15. CASE Lost(c)
  <2>1. PICK verdict \in {"ambiguous", "internal"} :
          ~Idle(c) /\ Answered(c, [call[c] EXCEPT !.lost = TRUE], verdict)
    BY <1>15 DEF Lost, LostAnswer, Writing
  <2>2. [call[c] EXCEPT !.lost = TRUE].lost = TRUE
    BY <1>1 DEF Fields
  <2> QED BY <2>1, <2>2, AnsweredCall
<1> QED BY <1>6, <1>7, <1>8, <1>9, <1>10, <1>11, <1>12, <1>13, <1>14, <1>15
        DEF CallStep, Progress

LEMMA LostEndsStep == LostEnds /\ [Next]_vars => LostEnds'
<1> SUFFICES ASSUME LostEnds, [Next]_vars PROVE LostEnds'
  OBVIOUS
<1>1. ASSUME UNCHANGED call PROVE LostEnds'
  BY <1>1 DEF LostEnds, Idle
<1>2. ASSUME NEW c \in Callers, Arrive(c) \/ Admit(c) \/ TurnAway(c) \/ NoThread(c) \/ Close(c)
             \/ McpUnauthorized(c) \/ McpUnread(c) \/ McpAnswered(c) \/ TakePermit(c)
             \/ ActionUnauthorized(c) \/ ActionUnread(c) \/ ActionAnswered(c)
      PROVE  LostEnds'
  BY <1>1, <1>2
     DEF Arrive, Admit, TurnAway, NoThread, Close, McpUnauthorized, McpUnread, McpAnswered,
         McpRequest, TakePermit, ActionUnauthorized, ActionUnread, ActionAnswered, toolVars
<1>3. ASSUME NEW c \in Callers, McpCall(c) \/ ActionCall(c) PROVE LostEnds'
  <2>1. PICK r \in Requests : Ask(c, r)
    BY <1>3 DEF McpCall, ActionCall
  <2> DEFINE e == [NoCall EXCEPT !.req = r, !.todo = Steps(ProgramOf(r)), !.id = r.id,
                                 !.parent = r.parent]
  <2>2. call' = [call EXCEPT ![c] = e]
    BY <2>1 DEF Ask
  <2>3. DOMAIN e = Fields /\ ~e.lost
    BY DEF NoCall, Fields
  <2> HIDE DEF e
  <2> QED BY <2>2, <2>3, OneCall
<1>4. ASSUME NEW c \in Callers, Respond(c) PROVE LostEnds'
  <2>1. call' = [call EXCEPT ![c] = NoCall] /\ DOMAIN NoCall = Fields /\ ~NoCall.lost
    BY <1>4 DEF Respond, NoCall, Fields
  <2> QED BY <2>1, OneCall
<1>5. ASSUME NEW c \in Callers, Call(c) PROVE LostEnds'
  BY <1>5, CallStepLost DEF Call
<1>6. CASE Land
  BY <1>1, <1>6 DEF Land
<1>7. CASE UNCHANGED vars
  BY <1>1, <1>7 DEF vars, toolVars
<1> QED BY <1>2, <1>3, <1>4, <1>5, <1>6, <1>7 DEF Next

(* A write whose outcome is not known is reported as ambiguous, partial or an *)
(* internal error and as nothing else, and ends its call, for every tool and  *)
(* every transport (AIF-005; tool_executor.py:82-113).                        *)
THEOREM LostWritesAreReported == Spec => []LostWritesAreFinal
<1>1. LostEnds => LostWritesAreFinal
  BY DEF LostEnds, LostWritesAreFinal
<1> QED BY LostEndsInit, LostEndsStep, <1>1, PTL DEF Spec

----------------------------------------------------------------------------
(* Sequences over whatever they hold.                                         *)
IsSeq(s) == s \in Seq(ToSet(s))

LEMMA SeqShape ==
    ASSUME NEW s, IsSeq(s)
    PROVE  Len(s) \in Nat /\ DOMAIN s = 1..Len(s) /\ (s = <<>> <=> Len(s) = 0)
<1>1. Len(s) \in Nat /\ DOMAIN s = 1..Len(s)
  BY LenProperties DEF IsSeq
<1> QED BY <1>1, EmptySeq DEF IsSeq

LEMMA SeqOver == ASSUME NEW S, NEW s \in Seq(S) PROVE IsSeq(s)
<1>1. DOMAIN s = 1..Len(s) /\ Len(s) \in Nat
  BY LenProperties
<1>2. \A i \in 1..Len(s) : s[i] \in ToSet(s)
  BY <1>1 DEF ToSet
<1>3. s \in [1..Len(s) -> ToSet(s)]
  BY <1>1, <1>2, LenProperties
<1> QED BY <1>1, <1>3, SeqDef DEF IsSeq

LEMMA SeqTail ==
    ASSUME NEW s, IsSeq(s), s # <<>>
    PROVE  /\ IsSeq(Tail(s))
           /\ Len(Tail(s)) = Len(s) - 1
           /\ \A i \in DOMAIN Tail(s) : Tail(s)[i] = s[i + 1] /\ i + 1 \in DOMAIN s
<1>1. /\ Tail(s) \in Seq(ToSet(s)) /\ Len(Tail(s)) = Len(s) - 1
      /\ \A i \in 1..Len(Tail(s)) : Tail(s)[i] = s[i + 1]
  BY HeadTailProperties DEF IsSeq
<1>2. IsSeq(Tail(s))
  BY <1>1, SeqOver
<1> QED BY <1>1, <1>2, SeqShape

LEMMA SeqConcat ==
    ASSUME NEW s, NEW t, IsSeq(s), IsSeq(t)
    PROVE  /\ IsSeq(s \o t)
           /\ Len(s \o t) = Len(s) + Len(t)
           /\ \A i \in DOMAIN (s \o t) :
                \/ i \in DOMAIN s /\ (s \o t)[i] = s[i]
                \/ i > Len(s) /\ i - Len(s) \in DOMAIN t /\ (s \o t)[i] = t[i - Len(s)]
<1> DEFINE S == ToSet(s) \cup ToSet(t)
<1>1. s \in Seq(S) /\ t \in Seq(S)
  BY SeqMonotonic DEF IsSeq
<1>2. /\ s \o t \in Seq(S)
      /\ Len(s \o t) = Len(s) + Len(t)
      /\ \A i \in 1..(Len(s) + Len(t)) :
           (s \o t)[i] = IF i <= Len(s) THEN s[i] ELSE t[i - Len(s)]
  BY <1>1, ConcatProperties
<1> HIDE DEF S
<1>3. IsSeq(s \o t)
  BY <1>2, SeqOver
<1>4. /\ DOMAIN s = 1..Len(s) /\ DOMAIN t = 1..Len(t) /\ Len(s) \in Nat /\ Len(t) \in Nat
      /\ DOMAIN (s \o t) = 1..Len(s \o t)
  BY <1>3, SeqShape
<1> QED BY <1>2, <1>3, <1>4

LEMMA SeqAppend ==
    ASSUME NEW s, NEW e, IsSeq(s)
    PROVE  /\ IsSeq(Append(s, e))
           /\ DOMAIN Append(s, e) = DOMAIN s \cup {Len(s) + 1}
           /\ \A i \in DOMAIN s : Append(s, e)[i] = s[i]
           /\ Append(s, e)[Len(s) + 1] = e
<1> DEFINE S == ToSet(s) \cup {e}
<1>1. s \in Seq(S) /\ e \in S
  BY SeqMonotonic DEF IsSeq
<1>2. /\ Append(s, e) \in Seq(S) /\ Len(Append(s, e)) = Len(s) + 1
      /\ \A i \in 1..Len(s) : Append(s, e)[i] = s[i]
      /\ Append(s, e)[Len(s) + 1] = e
  BY <1>1, AppendProperties
<1> HIDE DEF S
<1>3. IsSeq(Append(s, e))
  BY <1>2, SeqOver
<1>4. /\ DOMAIN s = 1..Len(s) /\ Len(s) \in Nat
      /\ DOMAIN Append(s, e) = 1..Len(Append(s, e))
  BY <1>3, SeqShape
<1> QED BY <1>2, <1>3, <1>4

LEMMA SetToSeqOf ==
    ASSUME NEW S, IsFiniteSet(S)
    PROVE  SetToSeq(S) \in Seq(S)
<1>1. Cardinality(S) \in Nat /\ ExistsBijection(1..Cardinality(S), S)
  BY FS_CardinalityType
<1>2. PICK f : f \in Bijection(1..Cardinality(S), S)
  BY <1>1 DEF ExistsBijection
<1>3. f \in [1..Cardinality(S) -> S] /\ IsInjective(f)
  BY <1>2 DEF Bijection, Injection
<1>4. SetToSeq(S) \in [1..Cardinality(S) -> S]
  BY <1>3 DEF SetToSeq
<1> QED BY <1>1, <1>4, SeqDef

LEMMA FiniteImage ==
    ASSUME NEW S, IsFiniteSet(S), NEW op
    PROVE  IsFiniteSet({Step(op, x) : x \in S})
<1> DEFINE T == {Step(op, x) : x \in S}
           f == [x \in S |-> Step(op, x)]
<1>1. f \in Surjection(S, T)
  BY DEF Surjection
<1> QED BY <1>1, FS_Surjection

(* A function on the positions of a sequence is a sequence.                   *)
LEMMA SeqUpdate ==
    ASSUME NEW s, IsSeq(s), NEW t, t = [i \in DOMAIN s |-> t[i]]
    PROVE  IsSeq(t)
<1>1. Len(s) \in Nat /\ DOMAIN s = 1..Len(s)
  BY SeqShape
<1>2. t \in [1..Len(s) -> ToSet(t)]
  BY <1>1 DEF ToSet
<1> QED BY <1>1, <1>2, SeqDef DEF IsSeq

----------------------------------------------------------------------------
(* Joplin's objects and the writes that reach it.                             *)
Alive(o) == o.sure /\ o.status # "gone"

ObjectOK(o) ==
    /\ DOMAIN o = ObjectFields
    /\ o.status \in Statuses
    /\ o.sure \in BOOLEAN
    /\ o.sure => o.parent \in Ids \cup {None}

StoreOK ==
    /\ IsSeq(store)
    /\ \A i \in Ids : ObjectOK(store[i])

Distinct ==
    \A i, j \in Ids :
      Alive(store[i]) /\ Alive(store[j]) /\ Identity(store[i]) = Identity(store[j]) => i = j

WriteOK(w) ==
    /\ w.op \in {"post", "put", "trash", "restore", "erase", "link", "unlink", "append"}
    /\ w.op = "post" => ObjectOK(w.new) /\ w.new.status = "active"

(* What a write to an object leaves: no object becomes alive or gets another  *)
(* identity while it is.                                                      *)
KeepsIdentities ==
    /\ IsSeq(store') /\ Ids' = Ids
    /\ \A i \in Ids :
         /\ DOMAIN store'[i] = ObjectFields
         /\ store'[i].status \in Statuses
         /\ store'[i].sure \in BOOLEAN
         /\ store'[i].sure => store[i].sure /\ store'[i].parent = store[i].parent
         /\ Alive(store'[i]) => Alive(store[i]) /\ Identity(store'[i]) = Identity(store[i])

LEMMA OtherWrites ==
    ASSUME StoreOK, NEW w, WriteOK(w), w.op # "post", ~Taken(w), store' = Apply(w)
    PROVE  KeepsIdentities
<1> DEFINE f == store'
<1>1. \A i \in Ids : /\ DOMAIN store[i] = ObjectFields
                     /\ store[i].status \in Statuses
                     /\ store[i].sure \in BOOLEAN
  BY DEF StoreOK, ObjectOK
<1>2. ASSUME f = [i \in Ids |-> f[i]],
             \A i \in Ids :
               /\ DOMAIN f[i] = ObjectFields
               /\ f[i].status \in Statuses
               /\ f[i].sure \in BOOLEAN
               /\ f[i].sure => store[i].sure /\ f[i].parent = store[i].parent
               /\ Alive(f[i]) => Alive(store[i]) /\ Identity(f[i]) = Identity(store[i])
      PROVE  KeepsIdentities
  <2>1. IsSeq(f)
    BY <1>2, SeqUpdate DEF StoreOK, Ids
  <2> QED BY <1>2, <2>1 DEF KeepsIdentities, Ids
<1>3. Present(w.id)
  BY DEF Taken
<1>4. CASE w.op = "put"
  <2>1. f = [store EXCEPT ![w.id].name = IF w.name = None THEN @ ELSE w.name,
                          ![w.id].parent = IF w.parent = None THEN @ ELSE w.parent,
                          ![w.id].sure = @ /\ w.name = None /\ w.parent = None]
    BY <1>4 DEF Apply
  <2>2. ASSUME NEW i \in Ids
        PROVE  /\ DOMAIN f[i] = ObjectFields
               /\ f[i].status = store[i].status
               /\ f[i].kind = store[i].kind
               /\ f[i].parent = IF i = w.id /\ w.parent # None THEN w.parent ELSE store[i].parent
               /\ f[i].name = IF i = w.id /\ w.name # None THEN w.name ELSE store[i].name
               /\ f[i].sure = IF i = w.id THEN store[i].sure /\ w.name = None /\ w.parent = None
                              ELSE store[i].sure
    BY <1>1, <2>1, <2>2 DEF ObjectFields, Ids
  <2>3. f = [i \in Ids |-> f[i]]
    BY <2>1 DEF Ids, StoreOK
  <2> HIDE DEF f
  <2>4. \A i \in Ids : f[i].sure => store[i].sure /\ f[i].parent = store[i].parent
    BY <1>1, <2>2
  <2>5. \A i \in Ids : f[i].sure \in BOOLEAN
    BY <1>1, <2>2
  <2>6. \A i \in Ids : Alive(f[i]) => Alive(store[i]) /\ Identity(f[i]) = Identity(store[i])
    BY <1>1, <2>2 DEF Alive, Identity
  <2> QED BY <1>1, <1>2, <2>2, <2>3, <2>4, <2>5, <2>6
<1>5. ASSUME f = [i \in Ids |-> f[i]],
             \A i \in Ids : \/ f[i] = store[i]
                            \/ \E t : f[i] = [store[i] EXCEPT !.tags = @ \cup {t}]
                            \/ \E t : f[i] = [store[i] EXCEPT !.tags = @ \ {t}]
                            \/ \E s \in Statuses : /\ f[i] = [store[i] EXCEPT !.status = s]
                                                  /\ store[i].status # "gone"
      PROVE  KeepsIdentities
  <2>1. ASSUME NEW i \in Ids
        PROVE  /\ DOMAIN f[i] = ObjectFields
               /\ f[i].status \in Statuses
               /\ f[i].sure = store[i].sure
               /\ f[i].kind = store[i].kind
               /\ f[i].name = store[i].name
               /\ f[i].parent = store[i].parent
               /\ f[i].status # "gone" => store[i].status # "gone"
    BY <1>1, <1>5, <2>1 DEF ObjectFields
  <2> HIDE DEF f
  <2>3. \A i \in Ids : Alive(f[i]) => Alive(store[i]) /\ Identity(f[i]) = Identity(store[i])
    BY <2>1 DEF Alive, Identity
  <2> QED BY <1>1, <1>2, <1>5, <2>1, <2>3
<1>6. CASE w.op = "trash"
  <2>1. f = [i \in Ids |-> IF i = w.id \/ (store[i].parent = w.id /\ Present(i))
                          THEN [store[i] EXCEPT !.status = "trash"] ELSE store[i]]
    BY <1>6 DEF Apply
  <2>2. \A i \in Ids : \/ f[i] = store[i]
                       \/ f[i] = [store[i] EXCEPT !.status = "trash"] /\ store[i].status # "gone"
    BY <1>3, <2>1 DEF Present
  <2> QED BY <1>5, <2>1, <2>2 DEF Statuses
<1>7. CASE w.op = "restore"
  <2>1. f = [store EXCEPT ![w.id].status = "active"]
    BY <1>7 DEF Apply
  <2>2. \A i \in Ids : \/ f[i] = store[i]
                       \/ f[i] = [store[i] EXCEPT !.status = "active"] /\ store[i].status # "gone"
    BY <1>3, <2>1 DEF Present, Ids
  <2>3. f = [i \in Ids |-> f[i]]
    BY <2>1 DEF Ids
  <2> QED BY <1>5, <2>2, <2>3 DEF Statuses
<1>8. CASE w.op = "erase"
  <2>1. f = [i \in Ids |-> IF i = w.id THEN [store[i] EXCEPT !.status = "gone"]
                          ELSE [store[i] EXCEPT !.tags = @ \ {w.id}]]
    BY <1>8 DEF Apply
  <2>2. \A i \in Ids : \/ f[i] = [store[i] EXCEPT !.status = "gone"] /\ store[i].status # "gone"
                       \/ f[i] = [store[i] EXCEPT !.tags = @ \ {w.id}]
    BY <1>3, <2>1 DEF Present
  <2> QED BY <1>5, <2>1, <2>2 DEF Statuses
<1>9. CASE w.op = "link"
  <2>1. f = [store EXCEPT ![w.id].tags = @ \cup {w.tag}]
    BY <1>9 DEF Apply
  <2>2. \A i \in Ids : f[i] = store[i] \/ f[i] = [store[i] EXCEPT !.tags = @ \cup {w.tag}]
    BY <2>1 DEF Ids
  <2>3. f = [i \in Ids |-> f[i]]
    BY <2>1 DEF Ids
  <2> QED BY <1>5, <2>2, <2>3
<1>10. CASE w.op = "unlink"
  <2>1. f = [store EXCEPT ![w.id].tags = @ \ {w.tag}]
    BY <1>10 DEF Apply
  <2>2. \A i \in Ids : f[i] = store[i] \/ f[i] = [store[i] EXCEPT !.tags = @ \ {w.tag}]
    BY <2>1 DEF Ids
  <2>3. f = [i \in Ids |-> f[i]]
    BY <2>1 DEF Ids
  <2> QED BY <1>5, <2>2, <2>3
<1>11. CASE w.op = "append"
  <2>1. store' = store
    BY <1>11 DEF Apply
  <2> QED BY <1>1, <2>1 DEF KeepsIdentities, StoreOK, Ids, Identity
<1> QED BY <1>4, <1>6, <1>7, <1>8, <1>9, <1>10, <1>11 DEF WriteOK

(* A new object is the last one.                                              *)
LEMMA Posts ==
    ASSUME StoreOK, NEW w, WriteOK(w), w.op = "post", store' = Apply(w)
    PROVE  /\ IsSeq(store')
           /\ Ids' = Ids \cup {Len(store) + 1}
           /\ Len(store) + 1 \notin Ids
           /\ \A i \in Ids : store'[i] = store[i]
           /\ store'[Len(store) + 1] = w.new
<1>1. store' = Append(store, w.new)
  BY DEF Apply
<1>2. Ids = 1..Len(store) /\ Len(store) \in Nat
  BY SeqShape DEF StoreOK, Ids
<1> QED BY <1>1, <1>2, SeqAppend DEF StoreOK, Ids

----------------------------------------------------------------------------
(* The stages of a creation, in the order its requests are sent; everything   *)
(* another call does, and what follows the creation, is of the last stage.    *)
StageOf(op) ==
    CASE op = "lock" -> 1
      [] op = "available" -> 2
      [] op \in {"notebook", "parent"} -> 3
      [] op = "fresh" -> 4
      [] op = "post" -> 5
      [] op = "unlock" -> 6
      [] OTHER -> 7

Stage(step) == IF step = Step("post", "notebook") THEN 3 ELSE StageOf(step.op)

(* These skip the step after them when there is nothing to do.                *)
Skipping == {"unlessTagged", "ifTagged"}

OrderedOps(ops) ==
    /\ IsSeq(ops)
    /\ ops # <<>>
    /\ \A i, j \in DOMAIN ops : i < j =>
         StageOf(ops[i]) < StageOf(ops[j]) \/ (StageOf(ops[i]) = 7 /\ StageOf(ops[j]) = 7)
    /\ \A i \in DOMAIN ops : i > 1 /\ ops[i] = "post" => ops[i - 1] = "fresh"
    /\ \A i \in DOMAIN ops : StageOf(ops[i]) \in 3..6 => ops[1] = "lock"
    /\ \A i \in DOMAIN ops : ops[i] \in Skipping => i < Len(ops)

Ordered(s) ==
    /\ IsSeq(s)
    /\ \A i, j \in DOMAIN s : i < j =>
         Stage(s[i]) < Stage(s[j]) \/ (Stage(s[i]) = 7 /\ Stage(s[j]) = 7)
    /\ \A i \in DOMAIN s : i > 1 /\ s[i].op = "post" => s[i - 1].op = "fresh"
    /\ \A i \in DOMAIN s : s[i] = Step(s[i].op, s[i].of)
    /\ \A i \in DOMAIN s : s[i].op = "post" => s[i].of \in {None, "notebook"}
    /\ \A i \in DOMAIN s : s[i].op \in Skipping => i < Len(s)

Late(ops) == IsSeq(ops) /\ \A i \in DOMAIN ops : StageOf(ops[i]) = 7 /\ ops[i] \notin Skipping

LEMMA StageType == \A op : StageOf(op) \in 1..7
BY DEF StageOf

LEMMA StageOfFresh == ASSUME NEW op, StageOf(op) = 4 PROVE op = "fresh"
BY DEF StageOf

LEMMA LateSteps ==
    /\ Late(<<>>) /\ Late(<<"reread">>) /\ Late(<<"put">>) /\ Late(<<"target">>)
    /\ Late(TagSteps) /\ Late(AttachSteps)
<1>1. \A a, b, c, d : /\ <<>> \in Seq({a}) /\ <<a>> \in Seq({a}) /\ <<a, b>> \in Seq({a, b})
                      /\ <<a, b, c, d>> \in Seq({a, b, c, d})
  OBVIOUS
<1>2. IsSeq(<<>>) /\ \A a, b, c, d : IsSeq(<<a>>) /\ IsSeq(<<a, b>>) /\ IsSeq(<<a, b, c, d>>)
  BY <1>1, SeqOver
<1>3. Late(<<>>)
  BY <1>2 DEF Late
<1>5. ASSUME NEW op \in {"reread", "put", "target"} PROVE Late(<<op>>)
  <2>1. IsSeq(<<op>>) /\ StageOf(op) = 7 /\ op \notin Skipping
    BY <1>2, <1>5 DEF StageOf, Skipping
  <2> QED BY <2>1 DEF Late
<1>4. ASSUME NEW s \in {TagSteps, AttachSteps} PROVE Late(s)
  <2>1. IsSeq(s)
    BY <1>2 DEF TagSteps, AttachSteps
  <2>2. \A i \in DOMAIN s : s[i] \in {"noteTags", "allTags", "upload", "uploaded", "body", "append"}
    BY DEF TagSteps, AttachSteps
  <2> QED BY <2>1, <2>2 DEF Late, StageOf, Skipping
<1> QED BY <1>3, <1>4, <1>5

LEMMA OrderedConcat ==
    ASSUME NEW s, NEW t, OrderedOps(s), Late(t)
    PROVE  OrderedOps(s \o t)
<1> DEFINE u == s \o t
<1>1. /\ IsSeq(u) /\ Len(u) = Len(s) + Len(t)
      /\ \A i \in DOMAIN u : \/ i \in DOMAIN s /\ u[i] = s[i]
                             \/ i > Len(s) /\ i - Len(s) \in DOMAIN t /\ u[i] = t[i - Len(s)]
  BY SeqConcat DEF OrderedOps, Late
<1>2. /\ Len(s) \in Nat /\ Len(t) \in Nat /\ DOMAIN s = 1..Len(s) /\ DOMAIN t = 1..Len(t)
      /\ DOMAIN u = 1..Len(u) /\ Len(s) # 0
  BY <1>1, SeqShape DEF OrderedOps, Late
<1>3. \A i \in DOMAIN u : \/ i \in DOMAIN s /\ u[i] = s[i]
                          \/ i > Len(s) /\ StageOf(u[i]) = 7 /\ u[i] \notin Skipping
  BY <1>1 DEF Late
<1>4. 1 \in DOMAIN s /\ u[1] = s[1]
  BY <1>1, <1>2
<1>5. u # <<>>
  BY <1>1, <1>2, SeqShape
<1> HIDE DEF u
<1>6. \A i \in DOMAIN u : u[i] = "post" => i \in DOMAIN s
  BY <1>3 DEF StageOf
<1>7. ASSUME NEW i \in DOMAIN u, NEW j \in DOMAIN u, i < j
      PROVE  StageOf(u[i]) < StageOf(u[j]) \/ (StageOf(u[i]) = 7 /\ StageOf(u[j]) = 7)
  BY <1>2, <1>3, <1>7, StageType DEF OrderedOps
<1>8. ASSUME NEW i \in DOMAIN u, i > 1, u[i] = "post" PROVE u[i - 1] = "fresh"
  BY <1>1, <1>2, <1>6, <1>8, <1>3 DEF OrderedOps
<1>9. ASSUME NEW i \in DOMAIN u, StageOf(u[i]) \in 3..6 PROVE u[1] = "lock"
  BY <1>3, <1>4, <1>9 DEF OrderedOps
<1>10. ASSUME NEW i \in DOMAIN u, u[i] \in Skipping PROVE i < Len(u)
  <2>1. i \in DOMAIN s /\ u[i] = s[i]
    BY <1>3, <1>10
  <2> QED BY <1>1, <1>2, <1>10, <2>1 DEF OrderedOps
<1> QED BY <1>1, <1>5, <1>7, <1>8, <1>9, <1>10 DEF OrderedOps, u

LEMMA ProgramsAreOrdered ==
    ASSUME NEW r, r.tool \in Tools
    PROVE  OrderedOps(ProgramOf(r))
<1>1. ASSUME NEW x \in {"notebook", "parent"}
      PROVE  OrderedOps(<<"lock", "available", x, "fresh", "post", "unlock">>)
  <2> DEFINE s == <<"lock", "available", x, "fresh", "post", "unlock">>
  <2>1. s \in Seq({"lock", "available", x, "fresh", "post", "unlock"}) /\ DOMAIN s = 1..6 /\ s # <<>>
    OBVIOUS
  <2>2. IsSeq(s)
    BY <2>1, SeqOver
  <2> QED BY <1>1, <2>1, <2>2 DEF OrderedOps, StageOf, Skipping
<1>2. CreateNote(r) = (((<<"lock", "available", IF r.parent = None THEN "notebook" ELSE "parent",
                           "fresh", "post", "unlock">>
                          \o (IF r.tags = {} THEN <<>> ELSE TagSteps))
                         \o (IF r.file THEN AttachSteps ELSE <<>>)) \o <<"reread">>)
  BY DEF CreateNote
<1>3. OrderedOps(CreateNote(r))
  BY <1>1, <1>2, LateSteps, OrderedConcat
<1>4. ASSUME NEW x \in {<<>>, <<"parent">>}
      PROVE  OrderedOps(<<"lock", "available">> \o x \o <<"fresh", "post">>)
  <2> DEFINE s == <<"lock", "available">>
             t == <<"fresh", "post">>
             u == s \o x
             v == u \o t
  <2>1. s \in Seq({"lock", "available"}) /\ x \in Seq({"parent"}) /\ t \in Seq({"fresh", "post"})
    <3>1. <<>> \in Seq({"parent"}) /\ <<"parent">> \in Seq({"parent"})
      OBVIOUS
    <3>2. x \in Seq({"parent"})
      BY <1>4, <3>1
    <3> QED BY <3>2
  <2>2. IsSeq(s) /\ IsSeq(x) /\ IsSeq(t)
    BY <2>1, SeqOver
  <2>3. /\ Len(s) = 2 /\ s[1] = "lock" /\ s[2] = "available" /\ DOMAIN s = 1..2
        /\ Len(t) = 2 /\ t[1] = "fresh" /\ t[2] = "post" /\ DOMAIN t = 1..2
        /\ Len(x) \in 0..1 /\ DOMAIN x = 1..Len(x) /\ \A i \in DOMAIN x : x[i] = "parent"
    <3>1. CASE x = <<>>
      BY <3>1
    <3>2. CASE x = <<"parent">>
      BY <3>2
    <3> QED BY <1>4, <3>1, <3>2
  <2> HIDE DEF s, t
  <2>4. /\ IsSeq(u) /\ Len(u) = 2 + Len(x) /\ DOMAIN u = 1..Len(u)
        /\ u[1] = "lock" /\ u[2] = "available" /\ (Len(x) = 1 => u[3] = "parent")
    <3>1. /\ IsSeq(u) /\ Len(u) = Len(s) + Len(x)
          /\ \A i \in DOMAIN u : \/ i \in DOMAIN s /\ u[i] = s[i]
                                 \/ i > Len(s) /\ i - Len(s) \in DOMAIN x /\ u[i] = x[i - Len(s)]
      BY <2>2, SeqConcat
    <3>2. DOMAIN u = 1..Len(u)
      BY <3>1, SeqShape
    <3> HIDE DEF u
    <3>3. Len(u) = 2 + Len(x) /\ 1 \in DOMAIN u /\ 2 \in DOMAIN u /\ (Len(x) = 1 => 3 \in DOMAIN u)
      BY <2>3, <3>1, <3>2
    <3> QED BY <2>3, <3>1, <3>2, <3>3
  <2> HIDE DEF u
  <2>5. /\ IsSeq(v) /\ Len(v) = Len(u) + 2 /\ DOMAIN v = 1..Len(v)
        /\ \A i \in DOMAIN v : \/ i \in DOMAIN u /\ v[i] = u[i]
                               \/ i > Len(u) /\ i - Len(u) \in DOMAIN t /\ v[i] = t[i - Len(u)]
    <3>1. /\ IsSeq(v) /\ Len(v) = Len(u) + Len(t)
          /\ \A i \in DOMAIN v : \/ i \in DOMAIN u /\ v[i] = u[i]
                                 \/ i > Len(u) /\ i - Len(u) \in DOMAIN t /\ v[i] = t[i - Len(u)]
      BY <2>2, <2>4, SeqConcat
    <3>2. DOMAIN v = 1..Len(v)
      BY <3>1, SeqShape
    <3> QED BY <2>3, <3>1, <3>2
  <2>6. v # <<>>
    BY <2>3, <2>4, <2>5, SeqShape
  <2> HIDE DEF v
  <2>10. /\ StageOf("lock") = 1 /\ StageOf("available") = 2 /\ StageOf("parent") = 3
         /\ StageOf("fresh") = 4 /\ StageOf("post") = 5
    BY DEF StageOf
  <2>7. ASSUME Len(x) = 0 PROVE OrderedOps(v)
    <3>1. DOMAIN v = 1..4 /\ v[1] = "lock" /\ v[2] = "available" /\ v[3] = "fresh" /\ v[4] = "post"
      BY <2>3, <2>4, <2>5, <2>7
    <3>2. \A i \in DOMAIN v : StageOf(v[i]) = IF i <= 2 THEN i ELSE i + 1
      BY <2>10, <3>1
    <3>3. \A i, j \in DOMAIN v : i < j => StageOf(v[i]) < StageOf(v[j])
      BY <3>1, <3>2
    <3>4. \A i \in DOMAIN v : v[i] = "post" => i = 4
      BY <2>10, <3>1, <3>2
    <3>5. \A i \in DOMAIN v : v[i] \notin Skipping
      BY <3>1 DEF Skipping
    <3> QED BY <2>5, <2>6, <3>1, <3>3, <3>4, <3>5 DEF OrderedOps
  <2>8. ASSUME Len(x) = 1 PROVE OrderedOps(v)
    <3>1. /\ DOMAIN v = 1..5 /\ v[1] = "lock" /\ v[2] = "available" /\ v[3] = "parent"
          /\ v[4] = "fresh" /\ v[5] = "post"
      BY <2>3, <2>4, <2>5, <2>8
    <3>2. \A i \in DOMAIN v : StageOf(v[i]) = i
      BY <2>10, <3>1
    <3>3. \A i, j \in DOMAIN v : i < j => StageOf(v[i]) < StageOf(v[j])
      BY <3>1, <3>2
    <3>4. \A i \in DOMAIN v : v[i] = "post" => i = 5
      BY <2>10, <3>1, <3>2
    <3>5. \A i \in DOMAIN v : v[i] \notin Skipping
      BY <3>1 DEF Skipping
    <3> QED BY <2>5, <2>6, <3>1, <3>3, <3>4, <3>5 DEF OrderedOps
  <2>9. OrderedOps(v)
    BY <2>3, <2>7, <2>8
  <2> QED BY <2>9 DEF v, u, s, t
<1>6. OrderedOps(CreateOther(r))
  BY <1>4, LateSteps, OrderedConcat DEF CreateOther
<1>7. OrderedOps(<<"available", "require">>)
  <2>1. <<"available", "require">> \in Seq({"available", "require"})
    OBVIOUS
  <2>2. IsSeq(<<"available", "require">>)
    BY <2>1, SeqOver
  <2> QED BY <2>2 DEF OrderedOps, StageOf, Skipping
<1>8. OrderedOps(Update(r))
  BY <1>7, LateSteps, OrderedConcat DEF Update
<1>9. ASSUME NEW ops \in {<<"invalid">>, <<"available", "unlessTrashed", "trash">>,
                         <<"available", "unlessActive", "restore", "reread">>,
                         <<"available", "require", "erase">>,
                         <<"available", "requireTag", "require", "unlessTagged", "link", "reread">>,
                         <<"available", "requireTag", "require", "ifTagged", "unlink", "reread">>,
                         <<"available", "require", "reread">>}
      PROVE  OrderedOps(ops)
  <2> DEFINE S == {"invalid", "available", "unlessTrashed", "trash", "unlessActive", "restore",
                   "reread", "require", "erase", "requireTag", "unlessTagged", "link",
                   "ifTagged", "unlink"}
  <2>1. ops \in Seq(S) /\ ops # <<>>
    <3>1. /\ <<"invalid">> \in Seq(S)
          /\ <<"available", "unlessTrashed", "trash">> \in Seq(S)
          /\ <<"available", "unlessActive", "restore", "reread">> \in Seq(S)
      OBVIOUS
    <3>2. /\ <<"available", "require", "erase">> \in Seq(S)
          /\ <<"available", "require", "reread">> \in Seq(S)
      OBVIOUS
    <3>3. /\ <<"available", "requireTag", "require", "unlessTagged", "link", "reread">> \in Seq(S)
          /\ <<"available", "requireTag", "require", "ifTagged", "unlink", "reread">> \in Seq(S)
      OBVIOUS
    <3>4. ops # <<>>
      BY <1>9, SMTT(30)
    <3> HIDE DEF S
    <3> QED BY <1>9, <3>1, <3>2, <3>3, <3>4
  <2> HIDE DEF S
  <2>2. \A i \in DOMAIN ops : i > 1 => StageOf(ops[i]) = 7
    BY <1>9 DEF StageOf
  <2>3. StageOf(ops[1]) \in {2, 7} /\ 1 \in DOMAIN ops
    BY <1>9 DEF StageOf
  <2>4. IsSeq(ops)
    BY <2>1, SeqOver
  <2>5. StageOf("post") = 5
    BY DEF StageOf
  <2>6. \A i \in DOMAIN ops : ops[i] \in Skipping => i < Len(ops)
    BY <1>9 DEF Skipping
  <2> QED BY <2>1, <2>2, <2>3, <2>4, <2>5, <2>6 DEF OrderedOps
<1> QED BY <1>3, <1>6, <1>8, <1>9 DEF ProgramOf, Tools

LEMMA TailOrdered == ASSUME NEW s, Ordered(s), s # <<>> PROVE Ordered(Tail(s))
<1> DEFINE t == Tail(s)
<1>1. IsSeq(t) /\ Len(t) = Len(s) - 1 /\ \A i \in DOMAIN t : t[i] = s[i + 1] /\ i + 1 \in DOMAIN s
  BY SeqTail DEF Ordered
<1>2. Len(s) \in Nat /\ DOMAIN s = 1..Len(s) /\ DOMAIN t = 1..Len(t)
  BY <1>1, SeqShape DEF Ordered
<1> HIDE DEF t
<1>3. ASSUME NEW i \in DOMAIN t, i > 1, t[i].op = "post" PROVE t[i - 1].op = "fresh"
  <2>1. s[i + 1].op = "post" /\ i + 1 \in DOMAIN s /\ i + 1 > 1
    BY <1>1, <1>2, <1>3
  <2>2. s[(i + 1) - 1].op = "fresh"
    BY <2>1 DEF Ordered
  <2>3. i - 1 \in DOMAIN t /\ t[i - 1] = s[(i - 1) + 1]
    BY <1>1, <1>2, <1>3
  <2> QED BY <1>2, <2>2, <2>3
<1>4. ASSUME NEW i \in DOMAIN t, NEW j \in DOMAIN t, i < j
      PROVE  Stage(t[i]) < Stage(t[j]) \/ (Stage(t[i]) = 7 /\ Stage(t[j]) = 7)
  <2>1. i + 1 \in DOMAIN s /\ j + 1 \in DOMAIN s /\ i + 1 < j + 1
    BY <1>1, <1>2, <1>4
  <2> QED BY <1>1, <2>1 DEF Ordered
<1>5. ASSUME NEW i \in DOMAIN t, t[i].op \in Skipping PROVE i < Len(t)
  <2>1. i + 1 < Len(s)
    BY <1>1, <1>5 DEF Ordered
  <2> QED BY <1>1, <1>2, <2>1
<1>6. \A i \in DOMAIN t : /\ t[i] = Step(t[i].op, t[i].of)
                         /\ t[i].op = "post" => t[i].of \in {None, "notebook"}
  BY <1>1 DEF Ordered
<1> QED BY <1>1, <1>3, <1>4, <1>5, <1>6 DEF Ordered, t

LEMMA OrderedEmpty == Ordered(<<>>)
<1>1. <<>> \in Seq({None}) /\ DOMAIN <<>> = {}
  OBVIOUS
<1> QED BY <1>1, SeqOver DEF Ordered

LEMMA NotNotebook == None # "notebook" /\ None \notin Nat /\ \A c \in Callers : c # None
BY ToolsAssumption, ServerAssumption DEF ToolsAssumption, ServerAssumption

(* A step of a call is not the creation of a notebook before Joplin is asked. *)
LEMMA StepsOrdered ==
    ASSUME NEW ops, OrderedOps(ops)
    PROVE  /\ Ordered(Steps(ops))
           /\ Steps(ops) # <<>>
           /\ \A i \in DOMAIN Steps(ops) : Stage(Steps(ops)[i]) \in 3..6 => Steps(ops)[1].op = "lock"
           /\ Steps(ops)[1].op # "post" \/ Len(ops) = 0
<1> DEFINE s == Steps(ops)
<1>1. DOMAIN s = DOMAIN ops /\ s = [i \in DOMAIN ops |-> s[i]]
      /\ \A i \in DOMAIN ops : s[i].op = ops[i] /\ s[i].of = None /\ s[i] = Step(ops[i], None)
  BY DEF Steps, Step
<1>2. IsSeq(s)
  BY <1>1, SeqUpdate DEF OrderedOps
<1>3. Len(ops) \in Nat /\ DOMAIN ops = 1..Len(ops) /\ Len(ops) # 0 /\ DOMAIN s = 1..Len(s) /\ Len(s) \in Nat
  BY <1>2, SeqShape DEF OrderedOps
<1> HIDE DEF s
<1>4. Len(s) = Len(ops)
  BY <1>1, <1>3
<1>5. s # <<>>
  BY <1>2, <1>3, <1>4, SeqShape
<1>6. \A i \in DOMAIN s : Stage(s[i]) = StageOf(ops[i])
  BY <1>1, NotNotebook DEF Stage, Step
<1>7. Ordered(s)
  <2>1. ASSUME NEW i \in DOMAIN s, i > 1, s[i].op = "post" PROVE s[i - 1].op = "fresh"
    <3>1. i - 1 \in DOMAIN ops /\ ops[i - 1] = "fresh"
      BY <1>1, <1>3, <2>1 DEF OrderedOps
    <3> QED BY <1>1, <3>1
  <2> QED BY <1>1, <1>2, <1>4, <1>6, <2>1 DEF Ordered, OrderedOps
<1>8. ASSUME NEW i \in DOMAIN s, Stage(s[i]) \in 3..6 PROVE s[1].op = "lock"
  BY <1>1, <1>3, <1>6, <1>8 DEF OrderedOps
<1>9. s[1].op # "post"
  <2>1. ASSUME s[1].op = "post" PROVE FALSE
    <3>1. ops[1] = "post" /\ 1 \in DOMAIN ops
      BY <1>1, <1>3, <2>1
    <3> QED BY <3>1 DEF OrderedOps, StageOf
  <2> QED BY <2>1
<1> QED BY <1>5, <1>7, <1>8, <1>9 DEF s

----------------------------------------------------------------------------
(* What the tools keep true between their requests. A call that has posted    *)
(* its notebook finds nothing in it that a creation has put there, and a      *)
(* creation about to be posted has an identity that nobody can take while the *)
(* lock is held.                                                              *)
Unused(id) == \A i \in Ids : Alive(store[i]) => Identity(store[i]) # id

NewId(id) == (id[1] = "tag" /\ id[2] = None) \/ Unused(id)

PostId(e) ==
    IF e.todo[1].of = "notebook" THEN <<"notebook", None, e.req.box>>
    ELSE <<e.req.kind, e.parent, e.req.name>>

Virgin(p) ==
    /\ p \in Ids
    /\ \A i \in Ids : store[i].sure => store[i].parent # p

EntryOK(e) ==
    /\ DOMAIN e = Fields
    /\ Ordered(e.todo)
    /\ e.todo # <<>> => e.req \in Requests /\ e.answer = "none" /\ ~e.lost
    /\ e.parent \in Ids \cup {None}
    /\ e.answer \in Answers

Creation(c, e) ==
    /\ \A i \in DOMAIN e.todo : Stage(e.todo[i]) \in 3..6 => creating = c \/ e.todo[1].op = "lock"
    /\ e.todo # <<>> /\ e.todo[1].op = "post" => NewId(PostId(e))
    /\ e.wrote => \A i \in DOMAIN e.todo : Stage(e.todo[i]) <= 4 =>
         i = 1 /\ e.todo[1].op = "fresh" /\ Virgin(e.parent)

LateOK == \A w \in late : WriteOK(w) /\ (w.op = "post" => ~w.new.sure)

ToolsInv ==
    /\ StoreOK /\ Distinct /\ LateOK
    /\ creating \in Callers \cup {None}
    /\ DOMAIN call = Callers
    /\ \A c \in Callers : EntryOK(call[c]) /\ Creation(c, call[c])

----------------------------------------------------------------------------
(* How a step changes Joplin: a new object, or what KeepsIdentities allows.   *)
Grows(o) ==
    /\ IsSeq(store')
    /\ Ids' = Ids \cup {Len(store) + 1}
    /\ Len(store) + 1 \in Nat \ Ids
    /\ \A i \in Ids : store'[i] = store[i]
    /\ store'[Len(store) + 1] = o
    /\ ObjectOK(o) /\ o.status = "active"
    /\ o.sure => Unused(Identity(o))

LEMMA StoreKept ==
    ASSUME StoreOK, Distinct, KeepsIdentities \/ \E o : Grows(o)
    PROVE  StoreOK' /\ Distinct' /\ Ids \subseteq Ids' /\ \A w : WriteOK(w) => WriteOK(w)'
<1>1. Ids \subseteq Ids'
  BY DEF KeepsIdentities, Grows
<1>2. \A o : ObjectOK(o) => ObjectOK(o)'
  BY <1>1 DEF ObjectOK
<1>3. \A w : WriteOK(w) => WriteOK(w)'
  BY <1>2 DEF WriteOK
<1>4. CASE KeepsIdentities
  <2>1. StoreOK'
    BY <1>4 DEF KeepsIdentities, StoreOK, ObjectOK
  <2>2. Distinct'
    BY <1>4 DEF KeepsIdentities, Distinct
  <2> QED BY <1>1, <1>3, <2>1, <2>2
<1>5. ASSUME NEW o, Grows(o) PROVE StoreOK' /\ Distinct'
  <2> DEFINE n == Len(store) + 1
  <2>1. /\ Ids' = Ids \cup {n} /\ n \notin Ids /\ IsSeq(store')
        /\ \A i \in Ids : store'[i] = store[i]
        /\ store'[n] = o
    BY <1>5 DEF Grows
  <2> HIDE DEF n
  <2>2. StoreOK'
    <3>1. ASSUME NEW i \in Ids' PROVE ObjectOK(store[i])'
      <4>1. CASE i \in Ids
        BY <1>1, <2>1, <4>1 DEF StoreOK, ObjectOK
      <4>2. CASE i = n
        BY <1>1, <1>5, <2>1, <4>2 DEF Grows, ObjectOK
      <4> QED BY <2>1, <3>1, <4>1, <4>2
    <3> QED BY <1>1, <2>1, <3>1 DEF StoreOK, ObjectOK
  <2>3. ASSUME NEW i \in Ids', NEW j \in Ids', Alive(store'[i]), Alive(store'[j]),
               Identity(store'[i]) = Identity(store'[j])
        PROVE  i = j
    <3>1. o.sure => \A k \in Ids : Alive(store[k]) => Identity(store[k]) # Identity(o)
      BY <1>5 DEF Grows, Unused
    <3> QED BY <2>1, <2>3, <3>1 DEF Distinct, Alive
  <2> QED BY <2>2, <2>3 DEF Distinct
<1> QED BY <1>1, <1>3, <1>4, <1>5

(* A step of another caller, or a late write, leaves a call what it relies    *)
(* on: what would disturb a creation needs the lock, which the creation has.  *)
LEMMA OthersKeep ==
    ASSUME StoreOK, NEW d \in Callers, NEW e, EntryOK(e), Creation(d, e),
           creating = d => creating' = d,
           \/ KeepsIdentities
           \/ \E o : /\ Grows(o)
                     /\ creating = d /\ o.sure => o.kind = "tag" /\ o.parent = None
    PROVE  EntryOK(e)' /\ Creation(d, e)'
<1>1. Ids \subseteq Ids'
  BY DEF KeepsIdentities, Grows
<1>2. EntryOK(e)'
  BY <1>1 DEF EntryOK
<1>3. \A i \in DOMAIN e.todo : Stage(e.todo[i]) \in 3..6 => creating' = d \/ e.todo[1].op = "lock"
  BY DEF Creation
<1>4. e.todo # <<>> => 1 \in DOMAIN e.todo
  <2>1. IsSeq(e.todo)
    BY DEF EntryOK, Ordered
  <2> QED BY <2>1, SeqShape
<1>5. ASSUME e.todo # <<>>, e.todo[1].op = "post" PROVE NewId(PostId(e))'
  <2>1. Stage(e.todo[1]) \in 3..6
    BY <1>5 DEF Stage, StageOf
  <2>2. creating = d
    BY <1>4, <1>5, <2>1 DEF Creation
  <2>3. NewId(PostId(e))
    BY <1>5 DEF Creation
  <2> DEFINE id == PostId(e)
  <2>4. PostId(e)' = id
    BY DEF PostId
  <2>5. ASSUME Unused(id), ~(id[1] = "tag" /\ id[2] = None) PROVE Unused(id)'
    <3>1. CASE KeepsIdentities
      BY <2>5, <3>1 DEF KeepsIdentities, Unused
    <3>2. ASSUME NEW o, Grows(o), o.sure => o.kind = "tag" /\ o.parent = None PROVE Unused(id)'
      <4>1. Alive(o) => Identity(o) # id
        BY <2>5, <3>2 DEF Alive, Identity
      <4> HIDE DEF id
      <4> QED BY <2>5, <3>2, <4>1 DEF Grows, Unused
    <3> QED BY <2>2, <3>1, <3>2
  <2> HIDE DEF id
  <2>6. NewId(id)'
    BY <2>3, <2>5 DEF NewId, id
  <2> QED BY <2>6 DEF id, PostId, NewId, Unused
<1>6. ASSUME e.wrote, NEW i \in DOMAIN e.todo, Stage(e.todo[i]) <= 4
      PROVE  i = 1 /\ e.todo[1].op = "fresh" /\ Virgin(e.parent)'
  <2>1. i = 1 /\ e.todo[1].op = "fresh" /\ Virgin(e.parent)
    BY <1>6 DEF Creation
  <2>2. Stage(e.todo[1]) = 4
    BY <2>1 DEF Stage, StageOf, Step
  <2>3. creating = d
    BY <1>6, <2>1, <2>2 DEF Creation
  <2> DEFINE p == e.parent
  <2>4. p # None
    <3>1. DOMAIN store \subseteq Nat
      BY SeqShape DEF StoreOK
    <3> QED BY <2>1, <3>1, NotNotebook DEF Virgin, Ids
  <2>6. \A j \in Ids' : store'[j].sure => store'[j].parent # p
    <3>1. CASE KeepsIdentities
      BY <2>1, <3>1 DEF KeepsIdentities, Virgin
    <3>2. ASSUME NEW o, Grows(o), o.sure => o.parent # p
          PROVE  \A j \in Ids' : store'[j].sure => store'[j].parent # p
      BY <2>1, <3>2 DEF Grows, Virgin
    <3> QED BY <2>3, <2>4, <3>1, <3>2
  <2> QED BY <1>1, <2>1, <2>6 DEF Virgin
<1> QED BY <1>2, <1>3, <1>5, <1>6 DEF Creation

----------------------------------------------------------------------------
(* What a call sends: a creation under an identity nobody else has, by the    *)
(* holder of the lock; or a tag, which Joplin refuses when its title is taken.*)
LEMMA NewObject ==
    ASSUME NEW k, NEW n, NEW p \in Ids \cup {None}, StoreOK
    PROVE  ObjectOK(Object(k, n, p))
<1> DEFINE o == Object(k, n, p)
<1>1. DOMAIN o = ObjectFields /\ o.status = "active" /\ o.sure = TRUE /\ o.parent = p
  BY DEF Object, ObjectFields
<1> HIDE DEF o
<1>3. ObjectOK(o)
  BY <1>1 DEF ObjectOK, Statuses
<1> QED BY <1>3 DEF o

LEMMA NotTaken ==
    ASSUME NEW name, Named("tag", None, name) = {}
    PROVE  Unused(<<"tag", None, name>>)
BY DEF Named, Unused, Alive, Present

LEMMA FirstStep == ASSUME NEW s, Ordered(s), s # <<>> PROVE 1 \in DOMAIN s /\ Head(s) = s[1]
<1>1. IsSeq(s)
  BY DEF Ordered
<1>2. Len(s) \in Nat /\ Len(s) # 0 /\ DOMAIN s = 1..Len(s)
  BY <1>1, SeqShape
<1> QED BY <1>1, <1>2, HeadTailProperties DEF IsSeq

LEMMA RequestIsOK ==
    ASSUME ToolsInv, NEW c \in Callers, Writing(c), ~Taken(Request(c))
    PROVE  /\ WriteOK(Request(c))
           /\ Request(c).op = "post" =>
                /\ Request(c) = [op |-> "post", new |-> Request(c).new]
                /\ Request(c).new.sure => Unused(Identity(Request(c).new))
                /\ \/ creating = c
                   \/ Request(c).new.sure => Request(c).new.kind = "tag" /\ Request(c).new.parent = None
<1> DEFINE e == call[c]
           w == Request(c)
           step == e.todo[1]
<1> SUFFICES /\ WriteOK(w)
             /\ w.op = "post" =>
                  /\ w = [op |-> "post", new |-> w.new]
                  /\ w.new.sure => Unused(Identity(w.new))
                  /\ creating = c \/ (w.new.sure => w.new.kind = "tag" /\ w.new.parent = None)
  OBVIOUS
<1>1. /\ StoreOK /\ EntryOK(e) /\ Creation(c, e)
      /\ e.todo # <<>> /\ step = Head(e.todo) /\ 1 \in DOMAIN e.todo
      /\ step.op \in Writes /\ e.req \in Requests /\ e.parent \in Ids \cup {None}
  BY FirstStep DEF ToolsInv, EntryOK, Writing, Idle
<1>2. None \in Ids \cup {None} /\ None # "notebook"
  BY NotNotebook
<1>8. StoreOK
  BY <1>1
<1>3. ASSUME NEW kind, NEW name, NEW parent \in Ids \cup {None},
             w = [op |-> "post", new |-> Object(kind, name, parent)],
             Unused(<<kind, parent, name>>), creating = c \/ (parent = None /\ kind = "tag")
      PROVE  /\ WriteOK(w)
             /\ w.op = "post" =>
                  /\ w = [op |-> "post", new |-> w.new]
                  /\ w.new.sure => Unused(Identity(w.new))
                  /\ creating = c \/ (w.new.sure => w.new.kind = "tag" /\ w.new.parent = None)
  <2> DEFINE o == Object(kind, name, parent)
  <2>1. /\ ObjectOK(o) /\ o.status = "active" /\ o.kind = kind /\ o.parent = parent
        /\ Identity(o) = <<kind, parent, name>>
    <3>1. ObjectOK(o)
      BY <1>8, NewObject
    <3>2. /\ o.status = "active" /\ o.kind = kind /\ o.parent = parent /\ o.name = name
      BY DEF Object
    <3> HIDE DEF o
    <3> QED BY <3>1, <3>2 DEF Identity
  <2> HIDE DEF o
  <2>2. w.op = "post" /\ w.new = o
    BY <1>3 DEF o
  <2>3. w = [op |-> "post", new |-> w.new]
    BY <1>3
  <2> HIDE DEF w
  <2> QED BY <1>3, <2>1, <2>2, <2>3 DEF WriteOK
<1>4. CASE step.op = "post"
  <2>1. Stage(step) \in 3..6 /\ creating = c /\ NewId(PostId(e)) /\ step.of \in {None, "notebook"}
    <3>1. Stage(step) \in 3..6
      BY <1>4 DEF Stage, StageOf
    <3>2. creating = c
      BY <1>1, <1>4, <3>1 DEF Creation
    <3> QED BY <1>1, <1>4, <3>1, <3>2 DEF Creation, EntryOK, Ordered
  <2>2. ASSUME NEW kind, NEW parent, NEW name, PostId(e) = <<kind, parent, name>>,
               w = [op |-> "post", new |-> Object(kind, name, parent)], parent \in Ids \cup {None}
        PROVE  Unused(<<kind, parent, name>>)
    <3>1. CASE kind = "tag" /\ parent = None
      <4>1. w.op = "post" /\ w.new.kind = "tag" /\ w.new.name = name
        <5>1. parent \in Ids \cup {None}
          BY <2>2
        <5>2. Object(kind, name, parent).kind = kind /\ Object(kind, name, parent).name = name
          BY DEF Object
        <5> QED BY <2>2, <3>1, <5>2
      <4> HIDE DEF w
      <4>2. Named("tag", None, name) = {}
        BY <4>1 DEF Taken, w
      <4> QED BY <3>1, <4>2, NotTaken
    <3> QED BY <2>1, <2>2, <3>1 DEF NewId
  <2>3. CASE step.of = "notebook"
    <3>1. /\ w = [op |-> "post", new |-> Object("notebook", e.req.box, None)]
          /\ PostId(e) = <<"notebook", None, e.req.box>>
      <4>1. Head(e.todo).op = "post" /\ Head(e.todo).of = "notebook" /\ step.of = "notebook"
        BY <1>1, <1>4, <2>3
      <4>2. w = [op |-> "post", new |-> Object("notebook", e.req.box, None)]
        BY <1>2, <4>1 DEF Request, Req
      <4> QED BY <4>1, <4>2 DEF PostId
    <3> HIDE DEF w, e
    <3> QED BY <1>2, <1>3, <2>1, <2>2, <3>1
  <2>4. CASE step.of = None
    <3>1. /\ w = [op |-> "post", new |-> Object(e.req.kind, e.req.name, e.parent)]
          /\ PostId(e) = <<e.req.kind, e.parent, e.req.name>>
      BY <1>1, <1>2, <1>4, <2>4 DEF Request, Req, PostId
    <3> HIDE DEF w, e
    <3> QED BY <1>1, <1>3, <2>1, <2>2, <3>1
  <2> QED BY <2>1, <2>3, <2>4
<1>5. CASE step.op = "postTag"
  <2>1. w = [op |-> "post", new |-> Object("tag", step.of, None)]
    BY <1>1, <1>5 DEF Request
  <2>2. w.op = "post" /\ w.new.kind = "tag" /\ w.new.name = step.of
    <3>1. Object("tag", step.of, None).kind = "tag" /\ Object("tag", step.of, None).name = step.of
      BY DEF Object
    <3> QED BY <2>1, <3>1
  <2>3. Unused(<<"tag", None, step.of>>)
    <3> HIDE DEF w
    <3>1. Named("tag", None, step.of) = {}
      BY <2>2 DEF Taken, w
    <3> QED BY <3>1, NotTaken
  <2> HIDE DEF w, e
  <2> QED BY <1>2, <1>3, <2>1, <2>3
<1>6. CASE step.op = "upload"
  <2> DEFINE o == Object("resource", "file", None)
             u == [o EXCEPT !.sure = FALSE]
  <2>1. w = [op |-> "post", new |-> u]
    BY <1>1, <1>6 DEF Request
  <2>2. ObjectOK(o) /\ o.status = "active" /\ o.parent = None
    <3>1. ObjectOK(o)
      BY <1>2, <1>8, NewObject
    <3> QED BY <3>1 DEF Object
  <2> HIDE DEF o
  <2>3. ObjectOK(u) /\ u.status = "active" /\ u.parent = None /\ u.sure = FALSE
    BY <2>2 DEF ObjectOK, ObjectFields
  <2> HIDE DEF u
  <2>4. w.op = "post" /\ w.new = u /\ w = [op |-> "post", new |-> w.new]
    BY <2>1
  <2> HIDE DEF w
  <2> QED BY <2>3, <2>4 DEF WriteOK
<1>7. CASE step.op \notin {"post", "postTag", "upload"}
  <2>1. CASE step.op = "put"
    <3>1. w.op = "put"
      BY <1>1, <2>1 DEF Request
    <3> HIDE DEF w
    <3> QED BY <3>1 DEF WriteOK
  <2>2. CASE step.op # "put"
    <3>1. w.op = step.op
      BY <1>1, <1>7, <2>2 DEF Request
    <3> HIDE DEF w
    <3>2. w.op \in {"trash", "restore", "erase", "link", "unlink", "append"}
      BY <1>1, <1>7, <2>2, <3>1 DEF Writes
    <3> QED BY <3>2 DEF WriteOK
  <2> QED BY <2>1, <2>2
<1> QED BY <1>4, <1>5, <1>6, <1>7

(* Any write Joplin takes, late or not.                                       *)
LEMMA WriteChanges ==
    ASSUME StoreOK, NEW w, WriteOK(w), ~Taken(w), store' = Apply(w),
           w.op = "post" /\ w.new.sure => Unused(Identity(w.new))
    PROVE  \/ w.op # "post" /\ KeepsIdentities
           \/ w.op = "post" /\ Grows(w.new)
<1>1. CASE w.op # "post"
  BY <1>1, OtherWrites
<1>2. CASE w.op = "post"
  <2>1. Len(store) \in Nat
    BY SeqShape DEF StoreOK
  <2> QED BY <1>2, <2>1, Posts DEF Grows, WriteOK
<1> QED BY <1>1, <1>2

LEMMA NothingChanges == ASSUME StoreOK, UNCHANGED store PROVE KeepsIdentities
BY DEF StoreOK, ObjectOK, KeepsIdentities, Ids, Identity

----------------------------------------------------------------------------
(* The entry of the caller that takes a step.                                 *)
SelfOK(c) == \E f : call' = [call EXCEPT ![c] = f] /\ EntryOK(f)' /\ Creation(c, f)'

LockOK(c) ==
    /\ creating' \in Callers \cup {None}
    /\ \A d \in Callers \ {c} : creating = d => creating' = d

LEMMA Ended ==
    ASSUME NEW e, DOMAIN e = Fields, e.todo = <<>>, e.parent = None,
           e.answer \in Answers, NEW c
    PROVE  EntryOK(e)' /\ Creation(c, e)'
<1>2. Ordered(e.todo)
  BY OrderedEmpty
<1>3. DOMAIN e.todo = {}
  OBVIOUS
<1> QED BY <1>2, <1>3 DEF EntryOK, Creation

LEMMA AnsweredSelf ==
    ASSUME ToolsInv, NEW c \in Callers, NEW e, NEW verdict \in Answers, Answered(c, e, verdict)
    PROVE  SelfOK(c) /\ LockOK(c)
<1> DEFINE f == [NoCall EXCEPT !.wrote = e.wrote, !.lost = e.lost,
                    !.answer = IF Attaching(c) /\ verdict \notin {"ok", "internal"}
                               THEN "partial" ELSE verdict]
<1>1. call' = [call EXCEPT ![c] = f]
  BY DEF Answered
<1>2. /\ DOMAIN f = Fields /\ f.todo = <<>> /\ f.parent = None
      /\ f.wrote = e.wrote /\ f.lost = e.lost /\ f.answer \in {verdict, "partial"}
  BY DEF NoCall, Fields
<1>3. LockOK(c)
  BY NotNotebook DEF Answered, LockOK, ToolsInv
<1> HIDE DEF f
<1>4. ASSUME NEW g, g = f PROVE EntryOK(g)' /\ Creation(c, g)'
  <2>1. /\ DOMAIN g = Fields /\ g.todo = <<>> /\ g.parent = None
        /\ g.answer \in Answers
    BY <1>2, <1>4 DEF Answers
  <2> QED BY <2>1, Ended
<1>5. PICK g : g = f
  OBVIOUS
<1>6. EntryOK(g)' /\ Creation(c, g)'
  BY <1>4, <1>5
<1> QED BY <1>1, <1>3, <1>5, <1>6 DEF SelfOK

LEMMA GoesSelf ==
    ASSUME ToolsInv, NEW c \in Callers, NEW e, Goes(c, e),
           DOMAIN e = Fields, Ordered(e.todo), e.todo # <<>>, e.req \in Requests,
           e.answer = "none", ~e.lost, e.parent \in Ids' \cup {None},
           \A i \in DOMAIN e.todo : i > 1 /\ Stage(e.todo[i]) \in 3..6 => creating = c,
           2 \in DOMAIN e.todo /\ e.todo[2].op = "post" =>
             /\ e.todo[2].of # "notebook"
             /\ NewId(<<e.req.kind, e.parent, e.req.name>>)',
           e.wrote => \A i \in DOMAIN e.todo : i > 1 /\ Stage(e.todo[i]) <= 4 =>
             i = 2 /\ e.todo[2].op = "fresh" /\ Virgin(e.parent)'
    PROVE  SelfOK(c) /\ LockOK(c)
<1>1. CASE Len(e.todo) = 1
  BY <1>1, AnsweredSelf DEF Goes, Answers
<1>2. CASE Len(e.todo) # 1
  <2> DEFINE f == [e EXCEPT !.todo = Tail(@)]
             t == Tail(e.todo)
  <2>1. call' = [call EXCEPT ![c] = f] /\ creating' = creating
    BY <1>2 DEF Goes
  <2>2. /\ DOMAIN f = Fields /\ f.todo = t /\ f.req = e.req /\ f.answer = "none" /\ f.lost = e.lost
        /\ f.parent = e.parent /\ f.wrote = e.wrote
    BY DEF Fields
  <2>3. Ordered(t) /\ \A i \in DOMAIN t : t[i] = e.todo[i + 1] /\ i + 1 \in DOMAIN e.todo /\ i + 1 > 1 /\ i \in Nat
    <3>1. IsSeq(e.todo)
      BY DEF Ordered
    <3>2. IsSeq(t)
      BY <3>1, SeqTail
    <3>3. DOMAIN t = 1..Len(t) /\ Len(t) \in Nat
      BY <3>2, SeqShape
    <3> QED BY <3>1, <3>3, SeqTail, TailOrdered
  <2>4. t # <<>> => 1 \in DOMAIN t
    BY <2>3, FirstStep
  <2> HIDE DEF f, t
  <2>5. EntryOK(f)'
    BY <2>2, <2>3 DEF EntryOK, Answers
  <2>6. \A i \in DOMAIN t : Stage(t[i]) \in 3..6 => creating' = c
    BY <2>1, <2>3
  <2>7. ASSUME t # <<>>, t[1].op = "post" PROVE NewId(PostId(f))'
    <3>1. t[1] = e.todo[2] /\ 2 \in DOMAIN e.todo
      BY <2>3, <2>4, <2>7
    <3>2. PostId(f) = <<e.req.kind, e.parent, e.req.name>>
      BY <2>2, <2>7, <3>1 DEF PostId
    <3> DEFINE id == <<e.req.kind, e.parent, e.req.name>>
    <3>3. NewId(id)'
      BY <2>7, <3>1
    <3> HIDE DEF id
    <3>4. PostId(f) = id
      BY <3>2 DEF id
    <3> QED BY <3>3, <3>4
  <2>8. ASSUME f.wrote, NEW i \in DOMAIN t, Stage(t[i]) <= 4
        PROVE  i = 1 /\ t[1].op = "fresh" /\ Virgin(f.parent)'
    <3>1. i + 1 = 2 /\ e.todo[2].op = "fresh" /\ Virgin(e.parent)'
      BY <2>2, <2>3, <2>8
    <3> QED BY <2>2, <2>3, <2>8, <3>1
  <2>9. Creation(c, f)'
    BY <2>2, <2>6, <2>7, <2>8 DEF Creation
  <2>10. LockOK(c)
    BY <2>1 DEF LockOK, ToolsInv
  <2> QED BY <2>1, <2>5, <2>9, <2>10 DEF SelfOK
<1> QED BY <1>1, <1>2

(* The step is done and nothing but the rest of it remains; only "fresh" goes *)
(* before the creation, and nothing of it remains for the late steps.         *)
LEMMA GoesReading ==
    ASSUME ToolsInv, NEW c \in Callers, ~Idle(c), NEW e, Goes(c, e), UNCHANGED <<store, late>>,
           DOMAIN e = Fields, e.req = call[c].req, e.todo = call[c].todo, e.answer = call[c].answer,
           e.lost = call[c].lost, e.wrote = call[c].wrote,
           e.parent \in Ids \cup {None},
           e.todo[1].op # "lock",
           e.todo[1].op = "fresh" => NewId(<<e.req.kind, e.parent, e.req.name>>)
    PROVE  SelfOK(c) /\ LockOK(c)
<1>1. /\ EntryOK(call[c]) /\ Creation(c, call[c]) /\ e.todo # <<>>
      /\ Ordered(e.todo) /\ e.req \in Requests /\ e.answer = "none" /\ ~e.lost
  BY DEF ToolsInv, EntryOK, Idle
<1>2. 1 \in DOMAIN e.todo
  BY <1>1, FirstStep
<1>3. \A i \in DOMAIN e.todo : i > 1 /\ Stage(e.todo[i]) \in 3..6 => creating = c
  BY <1>1 DEF Creation
<1>4. ASSUME 2 \in DOMAIN e.todo, e.todo[2].op = "post"
      PROVE  e.todo[2].of # "notebook" /\ NewId(<<e.req.kind, e.parent, e.req.name>>)'
  <2>1. e.todo[2 - 1].op = "fresh"
    BY <1>1, <1>4 DEF Ordered
  <2>2. Stage(e.todo[1]) = 4
    BY <2>1 DEF Stage, StageOf, Step
  <2>3. Stage(e.todo[2]) # 3
    BY <1>1, <1>2, <1>4, <2>2 DEF Ordered
  <2>4. e.todo[2] = Step("post", e.todo[2].of)
    BY <1>1, <1>4 DEF Ordered
  <2>5. e.todo[2].of # "notebook"
    BY <2>3, <2>4 DEF Stage
  <2>6. NewId(<<e.req.kind, e.parent, e.req.name>>)
    BY <2>1
  <2> DEFINE id == <<e.req.kind, e.parent, e.req.name>>
  <2>7. NewId(id)
    BY <2>6
  <2> HIDE DEF id
  <2>8. NewId(id)'
    BY <2>7 DEF NewId, Unused, Ids
  <2> QED BY <2>5, <2>8 DEF id
<1>5. e.wrote => \A i \in DOMAIN e.todo : ~(i > 1 /\ Stage(e.todo[i]) <= 4)
  BY <1>1 DEF Creation
<1>6. Ids' = Ids
  BY DEF Ids
<1> QED BY <1>1, <1>3, <1>4, <1>5, <1>6, GoesSelf

AllLate(s) == Ordered(s) /\ \A i \in DOMAIN s : i > 1 => Stage(s[i]) = 7

LEMMA GoesLate ==
    ASSUME ToolsInv, NEW c \in Callers, NEW e, Goes(c, e), Ids \subseteq Ids', 
           DOMAIN e = Fields, AllLate(e.todo), e.todo # <<>>, e.req \in Requests, e.answer = "none", ~e.lost,
           e.parent \in Ids \cup {None}
    PROVE  SelfOK(c) /\ LockOK(c)
<1>1. \A i \in DOMAIN e.todo : i > 1 => Stage(e.todo[i]) = 7
  BY DEF AllLate
<1>2. 2 \in DOMAIN e.todo => e.todo[2].op # "post"
  BY <1>1 DEF Stage, StageOf
<1>3. \A i \in DOMAIN e.todo : ~(i > 1 /\ Stage(e.todo[i]) \in 3..6) /\ ~(i > 1 /\ Stage(e.todo[i]) <= 4)
  BY <1>1
<1>4. Ordered(e.todo) /\ e.parent \in Ids' \cup {None}
  BY DEF AllLate
<1> QED BY <1>2, <1>3, <1>4, GoesSelf

----------------------------------------------------------------------------
(* The requests that only read, and the lock.                                 *)
LEMMA AtFirst ==
    ASSUME ToolsInv, NEW c \in Callers, ~Idle(c)
    PROVE  /\ EntryOK(call[c]) /\ Creation(c, call[c]) /\ StoreOK
           /\ call[c].todo # <<>> /\ 1 \in DOMAIN call[c].todo /\ Head(call[c].todo) = call[c].todo[1]
           /\ Ordered(call[c].todo) /\ call[c].req \in Requests /\ call[c].answer = "none"
           /\ ~call[c].lost /\ call[c].parent \in Ids \cup {None}
           /\ DOMAIN call[c] = Fields
           /\ \A op : At(c, op) <=> call[c].todo[1].op = op
BY FirstStep DEF ToolsInv, EntryOK, Idle, At

LEMMA ReadSelf ==
    ASSUME ToolsInv, NEW c \in Callers, ~Idle(c), Goes(c, call[c]), UNCHANGED <<store, late>>,
           ~At(c, "lock"), At(c, "fresh") => NewId(<<call[c].req.kind, call[c].parent, call[c].req.name>>)
    PROVE  SelfOK(c) /\ LockOK(c)
<1> DEFINE e == call[c]
<1>1. /\ DOMAIN e = Fields /\ e.parent \in Ids \cup {None}
      /\ e.todo[1].op # "lock"
      /\ e.todo[1].op = "fresh" => NewId(<<e.req.kind, e.parent, e.req.name>>)
  BY AtFirst
<1>2. Goes(c, e) /\ e.req = call[c].req /\ e.todo = call[c].todo /\ e.answer = call[c].answer
      /\ e.lost = call[c].lost /\ e.wrote = call[c].wrote
  OBVIOUS
<1> HIDE DEF e
<1> QED BY <1>1, <1>2, GoesReading

LEMMA AnswerSelf ==
    ASSUME ToolsInv, NEW c \in Callers, NEW verdict \in Answers, Answer(c, verdict)
    PROVE  SelfOK(c) /\ LockOK(c)
BY AnsweredSelf DEF Answer

LEMMA SimpleReads ==
    ASSUME ToolsInv, NEW c \in Callers,
           Invalid(c) \/ Available(c) \/ CheckParent(c) \/ Require(c) \/ CheckStatus(c) \/ ReadFails(c) \/ Refused(c)
    PROVE  SelfOK(c) /\ LockOK(c) /\ UNCHANGED <<store, late>>
<1>1. ~Idle(c) /\ UNCHANGED <<store, late>>
  BY DEF Invalid, Available, CheckParent, Require, CheckStatus, ReadFails, Refused, Reads, Writing, At
<1>2. \/ \E verdict \in Answers : Answer(c, verdict)
      \/ Goes(c, call[c]) /\ ~At(c, "lock") /\ ~At(c, "fresh")
  <2>1. CASE Invalid(c) \/ ReadFails(c) \/ Refused(c)
    BY <2>1 DEF Invalid, ReadFails, Refused, Answers
  <2>2. CASE Available(c)
    BY <2>2 DEF Available, At
  <2>3. CASE CheckParent(c) \/ CheckStatus(c)
    BY <2>3 DEF CheckParent, CheckStatus, Answers, At
  <2>4. CASE Require(c)
    BY <2>4 DEF Require, Answers, At
  <2> QED BY <2>1, <2>2, <2>3, <2>4
<1> QED BY <1>1, <1>2, AnswerSelf, ReadSelf

(* A creation goes on when nobody has its identity.                           *)
LEMMA CheckFreshSelf ==
    ASSUME ToolsInv, NEW c \in Callers, CheckFresh(c)
    PROVE  SelfOK(c) /\ LockOK(c) /\ UNCHANGED <<store, late>>
<1>1. ~Idle(c) /\ At(c, "fresh") /\ UNCHANGED <<store, late>>
  BY DEF CheckFresh, Reads, At
<1> DEFINE e == call[c]
           found == Named(e.req.kind, e.parent, e.req.name)
<1>2. CASE found = {}
  <2>1. NewId(<<e.req.kind, e.parent, e.req.name>>)
    BY <1>2 DEF NewId, Unused, Named, Alive, Present
  <2>2. Goes(c, call[c]) /\ ~At(c, "lock")
    BY <1>1, <1>2 DEF CheckFresh, Req, At
  <2> QED BY <1>1, <2>1, <2>2, ReadSelf
<1>3. CASE found # {}
  <2>1. Answer(c, "exists")
    BY <1>3 DEF CheckFresh, Req
  <2> QED BY <1>1, <2>1, AnswerSelf DEF Answers
<1> QED BY <1>2, <1>3

LEMMA ReadNoteTagsSelf ==
    ASSUME ToolsInv, NEW c \in Callers, ReadNoteTags(c)
    PROVE  SelfOK(c) /\ LockOK(c) /\ UNCHANGED <<store, late>>
<1>1. ~Idle(c) /\ At(c, "noteTags") /\ UNCHANGED <<store, late>>
  BY DEF ReadNoteTags, Reads, At
<1>2. PICK e : e = [call[c] EXCEPT !.had = store[call[c].id].tags]
  OBVIOUS
<1>3. Goes(c, e)
  BY <1>2 DEF ReadNoteTags
<1>4. DOMAIN call[c] = Fields /\ call[c].parent \in Ids \cup {None} /\ call[c].todo[1].op = "noteTags"
  BY <1>1, AtFirst
<1>5. /\ DOMAIN e = Fields /\ e.req = call[c].req /\ e.todo = call[c].todo
      /\ e.answer = call[c].answer /\ e.lost = call[c].lost /\ e.wrote = call[c].wrote
      /\ e.parent = call[c].parent
  BY <1>2, <1>4 DEF Fields
<1> QED BY <1>1, <1>3, <1>4, <1>5, GoesReading

(* The lock is free or somebody else waits for it.                            *)
LEMMA LockSelf ==
    ASSUME ToolsInv, NEW c \in Callers, Lock(c) \/ Unlock(c)
    PROVE  SelfOK(c) /\ LockOK(c) /\ UNCHANGED <<store, late>>
<1>1. ~Idle(c) /\ UNCHANGED <<store, late>>
  BY DEF Lock, Unlock, At
<1>2. PICK e : e = call[c]
  OBVIOUS
<1>3. /\ EntryOK(e) /\ Creation(c, e) /\ StoreOK /\ e.todo # <<>> /\ 1 \in DOMAIN e.todo
      /\ Ordered(e.todo) /\ e.req \in Requests /\ e.answer = "none" /\ DOMAIN e = Fields
      /\ e.todo[1].op \in {"lock", "unlock"}
      /\ Lock(c) <=> e.todo[1].op = "lock"
  <2>1. Lock(c) => e.todo[1].op = "lock"
    BY <1>1, <1>2, AtFirst DEF Lock
  <2>2. Unlock(c) => e.todo[1].op = "unlock"
    BY <1>1, <1>2, AtFirst DEF Unlock
  <2> QED BY <1>1, <1>2, <2>1, <2>2, AtFirst
<1>4. PICK f : f = [e EXCEPT !.todo = Tail(@)]
  OBVIOUS
<1>5. /\ DOMAIN f = Fields /\ f.todo = Tail(e.todo) /\ f.req = e.req /\ f.answer = e.answer
      /\ f.lost = e.lost /\ f.parent = e.parent /\ f.wrote = e.wrote
  BY <1>3, <1>4 DEF Fields
<1>6. call' = [call EXCEPT ![c] = f]
  BY <1>2, <1>4 DEF Lock, Unlock, ToolsInv
<1> DEFINE s == e.todo
           t == Tail(s)
<1>7. Ordered(t) /\ \A i \in DOMAIN t : t[i] = s[i + 1] /\ i + 1 \in DOMAIN s /\ i + 1 > 1 /\ i \in Nat
  <2>1. IsSeq(s) /\ IsSeq(t)
    BY <1>3, SeqTail DEF Ordered
  <2>2. DOMAIN t = 1..Len(t) /\ Len(t) \in Nat
    BY <2>1, SeqShape
  <2> QED BY <1>3, <2>1, <2>2, SeqTail, TailOrdered
<1>8. t # <<>> => 1 \in DOMAIN t
  BY <1>7, FirstStep
<1>9. t # <<>> => t[1].op # "post"
  <2> SUFFICES ASSUME t # <<>>, t[1].op = "post" PROVE FALSE
    OBVIOUS
  <2>1. s[2].op = "post" /\ 2 \in DOMAIN s
    BY <1>7, <1>8
  <2>2. Ordered(s)
    BY <1>3
  <2>3. s[1].op \in {"lock", "unlock"}
    BY <1>3
  <2> HIDE DEF s, t
  <2>4. DOMAIN s = 1..Len(s) /\ Len(s) \in Nat
    BY <2>2, SeqShape DEF Ordered
  <2>5. s[1].op = "fresh"
    BY <2>1, <2>2, <2>4 DEF Ordered
  <2> QED BY <2>3, <2>5
<1>10. Stage(s[1]) = 1 \/ Stage(s[1]) = 6
  BY <1>3 DEF Stage, StageOf, Step
<1>11. e.wrote => \A i \in DOMAIN t : ~(Stage(t[i]) <= 4)
  <2> SUFFICES ASSUME e.wrote, NEW i \in DOMAIN t, Stage(t[i]) <= 4 PROVE FALSE
    OBVIOUS
  <2>1. i + 1 \in DOMAIN s /\ Stage(s[i + 1]) <= 4 /\ i + 1 # 1
    BY <1>7
  <2> QED BY <1>3, <2>1 DEF Creation
<1>12. \A i \in DOMAIN t : Stage(t[i]) \in 3..6 => creating' = c
  <2>1. CASE Lock(c)
    BY <2>1 DEF Lock
  <2>2. CASE Unlock(c)
    <3>0. s[1].op = "unlock"
      BY <2>2, <1>1, <1>2, AtFirst DEF Unlock
    <3>1. Stage(s[1]) = 6
      BY <3>0 DEF Stage, StageOf, Step
    <3> QED BY <1>3, <1>7, <3>1 DEF Ordered
  <2> QED BY <2>1, <2>2
<1>13. LockOK(c)
  <2>1. CASE Lock(c)
    BY <2>1, NotNotebook DEF Lock, LockOK, ToolsInv
  <2>2. CASE Unlock(c)
    <3>1. Stage(s[1]) \in 3..6 /\ s[1].op # "lock"
      BY <2>2, <1>1, <1>2, <1>3, AtFirst DEF Unlock, Stage, StageOf, Step
    <3>2. creating = c
      BY <1>3, <3>1 DEF Creation
    <3> QED BY <2>2, <3>2 DEF Unlock, LockOK
  <2> QED BY <2>1, <2>2
<1> HIDE DEF s, t
<1>14. f.todo = t
  BY <1>5 DEF t, s
<1>15. EntryOK(f)'
  BY <1>1, <1>3, <1>5, <1>7, <1>14 DEF EntryOK, Ids
<1>16. Creation(c, f)'
  BY <1>5, <1>9, <1>11, <1>12, <1>14 DEF Creation
<1> QED BY <1>1, <1>6, <1>13, <1>15, <1>16 DEF SelfOK

----------------------------------------------------------------------------
(* The sequences that requests make of the rest of a call.                    *)
LEMMA Prepend ==
    ASSUME NEW s, IsSeq(s), s # <<>>, NEW x
    PROVE  /\ IsSeq(<<x>> \o Tail(s)) /\ <<x>> \o Tail(s) # <<>>
           /\ DOMAIN (<<x>> \o Tail(s)) = DOMAIN s
           /\ Len(<<x>> \o Tail(s)) = Len(s)
           /\ (<<x>> \o Tail(s))[1] = x
           /\ \A i \in DOMAIN s : i > 1 => (<<x>> \o Tail(s))[i] = s[i]
<1> DEFINE t == Tail(s)
           o == <<x>>
           u == o \o t
<1>1. o \in Seq({x}) /\ Len(o) = 1 /\ DOMAIN o = {1} /\ o[1] = x
  OBVIOUS
<1>2. IsSeq(o)
  BY <1>1, SeqOver
<1>3. IsSeq(t) /\ Len(t) = Len(s) - 1 /\ \A i \in DOMAIN t : t[i] = s[i + 1] /\ i + 1 \in DOMAIN s
  BY SeqTail
<1>4. Len(s) \in Nat /\ Len(s) # 0 /\ DOMAIN s = 1..Len(s) /\ DOMAIN t = 1..Len(t)
  BY <1>3, SeqShape
<1> HIDE DEF t, o
<1>5. /\ IsSeq(u) /\ Len(u) = Len(o) + Len(t)
      /\ \A i \in DOMAIN u : \/ i \in DOMAIN o /\ u[i] = o[i]
                             \/ i > Len(o) /\ i - Len(o) \in DOMAIN t /\ u[i] = t[i - Len(o)]
  BY <1>2, <1>3, SeqConcat
<1>6. DOMAIN u = 1..Len(u) /\ (u = <<>> <=> Len(u) = 0)
  BY <1>5, SeqShape
<1> HIDE DEF u
<1>7. Len(u) = Len(s) /\ DOMAIN u = DOMAIN s /\ u # <<>> /\ u[1] = x
  BY <1>1, <1>3, <1>4, <1>5, <1>6
<1>8. \A i \in DOMAIN s : i > 1 => u[i] = s[i]
  <2> SUFFICES ASSUME NEW i \in DOMAIN s, i > 1 PROVE u[i] = s[i]
    OBVIOUS
  <2>1. u[i] = t[i - 1] /\ i - 1 \in DOMAIN t
    BY <1>1, <1>4, <1>5, <1>7
  <2>2. t[i - 1] = s[(i - 1) + 1]
    BY <1>3, <2>1
  <2> QED BY <1>4, <2>1, <2>2
<1> QED BY <1>5, <1>7, <1>8 DEF u, o, t

(* Steps of the last stage that skip nothing.                                 *)
Extra(s) ==
    /\ IsSeq(s)
    /\ \A i \in DOMAIN s : s[i] = Step(s[i].op, s[i].of) /\ Stage(s[i]) = 7 /\ s[i].op \notin Skipping

LEMMA NonEmpty == ASSUME NEW s, NEW t, IsSeq(s), IsSeq(t), s # <<>> PROVE s \o t # <<>>
<1>1. IsSeq(s \o t) /\ Len(s \o t) = Len(s) + Len(t)
  BY SeqConcat
<1>2. Len(s) \in Nat /\ Len(s) # 0 /\ Len(t) \in Nat
  BY SeqShape
<1>3. Len(s \o t) # 0
  BY <1>1, <1>2
<1> QED BY <1>1, <1>3, SeqShape

LEMMA ExtraConcat ==
    ASSUME NEW s, NEW t, Extra(s), Extra(t), s # <<>>
    PROVE  Extra(s \o t) /\ s \o t # <<>>
<1> DEFINE u == s \o t
<1>1. /\ IsSeq(u)
      /\ \A i \in DOMAIN u : \/ i \in DOMAIN s /\ u[i] = s[i]
                             \/ i > Len(s) /\ i - Len(s) \in DOMAIN t /\ u[i] = t[i - Len(s)]
  BY SeqConcat DEF Extra
<1>2. u # <<>>
  BY NonEmpty DEF Extra
<1> HIDE DEF u
<1>3. Extra(u)
  BY <1>1 DEF Extra
<1> QED BY <1>2, <1>3 DEF u

LEMMA StageLate == \A step : Stage(step) = 7 => step.op # "post"
BY DEF Stage, StageOf

LEMMA ExtraThen ==
    ASSUME NEW s, NEW t, Extra(s), Ordered(t), \A i \in DOMAIN t : Stage(t[i]) = 7
    PROVE  AllLate(s \o t)
<1> DEFINE u == s \o t
<1>1. /\ IsSeq(u) /\ Len(u) = Len(s) + Len(t)
      /\ \A i \in DOMAIN u : \/ i \in DOMAIN s /\ u[i] = s[i]
                             \/ i > Len(s) /\ i - Len(s) \in DOMAIN t /\ u[i] = t[i - Len(s)]
  BY SeqConcat DEF Extra, Ordered
<1>2. Len(s) \in Nat /\ Len(t) \in Nat /\ DOMAIN t = 1..Len(t)
  BY SeqShape DEF Extra, Ordered
<1>3. DOMAIN u = 1..Len(u) /\ Len(u) \in Nat
  BY <1>1, SeqShape
<1> HIDE DEF u
<1>4. \A i \in DOMAIN u : Stage(u[i]) = 7 /\ u[i] = Step(u[i].op, u[i].of)
  BY <1>1 DEF Extra, Ordered
<1>5. \A i \in DOMAIN u : u[i].op # "post"
  BY <1>4, StageLate
<1>6. ASSUME NEW i \in DOMAIN u, u[i].op \in Skipping PROVE i < Len(u)
  <2>1. i > Len(s) /\ i - Len(s) \in DOMAIN t /\ t[i - Len(s)].op \in Skipping
    BY <1>1, <1>6 DEF Extra
  <2>2. i - Len(s) < Len(t)
    BY <2>1 DEF Ordered
  <2> QED BY <1>1, <1>2, <1>3, <2>2
<1>7. AllLate(u)
  BY <1>1, <1>4, <1>5, <1>6 DEF AllLate, Ordered
<1> QED BY <1>7 DEF u

LEMMA ExtraOne == ASSUME NEW x, x = Step(x.op, x.of), Stage(x) = 7, x.op \notin Skipping PROVE Extra(<<x>>)
<1>1. <<x>> \in Seq({x}) /\ \A i \in DOMAIN <<x>> : <<x>>[i] = x
  OBVIOUS
<1> QED BY <1>1, SeqOver DEF Extra

LEMMA ExtraEach ==
    ASSUME NEW S, IsFiniteSet(S), NEW op \in {"postTag", "link", "unlink"}
    PROVE  Extra(SetToSeq({Step(op, x) : x \in S}))
<1> DEFINE T == {Step(op, x) : x \in S}
           s == SetToSeq(T)
<1>1. s \in Seq(T)
  BY FiniteImage, SetToSeqOf
<1>2. IsSeq(s) /\ \A i \in DOMAIN s : s[i] \in T
  BY <1>1, SeqOver, LenProperties
<1>3. ASSUME NEW step \in T PROVE step = Step(step.op, step.of) /\ Stage(step) = 7 /\ step.op \notin Skipping
  <2>1. PICK x : step = Step(op, x)
    BY <1>3
  <2>2. step.op = op /\ step.of = x
    BY <2>1 DEF Step
  <2>3. step # Step("post", "notebook")
    BY <2>2 DEF Step
  <2> QED BY <2>1, <2>2, <2>3 DEF Stage, StageOf, Skipping
<1> HIDE DEF s, T
<1>4. Extra(s)
  BY <1>2, <1>3 DEF Extra
<1> QED BY <1>4 DEF s, T

LEMMA LateTail ==
    ASSUME NEW s, Ordered(s), s # <<>>, Stage(s[1]) = 7
    PROVE  /\ AllLate(s)
           /\ Ordered(Tail(s)) /\ \A i \in DOMAIN Tail(s) : Stage(Tail(s)[i]) = 7
           /\ s[1].op \in Skipping => Tail(s) # <<>>
<1>1. IsSeq(s) /\ Ordered(Tail(s)) /\ Len(s) \in Nat /\ DOMAIN s = 1..Len(s) /\ Len(s) # 0
  BY TailOrdered, SeqShape DEF Ordered
<1>2. \A i \in DOMAIN s : Stage(s[i]) = 7
  <2> SUFFICES ASSUME NEW i \in DOMAIN s PROVE Stage(s[i]) = 7
    OBVIOUS
  <2>1. CASE i = 1
    BY <2>1
  <2>2. CASE i > 1
    <3>1. Stage(s[1]) < Stage(s[i]) \/ Stage(s[i]) = 7
      BY <1>1, <2>2 DEF Ordered
    <3>2. Stage(s[i]) \in 1..7
      BY StageType DEF Stage
    <3> QED BY <3>1, <3>2
  <2> QED BY <1>1, <2>1, <2>2
<1>3. \A i \in DOMAIN Tail(s) : Stage(Tail(s)[i]) = 7
  BY <1>1, <1>2, SeqTail
<1>4. ASSUME s[1].op \in Skipping PROVE Tail(s) # <<>>
  <2>1. 1 < Len(s)
    BY <1>1, <1>4 DEF Ordered
  <2>2. IsSeq(Tail(s)) /\ Len(Tail(s)) = Len(s) - 1
    BY <1>1, SeqTail
  <2>3. Len(Tail(s)) # 0
    BY <1>1, <2>1, <2>2
  <2> QED BY <2>2, <2>3, SeqShape
<1> QED BY <1>1, <1>2, <1>3, <1>4 DEF AllLate

----------------------------------------------------------------------------
(* The notebook of a note: found, or to be created as nobody has its title.   *)
LEMMA FindNotebookSelf ==
    ASSUME ToolsInv, NEW c \in Callers, FindNotebook(c)
    PROVE  SelfOK(c) /\ LockOK(c) /\ UNCHANGED <<store, late>>
<1>1. ~Idle(c) /\ At(c, "notebook") /\ UNCHANGED <<store, late>>
  BY DEF FindNotebook, Reads, At
<1>2. PICK e : e = call[c]
  OBVIOUS
<1> DEFINE found == Named("notebook", None, e.req.box)
<1>3. /\ EntryOK(e) /\ Creation(c, e) /\ StoreOK /\ e.todo # <<>> /\ 1 \in DOMAIN e.todo
      /\ Ordered(e.todo) /\ e.req \in Requests /\ e.answer = "none" /\ DOMAIN e = Fields
      /\ e.todo[1].op = "notebook"
  BY <1>1, <1>2, AtFirst
<1>4. \/ found = {} /\ call' = [call EXCEPT ![c].todo = <<Step("post", "notebook")>> \o Tail(@)]
                    /\ UNCHANGED creating
      \/ \E i \in found : Goes(c, [e EXCEPT !.parent = i])
      \/ Answer(c, "domain")
  BY <1>2 DEF FindNotebook, Req
<1>5. CASE Answer(c, "domain")
  BY <1>1, <1>5, AnswerSelf DEF Answers
<1>6. ASSUME NEW i \in found, Goes(c, [e EXCEPT !.parent = i]) PROVE SelfOK(c) /\ LockOK(c)
  <2>1. PICK f : f = [e EXCEPT !.parent = i]
    OBVIOUS
  <2>2. /\ DOMAIN f = Fields /\ f.req = e.req /\ f.todo = e.todo /\ f.answer = e.answer
        /\ f.lost = e.lost /\ f.wrote = e.wrote /\ f.parent = i
    BY <1>3, <2>1 DEF Fields
  <2>3. i \in Ids
    BY <1>6 DEF Named
  <2>4. Goes(c, f) /\ f.todo[1].op = "notebook"
    BY <1>3, <1>6, <2>1, <2>2
  <2> QED BY <1>1, <1>2, <2>2, <2>3, <2>4, GoesReading
<1>7. ASSUME found = {}, call' = [call EXCEPT ![c].todo = <<Step("post", "notebook")>> \o Tail(@)],
             UNCHANGED creating
      PROVE  SelfOK(c) /\ LockOK(c)
  <2> DEFINE s == e.todo
             u == <<Step("post", "notebook")>> \o Tail(s)
  <2>1. PICK f : f = [e EXCEPT !.todo = u]
    OBVIOUS
  <2>2. /\ DOMAIN f = Fields /\ f.req = e.req /\ f.todo = u /\ f.answer = e.answer
        /\ f.lost = e.lost /\ f.wrote = e.wrote /\ f.parent = e.parent
    BY <1>3, <2>1 DEF Fields
  <2>3. call' = [call EXCEPT ![c] = f]
    BY <1>2, <1>7, <2>1 DEF ToolsInv
  <2>4. Ordered(s) /\ s # <<>> /\ 1 \in DOMAIN s /\ s[1].op = "notebook"
    BY <1>3
  <2>5. /\ IsSeq(u) /\ u # <<>> /\ DOMAIN u = DOMAIN s /\ Len(u) = Len(s)
        /\ u[1] = Step("post", "notebook")
        /\ \A i \in DOMAIN s : i > 1 => u[i] = s[i]
        /\ Len(s) \in Nat /\ DOMAIN s = 1..Len(s)
    BY <2>4, Prepend, SeqShape DEF Ordered
  <2>6. Stage(s[1]) = 3
    BY <2>4 DEF Stage, StageOf, Step
  <2>7. creating = c /\ ~e.wrote
    <3>1. s[1].op \notin {"lock", "fresh"} /\ Stage(s[1]) \in 3..6 /\ Stage(s[1]) <= 4
      BY <2>4, <2>6
    <3> QED BY <1>3, <3>1 DEF Creation
  <2> HIDE DEF s, u
  <2>8. /\ Stage(u[1]) = 3 /\ u[1].op = "post" /\ u[1].of = "notebook"
    BY <2>5 DEF Stage, Step
  <2>9. \A i \in DOMAIN u : i > 1 => (Stage(u[i]) > 3 /\ Stage(u[i]) \in 1..7 /\ u[i].op # "post") \/ i > 2
    <3> SUFFICES ASSUME NEW i \in DOMAIN u, i = 2
                 PROVE  Stage(u[i]) > 3 /\ Stage(u[i]) \in 1..7 /\ u[i].op # "post"
      BY <2>5
    <3>1. u[2] = s[2] /\ 2 \in DOMAIN s /\ 1 \in DOMAIN s
      BY <2>5
    <3>2. Stage(s[2]) > 3 /\ Stage(s[2]) \in 1..7
      BY <2>4, <2>6, <3>1, StageType DEF Ordered, Stage
    <3>3. s[2].op = "post" => s[1].op = "fresh"
      BY <2>4, <2>5, <3>1 DEF Ordered
    <3> QED BY <2>4, <3>1, <3>2, <3>3
  <2>10. Ordered(u)
    <3>1. ASSUME NEW i \in DOMAIN u, NEW j \in DOMAIN u, i < j
          PROVE  Stage(u[i]) < Stage(u[j]) \/ (Stage(u[i]) = 7 /\ Stage(u[j]) = 7)
      <4>1. u[j] = s[j] /\ j \in DOMAIN s /\ i \in DOMAIN s /\ (i > 1 => u[i] = s[i])
        BY <2>5, <3>1
      <4>2. Stage(s[i]) < Stage(s[j]) \/ (Stage(s[i]) = 7 /\ Stage(s[j]) = 7)
        BY <2>4, <3>1, <4>1 DEF Ordered
      <4>3. i = 1 => Stage(u[i]) = Stage(s[i])
        BY <2>6, <2>8
      <4> QED BY <2>5, <4>1, <4>2, <4>3
    <3>2. ASSUME NEW i \in DOMAIN u, i > 1, u[i].op = "post" PROVE u[i - 1].op = "fresh"
      <4>1. i > 2 /\ s[i].op = "post" /\ i \in DOMAIN s /\ u[i - 1] = s[i - 1]
        BY <2>5, <2>9, <3>2
      <4> QED BY <2>4, <2>5, <4>1 DEF Ordered
    <3>3. ASSUME NEW i \in DOMAIN u
          PROVE  /\ u[i] = Step(u[i].op, u[i].of)
                 /\ u[i].op = "post" => u[i].of \in {None, "notebook"}
                 /\ u[i].op \in Skipping => i < Len(u)
      <4>1. CASE i = 1
        BY <2>5, <2>8, <4>1 DEF Skipping
      <4>2. CASE i > 1
        BY <2>4, <2>5, <4>2 DEF Ordered
      <4> QED BY <2>5, <4>1, <4>2
    <3> QED BY <2>5, <3>1, <3>2, <3>3 DEF Ordered
  <2>11. EntryOK(f)'
    BY <1>1, <1>3, <2>2, <2>10 DEF EntryOK, Ids
  <2>12. NewId(PostId(f))'
    <3>1. PICK id : id = <<"notebook", None, e.req.box>>
      OBVIOUS
    <3>2. PostId(f) = id
      BY <2>2, <2>8, <3>1 DEF PostId
    <3>3. NewId(id)'
      BY <1>1, <1>7, <3>1 DEF NewId, Unused, Named, Alive, Present, Ids
    <3> QED BY <3>2, <3>3
  <2>13. Creation(c, f)'
    BY <1>7, <2>2, <2>7, <2>12 DEF Creation
  <2>14. LockOK(c)
    BY <1>7 DEF LockOK, ToolsInv
  <2> QED BY <2>3, <2>11, <2>13, <2>14 DEF SelfOK
<1> QED BY <1>1, <1>4, <1>5, <1>6, <1>7

(* The tags: what follows are steps of the last stage.                        *)
LEMMA CheckTaggedSelf ==
    ASSUME ToolsInv, NEW c \in Callers, CheckTagged(c)
    PROVE  SelfOK(c) /\ LockOK(c) /\ UNCHANGED <<store, late>>
<1>1. ~Idle(c) /\ UNCHANGED <<store, late>> /\ (At(c, "unlessTagged") \/ At(c, "ifTagged"))
      /\ (Goes(c, call[c]) \/ Goes(c, [call[c] EXCEPT !.todo = Tail(@)]))
  BY DEF CheckTagged, Reads, At
<1>2. PICK e : e = call[c]
  OBVIOUS
<1>3. /\ e.todo # <<>> /\ Ordered(e.todo) /\ e.req \in Requests /\ e.answer = "none"
      /\ DOMAIN e = Fields /\ ~e.lost /\ e.parent \in Ids \cup {None}
      /\ e.todo[1].op \in Skipping
  BY <1>1, <1>2, AtFirst DEF Skipping
<1>4. Stage(e.todo[1]) = 7
  BY <1>3 DEF Skipping, Stage, StageOf, Step
<1>5. CASE Goes(c, call[c])
  <2>1. ~At(c, "lock") /\ ~At(c, "fresh")
    BY <1>1 DEF At
  <2> QED BY <1>1, <1>5, <2>1, ReadSelf
<1>6. CASE Goes(c, [call[c] EXCEPT !.todo = Tail(@)])
  <2>1. PICK f : f = [e EXCEPT !.todo = Tail(@)]
    OBVIOUS
  <2>2. /\ DOMAIN f = Fields /\ f.req = e.req /\ f.todo = Tail(e.todo) /\ f.answer = e.answer
        /\ f.lost = e.lost /\ f.parent = e.parent
    BY <1>3, <2>1 DEF Fields
  <2>3. f.todo # <<>> /\ AllLate(f.todo)
    BY <1>3, <1>4, <2>2, LateTail DEF AllLate
  <2>4. Goes(c, f) /\ Ids \subseteq Ids'
    BY <1>1, <1>2, <1>6, <2>1 DEF Ids
  <2> QED BY <1>1, <1>3, <2>2, <2>3, <2>4, GoesLate
<1> QED BY <1>1, <1>5, <1>6

LEMMA PlanTagsSelf ==
    ASSUME ToolsInv, NEW c \in Callers, PlanTags(c)
    PROVE  SelfOK(c) /\ LockOK(c) /\ UNCHANGED <<store, late>>
<1>1. ~Idle(c) /\ UNCHANGED <<store, late>> /\ At(c, "allTags")
  BY DEF PlanTags, Reads, At
<1>2. PICK e : e = call[c]
  OBVIOUS
<1>3. /\ e.todo # <<>> /\ Ordered(e.todo) /\ e.req \in Requests /\ e.answer = "none"
      /\ DOMAIN e = Fields /\ ~e.lost /\ e.parent \in Ids \cup {None} /\ StoreOK
      /\ e.todo[1].op = "allTags" /\ Head(e.todo) = e.todo[1] /\ 1 \in DOMAIN e.todo
  BY <1>1, <1>2, AtFirst
<1>4. Stage(e.todo[1]) = 7 /\ e.todo[1].op \notin Skipping
  BY <1>3 DEF Skipping, Stage, StageOf, Step
<1> DEFINE tags  == {i \in Ids : store[i].kind = "tag" /\ Present(i)}
           add   == {n \in e.req.tags : ~\E i \in e.had : store[i].name = n}
           known == {i \in tags : store[i].name \in add}
           new   == {n \in add : ~\E i \in known : store[i].name = n}
           drop  == {i \in Ids : i \in e.had /\ store[i].name \notin e.req.tags}
           Each(op, S) == SetToSeq({Step(op, x) : x \in S})
           extra == (((<<Head(e.todo)>> \o Each("postTag", new)) \o Each("link", known)) \o Each("unlink", drop))
<1>5. Goes(c, [e EXCEPT !.todo = extra \o Tail(@)])
  BY <1>2 DEF PlanTags, Req
<1>6. IsFiniteSet(new) /\ IsFiniteSet(known) /\ IsFiniteSet(drop)
  <2>1. IsFiniteSet(e.req.tags)
    BY <1>3, ToolsAssumption DEF ToolsAssumption
  <2>2. IsFiniteSet(Ids)
    <3>1. Ids = 1..Len(store) /\ Len(store) \in Nat
      BY <1>3, SeqShape DEF StoreOK, Ids
    <3> QED BY <3>1, FS_Interval
  <2>3. new \subseteq e.req.tags /\ known \subseteq Ids /\ drop \subseteq Ids
    OBVIOUS
  <2> HIDE DEF new, known, drop
  <2> QED BY <2>1, <2>2, <2>3, FS_Subset
<1> HIDE DEF new, known, drop
<1>7. Extra(Each("postTag", new)) /\ Extra(Each("link", known)) /\ Extra(Each("unlink", drop))
  BY <1>6, ExtraEach
<1>8. Extra(<<Head(e.todo)>>) /\ <<Head(e.todo)>> # <<>>
  <2>1. e.todo[1] = Step(e.todo[1].op, e.todo[1].of)
    BY <1>3 DEF Ordered
  <2> QED BY <1>3, <1>4, <2>1, ExtraOne
<1> HIDE DEF Each
<1>9. Extra(extra) /\ extra # <<>>
  BY <1>7, <1>8, ExtraConcat
<1> HIDE DEF extra
<1>10. PICK f : f = [e EXCEPT !.todo = extra \o Tail(@)]
  OBVIOUS
<1>11. /\ DOMAIN f = Fields /\ f.req = e.req /\ f.todo = extra \o Tail(e.todo) /\ f.answer = e.answer
       /\ f.lost = e.lost /\ f.parent = e.parent
  BY <1>3, <1>10 DEF Fields
<1>12. AllLate(f.todo)
  BY <1>3, <1>4, <1>9, <1>11, LateTail, ExtraThen, ZenonT(60)
<1>13. f.todo # <<>>
  <2>1. IsSeq(extra) /\ IsSeq(Tail(e.todo))
    BY <1>3, <1>9, TailOrdered DEF Extra, Ordered
  <2> QED BY <1>9, <1>11, <2>1, NonEmpty
<1>14. Goes(c, f) /\ Ids \subseteq Ids'
  BY <1>1, <1>5, <1>10 DEF Ids
<1> QED BY <1>1, <1>3, <1>11, <1>12, <1>13, <1>14, GoesLate

----------------------------------------------------------------------------
(* What a step of a call does to Joplin, and to the writes on their way.      *)
Effect(c) ==
    /\ \/ KeepsIdentities
       \/ \E o : Grows(o) /\ (creating = c \/ (o.sure => o.kind = "tag" /\ o.parent = None))
    /\ \A w \in late' : w \in late \/ (WriteOK(w) /\ (w.op = "post" => ~w.new.sure))

LEMMA ApplyEffect ==
    ASSUME ToolsInv, NEW c \in Callers, Writing(c), ~Taken(Request(c)), store' = Apply(Request(c)),
           UNCHANGED late
    PROVE  Effect(c) /\ (Request(c).op = "post" => Grows(Request(c).new))
<1>1. PICK w : w = Request(c)
  OBVIOUS
<1>2. /\ WriteOK(w) /\ StoreOK
      /\ w.op = "post" => /\ w.new.sure => Unused(Identity(w.new))
                          /\ creating = c \/ (w.new.sure => w.new.kind = "tag" /\ w.new.parent = None)
  BY <1>1, RequestIsOK DEF ToolsInv
<1>3. \/ w.op # "post" /\ KeepsIdentities
      \/ w.op = "post" /\ Grows(w.new)
  BY <1>1, <1>2, WriteChanges
<1> QED BY <1>1, <1>2, <1>3 DEF Effect

(* A write that is answered.                                                  *)
LEMMA WriteSelf ==
    ASSUME ToolsInv, NEW c \in Callers, Write(c)
    PROVE  SelfOK(c) /\ LockOK(c) /\ Effect(c)
<1>1. /\ Writing(c) /\ ~Idle(c) /\ ~Taken(Request(c)) /\ store' = Apply(Request(c)) /\ UNCHANGED late
  BY DEF Write, Writing
<1>2. Effect(c) /\ (Request(c).op = "post" => Grows(Request(c).new))
  BY <1>1, ApplyEffect
<1>3. Ids \subseteq Ids'
  BY <1>2 DEF Effect, KeepsIdentities, Grows
<1> DEFINE s == call[c].todo
           new == Len(store) + 1
<1>4. PICK e : e = [call[c] EXCEPT !.wrote = TRUE]
  OBVIOUS
<1>5. /\ EntryOK(call[c]) /\ Creation(c, call[c]) /\ StoreOK /\ s # <<>> /\ 1 \in DOMAIN s
      /\ Head(s) = s[1] /\ Ordered(s) /\ call[c].req \in Requests /\ call[c].answer = "none"
      /\ ~call[c].lost /\ call[c].parent \in Ids \cup {None} /\ DOMAIN call[c] = Fields
      /\ s[1].op \in Writes /\ s[1] = Step(s[1].op, s[1].of)
  BY <1>1, AtFirst DEF Writing, Ordered
<1>6. /\ DOMAIN e = Fields /\ e.req = call[c].req /\ e.todo = s /\ e.answer = call[c].answer
      /\ e.lost = call[c].lost /\ e.parent = call[c].parent /\ e.id = call[c].id
  BY <1>4, <1>5 DEF Fields
<1>7. \/ s[1] = Step("post", "notebook") /\ Goes(c, [e EXCEPT !.parent = new])
      \/ s[1] = Step("post", None) /\ Goes(c, [e EXCEPT !.id = new])
      \/ s[1].op = "postTag" /\ Goes(c, [e EXCEPT !.todo = <<Head(@), Step("link", new)>> \o Tail(@)])
      \/ s[1].op # "post" /\ Goes(c, e)
  <2>1. s[1].op = "post" => s[1].of \in {None, "notebook"}
    BY <1>5 DEF Ordered
  <2>2. s[1].op = "post" => s[1] = Step("post", "notebook") \/ s[1] = Step("post", None)
    BY <1>5, <2>1
  <2>3. Goes(c, CASE s[1] = Step("post", "notebook") -> [e EXCEPT !.parent = new]
                  [] s[1] = Step("post", None)       -> [e EXCEPT !.id = new]
                  [] s[1].op = "postTag" ->
                       [e EXCEPT !.todo = <<Head(@), Step("link", new)>> \o Tail(@)]
                  [] OTHER -> e)
    BY <1>4, <1>5 DEF Write
  <2>4. Step("post", "notebook") # Step("post", None) /\ Step("post", "notebook").op = "post"
        /\ Step("post", None).op = "post"
    BY NotNotebook DEF Step
  <2> HIDE DEF s, new
  <2>5. CASE s[1] = Step("post", "notebook")
    BY <2>3, <2>4, <2>5
  <2>6. CASE s[1] = Step("post", None)
    BY <2>3, <2>4, <2>6
  <2>7. CASE s[1].op = "postTag"
    BY <2>3, <2>4, <2>7
  <2>8. CASE s[1].op \notin {"post", "postTag"}
    BY <2>3, <2>4, <2>8
  <2> QED BY <2>2, <2>5, <2>6, <2>7, <2>8
<1>8. s[1].op # "post" => Stage(s[1]) = 7
  BY <1>5 DEF Stage, StageOf, Step, Writes
<1>9. CASE s[1].op # "post" /\ Goes(c, e)
  <2>1. AllLate(s)
    BY <1>5, <1>8, <1>9, LateTail
  <2> HIDE DEF s
  <2> QED BY <1>2, <1>3, <1>5, <1>6, <1>9, <2>1, GoesLate
<1>10. CASE s[1].op = "postTag" /\ Goes(c, [e EXCEPT !.todo = <<Head(@), Step("link", new)>> \o Tail(@)])
  <2>1. PICK f : f = [e EXCEPT !.todo = <<Head(@), Step("link", new)>> \o Tail(@)]
    OBVIOUS
  <2> DEFINE x == Step("link", new)
  <2>2. /\ DOMAIN f = Fields /\ f.req = e.req /\ f.answer = e.answer
        /\ f.lost = e.lost /\ f.parent = e.parent
        /\ f.todo = <<Head(s), x>> \o Tail(s)
    BY <1>6, <2>1 DEF Fields
  <2>3. Extra(<<Head(s), x>>) /\ <<Head(s), x>> # <<>>
    <3>1. x = Step(x.op, x.of) /\ Stage(x) = 7 /\ x.op \notin Skipping
      BY DEF Step, Stage, StageOf, Skipping
    <3>2. s[1].op \notin Skipping
      BY <1>10 DEF Skipping
    <3> HIDE DEF x
    <3>3. \A y : <<y, x>> \in Seq({y, x}) /\ \A i \in DOMAIN <<y, x>> : <<y, x>>[i] \in {y, x}
      OBVIOUS
    <3>4. IsSeq(<<Head(s), x>>)
      BY <3>3, SeqOver
    <3> QED BY <1>5, <1>8, <1>10, <3>1, <3>2, <3>3, <3>4 DEF Extra
  <2>4. AllLate(f.todo) /\ f.todo # <<>>
    <3>1. Ordered(Tail(s)) /\ \A i \in DOMAIN Tail(s) : Stage(Tail(s)[i]) = 7
      BY <1>5, <1>8, <1>10, LateTail
    <3>2. IsSeq(Tail(s)) /\ IsSeq(<<Head(s), x>>)
      BY <2>3, <3>1 DEF Ordered, Extra
    <3> HIDE DEF x, s
    <3> QED BY <2>2, <2>3, <3>1, <3>2, ExtraThen, NonEmpty
  <2>5. Goes(c, f)
    BY <1>10, <2>1
  <2> HIDE DEF s, x
  <2> QED BY <1>2, <1>3, <1>5, <1>6, <2>2, <2>4, <2>5, GoesLate
<1>11. ASSUME s[1].op = "post", Stage(s[1]) \in {3, 5}
       PROVE  /\ creating = c
              /\ ~(2 \in DOMAIN s /\ s[2].op = "post")
              /\ \A i \in DOMAIN s : i > 1 => Stage(s[i]) > Stage(s[1])
  <2>1. creating = c
    BY <1>5, <1>11 DEF Creation
  <2>2. DOMAIN s = 1..Len(s) /\ Len(s) \in Nat /\ Ordered(s)
    BY <1>5, SeqShape DEF Ordered
  <2> HIDE DEF s
  <2>3. ~(2 \in DOMAIN s /\ s[2].op = "post")
    BY <1>11, <2>2 DEF Ordered
  <2>4. \A i \in DOMAIN s : i > 1 => Stage(s[i]) > Stage(s[1])
    <3> SUFFICES ASSUME NEW i \in DOMAIN s, i > 1 PROVE Stage(s[i]) > Stage(s[1])
      OBVIOUS
    <3>1. Stage(s[1]) < Stage(s[i])
      BY <1>5, <1>11, <2>2 DEF Ordered
    <3>2. Stage(s[i]) \in 1..7
      BY StageType DEF Stage
    <3> QED BY <1>11, <3>1, <3>2
  <2> QED BY <2>1, <2>3, <2>4
<1>12. CASE s[1] = Step("post", None) /\ Goes(c, [e EXCEPT !.id = new])
  <2>1. PICK f : f = [e EXCEPT !.id = new]
    OBVIOUS
  <2>2. /\ DOMAIN f = Fields /\ f.req = e.req /\ f.answer = e.answer
        /\ f.lost = e.lost /\ f.parent = e.parent /\ f.todo = s /\ Goes(c, f)
    BY <1>6, <1>12, <2>1 DEF Fields
  <2>3. s[1].op = "post" /\ Stage(s[1]) = 5
    BY <1>12, NotNotebook DEF Stage, StageOf, Step
  <2>4. /\ creating = c
        /\ ~(2 \in DOMAIN s /\ s[2].op = "post")
        /\ \A i \in DOMAIN s : ~(i > 1 /\ Stage(s[i]) <= 4)
    <3>1. Stage(s[1]) \in {3, 5}
      BY <2>3
    <3>2. /\ creating = c
          /\ ~(2 \in DOMAIN s /\ s[2].op = "post")
          /\ \A i \in DOMAIN s : i > 1 => Stage(s[i]) > Stage(s[1])
      BY <1>11, <2>3, <3>1
    <3> HIDE DEF s
    <3>3. \A i \in DOMAIN s : Stage(s[i]) \in 1..7
      BY StageType DEF Stage
    <3> QED BY <2>3, <3>2, <3>3
  <2> HIDE DEF s, new
  <2>5. SelfOK(c) /\ LockOK(c)
    BY <1>3, <1>5, <1>6, <2>2, <2>4, GoesSelf
  <2> QED BY <1>2, <2>5
<1>13. CASE s[1] = Step("post", "notebook") /\ Goes(c, [e EXCEPT !.parent = new])
  <2>1. PICK f : f = [e EXCEPT !.parent = new]
    OBVIOUS
  <2>2. /\ DOMAIN f = Fields /\ f.req = e.req /\ f.answer = e.answer
        /\ f.lost = e.lost /\ f.parent = new /\ f.todo = s /\ Goes(c, f)
    BY <1>6, <1>13, <2>1 DEF Fields
  <2>3. s[1].op = "post" /\ Stage(s[1]) = 3
    BY <1>13 DEF Stage, StageOf, Step
  <2>4. /\ creating = c
        /\ ~(2 \in DOMAIN s /\ s[2].op = "post")
        /\ \A i \in DOMAIN s : i > 1 => Stage(s[i]) > 3
    <3>1. Stage(s[1]) \in {3, 5}
      BY <2>3
    <3>2. /\ creating = c
          /\ ~(2 \in DOMAIN s /\ s[2].op = "post")
          /\ \A i \in DOMAIN s : i > 1 => Stage(s[i]) > Stage(s[1])
      BY <1>11, <2>3, <3>1
    <3> HIDE DEF s
    <3> QED BY <2>3, <3>2
  <2>5. PICK o : /\ Grows(o) /\ o.parent = None
    <3>1. Request(c) = [op |-> "post", new |-> Object("notebook", Req(c).box, None)]
      <4>1. Head(call[c].todo).op = "post" /\ Head(call[c].todo).of = "notebook"
        BY <1>5, <1>13 DEF Step
      <4> QED BY <4>1, NotNotebook DEF Request
    <3>2. Request(c).op = "post" /\ Request(c).new.parent = None
      BY <3>1 DEF Object
    <3> QED BY <1>2, <3>2
  <2>6. PICK p : p = new
    OBVIOUS
  <2>7. Virgin(p)'
    <3>1. Ids' = Ids \cup {p} /\ p \in Nat \ Ids /\ store'[p].parent = None
          /\ \A i \in Ids : store'[i] = store[i]
      BY <2>5, <2>6 DEF Grows
    <3>2. p # None
      BY <3>1, NotNotebook
    <3>3. \A i \in Ids : store[i].sure => store[i].parent # p
      BY <1>5, <3>1, <3>2 DEF StoreOK, ObjectOK
    <3> QED BY <3>1, <3>2, <3>3 DEF Virgin
  <2>8. \A i \in DOMAIN s : i > 1 /\ Stage(s[i]) <= 4 => i = 2 /\ s[2].op = "fresh"
    <3> SUFFICES ASSUME NEW i \in DOMAIN s, i > 1, Stage(s[i]) <= 4 PROVE i = 2 /\ s[2].op = "fresh"
      OBVIOUS
    <3>1. Stage(s[i]) \in 1..7 /\ Stage(s[i]) = 4
      BY <2>4, StageType DEF Stage
    <3>2. s[i].op = "fresh"
      <4>1. StageOf(s[i].op) = 4
        BY <3>1 DEF Stage
      <4> QED BY <4>1, StageOfFresh
    <3>3. DOMAIN s = 1..Len(s) /\ Len(s) \in Nat
      BY <1>5, SeqShape DEF Ordered
    <3>4. ASSUME i > 2 PROVE FALSE
      <4>1. 2 \in DOMAIN s /\ Stage(s[2]) > 3 /\ Stage(s[2]) \in 1..7
        BY <2>4, <3>3, <3>4, StageType DEF Stage
      <4>2. Stage(s[2]) < Stage(s[i])
        BY <1>5, <3>1, <3>4, <4>1 DEF Ordered
      <4> QED BY <3>1, <4>1, <4>2
    <3> QED BY <3>2, <3>3, <3>4
  <2>9. f.parent \in Ids' \cup {None}
    BY <2>2, <2>5 DEF Grows
  <2>10. f.parent = p
    BY <2>2, <2>6
  <2> HIDE DEF s, new
  <2>11. Virgin(f.parent)'
    BY <2>7, <2>10
  <2>12. SelfOK(c) /\ LockOK(c)
    BY <1>5, <1>6, <2>2, <2>4, <2>8, <2>9, <2>11, GoesSelf
  <2> QED BY <1>2, <2>12
<1> QED BY <1>7, <1>9, <1>10, <1>12, <1>13

(* A write whose answer is lost, applied, lost with it, or still on its way.  *)
LEMMA LostSelf ==
    ASSUME ToolsInv, NEW c \in Callers, Lost(c)
    PROVE  SelfOK(c) /\ LockOK(c) /\ Effect(c)
<1>1. Writing(c) /\ StoreOK
  BY DEF Lost, LostAnswer, ToolsInv
<1>2. SelfOK(c) /\ LockOK(c)
  <2>1. PICK verdict \in {"ambiguous", "internal"} :
          Answered(c, [call[c] EXCEPT !.lost = TRUE], verdict)
    BY DEF Lost, LostAnswer
  <2> QED BY <2>1, AnsweredSelf DEF Answers
<1>3. CASE ~Taken(Request(c)) /\ store' = Apply(Request(c)) /\ UNCHANGED late
  BY <1>1, <1>2, <1>3, ApplyEffect
<1>4. CASE UNCHANGED <<store, late>>
  BY <1>1, <1>2, <1>4, NothingChanges DEF Effect
<1>5. CASE ~Taken(Request(c)) /\ late' = late \cup {Unsure(Request(c))} /\ UNCHANGED store
  <2>1. PICK w : w = Request(c)
    OBVIOUS
  <2>2. /\ WriteOK(w)
        /\ w.op = "post" =>
             /\ w = [op |-> "post", new |-> w.new]
             /\ w.new.sure => Unused(Identity(w.new))
             /\ creating = c \/ (w.new.sure => w.new.kind = "tag" /\ w.new.parent = None)
    BY <1>1, <1>5, <2>1, RequestIsOK
  <2> DEFINE u == Unsure(w)
  <2>3. WriteOK(u) /\ (u.op = "post" => ~u.new.sure)
    <3>1. CASE w.op # "post"
      BY <2>2, <3>1 DEF Unsure
    <3>2. CASE w.op = "post"
      <4> DEFINE o == w.new
                 v == [o EXCEPT !.sure = FALSE]
      <4>1. u = [w EXCEPT !.new.sure = FALSE]
        BY <3>2 DEF Unsure
      <4>2. u.op = "post" /\ u.new = v
        BY <2>2, <3>2, <4>1
      <4>3. ObjectOK(o) /\ o.status = "active"
        BY <2>2, <3>2 DEF WriteOK
      <4>4. ObjectOK(v) /\ v.status = "active" /\ v.sure = FALSE /\ v.parent = o.parent
        BY <4>3 DEF ObjectOK, ObjectFields
      <4> HIDE DEF u, v
      <4> QED BY <2>2, <3>2, <4>2, <4>4 DEF WriteOK
    <3> QED BY <3>1, <3>2
  <2>4. late' = late \cup {u}
    BY <1>5, <2>1
  <2> HIDE DEF u
  <2>5. Effect(c)
    BY <1>1, <1>5, <2>3, <2>4, NothingChanges DEF Effect
  <2> QED BY <1>2, <2>5
<1> QED BY <1>1, <1>3, <1>4, <1>5 DEF Lost, LostAnswer

LEMMA CallStepSelf ==
    ASSUME ToolsInv, NEW c \in Callers, CallStep(c)
    PROVE  SelfOK(c) /\ LockOK(c) /\ Effect(c)
<1>1. ASSUME UNCHANGED <<store, late>> PROVE Effect(c)
  BY <1>1, NothingChanges DEF Effect, ToolsInv
<1>2. CASE Write(c) \/ Lost(c)
  BY <1>2, WriteSelf, LostSelf
<1>3. CASE Invalid(c) \/ Available(c) \/ CheckParent(c) \/ Require(c) \/ CheckStatus(c) \/ ReadFails(c) \/ Refused(c)
  BY <1>1, <1>3, SimpleReads
<1>4. CASE Lock(c) \/ Unlock(c)
  BY <1>1, <1>4, LockSelf
<1>5. CASE CheckFresh(c) \/ ReadNoteTags(c)
  BY <1>1, <1>5, CheckFreshSelf, ReadNoteTagsSelf
<1>6. CASE FindNotebook(c) \/ CheckTagged(c) \/ PlanTags(c)
  BY <1>1, <1>6, FindNotebookSelf, CheckTaggedSelf, PlanTagsSelf
<1> QED BY <1>2, <1>3, <1>4, <1>5, <1>6 DEF CallStep, Progress

----------------------------------------------------------------------------
(* The invariant of the tools under every step of the server.                 *)
LEMMA SelfKeeps ==
    ASSUME ToolsInv, NEW c \in Callers, SelfOK(c), LockOK(c), Effect(c)
    PROVE  ToolsInv'
<1>1. PICK f : call' = [call EXCEPT ![c] = f] /\ EntryOK(f)' /\ Creation(c, f)'
  BY DEF SelfOK
<1>2. /\ StoreOK /\ Distinct /\ LateOK /\ DOMAIN call = Callers
      /\ \A d \in Callers : EntryOK(call[d]) /\ Creation(d, call[d])
  BY DEF ToolsInv
<1>3. StoreOK' /\ Distinct' /\ Ids \subseteq Ids' /\ \A w : WriteOK(w) => WriteOK(w)'
  BY <1>2, StoreKept DEF Effect
<1>4. LateOK'
  BY <1>2, <1>3 DEF Effect, LateOK
<1>5. ASSUME NEW d \in Callers, d # c, NEW e, e = call[d] PROVE EntryOK(e)' /\ Creation(d, e)'
  <2>1. creating = d => creating' = d /\ creating # c
    BY <1>5 DEF LockOK
  <2>3. \/ KeepsIdentities
        \/ \E o : Grows(o) /\ (creating = d /\ o.sure => o.kind = "tag" /\ o.parent = None)
    BY <2>1 DEF Effect
  <2>5. EntryOK(e) /\ Creation(d, e)
    BY <1>2, <1>5
  <2> QED BY <1>2, <2>1, <2>3, <2>5, OthersKeep
<1>6. ASSUME NEW d \in Callers PROVE EntryOK(call[d])' /\ Creation(d, call[d])'
  <2>1. CASE d = c
    <3>1. call'[d] = f
      BY <1>1, <1>2, <2>1
    <3> QED BY <1>1, <2>1, <3>1 DEF EntryOK, Creation
  <2>2. CASE d # c
    <3>1. PICK e : e = call[d]
      OBVIOUS
    <3>2. call'[d] = e
      BY <1>1, <1>2, <2>2, <3>1
    <3>3. EntryOK(e)' /\ Creation(d, e)'
      BY <1>5, <2>2, <3>1
    <3> QED BY <3>2, <3>3 DEF EntryOK, Creation
  <2> QED BY <2>1, <2>2
<1>7. DOMAIN call' = Callers
  BY <1>1, <1>2
<1> QED BY <1>3, <1>4, <1>6, <1>7 DEF ToolsInv, LockOK

(* A write that its client has given up is unsure, whatever it is.            *)
LEMMA LandKeeps ==
    ASSUME ToolsInv, Land
    PROVE  ToolsInv' /\ (KeepsIdentities \/ \E o : Grows(o) /\ ~o.sure)
<1>1. /\ StoreOK /\ Distinct /\ LateOK /\ DOMAIN call = Callers
      /\ \A d \in Callers : EntryOK(call[d]) /\ Creation(d, call[d])
  BY DEF ToolsInv
<1>2. PICK w \in late : /\ late' = late \ {w}
                        /\ store' = IF Taken(w) THEN store ELSE Apply(w)
                        /\ UNCHANGED <<creating, call, faults>>
  BY DEF Land
<1>3. WriteOK(w) /\ (w.op = "post" => ~w.new.sure)
  BY <1>1, <1>2 DEF LateOK
<1>4. KeepsIdentities \/ (w.op = "post" /\ Grows(w.new))
  <2>1. CASE Taken(w)
    BY <1>1, <1>2, <2>1, NothingChanges
  <2>2. CASE ~Taken(w)
    BY <1>1, <1>2, <1>3, <2>2, WriteChanges
  <2> QED BY <2>1, <2>2
<1>5. StoreOK' /\ Distinct' /\ Ids \subseteq Ids' /\ \A v : WriteOK(v) => WriteOK(v)'
  BY <1>1, <1>4, StoreKept
<1>6. LateOK'
  BY <1>1, <1>2, <1>5 DEF LateOK
<1>7. ASSUME NEW d \in Callers, NEW e, e = call[d] PROVE EntryOK(e)' /\ Creation(d, e)'
  <2>2. \/ KeepsIdentities
        \/ \E o : Grows(o) /\ (creating = d /\ o.sure => o.kind = "tag" /\ o.parent = None)
    BY <1>3, <1>4
  <2>3. creating' = creating
    BY <1>2
  <2>4. EntryOK(e) /\ Creation(d, e)
    BY <1>1, <1>7
  <2> QED BY <1>1, <2>2, <2>3, <2>4, OthersKeep
<1>8. ASSUME NEW d \in Callers PROVE EntryOK(call[d])' /\ Creation(d, call[d])'
  <2>1. PICK e : e = call[d]
    OBVIOUS
  <2>2. call'[d] = e /\ EntryOK(e)' /\ Creation(d, e)'
    BY <1>2, <1>7, <2>1
  <2> QED BY <2>2 DEF EntryOK, Creation
<1>9. ToolsInv'
  BY <1>1, <1>2, <1>5, <1>6, <1>8 DEF ToolsInv
<1> QED BY <1>3, <1>4, <1>9

(* A call begins and ends as the tools expect it.                             *)
LEMMA AskSelf ==
    ASSUME ToolsInv, NEW c \in Callers, NEW r \in Requests, Ask(c, r), UNCHANGED <<store, late, creating>>
    PROVE  ToolsInv'
<1>1. PICK f : f = [NoCall EXCEPT !.req = r, !.todo = Steps(ProgramOf(r)), !.id = r.id, !.parent = r.parent]
  OBVIOUS
<1>2. /\ DOMAIN f = Fields /\ f.req = r /\ f.todo = Steps(ProgramOf(r)) /\ f.parent = r.parent
      /\ f.answer = "none" /\ f.lost = FALSE /\ f.wrote = FALSE
  BY <1>1 DEF NoCall, Fields
<1>3. r.tool \in Tools /\ r.parent \in Ids \cup {None}
  BY ToolsAssumption DEF ToolsAssumption, Ask
<1>4. OrderedOps(ProgramOf(r)) /\ Len(ProgramOf(r)) # 0
  <2>1. OrderedOps(ProgramOf(r))
    BY <1>3, ProgramsAreOrdered
  <2> QED BY <2>1, SeqShape DEF OrderedOps
<1>5. /\ Ordered(f.todo) /\ f.todo # <<>> /\ f.todo[1].op # "post"
      /\ \A i \in DOMAIN f.todo : Stage(f.todo[i]) \in 3..6 => f.todo[1].op = "lock"
  BY <1>2, <1>4, StepsOrdered
<1>6. EntryOK(f)'
  BY <1>2, <1>3, <1>5 DEF EntryOK, Answers, Ids
<1>7. Creation(c, f)'
  BY <1>2, <1>5 DEF Creation
<1>8. SelfOK(c) /\ LockOK(c)
  BY <1>1, <1>6, <1>7 DEF SelfOK, LockOK, Ask, ToolsInv
<1>9. Effect(c)
  BY NothingChanges DEF Effect, ToolsInv
<1> QED BY <1>8, <1>9, SelfKeeps

LEMMA RespondSelf == ASSUME ToolsInv, NEW c \in Callers, Respond(c) PROVE ToolsInv'
<1>1. call' = [call EXCEPT ![c] = NoCall] /\ UNCHANGED <<store, late, creating>>
  BY DEF Respond
<1>2. /\ DOMAIN NoCall = Fields /\ NoCall.todo = <<>> /\ NoCall.parent = None
      /\ NoCall.answer = "none"
  BY DEF NoCall, Fields
<1>3. EntryOK(NoCall)' /\ Creation(c, NoCall)'
  BY <1>2, Ended DEF Answers
<1>4. SelfOK(c) /\ LockOK(c)
  BY <1>1, <1>3 DEF SelfOK, LockOK, ToolsInv
<1>5. Effect(c)
  BY <1>1, NothingChanges DEF Effect, ToolsInv
<1> QED BY <1>4, <1>5, SelfKeeps

LEMMA ToolsInvInit == Init => ToolsInv
<1> SUFFICES ASSUME Init PROVE ToolsInv
  OBVIOUS
<1>1. /\ store = Known /\ late = {} /\ creating = None /\ call = [c \in Callers |-> NoCall]
  BY DEF Init, ToolsInit
<1>2. \A i \in DOMAIN Known : Known[i] \in ToSet(Known)
  BY DEF ToSet
<1>3. StoreOK
  BY <1>1, <1>2, ToolsAssumption DEF ToolsAssumption, StoreOK, IsSeq, Ids, ObjectOK
<1>4. Distinct
  BY <1>1, ToolsAssumption DEF ToolsAssumption, Distinct, Ids, Alive
<1>5. LateOK
  BY <1>1 DEF LateOK
<1>6. ASSUME NEW c \in Callers PROVE EntryOK(NoCall) /\ Creation(c, NoCall)
  <2>1. /\ DOMAIN NoCall = Fields /\ NoCall.todo = <<>> /\ NoCall.parent = None
        /\ NoCall.answer = "none"
    BY DEF NoCall, Fields
  <2>2. DOMAIN NoCall.todo = {}
    BY <2>1
  <2> QED BY <2>1, <2>2, OrderedEmpty DEF EntryOK, Creation, Answers
<1> QED BY <1>1, <1>3, <1>4, <1>5, <1>6 DEF ToolsInv

(* Everything a thread does besides its calls.                                *)
Transport(c) ==
    \/ Arrive(c) \/ Admit(c) \/ TurnAway(c) \/ NoThread(c) \/ Close(c)
    \/ McpUnauthorized(c) \/ McpUnread(c) \/ McpAnswered(c) \/ TakePermit(c)
    \/ ActionUnauthorized(c) \/ ActionUnread(c) \/ ActionAnswered(c)

LEMMA ToolsUnchanged ==
    ASSUME ToolsInv, UNCHANGED <<store, late, creating, call>>
    PROVE  ToolsInv'
BY DEF ToolsInv, StoreOK, ObjectOK, Distinct, LateOK, WriteOK, EntryOK, Creation, NewId, Unused,
       Virgin, Ids, Identity

LEMMA TransportTools ==
    ASSUME NEW c \in Callers, Transport(c)
    PROVE  UNCHANGED <<store, late, creating, call>>
BY DEF Transport, Arrive, Admit, TurnAway, NoThread, Close, McpUnauthorized, McpUnread, McpAnswered,
       McpRequest, TakePermit, ActionUnauthorized, ActionUnread, ActionAnswered, toolVars

LEMMA ToolsInvStep == ToolsInv /\ [Next]_vars => ToolsInv'
<1> SUFFICES ASSUME ToolsInv, [Next]_vars PROVE ToolsInv'
  OBVIOUS
<1>1. ASSUME NEW c \in Callers, Transport(c) PROVE ToolsInv'
  BY <1>1, TransportTools, ToolsUnchanged
<1>2. ASSUME NEW c \in Callers, McpCall(c) \/ ActionCall(c) PROVE ToolsInv'
  BY <1>2, AskSelf DEF McpCall, ActionCall
<1>3. ASSUME NEW c \in Callers, Respond(c) PROVE ToolsInv'
  BY <1>3, RespondSelf
<1>4. ASSUME NEW c \in Callers, Call(c) PROVE ToolsInv'
  BY <1>4, CallStepSelf, SelfKeeps DEF Call
<1>5. CASE Land
  BY <1>5, LandKeeps
<1>6. CASE UNCHANGED vars
  BY <1>6, ToolsUnchanged DEF vars, toolVars
<1> QED BY <1>1, <1>2, <1>3, <1>4, <1>5, <1>6 DEF Next, Transport

(* Only the look for objects of its identity answers a creation with them.    *)
LEMMA AnswerIs ==
    ASSUME DOMAIN call = Callers, NEW c \in Callers, NEW e, NEW verdict, Answered(c, e, verdict)
    PROVE  /\ call'[c].answer \in {verdict, "partial"}
           /\ call'[c].wrote = e.wrote /\ call'[c].lost = e.lost
<1> DEFINE f == [NoCall EXCEPT !.wrote = e.wrote, !.lost = e.lost,
                    !.answer = IF Attaching(c) /\ verdict \notin {"ok", "internal"}
                               THEN "partial" ELSE verdict]
<1>1. call' = [call EXCEPT ![c] = f]
  BY DEF Answered
<1>2. f.wrote = e.wrote /\ f.lost = e.lost /\ f.answer \in {verdict, "partial"}
  BY DEF NoCall
<1> HIDE DEF f
<1> QED BY <1>1, <1>2

LEMMA GoesIs ==
    ASSUME DOMAIN call = Callers, NEW c \in Callers, NEW e, Goes(c, e), e.answer # "exists",
           DOMAIN e = Fields
    PROVE  call'[c].answer # "exists"
<1>1. CASE Len(e.todo) = 1
  BY <1>1, AnswerIs DEF Goes
<1>2. CASE Len(e.todo) # 1
  <2>1. call'[c] = [e EXCEPT !.todo = Tail(@)]
    BY <1>2 DEF Goes
  <2> QED BY <2>1 DEF Fields
<1> QED BY <1>1, <1>2

LEMMA OthersDoNotRefuse ==
    ASSUME ToolsInv, NEW c \in Callers, CallStep(c), ~CheckFresh(c)
    PROVE  call'[c].answer # "exists"
<1>1. DOMAIN call = Callers /\ DOMAIN call[c] = Fields
  BY DEF ToolsInv, EntryOK
<1>2. ~Idle(c) => call[c].answer = "none"
  BY AtFirst
<1>3. ASSUME NEW verdict, verdict # "exists", Answer(c, verdict) PROVE call'[c].answer # "exists"
  BY <1>1, <1>3, AnswerIs DEF Answer
<1>4. ASSUME ~Idle(c), Goes(c, call[c]) PROVE call'[c].answer # "exists"
  BY <1>1, <1>2, <1>4, GoesIs
<1>5. ASSUME NEW e, DOMAIN e = Fields, e.answer = "none", NEW x,
             \/ Goes(c, [e EXCEPT !.todo = x]) \/ Goes(c, [e EXCEPT !.parent = x])
             \/ Goes(c, [e EXCEPT !.id = x]) \/ Goes(c, [e EXCEPT !.had = x])
      PROVE  call'[c].answer # "exists"
  <2>1. ASSUME NEW f \in {[e EXCEPT !.todo = x], [e EXCEPT !.parent = x], [e EXCEPT !.id = x],
                          [e EXCEPT !.had = x]}
        PROVE  DOMAIN f = Fields /\ f.answer # "exists"
    BY <1>5, <2>1 DEF Fields
  <2> QED BY <1>1, <1>5, <2>1, GoesIs
<1>6. ASSUME ~Idle(c), NEW todo, call' = [call EXCEPT ![c].todo = todo]
      PROVE  call'[c].answer # "exists"
  BY <1>1, <1>2, <1>6 DEF Fields
<1>7. CASE Invalid(c) \/ Refused(c) \/ ReadFails(c)
  BY <1>3, <1>7 DEF Invalid, Refused, ReadFails
<1>8. CASE Lock(c) \/ Unlock(c)
  BY <1>6, <1>8 DEF Lock, Unlock, At
<1>9. CASE Available(c) \/ CheckParent(c) \/ Require(c) \/ CheckStatus(c)
  BY <1>3, <1>4, <1>9 DEF Available, CheckParent, Require, CheckStatus, At
<1>10. CASE FindNotebook(c)
  <2>1. ~Idle(c)
    BY <1>10 DEF FindNotebook, At
  <2>2. \/ \E todo : call' = [call EXCEPT ![c].todo = todo]
        \/ \E i : Goes(c, [call[c] EXCEPT !.parent = i])
        \/ Answer(c, "domain")
    BY <1>10 DEF FindNotebook
  <2> QED BY <1>1, <1>2, <1>3, <1>5, <1>6, <2>1, <2>2
<1>11. CASE CheckTagged(c)
  <2>1. ~Idle(c) /\ (Goes(c, call[c]) \/ \E todo : Goes(c, [call[c] EXCEPT !.todo = todo]))
    BY <1>11 DEF CheckTagged, At
  <2> QED BY <1>1, <1>2, <1>4, <1>5, <2>1
<1>12. CASE ReadNoteTags(c) \/ PlanTags(c)
  <2>1. /\ ~Idle(c)
        /\ (\E had : Goes(c, [call[c] EXCEPT !.had = had])) \/ (\E todo : Goes(c, [call[c] EXCEPT !.todo = todo]))
    BY <1>12 DEF ReadNoteTags, PlanTags, At
  <2> QED BY <1>1, <1>2, <1>5, <2>1
<1>13. CASE Write(c)
  <2>1. ~Idle(c)
    BY <1>13 DEF Write, Writing
  <2> DEFINE e == [call[c] EXCEPT !.wrote = TRUE]
  <2>2. DOMAIN e = Fields /\ e.answer = "none"
    BY <1>1, <1>2, <2>1 DEF Fields
  <2>3. \/ Goes(c, e)
        \/ \E i : Goes(c, [e EXCEPT !.parent = i])
        \/ \E i : Goes(c, [e EXCEPT !.id = i])
        \/ \E todo : Goes(c, [e EXCEPT !.todo = todo])
    BY <1>13 DEF Write
  <2> HIDE DEF e
  <2>4. CASE Goes(c, e)
    BY <1>1, <2>2, <2>4, GoesIs
  <2> QED BY <1>5, <2>2, <2>3, <2>4
<1>14. CASE Lost(c)
  <2>1. PICK verdict \in {"ambiguous", "internal"} : LostAnswer(c, verdict)
    BY <1>14 DEF Lost
  <2>2. Answered(c, [call[c] EXCEPT !.lost = TRUE], verdict)
    BY <2>1 DEF LostAnswer
  <2> QED BY <1>1, <2>2, AnswerIs
<1> QED BY <1>7, <1>8, <1>9, <1>10, <1>11, <1>12, <1>13, <1>14 DEF CallStep, Progress

(* A creation that is told the object exists has written nothing but the      *)
(* notebook it made on its way, and that only when somebody has moved or      *)
(* renamed a note to its identity meanwhile: no other creation and no late    *)
(* write of one comes in between (docs/user/MCP_API.md:151;                   *)
(* mcp_service.py:715-757).                                                   *)
THEOREM ConflictsChangeNothing == Spec => ConflictChangesNothing
<1> DEFINE Caused(c) ==
             Refusal(c) =>
               /\ ~call'[c].lost
               /\ call'[c].wrote =>
                    \E i \in Named(Req(c).kind, call[c].parent, Req(c).name) : ~store[i].sure
<1>1. ToolsInv /\ [Next]_vars => [\A c \in Callers : Caused(c)]_vars
  <2> SUFFICES ASSUME ToolsInv, Next, NEW c \in Callers, Refusal(c) PROVE Caused(c)
    OBVIOUS
  <2>1. DOMAIN call = Callers
    BY DEF ToolsInv
  <2>2. ASSUME UNCHANGED call PROVE FALSE
    BY <2>2 DEF Refusal
  <2>3. ASSUME NEW d \in Callers, NEW e, call' = [call EXCEPT ![d] = e], d # c \/ e.answer = "none"
        PROVE  FALSE
    BY <2>1, <2>3 DEF Refusal
  <2>4. ASSUME NEW d \in Callers, Transport(d) PROVE FALSE
    BY <2>2, <2>4, TransportTools
  <2>5. ASSUME NEW d \in Callers, McpCall(d) \/ ActionCall(d) \/ Respond(d) PROVE FALSE
    <3>1. \A r : [NoCall EXCEPT !.req = r, !.todo = Steps(ProgramOf(r)), !.id = r.id,
                               !.parent = r.parent].answer = "none"
      BY DEF NoCall
    <3> QED BY <2>3, <2>5, <3>1 DEF McpCall, ActionCall, Ask, Respond, NoCall
  <2>6. CASE Land
    BY <2>2, <2>6 DEF Land
  <2>7. ASSUME NEW d \in Callers, Call(d) PROVE Caused(c)
    <3>1. CallStep(d)
      BY <2>7 DEF Call
    <3>2. d = c
      <4>1. SelfOK(d)
        BY <3>1, CallStepSelf
      <4> QED BY <2>3, <4>1 DEF SelfOK
    <3>3. CheckFresh(c)
      BY <3>1, <3>2, OthersDoNotRefuse DEF Refusal
    <3> DEFINE e == call[c]
               found == Named(e.req.kind, e.parent, e.req.name)
    <3>4. /\ ~Idle(c) /\ ~e.lost /\ EntryOK(e) /\ Creation(c, e) /\ 1 \in DOMAIN e.todo
          /\ e.todo[1].op = "fresh" /\ e.answer = "none" /\ DOMAIN e = Fields
      <4>1. ~Idle(c) /\ At(c, "fresh")
        BY <3>3 DEF CheckFresh, At
      <4> QED BY <4>1, AtFirst
    <3>5. found # {} /\ Answered(c, e, "exists")
      <4>1. ~Goes(c, e)
        BY <2>1, <3>4, GoesIs DEF Refusal
      <4> QED BY <3>3, <4>1 DEF CheckFresh, Req, Answer
    <3>6. call'[c].lost = e.lost /\ call'[c].wrote = e.wrote
      BY <2>1, <3>5, AnswerIs
    <3>7. ASSUME e.wrote PROVE \E i \in found : ~store[i].sure
      <4>1. Stage(e.todo[1]) = 4
        BY <3>4 DEF Stage, StageOf, Step
      <4>2. Virgin(e.parent)
        BY <3>4, <3>7, <4>1 DEF Creation
      <4>3. PICK i \in found : i \in Ids /\ Identity(store[i]) = <<e.req.kind, e.parent, e.req.name>>
        BY <3>5 DEF Named
      <4>4. store[i].parent = e.parent
        BY <4>3 DEF Identity
      <4> QED BY <4>2, <4>3, <4>4 DEF Virgin
    <3> QED BY <3>4, <3>6, <3>7 DEF Req
  <2> QED BY <2>4, <2>5, <2>6, <2>7 DEF Next, Transport
<1> QED BY ToolsInvInit, ToolsInvStep, <1>1, PTL DEF Spec, ConflictChangesNothing

----------------------------------------------------------------------------
(* The part of the type invariant that the accounting and the tools do not    *)
(* give.                                                                      *)
Counters == sent \in 0..MaxCalls /\ faults \in 0..MaxFaults

LEMMA CountersStep == Counters /\ [Next]_vars => Counters'
<1> SUFFICES ASSUME Counters, [Next]_vars PROVE Counters'
  OBVIOUS
<1> USE ServerAssumption DEF ServerAssumption, Counters
<1>1. ASSUME NEW c \in Callers, Arrive(c) \/ Admit(c) \/ TurnAway(c) \/ NoThread(c) \/ Close(c) PROVE Counters'
  BY <1>1 DEF Arrive, Admit, TurnAway, NoThread, Close, toolVars, Fault
<1>2. ASSUME NEW c \in Callers, McpUnauthorized(c) \/ McpUnread(c) \/ McpAnswered(c) \/ McpCall(c) \/ TakePermit(c)
      PROVE  Counters'
  BY <1>2 DEF McpUnauthorized, McpUnread, McpAnswered, McpCall, McpRequest, TakePermit, Counted, toolVars
<1>3. ASSUME NEW c \in Callers, ActionUnauthorized(c) \/ ActionUnread(c) \/ ActionAnswered(c) \/ ActionCall(c)
             \/ Respond(c)
      PROVE  Counters'
  BY <1>3 DEF ActionUnauthorized, ActionUnread, ActionAnswered, ActionCall, Respond, toolVars
<1>4. ASSUME NEW c \in Callers, Call(c) PROVE Counters'
  <2>1. UNCHANGED faults \/ Fault
    <3>1. CASE ReadFails(c) \/ Lost(c) \/ Refused(c) \/ Write(c)
      BY <3>1 DEF ReadFails, Lost, LostAnswer, Refused, Write
    <3>2. CASE Invalid(c) \/ Lock(c) \/ Unlock(c) \/ Available(c) \/ CheckParent(c) \/ FindNotebook(c)
               \/ CheckFresh(c)
      BY <3>2 DEF Invalid, Lock, Unlock, Available, CheckParent, FindNotebook, CheckFresh, Reads
    <3>3. CASE Require(c) \/ CheckStatus(c) \/ CheckTagged(c) \/ ReadNoteTags(c) \/ PlanTags(c)
      BY <3>3 DEF Require, CheckStatus, CheckTagged, ReadNoteTags, PlanTags, Reads
    <3> QED BY <1>4, <3>1, <3>2, <3>3 DEF Call, CallStep, Progress
  <2> QED BY <1>4, <2>1 DEF Call, serverVars, Fault
<1>5. CASE Land /\ UNCHANGED serverVars
  BY <1>5 DEF Land, serverVars
<1>6. CASE UNCHANGED vars
  BY <1>6 DEF vars, toolVars, serverVars
<1> QED BY <1>1, <1>2, <1>3, <1>4, <1>5, <1>6 DEF Next

(* The types of the server and of what its tools keep in Joplin.              *)
THEOREM TypeCorrect == Spec => []TypeOK
<1>1. Init => Counters
  BY ServerAssumption DEF Init, ToolsInit, Counters, ServerAssumption
<1>2. Accounts /\ ToolsInv /\ Counters => TypeOK
  <2> SUFFICES ASSUME Accounts, ToolsInv, Counters PROVE TypeOK
    OBVIOUS
  <2>1. slots \in 0..Slots /\ permits \in 0..Capacity
    <3>1. \A states : Cardinality(In(states)) \in Nat
      <4> SUFFICES ASSUME NEW states PROVE Cardinality(In(states)) \in Nat
        OBVIOUS
      <4>1. In(states) \subseteq Callers
        BY DEF In
      <4> QED BY <4>1, FS_Subset, FS_CardinalityType, ServerAssumption DEF ServerAssumption
    <3> QED BY <3>1, ServerAssumption DEF Accounts, PermitsAreHeld, ServerAssumption
  <2> QED BY <2>1 DEF TypeOK, Accounts, ToolsInv, EntryOK, StoreOK, ObjectOK, Counters
<1> QED BY AccountsInit, AccountsStep, ToolsInvInit, ToolsInvStep, CountersStep, <1>1, <1>2, PTL DEF Spec

----------------------------------------------------------------------------
(* The refinement. A connection is served while it has a thread.              *)
Mapped == [c \in Callers |-> IF conn[c] \in Threads THEN "served" ELSE conn[c]]

Names == {<<i, Identity(store[i])>> : i \in {j \in Ids : store[j].sure /\ Present(j)}}

LEMMA NamesOf == \A n : n \in Names <=> \E i \in Ids : Alive(store[i]) /\ n = <<i, Identity(store[i])>>
BY DEF Names, Alive, Present

LEMMA Moved ==
    ASSUME NEW c \in Callers, NEW state, Becomes(c, state), conn \in [Callers -> ConnStates], UNCHANGED store
    PROVE  /\ UNCHANGED Names
           /\ conn[c] \in Threads /\ state \in Threads => UNCHANGED Mapped
           /\ conn[c] \in Threads /\ state \notin Threads =>
                Mapped[c] = "served" /\ Mapped' = [Mapped EXCEPT ![c] = state]
           /\ conn[c] \notin Threads /\ state \in Threads =>
                Mapped[c] = conn[c] /\ Mapped' = [Mapped EXCEPT ![c] = "served"]
           /\ conn[c] \notin Threads /\ state \notin Threads =>
                Mapped[c] = conn[c] /\ Mapped' = [Mapped EXCEPT ![c] = state]
<1>1. UNCHANGED Names
  BY DEF Names, Ids, Present, Identity
<1>2. conn' = [d \in Callers |-> IF d = c THEN state ELSE conn[d]]
  BY DEF Becomes
<1> QED BY <1>1, <1>2 DEF Mapped

LEMMA ServedAre ==
    ASSUME conn \in [Callers -> ConnStates]
    PROVE  {c \in Callers : Mapped[c] = "served"} = In(Threads)
<1>1. \A c \in Callers : Mapped[c] = "served" <=> conn[c] \in Threads
  BY DEF Mapped, ConnStates
<1> QED BY <1>1 DEF In

(* What a thread does besides its calls moves one connection or none.         *)
LEMMA TransportRefines ==
    ASSUME Accounts, NEW c \in Callers, Transport(c) \/ McpCall(c) \/ ActionCall(c) \/ Respond(c)
    PROVE  Service!Next \/ UNCHANGED <<Mapped, Names>>
<1> USE DEF Threads, ConnStates
<1>1. conn \in [Callers -> ConnStates] /\ UNCHANGED store
  BY DEF Accounts, Transport, Arrive, Admit, TurnAway, NoThread, Close, McpUnauthorized, McpUnread, McpAnswered,
         McpRequest, TakePermit, ActionUnauthorized, ActionUnread, ActionAnswered, toolVars,
         McpCall, ActionCall, Respond
<1>2. ASSUME NEW state, Becomes(c, state), conn[c] \in Threads, state \in Threads \cup {"closed"}
      PROVE  Service!Leave(c) \/ UNCHANGED <<Mapped, Names>>
  <2>1. CASE state \in Threads
    BY <1>1, <1>2, <2>1, Moved
  <2>2. CASE state = "closed"
    <3>1. UNCHANGED Names /\ Mapped[c] = "served" /\ Mapped' = [Mapped EXCEPT ![c] = "closed"]
      BY <1>1, <1>2, <2>2, Moved
    <3> QED BY <3>1 DEF Service!Leave, Service!Move, Mapped, Names
  <2> QED BY <1>2, <2>1, <2>2
<1>3. CASE Arrive(c)
  <2>1. Becomes(c, "queued") /\ conn[c] = "new"
    BY <1>3 DEF Arrive
  <2>2. UNCHANGED Names /\ Mapped[c] = "new" /\ Mapped' = [Mapped EXCEPT ![c] = "queued"]
    BY <1>1, <2>1, Moved
  <2> QED BY <2>2 DEF Service!Next, Service!Arrive, Service!Move, Mapped, Names
<1>4. CASE TurnAway(c) \/ NoThread(c)
  <2>1. Becomes(c, "closed") /\ conn[c] = "queued"
    BY <1>4 DEF TurnAway, NoThread
  <2>2. UNCHANGED Names /\ Mapped[c] = "queued" /\ Mapped' = [Mapped EXCEPT ![c] = "closed"]
    BY <1>1, <2>1, Moved
  <2> QED BY <2>2 DEF Service!Next, Service!TurnAway, Service!Move, Mapped, Names
<1>5. CASE Admit(c)
  <2>1. Becomes(c, "reading") /\ conn[c] = "queued" /\ slots > 0
    BY <1>5 DEF Admit
  <2>2. UNCHANGED Names /\ Mapped[c] = "queued" /\ Mapped' = [Mapped EXCEPT ![c] = "served"]
    BY <1>1, <2>1, Moved
  <2>3. Cardinality({d \in Callers : Mapped[d] = "served"}) < Slots
    <3>1. Cardinality({d \in Callers : Mapped[d] = "served"}) = Cardinality(In(Threads))
      BY <1>1, ServedAre
    <3>2. In(Threads) \subseteq Callers
      BY DEF In
    <3>3. Cardinality(In(Threads)) \in Nat
      BY <3>2, FS_Subset, FS_CardinalityType, ServerAssumption DEF ServerAssumption
    <3>4. slots = Slots - Cardinality(In(Threads))
      BY DEF Accounts, PermitsAreHeld
    <3> HIDE DEF Threads
    <3> QED BY <2>1, <3>1, <3>3, <3>4, ServerAssumption DEF ServerAssumption
  <2>4. Service!Move(c, "queued", "served")
    BY <2>2 DEF Service!Move, Mapped, Names
  <2>5. Cardinality(Service!Served) < Slots
    BY <2>3 DEF Service!Served, Mapped
  <2>6. Service!Admit(c)
    BY <2>4, <2>5 DEF Service!Admit, Service!Cardinality, Cardinality
  <2> QED BY <2>6 DEF Service!Next
<1>6. CASE Close(c) \/ McpUnauthorized(c) \/ ActionUnauthorized(c) \/ Respond(c) \/ TakePermit(c)
  BY <1>2, <1>6 DEF Close, McpUnauthorized, McpRequest, ActionUnauthorized, Respond, TakePermit, Ends, Service!Next
<1>7. CASE McpUnread(c) \/ ActionUnread(c) \/ ActionAnswered(c) \/ McpCall(c) \/ ActionCall(c)
  BY <1>2, <1>7 DEF McpUnread, McpRequest, ActionUnread, ActionAnswered, McpCall, ActionCall, Service!Next
<1>8. CASE McpAnswered(c)
  BY <1>1, <1>8 DEF McpAnswered, Mapped, Names, Ids, Present, Identity
<1> QED BY <1>3, <1>4, <1>5, <1>6, <1>7, <1>8 DEF Transport

(* A write to an object that exists gives names up at most.                   *)
LEMMA NamesKept ==
    ASSUME KeepsIdentities, UNCHANGED conn
    PROVE  Service!Next \/ UNCHANGED <<Mapped, Names>>
<1>1. Names' \subseteq Names
  BY DEF KeepsIdentities, Names, Alive, Present
<1>2. UNCHANGED Mapped
  BY DEF Mapped
<1> QED BY <1>1, <1>2 DEF Service!Next, Service!Forget, Mapped, Names

LEMMA NamesGrow ==
    ASSUME NEW o, Grows(o)
    PROVE  Names' = Names \cup (IF o.sure THEN {<<Len(store) + 1, Identity(o)>>} ELSE {})
<1> DEFINE n == Len(store) + 1
<1>1. /\ Ids' = Ids \cup {n} /\ n \notin Ids /\ \A i \in Ids : store'[i] = store[i]
      /\ store'[n] = o /\ o.status # "gone"
  BY DEF Grows
<1> HIDE DEF n
<1>2. \A i, x : x = <<i, Identity(store'[i])>> <=> x = <<i, Identity(store[i])'>>
  BY DEF Identity
<1>3. Names' = {<<i, Identity(store[i])'>> : i \in {j \in Ids' : store'[j].sure /\ store'[j].status # "gone"}}
  BY DEF Names, Present
<1> QED BY <1>1, <1>3 DEF Names, Identity, Present, n

LEMMA CallRefines ==
    ASSUME ToolsInv, Accounts, NEW c \in Callers, Call(c)
    PROVE  Service!Next \/ UNCHANGED <<Mapped, Names>>
<1>1. Effect(c) /\ UNCHANGED conn /\ conn[c] \in Threads
  BY CallStepSelf DEF Call, serverVars, Threads
<1>2. CASE KeepsIdentities
  BY <1>1, <1>2, NamesKept
<1>3. ASSUME NEW o, Grows(o) PROVE Service!Next \/ UNCHANGED <<Mapped, Names>>
  <2>1. UNCHANGED Mapped
    BY <1>1 DEF Mapped
  <2>2. CASE ~o.sure
    BY <1>3, <2>1, <2>2, NamesGrow
  <2>3. CASE o.sure
    <3> DEFINE id == Len(store) + 1
               m  == <<id, Identity(o)>>
    <3>1. Names' = Names \cup {m}
      BY <1>3, <2>3, NamesGrow
    <3>2. \A n \in Names : n[1] # id /\ n[2] # Identity(o)
      BY <1>3, <2>3, NamesOf DEF Grows, Unused
    <3>3. m \in Names' \ Names /\ m[1] = id /\ m[2] = Identity(o)
      BY <3>1, <3>2
    <3>4. {d \in Callers : Mapped[d] = "served"} # {}
      BY <1>1 DEF Mapped
    <3> HIDE DEF m, id
    <3>5. Names' = Names \cup {<<m[1], m[2]>>}
      BY <3>1, <3>3 DEF m
    <3> QED BY <2>1, <3>2, <3>3, <3>4, <3>5
            DEF Service!Next, Service!Creates, Service!Create, Service!Served, Mapped, Names
  <2> QED BY <2>2, <2>3
<1> QED BY <1>1, <1>2, <1>3 DEF Effect

LEMMA LandRefines ==
    ASSUME ToolsInv, Land, UNCHANGED serverVars
    PROVE  Service!Next \/ UNCHANGED <<Mapped, Names>>
<1>1. UNCHANGED conn
  BY DEF serverVars
<1>2. CASE KeepsIdentities
  BY <1>1, <1>2, NamesKept
<1>3. ASSUME NEW o, Grows(o), ~o.sure PROVE UNCHANGED <<Mapped, Names>>
  BY <1>1, <1>3, NamesGrow DEF Mapped
<1> QED BY <1>2, <1>3, LandKeeps

(* The server with its tools does what AgentService promises: at most Slots   *)
(* connections are served, and what creations name has no other object of     *)
(* that name, whatever callers, faults and late writes come in between.       *)
THEOREM ServerImplementsService == Spec => ImplementsService
<1>1. Init => Service!Init
  <2> SUFFICES ASSUME Init PROVE Service!Init
    OBVIOUS
  <2>1. Mapped = [c \in Callers |-> "new"]
    BY DEF Init, Mapped, Threads
  <2>2. \A n, m \in Names : n[2] = m[2] => n = m
    BY ToolsInvInit, NamesOf DEF ToolsInv, Distinct
  <2> QED BY <2>1, <2>2 DEF Service!Init, Mapped, Names
<1>2. Accounts /\ ToolsInv /\ [Next]_vars => [Service!Next]_(Service!vars)
  <2> SUFFICES ASSUME Accounts, ToolsInv, [Next]_vars PROVE Service!Next \/ UNCHANGED <<Mapped, Names>>
    BY DEF Service!vars, Mapped, Names
  <2>1. ASSUME NEW c \in Callers, Transport(c) \/ McpCall(c) \/ ActionCall(c) \/ Respond(c)
        PROVE  Service!Next \/ UNCHANGED <<Mapped, Names>>
    BY <2>1, TransportRefines
  <2>2. ASSUME NEW c \in Callers, Call(c) PROVE Service!Next \/ UNCHANGED <<Mapped, Names>>
    BY <2>2, CallRefines
  <2>3. CASE Land /\ UNCHANGED serverVars
    BY <2>3, LandRefines
  <2>4. CASE UNCHANGED vars
    BY <2>4 DEF vars, toolVars, serverVars, Mapped, Names, Ids, Present, Identity
  <2> QED BY <2>1, <2>2, <2>3, <2>4 DEF Next, Transport
<1> QED BY AccountsInit, AccountsStep, ToolsInvInit, ToolsInvStep, <1>1, <1>2, PTL
        DEF Spec, ImplementsService, Service!Safety
=============================================================================
