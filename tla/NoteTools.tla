------------------------------ MODULE NoteTools ------------------------------
(* The agent tools of mcp_service.py as tool_executor.py runs them: one call  *)
(* per caller (a thread of the server), each a sequence of requests to Joplin *)
(* that other calls interleave with. Creations hold one lock of the process.  *)
(* A request may fail: a read after its retries, a write refused by Joplin or *)
(* with its answer lost or unreadable, in which case it was applied, was not, *)
(* or, with no answer at all, is applied later.                               *)
EXTENDS Integers, Sequences, FiniteSets, SequencesExt

CONSTANTS
    Callers,     \* the threads that may run a call, numbers
    Requests,    \* the calls of the agents
    Known,       \* the objects Joplin starts with, a sequence
    MaxFaults,   \* bound on failed requests
    None

VARIABLES
    store,       \* Joplin: a sequence of objects, the index is the id
    late,        \* writes whose answer was lost and that Joplin still applies
    creating,    \* the caller that holds _create_lock
    call,        \* the call of each caller
    faults
toolVars == <<store, late, creating, call, faults>>

Statuses == {"active", "trash", "gone"}
Answers ==
    {"none", "ok", "exists", "domain", "partial", "ambiguous", "internal", "retryable", "final"}

(* An object is `sure` while its name was given by a creation that Joplin     *)
(* answered or refused to answer at once: not by a late write or a rename.    *)
Object(kind, name, parent) ==
    [kind |-> kind, name |-> name, parent |-> parent, status |-> "active", tags |-> {},
     sure |-> TRUE]

Identity(o) == <<o.kind, o.parent, o.name>>
Ids == DOMAIN store
Present(i) == store[i].status # "gone"
Trashed(i) == store[i].status = "trash"
Named(kind, parent, name) ==
    {i \in Ids : Present(i) /\ Identity(store[i]) = <<kind, parent, name>>}

(* Ids are positions in the store. Of two objects whose names creations gave  *)
(* the identities differ, and their notebooks exist.                          *)
ObjectFields == {"kind", "name", "parent", "status", "tags", "sure"}
Tools == {"invalid", "create", "update", "delete", "restore", "erase", "addTag", "dropTag", "get"}

ASSUME ToolsAssumption ==
    /\ None \notin Nat \cup {"notebook"}
    /\ Known \in Seq(ToSet(Known))
    /\ \A o \in ToSet(Known) :
         /\ DOMAIN o = ObjectFields
         /\ o.status \in Statuses
         /\ o.sure \in BOOLEAN
         /\ o.sure => o.parent \in DOMAIN Known \cup {None}
    /\ \A i, j \in DOMAIN Known :
         Known[i].sure /\ Known[j].sure /\ Identity(Known[i]) = Identity(Known[j]) => i = j
    /\ \A r \in Requests : r.tool \in Tools /\ IsFiniteSet(r.tags)

NoCall == [req |-> None, todo |-> <<>>, parent |-> None, id |-> None, had |-> {},
           wrote |-> FALSE, lost |-> FALSE, answer |-> "none"]

----------------------------------------------------------------------------
(* The tools, as the steps of their handlers in the order of the code. A step *)
(* is an operation and, where the call does not determine it, its argument.   *)
Step(op, of) == [op |-> op, of |-> of]
Steps(ops) == [i \in DOMAIN ops |-> Step(ops[i], None)]

TagSteps == <<"noteTags", "allTags">>
AttachSteps == <<"upload", "uploaded", "body", "append">>

(* create_note holds the lock until the note is posted; its tags and its      *)
(* attachments are written after that.                                        *)
CreateNote(r) ==
    <<"lock", "available", IF r.parent = None THEN "notebook" ELSE "parent", "fresh", "post",
      "unlock">>
    \o (IF r.tags = {} THEN <<>> ELSE TagSteps)
    \o (IF r.file THEN AttachSteps ELSE <<>>)
    \o <<"reread">>

CreateOther(r) ==
    <<"lock", "available">>
    \o (IF r.parent = None THEN <<>> ELSE <<"parent">>)
    \o <<"fresh", "post">>
    \o (IF r.fields THEN <<"put">> ELSE <<>>)
    \o <<"reread">>

Update(r) ==
    <<"available", "require">>
    \o (IF r.parent = None \/ r.kind = "note" THEN <<>> ELSE <<"target">>)
    \o (IF r.fields THEN <<"put">> ELSE <<>>)
    \o (IF r.tags = {} THEN <<>> ELSE TagSteps)
    \o <<"reread">>

ProgramOf(r) ==
    CASE r.tool = "invalid" -> <<"invalid">>
      [] r.tool = "create" /\ r.kind = "note" -> CreateNote(r)
      [] r.tool = "create" /\ r.kind # "note" -> CreateOther(r)
      [] r.tool = "update"  -> Update(r)
      [] r.tool = "delete"  -> <<"available", "unlessTrashed", "trash">>
      [] r.tool = "restore" -> <<"available", "unlessActive", "restore", "reread">>
      [] r.tool = "erase"   -> <<"available", "require", "erase">>
      [] r.tool = "addTag"  -> <<"available", "requireTag", "require", "unlessTagged", "link", "reread">>
      [] r.tool = "dropTag" -> <<"available", "requireTag", "require", "ifTagged", "unlink", "reread">>
      [] r.tool = "get"     -> <<"available", "require", "reread">>

Writes == {"post", "put", "trash", "restore", "erase", "link", "unlink", "postTag", "upload", "append"}
Local == {"invalid", "lock", "unlock"}

----------------------------------------------------------------------------
(* One call at a time on a caller.                                            *)
Idle(c) == call[c].todo = <<>>
At(c, op) == ~Idle(c) /\ Head(call[c].todo).op = op
Req(c) == call[c].req

(* The answer of the executor. An error of Joplin or of the service while     *)
(* attachments are added to a created note is answered PARTIAL_NOTE_CREATE;   *)
(* leaving the handler releases the lock. Of a call that is over only what it *)
(* did is kept.                                                               *)
Attaching(c) == ~Idle(c) /\ Head(call[c].todo).op \in ToSet(AttachSteps)

Answered(c, e, verdict) ==
    /\ call' = [call EXCEPT ![c] = [NoCall EXCEPT !.wrote = e.wrote, !.lost = e.lost,
           !.answer = IF Attaching(c) /\ verdict \notin {"ok", "internal"} THEN "partial" ELSE verdict]]
    /\ creating' = IF creating = c THEN None ELSE creating

Answer(c, verdict) == Answered(c, call[c], verdict)

(* The next step, or the answer after the last one.                           *)
Goes(c, e) ==
    IF Len(e.todo) = 1 THEN Answered(c, e, "ok")
    ELSE call' = [call EXCEPT ![c] = [e EXCEPT !.todo = Tail(@)]] /\ UNCHANGED creating

(* Ids are random: an agent knows those of objects that Joplin has or had.    *)
Ask(c, r) ==
    /\ {r.id, r.parent, r.tag} \subseteq Ids \cup {None}
    /\ call' = [call EXCEPT ![c] = [NoCall EXCEPT !.req = r, !.todo = Steps(ProgramOf(r)),
                                                  !.id = r.id, !.parent = r.parent]]

(* A failure of Joplin is one of the bounded faults.                          *)
Fault == faults < MaxFaults /\ faults' = faults + 1

----------------------------------------------------------------------------
(* Arguments that the schema refuses never reach a handler.                   *)
Reads(c) == UNCHANGED <<store, late, faults>>

Invalid(c) == At(c, "invalid") /\ Answer(c, "domain") /\ Reads(c)

(* Mutant: creations do not wait for each other.                              *)
LockIgnored(c) ==
    /\ At(c, "lock")
    /\ creating' = c
    /\ call' = [call EXCEPT ![c].todo = Tail(@)]
    /\ UNCHANGED <<store, late, faults>>

(* The lock, and the requests that only read.                                 *)
Lock(c) ==
    /\ At(c, "lock")
    /\ creating = None
    /\ creating' = c
    /\ call' = [call EXCEPT ![c].todo = Tail(@)]
    /\ UNCHANGED <<store, late, faults>>

Unlock(c) ==
    /\ At(c, "unlock")
    /\ creating' = None
    /\ call' = [call EXCEPT ![c].todo = Tail(@)]
    /\ UNCHANGED <<store, late, faults>>

(* _client_when_available waits for Joplin, holding the lock in a creation;   *)
(* an uploaded attachment is read back before anybody else knows its id.      *)
Available(c) ==
    /\ At(c, "available") \/ At(c, "uploaded")
    /\ Goes(c, call[c])
    /\ Reads(c)

(* The parent of a creation is there and not in the trash.                    *)
CheckParent(c) ==
    /\ At(c, "parent")
    /\ IF store[call[c].parent].status = "active" THEN Goes(c, call[c]) ELSE Answer(c, "domain")
    /\ Reads(c)

(* The root notebook of create_note by its title, created when there is none. *)
FindNotebook(c) ==
    /\ At(c, "notebook")
    /\ LET found == Named("notebook", None, Req(c).box) IN
         \/ found = {} /\ call' = [call EXCEPT ![c].todo = <<Step("post", "notebook")>> \o Tail(@)]
                       /\ UNCHANGED creating
         \/ \E i \in found :
              IF Cardinality(found) = 1 /\ ~Trashed(i) THEN Goes(c, [call[c] EXCEPT !.parent = i])
              ELSE Answer(c, "domain")
    /\ Reads(c)

(* A creation is refused when its identity is taken, in the trash included.   *)
CheckFresh(c) ==
    /\ At(c, "fresh")
    /\ IF Named(Req(c).kind, call[c].parent, Req(c).name) = {} THEN Goes(c, call[c])
       ELSE Answer(c, "exists")
    /\ Reads(c)

(* _require_*: an object that is not there is a domain error, one in the      *)
(* trash is taken.                                                            *)
Required(c) ==
    CASE At(c, "requireTag") -> Req(c).tag
      [] At(c, "target")     -> Req(c).parent
      [] OTHER               -> call[c].id

Require(c) ==
    /\ \E op \in {"require", "requireTag", "target", "reread", "body"} : At(c, op)
    /\ IF Present(Required(c)) THEN Goes(c, call[c]) ELSE Answer(c, "domain")
    /\ Reads(c)

(* Deletions and restorations that find nothing to do are answered as done.   *)
CheckStatus(c) ==
    /\ At(c, "unlessTrashed") \/ At(c, "unlessActive")
    /\ IF ~Present(call[c].id) THEN Answer(c, "domain")
       ELSE IF Trashed(call[c].id) = At(c, "unlessTrashed") THEN Answer(c, "ok")
       ELSE Goes(c, call[c])
    /\ Reads(c)

(* add_tag_to_note and remove_tag_from_note look at the tags of the note and  *)
(* skip the write they do not need.                                           *)
CheckTagged(c) ==
    /\ \E op \in {"unlessTagged", "ifTagged"} :
         /\ At(c, op)
         /\ Goes(c, IF (Req(c).tag \in store[call[c].id].tags) = (op = "unlessTagged")
                    THEN [call[c] EXCEPT !.todo = Tail(@)] ELSE call[c])
    /\ Reads(c)

(* _set_tags: the tags of the note, then all tags, and from the two answers   *)
(* the tags to create, to attach and to detach.                               *)
ReadNoteTags(c) ==
    /\ At(c, "noteTags")
    /\ Goes(c, [call[c] EXCEPT !.had = store[call[c].id].tags])
    /\ Reads(c)

PlanTags(c) ==
    /\ At(c, "allTags")
    /\ LET had   == call[c].had
           tags  == {i \in Ids : store[i].kind = "tag" /\ Present(i)}
           add   == {n \in Req(c).tags : ~\E i \in had : store[i].name = n}
           known == {i \in tags : store[i].name \in add}
           new   == {n \in add : ~\E i \in known : store[i].name = n}
           drop  == {i \in Ids : i \in had /\ store[i].name \notin Req(c).tags}
           Each(op, S) == SetToSeq({Step(op, x) : x \in S})
       IN Goes(c, [call[c] EXCEPT !.todo =
              <<Head(@)>> \o Each("postTag", new) \o Each("link", known) \o Each("unlink", drop)
              \o Tail(@)])
    /\ Reads(c)

(* A read that fails after its retries. Joplin unreachable or answering 5xx   *)
(* is retryable, a refused token and any other status are not, and an answer  *)
(* that breaks off or cannot be decoded is an internal error at once.         *)
ReadFails(c) ==
    /\ ~Idle(c)
    /\ Head(call[c].todo).op \notin Writes \cup Local
    /\ Fault
    /\ \E verdict \in {"retryable", "final", "internal"} : Answer(c, verdict)
    /\ UNCHANGED <<store, late>>

----------------------------------------------------------------------------
(* The requests that write, each sent once.                                   *)
Request(c) ==
    LET step == Head(call[c].todo) IN
    CASE step.op = "post" /\ step.of = "notebook" -> [op |-> "post", new |-> Object("notebook", Req(c).box, None)]
      [] step.op = "post" /\ step.of = None ->
           [op |-> "post", new |-> Object(Req(c).kind, Req(c).name, call[c].parent)]
      [] step.op = "postTag" -> [op |-> "post", new |-> Object("tag", step.of, None)]
      [] step.op = "upload"  -> [op |-> "post", new |-> [Object("resource", "file", None) EXCEPT !.sure = FALSE]]
      [] step.op \in {"link", "unlink"} ->
           [op |-> step.op, id |-> call[c].id, tag |-> IF step.of = None THEN Req(c).tag ELSE step.of]
      [] step.op = "put" ->
           [op |-> "put", id |-> call[c].id, name |-> IF Req(c).tool = "update" THEN Req(c).name ELSE None,
            parent |-> IF Req(c).tool = "update" THEN Req(c).parent ELSE None]
      [] OTHER -> [op |-> step.op, id |-> call[c].id]

(* What Joplin does with it. A deleted notebook takes its notes along; a      *)
(* deleted tag is detached from every note.                                   *)
Apply(w) ==
    CASE w.op = "post"   -> Append(store, w.new)
      [] w.op = "put"    -> [store EXCEPT ![w.id].name = IF w.name = None THEN @ ELSE w.name,
                                          ![w.id].parent = IF w.parent = None THEN @ ELSE w.parent,
                                          ![w.id].sure = @ /\ w.name = None /\ w.parent = None]
      [] w.op = "trash"  -> [i \in Ids |-> IF i = w.id \/ (store[i].parent = w.id /\ Present(i))
                                           THEN [store[i] EXCEPT !.status = "trash"] ELSE store[i]]
      [] w.op = "restore" -> [store EXCEPT ![w.id].status = "active"]
      [] w.op = "erase"  -> [i \in Ids |-> IF i = w.id THEN [store[i] EXCEPT !.status = "gone"]
                                           ELSE [store[i] EXCEPT !.tags = @ \ {w.id}]]
      [] w.op = "link"   -> [store EXCEPT ![w.id].tags = @ \cup {w.tag}]
      [] w.op = "unlink" -> [store EXCEPT ![w.id].tags = @ \ {w.tag}]
      [] w.op = "append" -> store

(* Joplin does not take a write to an object that is gone, nor a second tag   *)
(* of one title.                                                              *)
Taken(w) ==
    IF w.op = "post" THEN w.new.kind = "tag" /\ Named("tag", None, w.new.name) # {}
    ELSE ~Present(w.id) \/ (w.op = "link" /\ ~Present(w.tag))

Writing(c) == ~Idle(c) /\ Head(call[c].todo).op \in Writes

Write(c) ==
    /\ Writing(c)
    /\ LET w    == Request(c)
           step == Head(call[c].todo)
           new  == Len(store) + 1
           e    == [call[c] EXCEPT !.wrote = TRUE]
       IN /\ ~Taken(w)
          /\ store' = Apply(w)
          /\ Goes(c, CASE step = Step("post", "notebook") -> [e EXCEPT !.parent = new]
                       [] step = Step("post", None)       -> [e EXCEPT !.id = new]
                       [] step.op = "postTag" ->
                            [e EXCEPT !.todo = <<Head(@), Step("link", new)>> \o Tail(@)]
                       [] OTHER -> e)
    /\ UNCHANGED <<late, faults>>

(* An error status of Joplin: 5xx is classified as retryable, for a write as  *)
(* for a read; an object that is gone is 404, a tag title that is taken 500.  *)
Refused(c) ==
    /\ Writing(c)
    /\ IF Taken(Request(c))
       THEN /\ Answer(c, IF Request(c).op = "post" THEN "retryable" ELSE "final")
            /\ UNCHANGED faults
       ELSE /\ \E verdict \in {"retryable", "final"} : Answer(c, verdict)
            /\ Fault
    /\ UNCHANGED <<store, late>>

(* No answer, whatever became of the request: AmbiguousWriteError. An answer  *)
(* that breaks off or cannot be decoded (http.client.HTTPException, a decode  *)
(* error) is no error of the client's: an internal error. Joplin has finished *)
(* with that request.                                                         *)
Unsure(w) == IF w.op = "post" THEN [w EXCEPT !.new.sure = FALSE] ELSE w

LostAnswer(c, verdict) ==
    /\ Writing(c)
    /\ Fault
    /\ Answered(c, [call[c] EXCEPT !.lost = TRUE], verdict)
    /\ \/ UNCHANGED <<store, late>>
       \/ /\ ~Taken(Request(c))
          /\ \/ store' = Apply(Request(c)) /\ UNCHANGED late
             \/ verdict # "internal" /\ late' = late \cup {Unsure(Request(c))} /\ UNCHANGED store

(* Mutant: a lost answer is classified as any failed request.                 *)
LostIsUpstreamError(c) == LostAnswer(c, "retryable")

Lost(c) == \E verdict \in {"ambiguous", "internal"} : LostAnswer(c, verdict)

(* Joplin applies a write its client has given up.                            *)
Land ==
    \E w \in late :
      /\ late' = late \ {w}
      /\ store' = IF Taken(w) THEN store ELSE Apply(w)
      /\ UNCHANGED <<creating, call, faults>>

Progress(c) ==
    \/ Invalid(c) \/ Lock(c) \/ Unlock(c) \/ Available(c) \/ CheckParent(c) \/ FindNotebook(c) \/ CheckFresh(c)
    \/ Require(c) \/ CheckStatus(c) \/ CheckTagged(c) \/ ReadNoteTags(c) \/ PlanTags(c) \/ Write(c) \/ Refused(c)

CallStep(c) == Progress(c) \/ ReadFails(c) \/ Lost(c)

ToolsInit ==
    /\ store = Known
    /\ late = {}
    /\ creating = None
    /\ call = [c \in Callers |-> NoCall]
    /\ faults = 0
=============================================================================
