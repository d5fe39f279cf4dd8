------------------------------- MODULE MCAgents -------------------------------
(* Instance of AgentServer for TLC: Joplin starts with notebook 1, an active  *)
(* note 2 and a trashed note 3 in it, tag 4 on note 2, and notebook 5. One    *)
(* call moves note 2 to whatever was created first.                           *)
EXTENDS AgentServer

MCKnown ==
    <<Object("notebook", "box", None),
      [Object("note", "memo", 1) EXCEPT !.tags = {4}],
      [Object("note", "old", 1) EXCEPT !.status = "trash"],
      Object("tag", "red", None), Object("notebook", "attic", None)>>

Plain == [tool |-> None, kind |-> "note", name |-> None, parent |-> None, box |-> None,
          id |-> None, tag |-> None, tags |-> {}, fields |-> FALSE, file |-> FALSE]
New(kind, name, parent) ==
    [Plain EXCEPT !.tool = "create", !.kind = kind, !.name = name, !.parent = parent]
On(tool, kind, id) == [Plain EXCEPT !.tool = tool, !.kind = kind, !.id = id]

MCRequests ==
    {[New("note", "plan", None) EXCEPT !.box = "desk", !.tags = {"blue"}, !.file = TRUE],
     New("note", "old", 1),
     [New("notebook", "desk", None) EXCEPT !.fields = TRUE],
     New("tag", "blue", None),
     [On("update", "note", 2) EXCEPT !.fields = TRUE, !.name = "plan", !.parent = 6, !.tags = {"blue"}],
     [On("update", "notebook", 5) EXCEPT !.fields = TRUE, !.parent = 1, !.name = "desk"],
     On("delete", "notebook", 1), On("erase", "tag", 4),
     [On("addTag", "note", 3) EXCEPT !.tag = 4], [Plain EXCEPT !.tool = "invalid"]}
=============================================================================
