----------------------------- MODULE SceneEditor -----------------------------
(* DXWindow with the scene editor: the main thread loads the scene, delivers *)
(* what SceneInfoMediator holds and paints; the thread of the debug command  *)
(* server turns the messages of its clients into additions, deletions and    *)
(* updates.  The two share the mediator, under its mutex where the code      *)
(* takes it, and the objects of SceneInfo.  At this commit the line that     *)
(* starts the thread is commented out (DXWindow.cpp:62): ServerRuns is TRUE  *)
(* for the program the handlers were written for.                            *)
EXTENDS SceneInfo

CONSTANTS
    SceneFiles,     \* what scene.json may hold; [loaded |-> FALSE] if unreadable
    EditorParam,    \* what SceneEditorScene::init adds
    Messages,       \* messages a client may send
    LocalEdits,     \* calls of the mediator the main thread may make
    ServerRuns,     \* is the thread of the server started?
    MaxMessages,    \* bound on the events of the server
    MaxEdits        \* bound on the calls of the main thread

ASSUME EditorBounds ==
    /\ ServerRuns \in BOOLEAN
    /\ MaxMessages \in Nat
    /\ MaxEdits \in Nat

Entries == {<<"object", n>> : n \in ObjectNames}
           \cup {<<"model", n>> : n \in ModelNames}
           \cup {<<"pipeline", n>> : n \in PipelineNames}
           \cup {<<"phase", n>> : n \in PhaseNames}

MessageValue == [opcode: {"text", "binary"}, json: BOOLEAN, arrays: SUBSET {"add", "del", "update"},
                 add_objects: Seq(ObjectValue), del_objects: Seq(ObjectNames),
                 update_objects: Seq(ObjectValue)]

\* What the calls of the mediator may name.
ASSUME EditorInputs ==
    /\ None \notin {"main", "server"}
    /\ Messages \subseteq MessageValue
    /\ \A e \in LocalEdits :
         \/ e.op = "add" /\ e.type = "model" /\ e.param \in ModelValue /\ e.param.name # None
         \/ e.op = "add" /\ e.type = "pipeline" /\ e.param \in PipelineValue /\ e.param.name # None
         \/ e.op = "add" /\ e.type = "phase" /\ e.param.name \in PhaseNames
         \/ e.op = "delete" /\ <<e.type, e.name>> \in Entries

\* What the scenes are made of.  A file is risky when it has something that
\* nothing checks: an element without "system", a pipeline of type zpass, a model
\* without a texture that can be loaded, an object that names a pipeline the
\* scene will not hold.
CheckedModel(m) == m.system /\ m.valid /\ m.tex \in Textures \ Unloadable

ASSUME SceneInputs ==
    /\ \A file \in SceneFiles :
         /\ file.loaded \in BOOLEAN
         /\ file.loaded =>
              /\ file.risky \in BOOLEAN
              /\ file.objects \in Seq(ObjectValue)
              /\ file.models \in Seq(ModelValue)
              /\ file.pipelines \in Seq(PipelineValue)
         /\ file.loaded /\ ~file.risky =>
              /\ \A m \in ToSet(file.models) : CheckedModel(m)
              /\ \A p \in ToSet(file.pipelines) : p.system /\ ~p.zpass
              /\ \A o \in ToSet(file.objects), ph \in PhaseNames :
                   o.phase[ph] \in {p.name : p \in ToSet(file.pipelines)}
                                   \cup {EditorParam.pipeline.name, None}
    /\ EditorParam.object \in ObjectValue /\ EditorParam.object.name # None
    /\ EditorParam.model \in ModelValue /\ EditorParam.model.name # None
    /\ EditorParam.pipeline \in PipelineValue /\ EditorParam.pipeline.name # None
    /\ EditorParam.phase.name \in PhaseNames
    /\ CheckedModel(EditorParam.model)
    /\ EditorParam.pipeline.system /\ ~EditorParam.pipeline.zpass
    /\ \A ph \in PhaseNames :
         EditorParam.object.phase[ph] \in {EditorParam.pipeline.name, None}

VARIABLES
    mObjectHash, mModelHash, mPipelineHash, mRenderPhase,  \* to be merged
    mDeleteList,    \* set of <<type, name>>
    mUpdateList,    \* the update of each object that has one
    lock,           \* owner of mMutex: "main", "server" or None
    main,           \* where the main thread is
    due,            \* what deliver found in the list it walks
    walked,         \* what it has applied of the list of deletions
    updated,        \* the objects it has updated
    server,         \* where the thread of the server is
    msg,            \* what is left of the message it handles
    asked,          \* names of the objects that message has added
    error,          \* has an addition of that message been refused?
    received,       \* events of the server so far
    edits,          \* calls of the main thread so far
    risky           \* has something the code does not check been asked for?

pending == <<mObjectHash, mModelHash, mPipelineHash, mRenderPhase,
             mDeleteList, mUpdateList>>
serverVars == <<server, msg, asked, error, received>>
vars == <<sceneVars, pending, lock, main, due, walked, updated, serverVars,
          edits, risky>>

NoObjects == [n \in ObjectNames |-> None]
NoModels == [n \in ModelNames |-> None]
NoPipelines == [n \in PipelineNames |-> None]
NoRenderPhases == [n \in PhaseNames |-> None]
NoMessage == [opcode |-> "text", json |-> FALSE, add_objects |-> <<>>,
              del_objects |-> <<>>, update_objects |-> <<>>, arrays |-> {}]

MainSteps == {"load", "init", "loop", "merge_objects", "merge_rest", "deletes",
              "delete", "updates", "update", "unlock", "paint", "clear", "join",
              "end"}
ServerSteps == {"off", "poll", "open", "lock", "add", "del", "upd", "unlock",
                "reply"}

IsEmpty(hash) == \A n \in DOMAIN hash : hash[n] = None

\* Mutant of IsExistData: the list of deletions is forgotten.
NoDeleteData ==
    ~(IsEmpty(mObjectHash) /\ IsEmpty(mModelHash) /\ IsEmpty(mPipelineHash)
      /\ IsEmpty(mRenderPhase) /\ IsEmpty(mUpdateList))

\* SceneInfoMediator::isExistData
IsExistData ==
    \/ ~IsEmpty(mObjectHash)
    \/ ~IsEmpty(mModelHash)
    \/ ~IsEmpty(mPipelineHash)
    \/ ~IsEmpty(mRenderPhase)
    \/ mDeleteList # {}
    \/ ~IsEmpty(mUpdateList)

Init ==
    /\ objects = NoObjects /\ models = NoModels /\ pipelines = NoPipelines
    /\ textures = [t \in Textures |-> "absent"]
    /\ phases = NoRenderPhases /\ phaseOrder = <<>>
    /\ drawn = {} /\ fault = None
    /\ mObjectHash = NoObjects /\ mModelHash = NoModels
    /\ mPipelineHash = NoPipelines /\ mRenderPhase = NoRenderPhases
    /\ mDeleteList = {} /\ mUpdateList = NoObjects
    /\ lock = None /\ main = "load"
    /\ due = {} /\ walked = {} /\ updated = {}
    /\ server = "off" /\ msg = NoMessage /\ asked = {} /\ error = FALSE
    /\ received = 0 /\ edits = 0 /\ risky = FALSE

(***************************************************************************)
(* The main thread: DXWindow::create                                       *)
(***************************************************************************)

\* SceneInfo::load, init and initResource; nothing of it when the file cannot
\* be parsed.
LoadScene(file) ==
    /\ main = "load"
    /\ main' = "init"
    /\ IF file.loaded
       THEN LET modelHash == InitModel(file.models) IN
            /\ objects' = InitObject(file.objects, modelHash)
            /\ InitResource(InitPipeline(file.pipelines), modelHash, phases)
            /\ risky' = file.risky
            /\ UNCHANGED <<phaseOrder, drawn>>
       ELSE UNCHANGED <<sceneVars, risky>>
    /\ UNCHANGED <<pending, lock, due, walked, updated, serverVars, edits>>

\* mpScene->init, then the thread of the server.
CreateEditor ==
    /\ main = "init"
    /\ main' = "loop"
    /\ InitScene(EditorParam)
    /\ server' = IF ServerRuns THEN "poll" ELSE "off"
    /\ UNCHANGED <<pending, lock, due, walked, updated, msg, asked, error,
                   received, edits, risky>>

(***************************************************************************)
(* The main thread: onPaint and SceneInfoMediator::deliver                 *)
(***************************************************************************)

\* onPaint reads the containers without the lock.
CheckData ==
    /\ main = "loop"
    /\ main' = IF IsExistData THEN "merge_objects" ELSE "paint"
    /\ due' = {} /\ walked' = {} /\ updated' = {}
    /\ UNCHANGED <<sceneVars, pending, lock, serverVars, edits, risky>>

\* Mutant of MayMerge: the merge does not wait for the lock.
MergeAnyway == TRUE

\* The lock is taken only when there is something to merge.
MayMerge == lock \in {None, "main"}

MergeObjects ==
    /\ main = "merge_objects"
    /\ main' = "merge_rest"
    /\ IF IsEmpty(mObjectHash)
       THEN UNCHANGED <<lock, objects, mObjectHash>>
       ELSE /\ MayMerge
            /\ lock' = "main"
            /\ objects' = Merge(objects, mObjectHash)
            /\ mObjectHash' = NoObjects
    /\ UNCHANGED <<models, pipelines, textures, phases, phaseOrder, drawn, fault,
                   mModelHash, mPipelineHash, mRenderPhase, mDeleteList,
                   mUpdateList, due, walked, updated, serverVars, edits,
                   risky>>

MergeRest ==
    /\ main = "merge_rest"
    /\ main' = "deletes"
    /\ IF IsEmpty(mModelHash) /\ IsEmpty(mPipelineHash) /\ IsEmpty(mRenderPhase)
       THEN UNCHANGED lock
       ELSE MayMerge /\ lock' = "main"
    /\ models' = Merge(models, mModelHash)
    /\ mModelHash' = NoModels
    /\ pipelines' = Merge(pipelines, mPipelineHash)
    /\ mPipelineHash' = NoPipelines
    /\ mRenderPhase' = NoRenderPhases
    /\ fault' = IF MergeRenderPhaseThrows(phases, mRenderPhase)
                THEN "out_of_range" ELSE fault
    /\ UNCHANGED <<objects, textures, phases, phaseOrder, drawn, mObjectHash,
                   mDeleteList, mUpdateList, due, walked, updated, serverVars,
                   edits, risky>>

\* deliver looks at the list of deletions, with the lock or without.
LookAtDeletes ==
    /\ main = "deletes"
    /\ due' = mDeleteList
    /\ main' = IF mDeleteList = {} THEN "updates" ELSE "delete"
    /\ UNCHANGED <<sceneVars, pending, lock, walked, updated, serverVars, edits, risky>>

ApplyDelete(e) ==
    /\ objects' = IF e[1] = "object" THEN Erase(objects, e[2]) ELSE objects
    /\ models' = IF e[1] = "model" THEN Erase(models, e[2]) ELSE models
    /\ pipelines' = IF e[1] = "pipeline" THEN Erase(pipelines, e[2]) ELSE pipelines
    /\ phases' = IF e[1] = "phase" THEN Erase(phases, e[2]) ELSE phases

DeleteOne(e) ==
    /\ main = "delete"
    /\ e \in mDeleteList \ walked
    /\ ApplyDelete(e)
    /\ walked' = walked \cup {e}
    /\ UNCHANGED <<textures, phaseOrder, drawn, fault, pending, lock, main, due,
                   updated, serverVars, edits, risky>>

\* The walk reached what was there when it began; an entry that came in since
\* may have been met or not, and is cleared with the list.
ClearDeletes ==
    /\ main = "delete"
    /\ due \subseteq walked
    /\ main' = "updates"
    /\ mDeleteList' = {}
    /\ UNCHANGED <<sceneVars, mObjectHash, mModelHash, mPipelineHash,
                   mRenderPhase, mUpdateList, lock, due, walked, updated,
                   serverVars, edits, risky>>

Updates == {n \in ObjectNames : mUpdateList[n] # None}

LookAtUpdates ==
    /\ main = "updates"
    /\ due' = Updates
    /\ main' = IF Updates = {} THEN "unlock" ELSE "update"
    /\ UNCHANGED <<sceneVars, pending, lock, walked, updated, serverVars, edits, risky>>

\* Mutant of ApplyUpdate: operator[] without find adds an object.
UpdateOrAdd(n) ==
    objects' = [objects EXCEPT ![n] =
        UpdateObject(IF @ = None THEN NewObject ELSE @, mUpdateList[n])]

\* SceneInfo::updateObject
ApplyUpdate(n) ==
    objects' = IF Holds(objects, n)
               THEN [objects EXCEPT ![n] = UpdateObject(@, mUpdateList[n])]
               ELSE objects

UpdateOne(n) ==
    /\ main = "update"
    /\ n \in Updates \ updated
    /\ ApplyUpdate(n)
    /\ updated' = updated \cup {n}
    /\ UNCHANGED <<models, pipelines, textures, phases, phaseOrder, drawn, fault,
                   pending, lock, main, due, walked, serverVars, edits,
                   risky>>

ClearUpdates ==
    /\ main = "update"
    /\ due \subseteq updated
    /\ main' = "unlock"
    /\ mUpdateList' = NoObjects
    /\ UNCHANGED <<sceneVars, mObjectHash, mModelHash, mPipelineHash,
                   mRenderPhase, mDeleteList, lock, due, walked, updated,
                   serverVars, edits, risky>>

\* The lock goes with its unique_lock at the end of deliver.
LeaveDeliver ==
    /\ main = "unlock"
    /\ main' = "paint"
    /\ lock' = IF lock = "main" THEN None ELSE lock
    /\ UNCHANGED <<sceneVars, pending, due, walked, updated, serverVars, edits, risky>>

PaintScene ==
    /\ main = "paint"
    /\ main' = "loop"
    /\ Paint
    /\ UNCHANGED <<pending, lock, due, walked, updated, serverVars, edits,
                   risky>>

(***************************************************************************)
(* The main thread: calls of the mediator, escape and ~DXWindow            *)
(***************************************************************************)

\* addModel, addPipeline, addRenderPhase refuse only what the scene holds;
\* an entry that waits is created anew.
AddPendingModel(m) ==
    mModelHash' = IF Holds(models, m.name) THEN mModelHash
                  ELSE [mModelHash EXCEPT ![m.name] = CreateModel(m)]

AddPendingPipeline(p) ==
    mPipelineHash' = IF Holds(pipelines, p.name) THEN mPipelineHash
                     ELSE [mPipelineHash EXCEPT ![p.name] = CreatePipeline(p)]

AddPendingPhase(p) ==
    IF Holds(phases, p.name) THEN UNCHANGED <<mRenderPhase, fault>>
    ELSE IF CreateRenderPhaseReturns(p)
    THEN /\ mRenderPhase' = [mRenderPhase EXCEPT ![p.name] = NewRenderPhase]
         /\ UNCHANGED fault
    ELSE fault' = "overflow" /\ UNCHANGED mRenderPhase

\* addDeleteElement, called with the lock of getLock.
AddDeleteElement(type, name) == mDeleteList' = mDeleteList \cup {<<type, name>>}

LocalEdit(e) ==
    /\ main = "loop" /\ edits < MaxEdits
    /\ edits' = edits + 1
    /\ risky' = (risky \/ e.type \in {"pipeline", "phase"})
    /\ \/ /\ e.op = "add" /\ e.type = "model"
          /\ AddPendingModel(e.param)
          /\ UNCHANGED <<mPipelineHash, mRenderPhase, mDeleteList, fault>>
       \/ /\ e.op = "add" /\ e.type = "pipeline"
          /\ AddPendingPipeline(e.param)
          /\ UNCHANGED <<mModelHash, mRenderPhase, mDeleteList, fault>>
       \/ /\ e.op = "add" /\ e.type = "phase"
          /\ AddPendingPhase(e.param)
          /\ UNCHANGED <<mModelHash, mPipelineHash, mDeleteList>>
       \/ /\ e.op = "delete" /\ lock = None
          /\ AddDeleteElement(e.type, e.name)
          /\ UNCHANGED <<mModelHash, mPipelineHash, mRenderPhase, fault>>
    /\ UNCHANGED <<objects, models, pipelines, textures, phases, phaseOrder,
                   drawn, mObjectHash, mUpdateList, lock, main, due, walked,
                   updated, serverVars>>

\* onKeyDown(VK_ESCAPE) ends the main loop.
Escape ==
    /\ main = "loop"
    /\ main' = "clear"
    /\ UNCHANGED <<sceneVars, pending, lock, due, walked, updated, serverVars,
                   edits, risky>>

\* SceneInfo::clear; mObjectHash is not among what it clears.
ClearScene ==
    /\ models' = NoModels
    /\ pipelines' = NoPipelines
    /\ textures' = [t \in Textures |-> "absent"]
    /\ phases' = NoRenderPhases
    /\ phaseOrder' = <<>>
    /\ UNCHANGED <<objects, drawn, fault>>

\* ~DXWindow clears the scene first and sets mIsCloseThread afterwards.
Clear ==
    /\ main = "clear"
    /\ main' = "join"
    /\ ClearScene
    /\ UNCHANGED <<pending, lock, due, walked, updated, serverVars, edits,
                   risky>>

Join ==
    /\ main = "join" /\ server = "off"
    /\ main' = "end"
    /\ UNCHANGED <<sceneVars, pending, lock, due, walked, updated, serverVars,
                   edits, risky>>

(***************************************************************************)
(* The thread of the server: DebugCommandServer and the handlers           *)
(***************************************************************************)

\* A client opens a connection; onOpenPred walks the objects of the scene and
\* sends them, without the lock.
Open ==
    /\ server = "poll" /\ received < MaxMessages
    /\ server' = "open"
    /\ received' = received + 1
    /\ UNCHANGED <<sceneVars, pending, lock, main, due, walked, updated, msg,
                   asked, error, edits, risky>>

SendObjects ==
    /\ server = "open"
    /\ server' = "poll"
    /\ UNCHANGED <<sceneVars, pending, lock, main, due, walked, updated, msg,
                   asked, error, received, edits, risky>>

NamesForeign(json) ==
    \E p \in PhaseNames : json.phase[p] # None /\ ~Holds(pipelines, json.phase[p])

\* A message arrives: other opcodes are echoed, text that is not JSON is
\* refused, and the lock is needed only for the arrays the code knows.
Receive(m) ==
    /\ server = "poll" /\ received < MaxMessages
    /\ received' = received + 1
    /\ IF m.opcode # "text" \/ ~m.json
       THEN server' = "poll" /\ UNCHANGED <<msg, risky>>
       ELSE /\ server' = IF m.arrays = {} THEN "reply" ELSE "lock"
            /\ msg' = m
            /\ risky' = (risky \/ \E j \in ToSet(m.add_objects) \cup ToSet(m.update_objects) :
                                    NamesForeign(j))
    /\ asked' = {} /\ error' = FALSE
    /\ UNCHANGED <<sceneVars, pending, lock, main, due, walked, updated, edits>>

LockMessage ==
    /\ server = "lock" /\ lock = None
    /\ lock' = "server"
    /\ server' = "add"
    /\ UNCHANGED <<sceneVars, pending, main, due, walked, updated, msg, asked,
                   error, received, edits, risky>>

\* Mutant of AddObjectOf: the names of the scene are not looked at.
AddUnseen(json) ==
    IF json.name = None
    THEN error' = TRUE /\ UNCHANGED <<mObjectHash, asked>>
    ELSE /\ mObjectHash' = [mObjectHash EXCEPT ![json.name] =
                [CreateObject(NewObject, json) EXCEPT !.enable = json.valid]]
         /\ error' = (error \/ ~json.valid)
         /\ asked' = asked \cup {json.name}

\* SceneInfoMediator::addObject(json): a name that waits is created anew, and
\* one that is refused stays in the hash with an empty impl.
AddObjectOf(json) ==
    IF json.name = None \/ Holds(objects, json.name)
    THEN error' = TRUE /\ UNCHANGED <<mObjectHash, asked>>
    ELSE LET old == mObjectHash[json.name]
             new == CreateObject(IF old = None THEN NewObject ELSE old, json)
         IN  /\ mObjectHash' = [mObjectHash EXCEPT ![json.name] =
                    IF json.valid THEN [new EXCEPT !.enable = TRUE] ELSE new]
             /\ error' = (error \/ ~json.valid)
             /\ asked' = asked \cup {json.name}

\* Mutant of AddOne: the loop does not go on to the next addition.
AddAgain ==
    /\ server = "add"
    /\ IF msg.add_objects = <<>>
       THEN server' = "del" /\ UNCHANGED <<mObjectHash, asked, error, msg>>
       ELSE AddObjectOf(Head(msg.add_objects)) /\ UNCHANGED <<msg, server>>
    /\ UNCHANGED <<sceneVars, mModelHash, mPipelineHash, mRenderPhase,
                   mDeleteList, mUpdateList, lock, main, due, walked, updated,
                   received, edits, risky>>

AddOne ==
    /\ server = "add"
    /\ IF msg.add_objects = <<>>
       THEN server' = "del" /\ UNCHANGED <<mObjectHash, asked, error, msg>>
       ELSE /\ AddObjectOf(Head(msg.add_objects))
            /\ msg' = [msg EXCEPT !.add_objects = Tail(@)]
            /\ UNCHANGED server
    /\ UNCHANGED <<sceneVars, mModelHash, mPipelineHash, mRenderPhase,
                   mDeleteList, mUpdateList, lock, main, due, walked, updated,
                   received, edits, risky>>

DeleteNext ==
    /\ server = "del"
    /\ IF msg.del_objects = <<>>
       THEN server' = "upd" /\ UNCHANGED <<mDeleteList, msg>>
       ELSE /\ AddDeleteElement("object", Head(msg.del_objects))
            /\ msg' = [msg EXCEPT !.del_objects = Tail(@)]
            /\ UNCHANGED server
    /\ UNCHANGED <<sceneVars, mObjectHash, mModelHash, mPipelineHash,
                   mRenderPhase, mUpdateList, lock, main, due, walked, updated,
                   asked, error, received, edits, risky>>

\* addUpdateElement: the first update of a name is the one that stays.
AddUpdateElement(json) ==
    mUpdateList' = IF json.name = None \/ mUpdateList[json.name] # None
                   THEN mUpdateList
                   ELSE [mUpdateList EXCEPT ![json.name] = json]

UpdateNext ==
    /\ server = "upd"
    /\ IF msg.update_objects = <<>>
       THEN server' = "unlock" /\ UNCHANGED <<mUpdateList, msg>>
       ELSE /\ AddUpdateElement(Head(msg.update_objects))
            /\ msg' = [msg EXCEPT !.update_objects = Tail(@)]
            /\ UNCHANGED server
    /\ UNCHANGED <<sceneVars, mObjectHash, mModelHash, mPipelineHash,
                   mRenderPhase, mDeleteList, lock, main, due, walked, updated,
                   asked, error, received, edits, risky>>

UnlockMessage ==
    /\ server = "unlock"
    /\ lock' = None
    /\ server' = "reply"
    /\ UNCHANGED <<sceneVars, pending, main, due, walked, updated, msg, asked,
                   error, received, edits, risky>>

Reply ==
    /\ server = "reply"
    /\ server' = "poll"
    /\ msg' = NoMessage /\ asked' = {} /\ error' = FALSE
    /\ UNCHANGED <<sceneVars, pending, lock, main, due, walked, updated,
                   received, edits, risky>>

\* serverThread sees mIsCloseThread between two polls.
StopServer ==
    /\ server = "poll" /\ main = "join"
    /\ server' = "off"
    /\ UNCHANGED <<sceneVars, pending, lock, main, due, walked, updated, msg,
                   asked, error, received, edits, risky>>

(***************************************************************************)
(* Unsynchronised accesses                                                 *)
(***************************************************************************)

\* The hashes SceneInfo::clear empties.
Cleared == {"models", "pipelines", "textures", "phases"}

\* What the next step of each thread walks or changes: the containers it
\* reads and those it writes.  Asking whether a container is empty is left
\* out: it reads the size, before or after the other thread changes it.
MainReads ==
    CASE main = "delete" -> {"mDeleteList"}
      [] main = "update" -> {"mUpdateList"}
      [] main = "paint" -> {"objects"}
      [] OTHER -> {}
MainWrites ==
    CASE main = "merge_objects" /\ MayMerge /\ ~IsEmpty(mObjectHash) ->
            {"objects", "mObjectHash"}
      [] main = "delete" -> {"objects", "mDeleteList"}
      [] main = "update" -> {"objects", "mUpdateList"}
      [] main = "clear" -> Cleared
      [] OTHER -> {}
ServerReads ==
    IF server \in {"open", "add"} THEN {"objects"} ELSE {}
ServerWrites ==
    CASE server = "add" -> {"mObjectHash"}
      [] server = "del" -> {"mDeleteList"}
      [] server = "upd" -> {"mUpdateList"}
      [] OTHER -> {}

Conflicts ==
    (MainWrites \cap (ServerReads \cup ServerWrites)) \cup (MainReads \cap ServerWrites)

\* Two threads in one container, one of them writing, have no defined outcome:
\* the steps may fall in some order, or the program ends here.
Race ==
    /\ Conflicts # {}
    /\ fault' = "race"
    /\ UNCHANGED <<objects, models, pipelines, textures, phases, phaseOrder,
                   drawn, pending, lock, main, due, walked, updated, serverVars,
                   edits, risky>>

(***************************************************************************)
(* Specification                                                           *)
(***************************************************************************)

MainStep ==
    \/ \E file \in SceneFiles : LoadScene(file)
    \/ CreateEditor
    \/ CheckData \/ MergeObjects \/ MergeRest
    \/ LookAtDeletes \/ (\E e \in Entries : DeleteOne(e)) \/ ClearDeletes
    \/ LookAtUpdates \/ (\E n \in ObjectNames : UpdateOne(n)) \/ ClearUpdates
    \/ LeaveDeliver \/ PaintScene
    \/ Clear \/ Join

ServerStep ==
    \/ SendObjects \/ LockMessage \/ AddOne \/ DeleteNext \/ UpdateNext
    \/ UnlockMessage \/ Reply \/ StopServer

Stopped == main = "end" \/ fault # None

Next ==
    \/ /\ ~Stopped
       /\ \/ MainStep
          \/ ServerStep
          \/ Open
          \/ \E m \in Messages : Receive(m)
          \/ \E e \in LocalEdits : LocalEdit(e)
          \/ Escape
          \/ Race
    \/ Stopped /\ UNCHANGED vars

\* The main loop dispatches WM_PAINT again and again, the server thread polls
\* until it is told to close; nobody has to send a message or press escape.
\* Of the mutex nothing is assumed but that a thread which waits gets it when
\* it stays free.
Fairness ==
    /\ WF_vars(~Stopped /\ MainStep)
    /\ WF_vars(~Stopped /\ ServerStep)

Spec == Init /\ [][Next]_vars /\ Fairness

(***************************************************************************)
(* Properties                                                              *)
(***************************************************************************)

\* What the handler has accepted arrives.  While it holds the lock, all that
\* its message has added waits: deliver does not take half of a message
\* (SceneInfoMediator.cpp:32-37, 166-193); and the name, which was free in the
\* scene when the handler looked, still is when deliver merges the object, so
\* that it is not dropped (SceneInfoMediator.cpp:178-186, SceneInfo.cpp:102-112).
AdditionsArrive ==
    /\ server \in {"add", "del", "upd", "unlock"} =>
         \A n \in asked : Holds(mObjectHash, n)
    /\ \A n \in ObjectNames : Holds(mObjectHash, n) => ~Holds(objects, n)

\* An object whose deletion deliver has applied is gone until the next
\* delivery, also when the same delivery has merged it and an update of it
\* comes after (SceneInfoMediator.cpp:57-99, SceneInfo.cpp:283-292).
DeletedStayDeleted ==
    main \in {"updates", "update", "unlock", "paint"} =>
        \A n \in ObjectNames : <<"object", n>> \in walked => ~Holds(objects, n)

\* What is painted has its resources: an object whose model is missing, was
\* deleted or came through the mediator without resources is passed over, also
\* after the paint has put an empty model in its place
\* (SceneEditorScene.cpp:117-119, SceneInfo.cpp:91-99).  And nothing else ends
\* the program but a race: unless the file has what nothing checks, or somebody
\* names a pipeline the scene does not hold or changes its pipelines and phases,
\* no order of requests makes a paint throw (SceneEditorScene.cpp:92-139,
\* Window.cpp:52-58).
PaintIsSound ==
    /\ main = "loop" =>
         \A d \in drawn :
            /\ Holds(models, d[2]) /\ models[d[2]].created
            /\ Holds(pipelines, d[3]) /\ pipelines[d[3]].created
            /\ pipelines[d[3]].textured => textures[models[d[2]].tex] = "loaded"
    /\ fault \in {None, "race"} \/ risky

DropsOnlyLate ==
    /\ \A e \in mDeleteList \ (mDeleteList' \cup walked) : lock # "main" /\ e \notin due
    /\ \A n \in Updates \ updated :
         mUpdateList'[n] # mUpdateList[n] => lock # "main" /\ n \notin due

\* No request is dropped by a deliver that has the mutex: a deletion or an
\* update leaves its list only after it was applied, or it came in while deliver
\* walked the list without the lock, which it takes only for what it merges
\* (SceneInfoMediator.cpp:30-99).
OnlyLateRequestsAreDropped == [][DropsOnlyLate]_vars

\* Every deletion is applied in the end, whichever other container is empty,
\* unless the window closes (SceneInfoMediator.cpp:57-78, 303-315).  Left out
\* are those that came in while deliver walked the list: without the lock they
\* may be cleared with it.
Delivered ==
    \A e \in Entries :
        (e \in mDeleteList /\ (main = "delete" => e \in due))
            ~> (e \in walked \/ main \in {"clear", "join"} \/ Stopped)

\* Closing ends: the server thread leaves its loop and is joined, whatever it
\* was doing (DXWindow.cpp:20-27, 76-79).
CloseEnds == main = "clear" ~> Stopped
=============================================================================
