---------------------------- MODULE WorkspaceTask ----------------------------
(***************************************************************************)
(* The workspace of a durable task: publication of a repository as bundle  *)
(* and pointer, submission against the pointer, the prepare and finish     *)
(* effects (workspace_effect.py over artifacts.py and                      *)
(* ensure_execution_image.py) and the session that works in between.       *)
(*                                                                         *)
(* The owner may die at any step.  Its effects are processes of their own: *)
(* they die with it or live on as orphans beside those of the next owner.  *)
(* Effect g of task t is the one the g-th owner process started.           *)
(*                                                                         *)
(* A commit is a number, later ones greater; the work of a session is the  *)
(* number of its edits; a bundle is the commit it holds.                   *)
(***************************************************************************)
EXTENDS Naturals, FiniteSets

CONSTANTS
  Tasks, Publishers,
  Commits,      \* of the published branch: 1 .. n
  Version(_),   \* the image version that a commit's build inputs declare, or None
  Own,          \* the image version that a session's own commits may declare
  Scratch,      \* the workspace of a task without a repository
  None,         \* nothing
  MaxEdits, MaxBuilds, MaxCrashes   \* bounds

ASSUME WorkspaceAssumption ==
  /\ Commits \subseteq Nat \ {0} /\ 1 \in Commits
  /\ {MaxEdits, MaxBuilds, MaxCrashes} \subseteq Nat
  /\ {Scratch, None} \cap Nat = {} /\ Scratch # None

VARIABLES
  branch, publisher, bundles, pointer,   \* the repository, its publishers, the store
  source, status, answer,                \* durable with the owner and the session
  dir, patch, stored,                    \* the task's directory; its objects in the store
  step, session,                         \* volatile: the handler, the open session
  effect,                                \* the effect processes
  builds, archives, installed,           \* workflow runs, handoff folder, local images
  crashes,
  work, overtaken                        \* history: edits ever made; an orphan interfered

repository == <<branch, publisher, bundles, pointer>>
task == <<source, status, answer>>
results == <<patch, stored>>
owner == <<step, session>>
images == <<builds, archives, installed>>
history == <<work, overtaken>>
vars == <<repository, task, dir, results, owner, effect, images, crashes, history>>

Owners == 0 .. MaxCrashes
Versions == {Version(c) : c \in Commits} \cup {Own, None}
\* A directory: a marker that names the snapshot, or one that is still empty.
Bare == [marker |-> FALSE, torn |-> FALSE, bundle |-> FALSE, tree |-> None]
Tree(c) == [base |-> c, edits |-> 0, committed |-> 0,
            inputs |-> IF c \in Commits THEN Version(c) ELSE None]

\* What stands for nothing is not a workspace, a session or a captured result.
Trees == [base : Commits \cup {Scratch, None}, edits : Nat, committed : Nat, inputs : Versions]
Sessions == [image : Versions]
Captures == [from : Nat, to : Nat]
ASSUME NothingAssumption == None \notin Trees \cup Sessions \cup Captures

Over == {"none", "prepared", "finished"}
Idle == [at |-> "none", plan |-> None, build |-> 0, seen |-> None]

Init ==
  /\ branch = 1 /\ publisher = [p \in Publishers |-> [at |-> "start", bundle |-> 0]]
  /\ bundles = {} /\ pointer = None
  /\ source = [t \in Tasks |-> None] /\ status = [t \in Tasks |-> "none"]
  /\ answer = [t \in Tasks |-> None]
  /\ dir = [t \in Tasks |-> Bare]
  /\ patch = [t \in Tasks |-> None] /\ stored = [t \in Tasks |-> {}]
  /\ step = [t \in Tasks |-> "none"] /\ session = [t \in Tasks |-> None]
  /\ effect = [t \in Tasks |-> [g \in Owners |-> Idle]]
  /\ builds = <<>> /\ archives = {} /\ installed = {}
  /\ crashes = 0
  /\ work = [t \in Tasks |-> 0] /\ overtaken = [t \in Tasks |-> FALSE]

-----------------------------------------------------------------------------
(* Publication. *)

Push ==
  /\ branch + 1 \in Commits /\ branch' = branch + 1
  /\ UNCHANGED <<publisher, bundles, pointer, task, dir, results, owner, effect, images,
                 crashes, history>>

\* Mutant: a bundle is stored under the name of its workspace, over the one before.
PublishInPlace(p) ==
  /\ publisher[p].at = "start"
  /\ publisher' = [publisher EXCEPT ![p] = [at |-> "stored", bundle |-> branch]]
  /\ bundles' = {branch}
  /\ UNCHANGED <<branch, pointer, task, dir, results, owner, effect, images, crashes, history>>

\* A publisher bundles the branch and stores the bundle under its digest.  It has read HEAD
\* before, for a label of the pointer that nothing reads.
Publish(p) ==
  /\ publisher[p].at = "start"
  /\ publisher' = [publisher EXCEPT ![p] = [at |-> "stored", bundle |-> branch]]
  /\ bundles' = bundles \cup {branch}
  /\ UNCHANGED <<branch, pointer, task, dir, results, owner, effect, images, crashes, history>>

\* It then writes the pointer: the last writer wins, whatever it bundled.
Point(p) ==
  /\ publisher[p].at = "stored"
  /\ pointer' = publisher[p].bundle
  /\ publisher' = [publisher EXCEPT ![p] = [at |-> "done", bundle |-> 0]]
  /\ UNCHANGED <<branch, bundles, task, dir, results, owner, effect, images, crashes, history>>

-----------------------------------------------------------------------------
(* The task. *)

\* TaskService.submit: the pointer is resolved once, the task keeps the bundle's URI.
Submit(t) ==
  /\ status[t] = "none"
  /\ \/ pointer # None /\ source' = [source EXCEPT ![t] = pointer]
     \/ source' = [source EXCEPT ![t] = Scratch]
  /\ status' = [status EXCEPT ![t] = "accepted"]
  /\ UNCHANGED <<repository, answer, dir, results, owner, effect, images, crashes, history>>

\* Effect g of t stands at a step, goes on to one, or is over: an orphan's result is lost.
At(t, g, s) == effect[t][g].at = s
Goes(t, g, s) == effect' = [effect EXCEPT ![t][g].at = s]
Ends(t, g, s) ==
  effect' = [effect EXCEPT ![t][g] = IF g # crashes THEN Idle
                               ELSE [Idle EXCEPT !.at = s, !.plan = effect[t][g].plan]]

\* The effect changes the directory; an orphan does so behind the back of the next owner.
Writes(t, g, d) ==
  /\ dir' = [dir EXCEPT ![t] = d]
  /\ overtaken' = [overtaken EXCEPT ![t] = @ \/ g # crashes]

\* The harness runs the handler: first, or again after a restart.
Start(t) ==
  /\ status[t] = "accepted" /\ step[t] = "none"
  /\ step' = [step EXCEPT ![t] = "prepare"]
  /\ Goes(t, crashes, "check")
  /\ UNCHANGED <<repository, task, dir, results, session, images, crashes, history>>

\* The task settles.  A session not handed over is closed; what another does after this is
\* nobody's result and left out.
Settle(t, s) ==
  /\ status' = [status EXCEPT ![t] = s]
  /\ step' = [step EXCEPT ![t] = "over"]
  /\ session' = [session EXCEPT ![t] = None]

\* An effect exits with an error at any step: its owner, if it lives, fails the task.
EffectFails(t, g) ==
  /\ effect[t][g].at \notin Over
  /\ effect' = [effect EXCEPT ![t][g] = Idle]
  /\ IF g = crashes THEN Settle(t, "failed") ELSE UNCHANGED <<status, step, session>>
  /\ UNCHANGED <<repository, source, answer, dir, results, images, crashes, history>>

-----------------------------------------------------------------------------
(* prepare: materialize_workspace ... *)

\* Mutant: the marker is not looked at.
CheckUnmarked(t, g) ==
  /\ At(t, g, "check")
  /\ IF source[t] = Scratch
       THEN /\ Ends(t, g, "prepared")
            /\ IF dir[t].tree = None THEN Writes(t, g, [dir[t] EXCEPT !.tree = Tree(Scratch)])
                                     ELSE UNCHANGED <<dir, overtaken>>
       ELSE Goes(t, g, "clear") /\ UNCHANGED <<dir, overtaken>>
  /\ UNCHANGED <<repository, task, results, owner, images, crashes, work>>

\* A scratch directory is made when there is none.  A marked directory is used as it is,
\* if it holds a workspace; one whose marker is empty is refused; another is made anew.
Check(t, g) ==
  /\ At(t, g, "check")
  /\ IF source[t] = Scratch
       THEN /\ Ends(t, g, "prepared")
            /\ IF dir[t].tree = None THEN Writes(t, g, [dir[t] EXCEPT !.tree = Tree(Scratch)])
                                     ELSE UNCHANGED <<dir, overtaken>>
       ELSE /\ IF dir[t].marker THEN dir[t].tree # None /\ Goes(t, g, "inspect")
                                ELSE ~dir[t].torn /\ Goes(t, g, "clear")
            /\ UNCHANGED <<dir, overtaken>>
  /\ UNCHANGED <<repository, task, results, owner, images, crashes, work>>

Clear(t, g) ==
  /\ At(t, g, "clear")
  /\ Goes(t, g, "download") /\ Writes(t, g, Bare)
  /\ UNCHANGED <<repository, task, results, owner, images, crashes, work>>

Download(t, g) ==
  /\ At(t, g, "download") /\ source[t] \in bundles
  /\ Goes(t, g, "init") /\ Writes(t, g, [dir[t] EXCEPT !.bundle = TRUE])
  /\ UNCHANGED <<repository, task, results, owner, images, crashes, work>>

\* mkdir refuses a directory that is there.
InitTree(t, g) ==
  /\ At(t, g, "init") /\ dir[t].tree = None
  /\ Goes(t, g, "checkout") /\ Writes(t, g, [dir[t] EXCEPT !.tree = Tree(None)])
  /\ UNCHANGED <<repository, task, results, owner, images, crashes, work>>

\* Mutant: the marker is written when the checkout begins.
CheckoutMarked(t, g) ==
  /\ At(t, g, "checkout") /\ dir[t].bundle /\ dir[t].tree # None
  /\ IF dir[t].marker
       THEN dir[t].tree.base = None /\ Goes(t, g, "mark")
            /\ Writes(t, g, [dir[t] EXCEPT !.tree = Tree(source[t])])
       ELSE Goes(t, g, "checkout") /\ Writes(t, g, [dir[t] EXCEPT !.marker = TRUE])
  /\ UNCHANGED <<repository, task, results, owner, images, crashes, work>>

\* git refuses to make a branch that is there.
Checkout(t, g) ==
  /\ At(t, g, "checkout") /\ dir[t].bundle /\ dir[t].tree # None /\ dir[t].tree.base = None
  /\ Goes(t, g, "mark") /\ Writes(t, g, [dir[t] EXCEPT !.tree = Tree(source[t])])
  /\ UNCHANGED <<repository, task, results, owner, images, crashes, work>>

\* write_text opens the marker, empty, ...
OpenMark(t, g) ==
  /\ At(t, g, "mark")
  /\ Goes(t, g, "marking") /\ Writes(t, g, [dir[t] EXCEPT !.marker = FALSE, !.torn = TRUE])
  /\ UNCHANGED <<repository, task, results, owner, images, crashes, work>>

\* ... and fills it.
Mark(t, g) ==
  /\ At(t, g, "marking")
  /\ Goes(t, g, "inspect") /\ Writes(t, g, [dir[t] EXCEPT !.marker = TRUE, !.torn = FALSE])
  /\ UNCHANGED <<repository, task, results, owner, images, crashes, work>>

-----------------------------------------------------------------------------
(* ... and ensure_execution_image. *)

\* The version is that of the workspace's HEAD, which a resumed session may have moved.
Wanted(t) == IF dir[t].tree = None THEN None ELSE dir[t].tree.inputs

\* GiteaActions: a run of the build workflow is dispatched; it is read as over with success;
\* it is cancelled, which is refused for one that is over.
Dispatch(v) ==
  builds' = [b \in 1 .. Cardinality(DOMAIN builds) + 1 |->
               IF b \in DOMAIN builds THEN builds[b] ELSE [version |-> v, status |-> "queued"]]

Succeeded(b) == builds[b].status = "success"

Cancel(b) ==
  builds' = [builds EXCEPT ![b].status = IF @ = "queued" THEN "cancelled" ELSE @]

\* No image declared, or there already; else its archive is, or a build is asked for.
Inspect(t, g) ==
  /\ At(t, g, "inspect")
  /\ LET v == Wanted(t) IN
       \/ /\ v \in installed \cup {None} /\ UNCHANGED builds
          /\ effect' = [effect EXCEPT ![t][g] =
                          IF g = crashes THEN [Idle EXCEPT !.at = "prepared", !.plan = v]
                                         ELSE Idle]
       \/ /\ v \notin installed \cup {None} /\ v \in archives /\ UNCHANGED builds
          /\ effect' = [effect EXCEPT ![t][g].at = "install", ![t][g].plan = v]
       \/ /\ v \notin installed \cup archives \cup {None} /\ Cardinality(DOMAIN builds) < MaxBuilds
          /\ Dispatch(v)
          /\ effect' = [effect EXCEPT ![t][g].at = "poll", ![t][g].plan = v,
                                      ![t][g].build = Cardinality(DOMAIN builds) + 1]
  /\ UNCHANGED <<repository, task, dir, results, owner, archives, installed, crashes, history>>

Poll(t, g) ==
  /\ At(t, g, "poll") /\ Succeeded(effect[t][g].build)
  /\ effect' = [effect EXCEPT ![t][g].at = "install", ![t][g].build = 0]
  /\ UNCHANGED <<repository, task, dir, results, owner, images, crashes, history>>

\* Mutant: the wait for the build has no deadline.
ExpireNever(t, g) == FALSE /\ UNCHANGED vars

\* The deadline passes, or the run has failed: the effect fails; the run is cancelled
\* unless that request fails too.
Expire(t, g) ==
  /\ At(t, g, "poll") /\ ~Succeeded(effect[t][g].build)
  /\ effect' = [effect EXCEPT ![t][g] = Idle]
  /\ Cancel(effect[t][g].build) \/ UNCHANGED builds
  /\ IF g = crashes THEN Settle(t, "failed") ELSE UNCHANGED <<status, step, session>>
  /\ UNCHANGED <<repository, source, answer, dir, results, archives, installed, crashes,
                 history>>

\* The installer takes the archive of the version that was planned.
Install(t, g) ==
  /\ At(t, g, "install") /\ effect[t][g].plan \in archives
  /\ installed' = installed \cup {effect[t][g].plan}
  /\ Ends(t, g, "prepared")
  /\ UNCHANGED <<repository, task, dir, results, owner, builds, archives, crashes, history>>

\* The build service puts an archive in place whole; cancelling the run does not stop it.
\* It may hang: a run that has failed is not told from one that never ends.
Build(b) ==
  /\ builds[b].status = "queued" \/ builds[b].version \notin archives
  /\ archives' = archives \cup {builds[b].version}
  /\ builds' = [builds EXCEPT ![b].status = IF @ = "queued" THEN "success" ELSE @]
  /\ UNCHANGED <<repository, task, dir, results, owner, effect, installed, crashes, history>>

-----------------------------------------------------------------------------
(* The session. *)

\* The session is opened in the prepared workspace, or its store is reopened.
OpenSession(t) ==
  /\ step[t] = "prepare" /\ At(t, crashes, "prepared")
  /\ step' = [step EXCEPT ![t] = "session"]
  /\ session' = [session EXCEPT ![t] = [image |-> effect[t][crashes].plan]]
  /\ effect' = [effect EXCEPT ![t][crashes] = Idle]
  /\ UNCHANGED <<repository, task, dir, results, images, crashes, history>>

\* The session works, on the task or for the prompts of attached clients.
Edit(t) ==
  /\ session[t] # None /\ dir[t].tree # None /\ work[t] < MaxEdits
  /\ dir' = [dir EXCEPT ![t].tree.edits = @ + 1]
  /\ work' = [work EXCEPT ![t] = @ + 1]
  /\ UNCHANGED <<repository, task, results, owner, effect, images, crashes, overtaken>>

\* git commit in the workspace; the commit may change what the image is built from.
Commit(t) ==
  /\ session[t] # None /\ source[t] # Scratch /\ dir[t].tree # None
  /\ dir[t].tree.committed < dir[t].tree.edits
  /\ \E v \in {dir[t].tree.inputs, Own} :
       dir' = [dir EXCEPT ![t].tree = [@ EXCEPT !.committed = dir[t].tree.edits, !.inputs = v]]
  /\ UNCHANGED <<repository, task, results, owner, effect, images, crashes, history>>

\* The first answer, kept in the session's store: a resumed session gives it again.  The
\* session is left to its clients and the finish effect starts.
Answer(t) ==
  /\ step[t] = "session"
  /\ answer' = [answer EXCEPT ![t] = IF @ = None THEN work[t] ELSE @]
  /\ step' = [step EXCEPT ![t] = "finish"]
  /\ Goes(t, crashes, "capture")
  /\ UNCHANGED <<repository, source, status, dir, results, session, images, crashes,
                 history>>

SessionFails(t) ==
  /\ step[t] = "session" /\ Settle(t, "failed")
  /\ UNCHANGED <<repository, source, answer, dir, results, effect, images, crashes,
                 history>>

\* The idle timer closes a session that was handed over.
CloseSession(t) ==
  /\ session[t] # None /\ step[t] # "session"
  /\ session' = [session EXCEPT ![t] = None]
  /\ UNCHANGED <<repository, task, dir, results, step, effect, images, crashes, history>>

-----------------------------------------------------------------------------
(* finish: capture_result, capture_scratch_result. *)

\* What is not committed, or every file of a scratch workspace, is read ...
Capture(t, g) ==
  /\ At(t, g, "capture") /\ dir[t].tree # None
  /\ effect' = [effect EXCEPT ![t][g].at = "put",
                              ![t][g].seen = [from |-> dir[t].tree.committed,
                                              to |-> dir[t].tree.edits]]
  /\ UNCHANGED <<repository, task, dir, results, owner, images, crashes, history>>

\* ... and put object by object, over those of an earlier attempt.
Put(t, g) ==
  /\ At(t, g, "put")
  /\ patch' = [patch EXCEPT ![t] = effect[t][g].seen]
  /\ stored' = [stored EXCEPT ![t] = @ \cup {"result"}]
  /\ effect' = [effect EXCEPT ![t][g].at = "rest", ![t][g].seen = None]
  /\ UNCHANGED <<repository, task, dir, owner, images, crashes, history>>

PutRest(t, g) ==
  /\ At(t, g, "rest")
  /\ stored' = [stored EXCEPT ![t] = @ \cup {"execution"}]
  /\ Ends(t, g, "finished")
  /\ UNCHANGED <<repository, task, dir, patch, owner, images, crashes, history>>

Complete(t) ==
  /\ step[t] = "finish" /\ At(t, crashes, "finished")
  /\ Settle(t, "completed")
  /\ effect' = [effect EXCEPT ![t][crashes] = Idle]
  /\ UNCHANGED <<repository, source, answer, dir, results, images, crashes, history>>

\* cancel: the effect is killed, a session not handed over is closed.
Abort(t) ==
  /\ status[t] = "accepted"
  /\ Settle(t, "aborted")
  /\ effect' = [effect EXCEPT ![t][crashes] = Idle]
  /\ UNCHANGED <<repository, source, answer, dir, results, images, crashes, history>>

\* The owner dies and another opens the store; some effects live on.
Crash ==
  /\ crashes < MaxCrashes /\ crashes' = crashes + 1
  /\ \E orphans \in SUBSET {t \in Tasks : effect[t][crashes].at \notin Over} :
       effect' = [t \in Tasks |-> [g \in Owners |->
                    IF g = crashes /\ t \notin orphans THEN Idle ELSE effect[t][g]]]
  /\ step' = [t \in Tasks |-> IF status[t] = "accepted" THEN "none" ELSE step[t]]
  /\ session' = [t \in Tasks |-> None]
  /\ UNCHANGED <<repository, task, dir, results, images, history>>

-----------------------------------------------------------------------------
EffectStep(t, g) ==
  \/ Check(t, g) \/ Clear(t, g) \/ Download(t, g) \/ InitTree(t, g) \/ Checkout(t, g)
  \/ OpenMark(t, g) \/ Mark(t, g) \/ Inspect(t, g) \/ Poll(t, g) \/ Expire(t, g) \/ Install(t, g)
  \/ Capture(t, g) \/ Put(t, g) \/ PutRest(t, g)

Next ==
  \/ Push
  \/ \E p \in Publishers : Publish(p) \/ Point(p)
  \/ \E t \in Tasks :
       \/ Submit(t) \/ Start(t) \/ OpenSession(t) \/ Edit(t) \/ Commit(t) \/ Answer(t)
       \/ SessionFails(t) \/ CloseSession(t) \/ Complete(t) \/ Abort(t)
       \/ \E g \in Owners : EffectStep(t, g) \/ EffectFails(t, g)
  \/ \E b \in DOMAIN builds : Build(b)
  \/ Crash

\* The handler of the owner that lives goes on: at any time one of these is enabled.
Handler(t) ==
  \/ Start(t) \/ OpenSession(t) \/ Answer(t) \/ SessionFails(t) \/ Complete(t)
  \/ \E g \in Owners : g = crashes /\ EffectStep(t, g)

\* An effect that can do nothing, other than wait for a build, fails.  Builds need not end,
\* orphans need not move.
Fairness ==
  \A t \in Tasks :
    /\ WF_vars(Handler(t))
    /\ WF_vars(\E g \in Owners : g = crashes /\ ~At(t, g, "poll") /\ EffectFails(t, g))

Spec == Init /\ [][Next]_vars /\ Fairness

-----------------------------------------------------------------------------
(* Properties. *)

\* Type correctness.
TypeOK ==
  /\ branch \in Commits /\ bundles \subseteq Commits
  /\ \A p \in Publishers : publisher[p].at \in {"start", "stored", "done"}
  /\ pointer \in Commits \cup {None}
  /\ source \in [Tasks -> Commits \cup {Scratch, None}]
  /\ status \in [Tasks -> {"none", "accepted", "completed", "failed", "aborted"}]
  /\ answer \in [Tasks -> 0 .. MaxEdits \cup {None}]
  /\ \A t \in Tasks : dir[t].tree # None =>
       /\ dir[t].tree.base \in Commits \cup {Scratch, None}
       /\ dir[t].tree.committed <= dir[t].tree.edits /\ dir[t].tree.edits <= MaxEdits
       /\ dir[t].tree.inputs \in Versions
  /\ step \in [Tasks -> {"none", "prepare", "session", "finish", "over"}]
  /\ session \in [Tasks -> {None} \cup Sessions]
  /\ \A t \in Tasks : \A g \in Owners :
       /\ effect[t][g].build \in {0} \cup DOMAIN builds
       /\ g > crashes => effect[t][g] = Idle
  /\ archives \subseteq Versions \ {None} /\ installed \subseteq archives
  /\ \A t \in Tasks : step[t] = "over" <=> status[t] \in {"completed", "failed", "aborted"}
  /\ stored \in [Tasks -> SUBSET {"result", "execution"}]

\* The pointer and every accepted task name a bundle that is in the store, though
\* publishers race each other, write their pointers in another order than their bundles, and
\* may stop between the two writes.
SnapshotsResolve ==
  /\ pointer # None => pointer \in bundles
  /\ \A t \in Tasks : source[t] \in Nat => source[t] \in bundles

\* workspace_effect.py: "Its task directory survives owner restart so a native
\* conversation can resume against the same workspace": an open session stands in a complete
\* checkout of the task's snapshot with every edit it ever made, in an image that is
\* installed, unless an orphan has written to the directory behind it.
WorkSurvives ==
  \A t \in Tasks : session[t] # None /\ ~overtaken[t] =>
    /\ dir[t].tree # None
    /\ dir[t].tree.base = source[t] /\ dir[t].tree.edits = work[t]
    /\ session[t].image \in installed \cup {None}

\* The stored result of a completed task holds all the session had done when it gave its
\* answer, but for what it committed itself: neither a repeated nor an orphaned capture puts an
\* older state over it.
ResultCoversAnswer ==
  \A t \in Tasks : status[t] = "completed" /\ ~overtaken[t] =>
    /\ stored[t] = {"result", "execution"}
    /\ patch[t].to >= answer[t] /\ patch[t].from <= dir[t].tree.committed

\* A task settles although image builds hang and the owner dies.
EveryTaskSettles ==
  \A t \in Tasks : status[t] = "accepted" ~> status[t] \in {"completed", "failed", "aborted"}
=============================================================================
