------------------------ MODULE WorkspaceTaskProofs ------------------------
(***************************************************************************)
(* Proofs about WorkspaceTask: for any tasks, publishers, commits, edits   *)
(* and crashes of the owner, a pinned snapshot is in the store, a session  *)
(* stands in its task's work, and a completed result covers the answer.    *)
(***************************************************************************)
EXTENDS WorkspaceTask, FiniteSetTheorems, TLAPS

Final == {"completed", "failed", "aborted"}
Preparing == {"check", "clear", "download", "init", "checkout", "mark", "marking", "inspect",
              "poll", "install"}
Finishing == {"capture", "put", "rest"}
Dirs == [marker : BOOLEAN, torn : BOOLEAN, bundle : BOOLEAN, tree : Trees \cup {None}]
Stages == {"none"} \cup Preparing \cup Finishing \cup Over
Effects == [at : Stages, plan : Versions, build : Nat, seen : Captures \cup {None}]

\* A publisher that has stored its bundle holds a bundle of the store, and so do the pointer
\* and every task that was submitted with a repository.
StoreInv ==
  /\ branch \in Commits /\ bundles \subseteq Commits /\ pointer \in Commits \cup {None}
  /\ publisher \in [Publishers -> [at : {"start", "stored", "done"}, bundle : Nat]]
  /\ source \in [Tasks -> Commits \cup {Scratch, None}]
  /\ \A p \in Publishers : publisher[p].at = "stored" => publisher[p].bundle \in bundles
  /\ SnapshotsResolve

Types ==
  /\ status \in [Tasks -> {"none", "accepted"} \cup Final]
  /\ answer \in [Tasks -> Nat \cup {None}] /\ work \in [Tasks -> Nat]
  /\ overtaken \in [Tasks -> BOOLEAN]
  /\ dir \in [Tasks -> Dirs] /\ effect \in [Tasks -> [Owners -> Effects]]
  /\ step \in [Tasks -> {"none", "prepare", "session", "finish", "over"}]
  /\ session \in [Tasks -> {None} \cup Sessions]
  /\ patch \in [Tasks -> Captures \cup {None}]
  /\ stored \in [Tasks -> SUBSET {"result", "execution"}]
  /\ crashes \in Owners
  /\ \E n \in Nat : DOMAIN builds = 1 .. n

\* The effect of the owner that lives.
Mine(t) == effect[t][crashes]

\* The handler, the session and the effect of the owner that lives keep step.
StepInv(t) ==
  /\ \A g \in Owners : g > crashes => effect[t][g] = Idle
  /\ Mine(t).at \in Preparing \cup {"prepared"} => step[t] = "prepare"
  /\ Mine(t).at \in Finishing \cup {"finished"} => step[t] = "finish"
  /\ step[t] \in {"prepare", "session", "finish"} => status[t] = "accepted"
  /\ step[t] = "over" => status[t] \in Final
  /\ status[t] \in Final => step[t] = "over"
  /\ session[t] # None => step[t] \in {"session", "finish"}
  /\ status[t] = "none" =>
       /\ source[t] = None /\ answer[t] = None /\ dir[t] = Bare /\ patch[t] = None
       /\ work[t] = 0 /\ \A g \in Owners : effect[t][g] = Idle
  /\ status[t] # "none" => source[t] # None

\* The image of a session was installed when it was planned.
ImageInv(t) ==
  /\ \A g \in Owners : effect[t][g].at \in {"none", "check"} => effect[t][g].plan = None
  /\ Mine(t).at = "prepared" => Mine(t).plan \in installed \cup {None}
  /\ session[t] # None => session[t].image \in installed \cup {None}

\* The directory holds a checkout of the snapshot with all the edits; what tells the next
\* owner so is its marker, or that there is no repository.
Kept(t) == dir[t].tree # None /\ dir[t].tree.base = source[t] /\ dir[t].tree.edits = work[t]
Ready(t) == Kept(t) /\ (source[t] # Scratch => dir[t].marker)

\* What the effect finds at step s.
Stands(t, s) ==
  /\ s \in {"clear", "download", "init", "checkout", "mark", "marking"} =>
       source[t] # Scratch /\ ~dir[t].marker
  /\ s \in {"mark", "marking"} => Kept(t)
  /\ s \in {"inspect", "poll", "install", "prepared"} => Ready(t)

\* Unless an orphan has written to it, the directory is ready from the first session on, and
\* is cleared only while it is not.
DirInv(t) == ~overtaken[t] =>
  /\ dir[t].marker => Kept(t)
  /\ source[t] = Scratch /\ dir[t].tree # None => Kept(t)
  /\ work[t] > 0 \/ answer[t] # None \/ session[t] # None \/ step[t] = "session" => Ready(t)
  /\ Stands(t, Mine(t).at)

\* c holds all that was done before the answer, but for what was committed.
Covers(t, c) == c.to >= answer[t] /\ c.from <= dir[t].tree.committed

\* The answer comes before every capture.
ResultInv(t) ==
  /\ answer[t] # None => answer[t] <= work[t]
  /\ dir[t].tree # None => dir[t].tree.committed <= dir[t].tree.edits
  /\ step[t] = "finish" \/ status[t] = "completed" \/ patch[t] # None => answer[t] # None
  /\ \A g \in Owners :
       /\ effect[t][g].at \in Finishing => answer[t] # None
       /\ effect[t][g].at = "put" => effect[t][g].seen # None
       /\ effect[t][g].at \in {"rest", "finished"} => patch[t] # None /\ "result" \in stored[t]
       /\ effect[t][g].at = "finished" => stored[t] = {"result", "execution"}
  /\ status[t] = "completed" => patch[t] # None /\ stored[t] = {"result", "execution"}
  /\ ~overtaken[t] =>
       /\ \A g \in Owners : effect[t][g].at = "put" => Covers(t, effect[t][g].seen)
       /\ patch[t] # None => Covers(t, patch[t])

TaskInv(t) == StepInv(t) /\ ImageInv(t) /\ DirInv(t) /\ ResultInv(t)
WorkInv == StoreInv /\ Types /\ \A t \in Tasks : TaskInv(t)

-----------------------------------------------------------------------------
(* The store. *)

\* The other steps leave the repository and the sources alone.
LEMMA StoreApart ==
  ASSUME Next
  PROVE  \/ UNCHANGED <<repository, source>>
         \/ Push
         \/ \E p \in Publishers : Publish(p) \/ Point(p)
         \/ \E t \in Tasks : Submit(t)
<1>1. ASSUME NEW t \in Tasks, NEW g \in Owners, EffectStep(t, g) \/ EffectFails(t, g)
      PROVE  UNCHANGED <<repository, source>>
  BY <1>1 DEF EffectStep, EffectFails, Check, Clear, Download, InitTree, Checkout, OpenMark, Mark, Inspect,
              Poll, Expire, Install, Capture, Put, PutRest, task
<1>2. ASSUME NEW t \in Tasks, Start(t) \/ OpenSession(t) \/ Edit(t) \/ Commit(t) \/ Answer(t)
                              \/ SessionFails(t) \/ CloseSession(t) \/ Complete(t) \/ Abort(t)
      PROVE  UNCHANGED <<repository, source>>
  BY <1>2 DEF Start, OpenSession, Edit, Commit, Answer, SessionFails, CloseSession, Complete,
              Abort, task
<1>3. ASSUME NEW b \in DOMAIN builds, Build(b) PROVE UNCHANGED <<repository, source>>
  BY <1>3 DEF Build, task
<1>4. CASE Crash
  BY <1>4 DEF Crash, task
<1>5. QED
  BY <1>1, <1>2, <1>3, <1>4 DEF Next

LEMMA StoreStep == StoreInv /\ [Next]_vars => StoreInv'
<1> SUFFICES ASSUME StoreInv, [Next]_vars PROVE StoreInv'
  OBVIOUS
<1> USE WorkspaceAssumption DEF StoreInv, SnapshotsResolve
<1>1. CASE UNCHANGED <<repository, source>>
  BY <1>1 DEF repository
<1>2. CASE Push
  BY <1>2 DEF Push, task
<1>3. ASSUME NEW p \in Publishers, Publish(p) PROVE StoreInv'
  BY <1>3 DEF Publish, task
<1>4. ASSUME NEW p \in Publishers, Point(p) PROVE StoreInv'
  BY <1>4 DEF Point, task
<1>5. ASSUME NEW t \in Tasks, Submit(t) PROVE StoreInv'
  BY <1>5 DEF Submit, repository
<1>6. QED
  BY StoreApart, <1>1, <1>2, <1>3, <1>4, <1>5 DEF vars, task

\* The pointer and every task name a bundle that is in the store, for any number of publishers
\* that race each other or stop between the bundle and the pointer (publish_workspace).
THEOREM Snapshots == Spec => []SnapshotsResolve
<1>1. Init => StoreInv
  BY WorkspaceAssumption DEF Init, StoreInv, SnapshotsResolve
<1>2. StoreInv => SnapshotsResolve
  BY DEF StoreInv
<1>3. QED
  BY <1>1, <1>2, StoreStep, PTL DEF Spec

-----------------------------------------------------------------------------
(* One task. *)

\* What the invariant says of a task depends on these; an image stays installed.
local(t) == <<source[t], status[t], answer[t], dir[t], patch[t], stored[t], step[t], session[t],
              effect[t], work[t], overtaken[t]>>

LEMMA Elsewhere ==
  ASSUME NEW u \in Tasks, TaskInv(u), UNCHANGED local(u), UNCHANGED crashes,
         installed \subseteq installed'
  PROVE  TaskInv(u)'
BY DEF TaskInv, local, StepInv, ImageInv, DirInv, Stands, ResultInv, Mine, Kept, Ready, Covers

\* A step of one task preserves the invariant if it does for that task.
LEMMA Locally ==
  ASSUME WorkInv, NEW t \in Tasks, \A u \in Tasks \ {t} : UNCHANGED local(u), UNCHANGED crashes,
         installed \subseteq installed', TaskInv(t)', Types'
  PROVE  Types' /\ \A u \in Tasks : TaskInv(u)'
BY Elsewhere DEF WorkInv

LEMMA BuildsCounted ==
  ASSUME Types PROVE Cardinality(DOMAIN builds) \in Nat
<1>1. PICK n \in Nat : DOMAIN builds = 1 .. n
  BY DEF Types
<1>2. Cardinality(1 .. n) \in Nat
  BY FS_Interval, FS_CardinalityType
<1>3. QED
  BY <1>1, <1>2

LEMMA Constants ==
  /\ Idle \in Effects /\ Bare \in Dirs /\ None \in Versions
  /\ \A c \in Commits \cup {Scratch, None} : Tree(c) \in Trees
  /\ None \notin Nat /\ Scratch \notin Nat /\ None \notin Commits /\ Scratch \notin Commits
BY WorkspaceAssumption DEF Idle, Effects, Stages, Over, Bare, Dirs, Tree, Trees, Versions

\* What an effect's step does to the effects.
LEMMA Moves ==
  ASSUME WorkInv, NEW t \in Tasks, NEW g \in Owners, NEW e \in Effects,
         effect' = [effect EXCEPT ![t][g] = e]
  PROVE  /\ effect' \in [Tasks -> [Owners -> Effects]] /\ effect'[t][g] = e
         /\ \A h \in Owners \ {g} : effect'[t][h] = effect[t][h]
         /\ \A u \in Tasks \ {t} : effect'[u] = effect[u]
BY DEF WorkInv, Types

LEMMA Going ==
  ASSUME WorkInv, NEW t \in Tasks, NEW g \in Owners, NEW s \in Stages, Goes(t, g, s)
  PROVE  /\ effect' \in [Tasks -> [Owners -> Effects]]
         /\ effect[t][g] \in Effects /\ effect'[t][g] = [effect[t][g] EXCEPT !.at = s]
         /\ \A h \in Owners \ {g} : effect'[t][h] = effect[t][h]
         /\ \A u \in Tasks \ {t} : effect'[u] = effect[u]
<1>1. effect[t][g] \in Effects
  BY DEF WorkInv, Types
<1>2. [effect[t][g] EXCEPT !.at = s] \in Effects
  BY <1>1 DEF Effects
<1>3. effect' = [effect EXCEPT ![t][g] = [effect[t][g] EXCEPT !.at = s]]
  BY DEF Goes, WorkInv, Types
<1>4. QED
  BY <1>1, <1>2, <1>3, Moves

LEMMA Ending ==
  ASSUME WorkInv, NEW t \in Tasks, NEW g \in Owners, NEW s \in Stages, Ends(t, g, s)
  PROVE  /\ effect' \in [Tasks -> [Owners -> Effects]] /\ effect[t][g] \in Effects
         /\ effect'[t][g] = IF g # crashes THEN Idle
                            ELSE [Idle EXCEPT !.at = s, !.plan = effect[t][g].plan]
         /\ \A h \in Owners \ {g} : effect'[t][h] = effect[t][h]
         /\ \A u \in Tasks \ {t} : effect'[u] = effect[u]
<1>1. effect[t][g] \in Effects
  BY DEF WorkInv, Types
<1>2. [Idle EXCEPT !.at = s, !.plan = effect[t][g].plan] \in Effects
  BY <1>1, Constants DEF Effects
<1>3. QED
  BY <1>1, <1>2, Constants, Moves DEF Ends

LEMMA Writing ==
  ASSUME WorkInv, NEW t \in Tasks, NEW g \in Owners, NEW d \in Dirs, Writes(t, g, d)
  PROVE  /\ dir' \in [Tasks -> Dirs] /\ overtaken' \in [Tasks -> BOOLEAN]
         /\ dir[t] \in Dirs /\ dir'[t] = d /\ (overtaken'[t] <=> overtaken[t] \/ g # crashes)
         /\ \A u \in Tasks \ {t} : dir'[u] = dir[u] /\ overtaken'[u] = overtaken[u]
BY DEF Writes, WorkInv, Types

\* What the invariant says of one task.
LEMMA Here ==
  ASSUME WorkInv, NEW t \in Tasks
  PROVE  /\ TaskInv(t) /\ crashes \in Owners /\ effect[t] \in [Owners -> Effects]
         /\ dir[t] \in Dirs /\ source[t] \in Commits \cup {Scratch, None} /\ work[t] \in Nat
         /\ answer[t] \in Nat \cup {None} /\ patch[t] \in Captures \cup {None}
         /\ session[t] \in {None} \cup Sessions
BY DEF WorkInv, Types, StoreInv

\* The steps of prepare: what is left to show of each is the directory, when no orphan writes.
LEMMA PrepareStep ==
  ASSUME WorkInv, NEW t \in Tasks, NEW g \in Owners, NEW e \in Effects,
         effect[t][g].at \in Preparing, effect' = [effect EXCEPT ![t][g] = e],
         e.at \in Preparing \ {"check"} \/ (e.at = "prepared" /\ g = crashes)
                                        \/ (e = Idle /\ g # crashes),
         e.at = "prepared" => e.plan \in installed' \cup {None},
         dir' \in [Tasks -> Dirs], overtaken' \in [Tasks -> BOOLEAN],
         \A u \in Tasks \ {t} : dir'[u] = dir[u] /\ overtaken'[u] = overtaken[u],
         overtaken'[t] \/ (~overtaken[t] /\ (g = crashes \/ dir'[t] = dir[t])),
         dir'[t].tree # None => dir'[t].tree.committed <= dir'[t].tree.edits,
         g = crashes /\ ~overtaken[t] =>
           DirInv(t)' /\ (Ready(t) => dir'[t].tree.committed = dir[t].tree.committed),
         UNCHANGED <<source, status, answer, patch, stored, step, session, work, crashes>>,
         installed \subseteq installed', \E n \in Nat : DOMAIN builds' = 1 .. n
  PROVE  Types' /\ \A u \in Tasks : TaskInv(u)'
<1> USE DEF Preparing, Finishing, Idle
<1>1. /\ effect' \in [Tasks -> [Owners -> Effects]] /\ effect'[t][g] = e
      /\ \A h \in Owners \ {g} : effect'[t][h] = effect[t][h]
      /\ \A u \in Tasks \ {t} : effect'[u] = effect[u]
  BY Moves
<1>2. /\ crashes \in Owners /\ StepInv(t) /\ ImageInv(t) /\ DirInv(t) /\ ResultInv(t)
      /\ source[t] = source'[t] /\ work[t] = work'[t] /\ crashes = crashes'
      /\ answer[t] = answer'[t] /\ step[t] = step'[t] /\ status[t] = status'[t]
      /\ patch[t] = patch'[t] /\ stored[t] = stored'[t] /\ session[t] = session'[t]
  BY Here DEF TaskInv
<1>3. /\ g # crashes => Mine(t)' = Mine(t)
      /\ g = crashes => Mine(t)' = e /\ Mine(t) = effect[t][g]
  BY <1>1, <1>2 DEF Mine
<1>4. g = crashes => step[t] = "prepare" /\ e.at \notin Finishing \cup {"finished", "none"}
  BY <1>2, <1>3 DEF StepInv
<1>5. Types'
  BY <1>1 DEF WorkInv, Types
<1>6. \A u \in Tasks \ {t} : UNCHANGED local(u)
  BY <1>1 DEF local
<1>7. StepInv(t)'
  <2>1. \A h \in Owners : h > crashes' => effect'[t][h] = Idle
    BY <1>1, <1>2 DEF StepInv
  <2>2. status[t] # "none"
    BY <1>2 DEF StepInv
  <2>3. QED
    BY <1>2, <1>3, <1>4, <2>1, <2>2 DEF StepInv
<1>8. ImageInv(t)'
  BY <1>1, <1>2, <1>3 DEF ImageInv
<1>9. DirInv(t)'
  <2>1. CASE overtaken'[t]
    BY <2>1 DEF DirInv
  <2>2. CASE ~overtaken'[t] /\ g # crashes
    BY <1>2, <1>3, <2>2 DEF DirInv, Stands, Kept, Ready
  <2>3. QED
    BY <2>1, <2>2
<1>10. ResultInv(t)'
  <2>1. \A h \in Owners : \/ effect'[t][h] = effect[t][h]
                          \/ effect'[t][h].at \notin Finishing \cup {"finished"}
    BY <1>1
  <2>2. ASSUME ~overtaken'[t], answer[t] # None
        PROVE  ~overtaken[t] /\ dir'[t].tree.committed = dir[t].tree.committed
    BY <1>2, <2>2 DEF DirInv
  <2>3. /\ answer[t] # None => answer[t] <= work[t]
        /\ step[t] = "finish" \/ status[t] = "completed" \/ patch[t] # None => answer[t] # None
        /\ status[t] = "completed" => patch[t] # None /\ stored[t] = {"result", "execution"}
    BY <1>2 DEF ResultInv
  <2>4. ASSUME NEW h \in Owners
        PROVE  /\ effect'[t][h].at \in Finishing => answer[t] # None
               /\ effect'[t][h].at = "put" => effect'[t][h].seen # None
               /\ effect'[t][h].at \in {"rest", "finished"} => patch[t] # None /\ "result" \in stored[t]
               /\ effect'[t][h].at = "finished" => stored[t] = {"result", "execution"}
               /\ ~overtaken'[t] /\ effect'[t][h].at = "put" =>
                    effect'[t][h].seen.to >= answer[t] /\ effect'[t][h].seen.from <= dir'[t].tree.committed
    BY <1>2, <2>1, <2>2 DEF ResultInv, Covers
  <2>5. ASSUME ~overtaken'[t], patch[t] # None
        PROVE  patch[t].to >= answer[t] /\ patch[t].from <= dir'[t].tree.committed
    BY <1>2, <2>2, <2>3, <2>5 DEF ResultInv, Covers
  <2>6. QED
    BY <1>2, <2>3, <2>4, <2>5 DEF ResultInv, Covers
<1>11. QED
  BY <1>5, <1>6, <1>7, <1>8, <1>9, <1>10, Locally DEF TaskInv

\* A directory that is not marked is not ready.
LEMMA Unready ==
  ASSUME WorkInv, NEW t \in Tasks, ~overtaken[t], source[t] # Scratch, ~dir[t].marker
  PROVE  ~Ready(t) /\ work[t] = 0 /\ answer[t] = None /\ session[t] = None /\ step[t] # "session"
BY Here DEF TaskInv, DirInv, Ready

\* A step of prepare that goes on to step r with directory d.
LEMMA PrepareWrites ==
  ASSUME WorkInv, NEW t \in Tasks, NEW g \in Owners, NEW r \in Preparing \ {"check"}, NEW d \in Dirs,
         effect[t][g].at \in Preparing, Goes(t, g, r), Writes(t, g, d),
         d.tree # None => d.tree.committed <= d.tree.edits,
         UNCHANGED <<source, status, answer, patch, stored, step, session, work, crashes,
                     installed, builds>>,
         g = crashes /\ ~overtaken[t] /\ dir'[t] = d /\ Mine(t).at = effect[t][g].at
           /\ Mine(t)'.at = r => DirInv(t)' /\ (Ready(t) => d.tree = dir[t].tree)
  PROVE  Types' /\ \A u \in Tasks : TaskInv(u)'
<1> DEFINE e == [effect[t][g] EXCEPT !.at = r]
<1>1. effect[t][g] \in Effects /\ e \in Effects /\ e.at = r
  BY Here DEF Effects, Stages
<1>2. effect' = [effect EXCEPT ![t][g] = e]
  BY <1>1 DEF Goes, WorkInv, Types
<1>3. /\ dir' \in [Tasks -> Dirs] /\ overtaken' \in [Tasks -> BOOLEAN]
      /\ dir'[t] = d /\ (overtaken'[t] <=> overtaken[t] \/ g # crashes)
      /\ \A u \in Tasks \ {t} : dir'[u] = dir[u] /\ overtaken'[u] = overtaken[u]
  BY Writing
<1>4. ASSUME g = crashes, ~overtaken[t]
      PROVE  DirInv(t)' /\ (Ready(t) => dir'[t].tree = dir[t].tree)
  <2>0. effect'[t][g] = e
    BY <1>1, <1>2, Moves
  <2>1. Mine(t).at = effect[t][g].at /\ Mine(t)'.at = r
    BY <1>1, <1>4, <2>0 DEF Mine
  <2>2. QED
    BY <1>3, <1>4, <2>1
<1>5. \E n \in Nat : DOMAIN builds' = 1 .. n
  BY DEF WorkInv, Types
<1>6. overtaken'[t] \/ (~overtaken[t] /\ (g = crashes \/ dir'[t] = dir[t]))
  BY <1>3
<1>7. e.at \in Preparing \ {"check"} /\ e.at # "prepared"
  BY <1>1 DEF Preparing
<1> HIDE DEF e
<1>8. QED
  BY <1>1, <1>2, <1>3, <1>4, <1>5, <1>6, <1>7, PrepareStep

LEMMA ClearStep ==
  ASSUME WorkInv, NEW t \in Tasks, NEW g \in Owners, Clear(t, g)
  PROVE  Types' /\ \A u \in Tasks : TaskInv(u)'
<1>1. /\ effect[t][g].at = "clear" /\ Goes(t, g, "download") /\ Writes(t, g, Bare)
      /\ UNCHANGED <<source, status, answer, patch, stored, step, session, work, crashes,
                     installed, builds>>
  BY DEF Clear, At, task, results, owner, images
<1>2. ASSUME ~overtaken[t], dir'[t] = Bare, Mine(t).at = "clear", Mine(t)'.at = "download"
      PROVE  DirInv(t)' /\ ~Ready(t)
  <2>1. source[t] # Scratch /\ ~dir[t].marker
    BY <1>2, Here DEF TaskInv, DirInv, Stands
  <2>2. QED
    BY <1>1, <1>2, <2>1, Unready DEF DirInv, Stands, Bare
<1>3. QED
  BY <1>1, <1>2, Constants, PrepareWrites DEF Preparing, Bare

LEMMA DownloadStep ==
  ASSUME WorkInv, NEW t \in Tasks, NEW g \in Owners, Download(t, g)
  PROVE  Types' /\ \A u \in Tasks : TaskInv(u)'
<1> DEFINE d == [dir[t] EXCEPT !.bundle = TRUE]
<1>1. /\ effect[t][g].at = "download" /\ Goes(t, g, "init") /\ Writes(t, g, d)
      /\ UNCHANGED <<source, status, answer, patch, stored, step, session, work, crashes,
                     installed, builds>>
  BY DEF Download, At, task, results, owner, images
<1>2. d \in Dirs /\ d.tree = dir[t].tree /\ d.marker = dir[t].marker
  BY Here DEF Dirs
<1>3. d.tree # None => d.tree.committed <= d.tree.edits
  BY <1>2, Here DEF TaskInv, ResultInv
<1> HIDE DEF d
<1>4. ASSUME ~overtaken[t], dir'[t] = d, Mine(t).at = "download", Mine(t)'.at = "init"
      PROVE  DirInv(t)'
  <2>1. source[t] # Scratch /\ ~dir[t].marker
    BY <1>4, Here DEF TaskInv, DirInv, Stands
  <2>2. QED
    BY <1>1, <1>2, <1>4, <2>1, Unready DEF DirInv, Stands
<1>5. QED
  BY <1>1, <1>2, <1>3, <1>4, PrepareWrites DEF Preparing

LEMMA InitTreeStep ==
  ASSUME WorkInv, NEW t \in Tasks, NEW g \in Owners, InitTree(t, g)
  PROVE  Types' /\ \A u \in Tasks : TaskInv(u)'
<1> DEFINE d == [dir[t] EXCEPT !.tree = Tree(None)]
<1>1. /\ effect[t][g].at = "init" /\ Goes(t, g, "checkout") /\ Writes(t, g, d)
      /\ UNCHANGED <<source, status, answer, patch, stored, step, session, work, crashes,
                     installed, builds>>
  BY DEF InitTree, At, task, results, owner, images
<1>2. d \in Dirs /\ d.tree = Tree(None) /\ d.marker = dir[t].marker
  BY Constants, Here DEF Dirs
<1>3. d.tree.committed <= d.tree.edits
  BY <1>2 DEF Tree
<1> HIDE DEF d
<1>4. ASSUME ~overtaken[t], dir'[t] = d, Mine(t).at = "init", Mine(t)'.at = "checkout"
      PROVE  DirInv(t)' /\ ~Ready(t)
  <2>1. source[t] # Scratch /\ ~dir[t].marker
    BY <1>4, Here DEF TaskInv, DirInv, Stands
  <2>2. QED
    BY <1>1, <1>2, <1>4, <2>1, Unready DEF DirInv, Stands
<1>5. QED
  BY <1>1, <1>2, <1>3, <1>4, PrepareWrites DEF Preparing

LEMMA CheckoutStep ==
  ASSUME WorkInv, NEW t \in Tasks, NEW g \in Owners, Checkout(t, g)
  PROVE  Types' /\ \A u \in Tasks : TaskInv(u)'
<1> DEFINE d == [dir[t] EXCEPT !.tree = Tree(source[t])]
<1>1. /\ effect[t][g].at = "checkout" /\ Goes(t, g, "mark") /\ Writes(t, g, d)
      /\ UNCHANGED <<source, status, answer, patch, stored, step, session, work, crashes,
                     installed, builds>>
  BY DEF Checkout, At, task, results, owner, images
<1>2. Tree(source[t]) \in Trees /\ dir[t] \in Dirs
  BY Constants, Here
<1>3. d \in Dirs /\ d.tree = Tree(source[t]) /\ d.marker = dir[t].marker
  BY <1>2 DEF Dirs
<1>4. d.tree.committed <= d.tree.edits /\ d.tree.base = source[t] /\ d.tree.edits = 0
  BY <1>3 DEF Tree
<1>5. d.tree # None => d.tree \in Trees
  BY <1>2, <1>3
<1> HIDE DEF d
<1>6. ASSUME ~overtaken[t], dir'[t] = d, Mine(t).at = "checkout", Mine(t)'.at = "mark"
      PROVE  DirInv(t)' /\ ~Ready(t)
  <2>1. source[t] # Scratch /\ ~dir[t].marker
    BY <1>6, Here DEF TaskInv, DirInv, Stands
  <2>2. ~Ready(t) /\ work[t] = 0 /\ answer[t] = None /\ session[t] = None /\ step[t] # "session"
    BY <1>6, <2>1, Unready
  <2>3. d.tree # None
    BY <1>2, <1>3, NothingAssumption
  <2>4. Kept(t)'
    BY <1>1, <1>4, <1>6, <2>2, <2>3 DEF Kept
  <2>5. QED
    BY <1>1, <1>3, <1>6, <2>1, <2>2, <2>4 DEF DirInv, Stands
<1>7. QED
  BY <1>1, <1>3, <1>4, <1>6, PrepareWrites DEF Preparing

LEMMA OpenMarkStep ==
  ASSUME WorkInv, NEW t \in Tasks, NEW g \in Owners, OpenMark(t, g)
  PROVE  Types' /\ \A u \in Tasks : TaskInv(u)'
<1> DEFINE d == [dir[t] EXCEPT !.marker = FALSE, !.torn = TRUE]
<1>1. /\ effect[t][g].at = "mark" /\ Goes(t, g, "marking") /\ Writes(t, g, d)
      /\ UNCHANGED <<source, status, answer, patch, stored, step, session, work, crashes,
                     installed, builds>>
  BY DEF OpenMark, At, task, results, owner, images
<1>2. d \in Dirs /\ d.tree = dir[t].tree /\ ~d.marker
  BY Here DEF Dirs
<1>3. d.tree # None => d.tree.committed <= d.tree.edits
  BY <1>2, Here DEF TaskInv, ResultInv
<1> HIDE DEF d
<1>4. ASSUME ~overtaken[t], dir'[t] = d, Mine(t).at = "mark", Mine(t)'.at = "marking"
      PROVE  DirInv(t)'
  <2>1. source[t] # Scratch /\ ~dir[t].marker /\ Kept(t)
    BY <1>4, Here DEF TaskInv, DirInv, Stands
  <2>2. Kept(t)'
    BY <1>1, <1>2, <1>4, <2>1 DEF Kept
  <2>3. QED
    BY <1>1, <1>2, <1>4, <2>1, <2>2, Unready DEF DirInv, Stands
<1>5. QED
  BY <1>1, <1>2, <1>3, <1>4, PrepareWrites DEF Preparing

LEMMA MarkStep ==
  ASSUME WorkInv, NEW t \in Tasks, NEW g \in Owners, Mark(t, g)
  PROVE  Types' /\ \A u \in Tasks : TaskInv(u)'
<1> DEFINE d == [dir[t] EXCEPT !.marker = TRUE, !.torn = FALSE]
<1>1. /\ effect[t][g].at = "marking" /\ Goes(t, g, "inspect") /\ Writes(t, g, d)
      /\ UNCHANGED <<source, status, answer, patch, stored, step, session, work, crashes,
                     installed, builds>>
  BY DEF Mark, At, task, results, owner, images
<1>2. d \in Dirs /\ d.tree = dir[t].tree /\ d.marker
  BY Here DEF Dirs
<1>3. d.tree # None => d.tree.committed <= d.tree.edits
  BY <1>2, Here DEF TaskInv, ResultInv
<1> HIDE DEF d
<1>4. ASSUME ~overtaken[t], dir'[t] = d, Mine(t).at = "marking", Mine(t)'.at = "inspect"
      PROVE  DirInv(t)'
  <2>1. source[t] # Scratch /\ Kept(t)
    BY <1>4, Here DEF TaskInv, DirInv, Stands
  <2>2. Kept(t)' /\ Ready(t)'
    BY <1>1, <1>2, <1>4, <2>1 DEF Kept, Ready
  <2>3. QED
    BY <1>4, <2>2 DEF DirInv, Stands
<1>5. QED
  BY <1>1, <1>2, <1>3, <1>4, PrepareWrites DEF Preparing

\* A step of prepare that leaves the directory alone.
LEMMA PrepareKeeps ==
  ASSUME WorkInv, NEW t \in Tasks, NEW g \in Owners, NEW e \in Effects,
         effect[t][g].at \in Preparing, effect' = [effect EXCEPT ![t][g] = e],
         e.at \in Preparing \ {"check"} \/ (e.at = "prepared" /\ g = crashes)
                                        \/ (e = Idle /\ g # crashes),
         e.at = "prepared" => e.plan \in installed' \cup {None},
         g = crashes /\ ~overtaken[t] => Stands(t, e.at),
         UNCHANGED <<dir, overtaken, source, status, answer, patch, stored, step, session, work,
                     crashes>>,
         installed \subseteq installed', \E n \in Nat : DOMAIN builds' = 1 .. n
  PROVE  Types' /\ \A u \in Tasks : TaskInv(u)'
<1>1. ASSUME g = crashes, ~overtaken[t] PROVE DirInv(t)'
  <2>1. effect'[t][g] = e
    BY Moves
  <2>2. Mine(t)' = e
    BY <1>1, <2>1 DEF Mine
  <2>3. (Kept(t)' <=> Kept(t)) /\ (Ready(t)' <=> Ready(t))
    BY DEF Kept, Ready
  <2>4. Stands(t, e.at)'
    BY <1>1, <2>3 DEF Stands
  <2>5. DirInv(t)
    BY Here DEF TaskInv
  <2>6. QED
    BY <1>1, <2>2, <2>3, <2>4, <2>5 DEF DirInv
<1>2. dir' \in [Tasks -> Dirs] /\ overtaken' \in [Tasks -> BOOLEAN]
  BY DEF WorkInv, Types
<1>3. dir[t].tree # None => dir[t].tree.committed <= dir[t].tree.edits
  BY Here DEF TaskInv, ResultInv
<1>4. QED
  BY <1>1, <1>2, <1>3, PrepareStep

LEMMA CheckStep ==
  ASSUME WorkInv, NEW t \in Tasks, NEW g \in Owners, Check(t, g)
  PROVE  Types' /\ \A u \in Tasks : TaskInv(u)'
<1>1. /\ effect[t][g].at = "check"
      /\ UNCHANGED <<source, status, answer, patch, stored, step, session, work, crashes,
                     installed, builds>>
  BY DEF Check, At, task, results, owner, images
<1>2. /\ effect[t][g] \in Effects /\ effect[t][g].plan = None /\ DirInv(t) /\ ResultInv(t)
      /\ \E n \in Nat : DOMAIN builds' = 1 .. n
  BY <1>1, Here DEF TaskInv, ImageInv, WorkInv, Types
<1>3. ASSUME NEW r \in {"inspect", "clear"}, Goes(t, g, r), UNCHANGED <<dir, overtaken>>,
             g = crashes /\ ~overtaken[t] => Stands(t, r)
      PROVE  Types' /\ \A u \in Tasks : TaskInv(u)'
  <2> DEFINE e == [effect[t][g] EXCEPT !.at = r]
  <2>1. e \in Effects /\ e.at = r
    BY <1>2, <1>3 DEF Effects, Stages, Preparing
  <2>2. effect' = [effect EXCEPT ![t][g] = e]
    BY <1>3, <2>1 DEF Goes, WorkInv, Types
  <2> HIDE DEF e
  <2>3. QED
    BY <1>1, <1>2, <1>3, <2>1, <2>2, PrepareKeeps DEF Preparing
<1>4. CASE source[t] # Scratch
  <2>1. UNCHANGED <<dir, overtaken>>
    BY <1>4 DEF Check
  <2>2. CASE dir[t].marker
    <3>1. Goes(t, g, "inspect")
      BY <1>4, <2>2 DEF Check
    <3>2. ~overtaken[t] => Stands(t, "inspect")
      BY <1>2, <2>2 DEF DirInv, Stands, Ready
    <3>3. QED
      BY <1>3, <2>1, <3>1, <3>2
  <2>3. CASE ~dir[t].marker
    <3>1. Goes(t, g, "clear")
      BY <1>4, <2>3 DEF Check
    <3>2. Stands(t, "clear")
      BY <1>4, <2>3 DEF Stands
    <3>3. QED
      BY <1>3, <2>1, <3>1, <3>2
  <2>4. QED
    BY <2>2, <2>3
<1>5. CASE source[t] = Scratch
  <2> DEFINE e == IF g # crashes THEN Idle ELSE [Idle EXCEPT !.at = "prepared", !.plan = None]
             d == [dir[t] EXCEPT !.tree = Tree(Scratch)]
  <2>1. e \in Effects /\ effect' = [effect EXCEPT ![t][g] = e]
    BY <1>2, <1>5, Constants DEF Check, Ends, Effects, Stages, Over
  <2>2. /\ (e = Idle /\ g # crashes) \/ (e.at = "prepared" /\ g = crashes)
        /\ e.at = "prepared" => e.plan = None
    <3>1. CASE g # crashes
      BY <3>1 DEF Idle
    <3>2. CASE g = crashes
      BY <3>2 DEF Idle
    <3>3. QED
      BY <3>1, <3>2
  <2>3. CASE dir[t].tree # None
    <3>1. UNCHANGED <<dir, overtaken>>
      BY <1>5, <2>3 DEF Check
    <3>2. ~overtaken[t] => Ready(t)
      BY <1>2, <1>5, <2>3 DEF DirInv, Ready
    <3>3. g = crashes /\ ~overtaken[t] => Stands(t, e.at)
      BY <2>2, <3>2 DEF Stands
    <3> HIDE DEF e
    <3>4. QED
      BY <1>1, <1>2, <2>1, <2>2, <3>1, <3>3, PrepareKeeps DEF Preparing
  <2>4. CASE dir[t].tree = None
    <3>1. Writes(t, g, d)
      BY <1>5, <2>4 DEF Check
    <3>2. d \in Dirs /\ d.tree = Tree(Scratch) /\ Tree(Scratch) \in Trees
      BY Constants, Here DEF Dirs
    <3>3. d.tree # None /\ d.tree.base = Scratch /\ d.tree.edits = 0 /\ d.tree.committed = 0
      BY <3>2, NothingAssumption DEF Tree
    <3> HIDE DEF d
    <3>4. /\ dir' \in [Tasks -> Dirs] /\ overtaken' \in [Tasks -> BOOLEAN]
          /\ dir'[t] = d /\ (overtaken'[t] <=> overtaken[t] \/ g # crashes)
          /\ \A u \in Tasks \ {t} : dir'[u] = dir[u] /\ overtaken'[u] = overtaken[u]
      BY <3>1, <3>2, Writing
    <3>5. overtaken'[t] \/ (~overtaken[t] /\ (g = crashes \/ dir'[t] = dir[t]))
      BY <3>4
    <3>6. ASSUME g = crashes, ~overtaken[t] PROVE DirInv(t)' /\ ~Ready(t)
      <4>1. ~Ready(t)
        BY <2>4 DEF Ready, Kept
      <4>2. work[t] = 0
        BY <1>2, <3>6, <4>1, Here DEF DirInv
      <4>3. Kept(t)' /\ Ready(t)'
        BY <1>1, <1>5, <3>3, <3>4, <4>2 DEF Kept, Ready
      <4>4. effect'[t][g] = e
        BY <2>1, Moves
      <4>5. Mine(t)'.at = "prepared"
        BY <1>1, <2>2, <3>6, <4>4 DEF Mine
      <4>6. QED
        BY <4>1, <4>3, <4>5 DEF DirInv, Stands
    <3> HIDE DEF e
    <3>7. /\ dir'[t].tree.committed <= dir'[t].tree.edits
          /\ e.at = "prepared" => e.plan \in installed' \cup {None}
          /\ effect[t][g].at \in Preparing /\ installed \subseteq installed'
      BY <1>1, <2>2, <3>3, <3>4 DEF Preparing
    <3>8. QED
      BY <1>1, <1>2, <2>1, <2>2, <3>4, <3>5, <3>6, <3>7, PrepareStep
  <2>5. QED
    BY <2>3, <2>4
<1>6. QED
  BY <1>4, <1>5

LEMMA InspectStep ==
  ASSUME WorkInv, NEW t \in Tasks, NEW g \in Owners, Inspect(t, g)
  PROVE  Types' /\ \A u \in Tasks : TaskInv(u)'
<1> DEFINE v == Wanted(t)
           n == Cardinality(DOMAIN builds)
<1>1. /\ effect[t][g].at = "inspect"
      /\ UNCHANGED <<source, status, answer, patch, stored, step, session, work, crashes,
                     installed, dir, overtaken>>
  BY DEF Inspect, At, task, results, owner, history
<1>2. /\ effect[t][g] \in Effects /\ v \in Versions /\ DirInv(t) /\ n \in Nat /\ crashes \in Owners
  BY Here, Constants, BuildsCounted DEF TaskInv, Wanted, WorkInv, Dirs, Trees
<1>3. g = crashes /\ ~overtaken[t] => Ready(t)
  BY <1>1, <1>2 DEF DirInv, Stands, Mine
<1>4. \E m \in Nat : DOMAIN builds' = 1 .. m
  <2>1. CASE UNCHANGED builds
    BY <2>1 DEF WorkInv, Types
  <2>2. CASE Dispatch(v)
    BY <1>2, <2>2 DEF Dispatch
  <2>3. QED
    BY <2>1, <2>2 DEF Inspect
<1>5. PICK e \in Effects :
        /\ effect' = [effect EXCEPT ![t][g] = e]
        /\ \/ e.at = "prepared" /\ g = crashes /\ e.plan \in installed \cup {None}
           \/ e = Idle /\ g # crashes
           \/ e.at \in {"install", "poll"}
  <2>1. CASE v \in installed \cup {None}
    <3> DEFINE e == IF g = crashes THEN [Idle EXCEPT !.at = "prepared", !.plan = v] ELSE Idle
    <3>1. effect' = [effect EXCEPT ![t][g] = e]
      BY <2>1 DEF Inspect
    <3>2. CASE g = crashes
      <4>1. e \in Effects
        BY <1>2, <3>2, Constants DEF Effects, Stages, Over
      <4>2. e.at = "prepared" /\ e.plan = v
        BY <3>2 DEF Idle
      <4> HIDE DEF e
      <4>3. QED
        BY <2>1, <3>1, <3>2, <4>1, <4>2
    <3>3. CASE g # crashes
      BY <3>1, <3>3, Constants
    <3>4. QED
      BY <3>2, <3>3
  <2>2. CASE v \notin installed \cup {None} /\ v \in archives
    <3> DEFINE e == [effect[t][g] EXCEPT !.at = "install", !.plan = v]
    <3>1. e \in Effects /\ e.at = "install"
      BY <1>2 DEF Effects, Stages, Preparing
    <3>2. effect' = [effect EXCEPT ![t][g].at = "install", ![t][g].plan = v]
      BY <2>2 DEF Inspect
    <3>3. effect' = [effect EXCEPT ![t][g] = e]
      BY <1>2, <3>2 DEF WorkInv, Types, Effects
    <3> HIDE DEF e
    <3>4. QED
      BY <3>1, <3>3
  <2>3. CASE v \notin installed \cup {None} /\ v \notin archives
    <3> DEFINE e == [effect[t][g] EXCEPT !.at = "poll", !.plan = v, !.build = n + 1]
    <3>0. n + 1 \in Nat
      BY <1>2
    <3>1. effect' = [effect EXCEPT ![t][g].at = "poll", ![t][g].plan = v, ![t][g].build = n + 1]
      BY <2>3 DEF Inspect
    <3> HIDE DEF n, v
    <3>2. e \in Effects /\ e.at = "poll"
      BY <1>2, <3>0 DEF Effects, Stages, Preparing
    <3>3. effect' = [effect EXCEPT ![t][g] = e]
      BY <1>2, <3>1 DEF WorkInv, Types, Effects
    <3> HIDE DEF e
    <3>4. QED
      BY <3>2, <3>3
  <2>4. QED
    BY <2>1, <2>2, <2>3
<1>6. /\ g = crashes /\ ~overtaken[t] => Stands(t, e.at)
      /\ e.at \in Preparing \ {"check"} \/ (e.at = "prepared" /\ g = crashes)
                                        \/ (e = Idle /\ g # crashes)
      /\ e.at = "prepared" => e.plan \in installed' \cup {None}
  BY <1>1, <1>3, <1>5 DEF Stands, Preparing, Idle
<1>7. QED
  BY <1>1, <1>4, <1>5, <1>6, PrepareKeeps DEF Preparing

LEMMA PollStep ==
  ASSUME WorkInv, NEW t \in Tasks, NEW g \in Owners, Poll(t, g)
  PROVE  Types' /\ \A u \in Tasks : TaskInv(u)'
<1> DEFINE e == [effect[t][g] EXCEPT !.at = "install", !.build = 0]
<1>1. /\ effect[t][g].at = "poll"
      /\ UNCHANGED <<source, status, answer, patch, stored, step, session, work, crashes,
                     installed, builds, dir, overtaken>>
  BY DEF Poll, At, task, results, owner, images, history
<1>2. effect[t][g] \in Effects /\ DirInv(t) /\ crashes \in Owners
      /\ \E m \in Nat : DOMAIN builds' = 1 .. m
  BY <1>1, Here DEF TaskInv, WorkInv, Types
<1>3. e \in Effects /\ e.at = "install"
  BY <1>2 DEF Effects, Stages, Preparing
<1>4. effect' = [effect EXCEPT ![t][g] = e]
  BY <1>3, Here DEF Poll, WorkInv, Types, Effects
<1>5. g = crashes /\ ~overtaken[t] => Stands(t, e.at)
  BY <1>1, <1>2, <1>3 DEF DirInv, Stands, Mine
<1> HIDE DEF e
<1>6. QED
  BY <1>1, <1>2, <1>3, <1>4, <1>5, PrepareKeeps DEF Preparing

LEMMA InstallStep ==
  ASSUME WorkInv, NEW t \in Tasks, NEW g \in Owners, Install(t, g)
  PROVE  Types' /\ \A u \in Tasks : TaskInv(u)'
<1> DEFINE e == IF g # crashes THEN Idle
                ELSE [Idle EXCEPT !.at = "prepared", !.plan = effect[t][g].plan]
<1>1. /\ effect[t][g].at = "install" /\ installed' = installed \cup {effect[t][g].plan}
      /\ UNCHANGED <<source, status, answer, patch, stored, step, session, work, crashes,
                     builds, dir, overtaken>>
  BY DEF Install, At, task, results, owner, history
<1>2. effect[t][g] \in Effects /\ DirInv(t) /\ crashes \in Owners
      /\ \E m \in Nat : DOMAIN builds' = 1 .. m
  BY <1>1, Here DEF TaskInv, WorkInv, Types
<1>3. e \in Effects /\ effect' = [effect EXCEPT ![t][g] = e]
  BY <1>2, Constants DEF Install, Ends, Effects, Stages, Over
<1>4. /\ (e = Idle /\ g # crashes) \/ (e.at = "prepared" /\ g = crashes)
      /\ e.at = "prepared" => e.plan \in installed' \cup {None}
  <2>1. CASE g # crashes
    BY <2>1 DEF Idle
  <2>2. CASE g = crashes
    BY <1>1, <2>2 DEF Idle
  <2>3. QED
    BY <2>1, <2>2
<1>5. g = crashes /\ ~overtaken[t] => Stands(t, e.at)
  BY <1>1, <1>2, <1>4 DEF DirInv, Stands, Mine
<1> HIDE DEF e
<1>6. QED
  BY <1>1, <1>2, <1>3, <1>4, <1>5, PrepareKeeps DEF Preparing

-----------------------------------------------------------------------------
(* The end of a task and of an effect. *)

LEMMA SettleStep ==
  ASSUME WorkInv, NEW t \in Tasks, NEW s \in Final, Settle(t, s), status[t] = "accepted",
         \/ effect' = [effect EXCEPT ![t][crashes] = Idle]
         \/ UNCHANGED effect /\ Mine(t).at = "none",
         s = "completed" => answer[t] # None /\ patch[t] # None
                            /\ stored[t] = {"result", "execution"},
         UNCHANGED <<source, answer, patch, stored, work, dir, overtaken, installed, crashes>>,
         \E n \in Nat : DOMAIN builds' = 1 .. n
  PROVE  Types' /\ \A u \in Tasks : TaskInv(u)'
<1> USE DEF Preparing, Finishing, Final
<1>1. crashes \in Owners /\ StepInv(t) /\ ImageInv(t) /\ DirInv(t) /\ ResultInv(t)
  BY Here DEF TaskInv
<1>2. /\ effect' \in [Tasks -> [Owners -> Effects]] /\ Mine(t)'.at = "none" /\ Mine(t)'.plan = None
      /\ \A h \in Owners : effect'[t][h] = effect[t][h] \/ (h = crashes /\ effect'[t][h].at = "none"
                                                           /\ effect'[t][h].plan = None)
      /\ \A u \in Tasks \ {t} : effect'[u] = effect[u]
  <2>1. CASE effect' = [effect EXCEPT ![t][crashes] = Idle]
    <3>1. /\ effect' \in [Tasks -> [Owners -> Effects]] /\ effect'[t][crashes] = Idle
          /\ \A h \in Owners \ {crashes} : effect'[t][h] = effect[t][h]
          /\ \A u \in Tasks \ {t} : effect'[u] = effect[u]
      BY <1>1, <2>1, Constants, Moves
    <3>2. QED
      BY <3>1 DEF Mine, Idle
  <2>2. CASE UNCHANGED effect /\ Mine(t).at = "none"
    BY <1>1, <2>2 DEF Mine, ImageInv, WorkInv, Types
  <2>3. QED
    BY <2>1, <2>2
<1>3. /\ status' = [status EXCEPT ![t] = s] /\ step' = [step EXCEPT ![t] = "over"]
      /\ session' = [session EXCEPT ![t] = None]
  BY DEF Settle
<1>4. status'[t] = s /\ step'[t] = "over" /\ session'[t] = None
  BY <1>3 DEF WorkInv, Types
<1>5. Types'
  BY <1>2, <1>3 DEF WorkInv, Types
<1>6. \A u \in Tasks \ {t} : UNCHANGED local(u)
  BY <1>2, <1>3 DEF local, WorkInv, Types
<1>7. StepInv(t)'
  <2>1. \A h \in Owners : h > crashes' => effect'[t][h] = Idle
    BY <1>1, <1>2 DEF StepInv, Owners
  <2>2. source[t] # None
    BY <1>1 DEF StepInv
  <2>3. QED
    BY <1>1, <1>2, <1>4, <2>1, <2>2 DEF StepInv, Over
<1>8. ImageInv(t)'
  BY <1>1, <1>2, <1>4 DEF ImageInv
<1>9. DirInv(t)'
  BY <1>1, <1>2, <1>4 DEF DirInv, Stands, Kept, Ready
<1>10. ResultInv(t)'
  BY <1>1, <1>2, <1>4 DEF ResultInv, Covers
<1>11. QED
  BY <1>5, <1>6, <1>7, <1>8, <1>9, <1>10, Locally DEF TaskInv

\* An orphan is over.
LEMMA OrphanEnds ==
  ASSUME WorkInv, NEW t \in Tasks, NEW g \in Owners, g # crashes,
         effect' = [effect EXCEPT ![t][g] = Idle],
         UNCHANGED <<source, status, answer, patch, stored, step, session, work, dir, overtaken,
                     installed, crashes>>,
         \E n \in Nat : DOMAIN builds' = 1 .. n
  PROVE  Types' /\ \A u \in Tasks : TaskInv(u)'
<1>1. crashes \in Owners /\ StepInv(t) /\ ImageInv(t) /\ DirInv(t) /\ ResultInv(t)
  BY Here DEF TaskInv
<1>2. /\ effect' \in [Tasks -> [Owners -> Effects]] /\ Mine(t)' = Mine(t)
      /\ \A h \in Owners : effect'[t][h] \in {effect[t][h], Idle}
      /\ \A u \in Tasks \ {t} : effect'[u] = effect[u]
  BY <1>1, Constants, Moves DEF Mine
<1>3. Types'
  BY <1>2 DEF WorkInv, Types
<1>4. \A u \in Tasks \ {t} : UNCHANGED local(u)
  BY <1>2 DEF local
<1>5. StepInv(t)'
  BY <1>1, <1>2 DEF StepInv
<1>6. ImageInv(t)'
  BY <1>1, <1>2 DEF ImageInv, Idle
<1>7. DirInv(t)'
  BY <1>1, <1>2 DEF DirInv, Stands, Kept, Ready
<1>8. ResultInv(t)'
  BY <1>1, <1>2 DEF ResultInv, Covers, Idle, Finishing
<1>9. QED
  BY <1>3, <1>4, <1>5, <1>6, <1>7, <1>8, Locally DEF TaskInv

\* An effect that runs belongs to a task that is accepted.
LEMMA Accepted ==
  ASSUME WorkInv, NEW t \in Tasks, Mine(t).at # "none" PROVE status[t] = "accepted"
<1>1. StepInv(t) /\ Mine(t).at \in Stages
  BY Here DEF TaskInv, Mine, Effects
<1>2. QED
  BY <1>1 DEF StepInv, Stages, Over

LEMMA EffectOver ==
  ASSUME WorkInv, NEW t \in Tasks, NEW g \in Owners, EffectFails(t, g) \/ Expire(t, g)
  PROVE  Types' /\ \A u \in Tasks : TaskInv(u)'
<1>1. /\ effect[t][g].at \notin Over /\ effect' = [effect EXCEPT ![t][g] = Idle]
      /\ IF g = crashes THEN Settle(t, "failed") ELSE UNCHANGED <<status, step, session>>
      /\ UNCHANGED <<source, answer, patch, stored, work, dir, overtaken, installed, crashes>>
  BY DEF EffectFails, Expire, At, results, images, history, Over
<1>2. \E n \in Nat : DOMAIN builds' = 1 .. n
  <2>1. CASE UNCHANGED builds
    BY <2>1 DEF WorkInv, Types
  <2>2. CASE Cancel(effect[t][g].build)
    BY <2>2 DEF Cancel, WorkInv, Types
  <2>3. QED
    BY <2>1, <2>2 DEF EffectFails, Expire, images
<1>3. CASE g = crashes
  BY <1>1, <1>2, <1>3, Accepted, SettleStep DEF Mine, Over, Final
<1>4. CASE g # crashes
  BY <1>1, <1>2, <1>4, OrphanEnds
<1>5. QED
  BY <1>3, <1>4

LEMMA SettlingStep ==
  ASSUME WorkInv, NEW t \in Tasks, SessionFails(t) \/ Complete(t) \/ Abort(t)
  PROVE  Types' /\ \A u \in Tasks : TaskInv(u)'
<1> USE DEF Final, results, images, history
<1>1. crashes \in Owners /\ StepInv(t) /\ ResultInv(t) /\ Mine(t) \in Effects
      /\ \E n \in Nat : DOMAIN builds = 1 .. n
  BY Here DEF TaskInv, Mine, WorkInv, Types
<1>2. CASE SessionFails(t)
  <2>1. status[t] = "accepted" /\ Mine(t).at = "none"
    BY <1>1, <1>2 DEF SessionFails, StepInv, Effects, Stages, Over
  <2>2. QED
    BY <1>1, <1>2, <2>1, SettleStep DEF SessionFails
<1>3. CASE Complete(t)
  <2>1. status[t] = "accepted" /\ answer[t] # None /\ patch[t] # None
        /\ stored[t] = {"result", "execution"}
    BY <1>1, <1>3 DEF Complete, At, StepInv, ResultInv
  <2>2. QED
    BY <1>1, <1>3, <2>1, SettleStep DEF Complete
<1>4. CASE Abort(t)
  BY <1>1, <1>4, SettleStep DEF Abort
<1>5. QED
  BY <1>2, <1>3, <1>4

-----------------------------------------------------------------------------
(* Submission, the handler and the session. *)

LEMMA SubmitStep ==
  ASSUME WorkInv, NEW t \in Tasks, Submit(t)
  PROVE  Types' /\ \A u \in Tasks : TaskInv(u)'
<1>1. /\ crashes \in Owners /\ StepInv(t) /\ ImageInv(t) /\ ResultInv(t) /\ status[t] = "none"
      /\ pointer \in Commits \cup {None}
  BY Here DEF TaskInv, Submit, WorkInv, StoreInv
<1>2. /\ status' = [status EXCEPT ![t] = "accepted"]
      /\ UNCHANGED <<answer, dir, patch, stored, step, session, effect, work, overtaken, builds,
                     installed, crashes>>
  BY DEF Submit, results, owner, images, history
<1>3. /\ source'[t] # None /\ \A u \in Tasks \ {t} : source'[u] = source[u]
  <2>1. \/ source' = [source EXCEPT ![t] = pointer] /\ pointer # None
        \/ source' = [source EXCEPT ![t] = Scratch]
    BY DEF Submit
  <2>2. Scratch # None
    BY WorkspaceAssumption
  <2>3. QED
    BY <2>1, <2>2 DEF WorkInv, StoreInv
<1>4. status'[t] = "accepted" /\ \A u \in Tasks \ {t} : status'[u] = status[u]
  BY <1>2 DEF WorkInv, Types
<1>5. step[t] = "none" /\ session[t] = None /\ Mine(t) = Idle /\ dir[t] = Bare /\ patch[t] = None
      /\ answer[t] = None /\ work[t] = 0 /\ \A g \in Owners : effect[t][g] = Idle
  BY <1>1 DEF StepInv, Mine, Final, WorkInv, Types
<1>6. Types'
  BY <1>2 DEF WorkInv, Types
<1>7. \A u \in Tasks \ {t} : UNCHANGED local(u)
  BY <1>2, <1>3, <1>4 DEF local
<1>8. StepInv(t)'
  BY <1>1, <1>2, <1>3, <1>4, <1>5 DEF StepInv, Mine, Idle, Preparing, Finishing, Final
<1>9. ImageInv(t)'
  BY <1>1, <1>2, <1>5 DEF ImageInv, Mine
<1>10. DirInv(t)'
  BY <1>2, <1>5 DEF DirInv, Stands, Mine, Idle, Bare
<1>11. ResultInv(t)'
  BY <1>2, <1>4, <1>5 DEF ResultInv, Idle, Bare, Finishing
<1>12. QED
  BY <1>2, <1>6, <1>7, <1>8, <1>9, <1>10, <1>11, Locally DEF TaskInv

LEMMA StartStep ==
  ASSUME WorkInv, NEW t \in Tasks, Start(t)
  PROVE  Types' /\ \A u \in Tasks : TaskInv(u)'
<1>1. /\ crashes \in Owners /\ StepInv(t) /\ ImageInv(t) /\ DirInv(t) /\ ResultInv(t)
      /\ Mine(t) \in Effects
  BY Here DEF TaskInv, Mine
<1>2. /\ status[t] = "accepted" /\ step[t] = "none" /\ step' = [step EXCEPT ![t] = "prepare"]
      /\ Goes(t, crashes, "check")
      /\ UNCHANGED <<source, status, answer, dir, patch, stored, session, work, overtaken, builds,
                     installed, crashes>>
  BY DEF Start, task, results, images, history
<1>3. /\ effect' \in [Tasks -> [Owners -> Effects]]
      /\ effect'[t][crashes] = [effect[t][crashes] EXCEPT !.at = "check"]
      /\ \A h \in Owners \ {crashes} : effect'[t][h] = effect[t][h]
      /\ \A u \in Tasks \ {t} : effect'[u] = effect[u]
  <2>1. "check" \in Stages
    BY DEF Stages, Preparing
  <2>2. Goes(t, crashes, "check") /\ crashes \in Owners
    BY <1>1, <1>2
  <2>3. QED
    BY <2>1, <2>2, Going
<1>4. step'[t] = "prepare" /\ \A u \in Tasks \ {t} : step'[u] = step[u]
  BY <1>2 DEF WorkInv, Types
<1>5. Mine(t).at = "none" /\ Mine(t).plan = None
  BY <1>1, <1>2 DEF StepInv, ImageInv, Mine, Effects, Stages, Over
<1>6. Mine(t)' = effect'[t][crashes] /\ Mine(t)'.at = "check" /\ Mine(t)'.plan = None
  BY <1>1, <1>2, <1>3, <1>5 DEF Mine, Effects
<1>7. Types'
  BY <1>2, <1>3 DEF WorkInv, Types
<1>8. \A u \in Tasks \ {t} : UNCHANGED local(u)
  BY <1>2, <1>3, <1>4 DEF local
<1>9. StepInv(t)'
  <2>1. \A h \in Owners : h > crashes' => effect'[t][h] = Idle
    BY <1>1, <1>2, <1>3 DEF StepInv, Owners
  <2>2. source[t] # None
    BY <1>1, <1>2 DEF StepInv
  <2>3. QED
    BY <1>1, <1>2, <1>4, <1>6, <2>1, <2>2 DEF StepInv, Preparing, Finishing, Final
<1>10. ImageInv(t)'
  BY <1>1, <1>2, <1>3, <1>6 DEF ImageInv
<1>11. DirInv(t)'
  BY <1>1, <1>2, <1>4, <1>6 DEF DirInv, Stands, Kept, Ready
<1>12. ResultInv(t)'
  <2>1. \A h \in Owners : effect'[t][h] = effect[t][h] \/ effect'[t][h].at = "check"
    BY <1>1, <1>3, <1>6
  <2>2. QED
    BY <1>1, <1>2, <1>4, <2>1 DEF ResultInv, Covers, Finishing
<1>13. QED
  BY <1>2, <1>7, <1>8, <1>9, <1>10, <1>11, <1>12, Locally DEF TaskInv

LEMMA OpenSessionStep ==
  ASSUME WorkInv, NEW t \in Tasks, OpenSession(t)
  PROVE  Types' /\ \A u \in Tasks : TaskInv(u)'
<1>1. /\ crashes \in Owners /\ StepInv(t) /\ ImageInv(t) /\ DirInv(t) /\ ResultInv(t)
      /\ Mine(t) \in Effects
  BY Here DEF TaskInv, Mine
<1>2. /\ step[t] = "prepare" /\ Mine(t).at = "prepared" /\ step' = [step EXCEPT ![t] = "session"]
      /\ session' = [session EXCEPT ![t] = [image |-> Mine(t).plan]]
      /\ effect' = [effect EXCEPT ![t][crashes] = Idle]
      /\ UNCHANGED <<source, status, answer, dir, patch, stored, work, overtaken, builds,
                     installed, crashes>>
  BY DEF OpenSession, At, Mine, task, results, images, history
<1>3. /\ effect' \in [Tasks -> [Owners -> Effects]] /\ effect'[t][crashes] = Idle
      /\ \A h \in Owners \ {crashes} : effect'[t][h] = effect[t][h]
      /\ \A u \in Tasks \ {t} : effect'[u] = effect[u]
  BY <1>1, <1>2, Constants, Moves
<1>4. [image |-> Mine(t).plan] \in Sessions
  BY <1>1 DEF Effects, Sessions
<1>5. /\ step'[t] = "session" /\ session'[t].image = Mine(t).plan
      /\ \A u \in Tasks \ {t} : step'[u] = step[u] /\ session'[u] = session[u]
  BY <1>2 DEF WorkInv, Types
<1>6. Mine(t)' = Idle
  BY <1>1, <1>2, <1>3 DEF Mine
<1>7. Types'
  BY <1>2, <1>3, <1>4 DEF WorkInv, Types
<1>8. \A u \in Tasks \ {t} : UNCHANGED local(u)
  BY <1>2, <1>3, <1>5 DEF local
<1>9. StepInv(t)'
  <2>1. \A h \in Owners : h > crashes' => effect'[t][h] = Idle
    BY <1>1, <1>2, <1>3 DEF StepInv
  <2>2. status[t] = "accepted" /\ source[t] # None
    BY <1>1, <1>2 DEF StepInv
  <2>3. QED
    BY <1>1, <1>2, <1>5, <1>6, <2>1, <2>2 DEF StepInv, Idle, Preparing, Finishing, Final
<1>10. ImageInv(t)'
  BY <1>1, <1>2, <1>3, <1>5, <1>6 DEF ImageInv, Idle
<1>11. DirInv(t)'
  BY <1>1, <1>2, <1>5, <1>6 DEF DirInv, Stands, Kept, Ready, Idle
<1>12. ResultInv(t)'
  <2>1. status[t] = "accepted"
    BY <1>1, <1>2 DEF StepInv
  <2>2. QED
    BY <1>1, <1>2, <1>3, <1>5, <2>1 DEF ResultInv, Covers, Finishing, Idle
<1>13. QED
  BY <1>2, <1>7, <1>8, <1>9, <1>10, <1>11, <1>12, Locally DEF TaskInv

LEMMA EditStep ==
  ASSUME WorkInv, NEW t \in Tasks, Edit(t)
  PROVE  Types' /\ \A u \in Tasks : TaskInv(u)'
<1> DEFINE d == [dir[t] EXCEPT !.tree.edits = @ + 1]
<1>1. /\ crashes \in Owners /\ StepInv(t) /\ ImageInv(t) /\ DirInv(t) /\ ResultInv(t)
      /\ dir[t] \in Dirs /\ work[t] \in Nat /\ answer[t] \in Nat \cup {None}
  BY Here DEF TaskInv
<1>2. /\ session[t] # None /\ dir[t].tree # None /\ dir' = [dir EXCEPT ![t].tree.edits = @ + 1]
      /\ work' = [work EXCEPT ![t] = @ + 1]
      /\ UNCHANGED <<source, status, answer, patch, stored, step, session, effect, overtaken,
                     builds, installed, crashes>>
  BY DEF Edit, task, results, owner, images
<1>3. dir[t].tree \in Trees
  BY <1>1, <1>2 DEF Dirs
<1>4. [dir[t].tree EXCEPT !.edits = @ + 1] \in Trees
  BY <1>3 DEF Trees
<1>5. d \in Dirs /\ d.tree = [dir[t].tree EXCEPT !.edits = @ + 1] /\ d.marker = dir[t].marker
  BY <1>1, <1>4 DEF Dirs
<1>6. dir' = [dir EXCEPT ![t] = d]
  BY <1>2 DEF WorkInv, Types, Dirs
<1> HIDE DEF d
<1>7. /\ dir' \in [Tasks -> Dirs] /\ dir'[t] = d /\ \A u \in Tasks \ {t} : dir'[u] = dir[u]
  BY <1>5, <1>6 DEF WorkInv, Types
<1>8. /\ work' \in [Tasks -> Nat] /\ work'[t] = work[t] + 1
      /\ \A u \in Tasks \ {t} : work'[u] = work[u]
  BY <1>2 DEF WorkInv, Types
<1>9. /\ dir'[t].marker = dir[t].marker /\ dir'[t].tree # None
      /\ dir'[t].tree.base = dir[t].tree.base /\ dir'[t].tree.edits = dir[t].tree.edits + 1
      /\ dir'[t].tree.committed = dir[t].tree.committed
      /\ dir[t].tree.edits \in Nat /\ dir[t].tree.committed \in Nat
  BY <1>3, <1>4, <1>5, <1>7, NothingAssumption DEF Trees
<1>10. Types'
  BY <1>2, <1>7, <1>8 DEF WorkInv, Types
<1>11. \A u \in Tasks \ {t} : UNCHANGED local(u)
  BY <1>2, <1>7, <1>8 DEF local
<1>12. step[t] \in {"session", "finish"} /\ status[t] = "accepted" /\ source[t] # None
  BY <1>1, <1>2 DEF StepInv
<1>13. StepInv(t)'
  BY <1>1, <1>2, <1>12 DEF StepInv, Mine
<1>14. ImageInv(t)'
  BY <1>1, <1>2 DEF ImageInv, Mine
<1>15. DirInv(t)'
  <2>1. Mine(t).at \notin Preparing \cup {"prepared"}
    BY <1>1, <1>12 DEF StepInv
  <2>2. ASSUME ~overtaken[t] PROVE Ready(t)'
    <3>1. Ready(t)
      BY <1>1, <1>2, <2>2 DEF DirInv
    <3>2. QED
      BY <1>2, <1>8, <1>9, <3>1 DEF Ready, Kept
  <2>3. QED
    BY <1>2, <2>1, <2>2 DEF DirInv, Stands, Mine, Ready, Preparing
<1>16. ResultInv(t)'
  <2>1. answer[t] # None => answer[t] <= work'[t]
    BY <1>1, <1>8 DEF ResultInv
  <2>2. dir'[t].tree.committed <= dir'[t].tree.edits
    BY <1>1, <1>2, <1>9 DEF ResultInv
  <2>3. QED
    BY <1>1, <1>2, <1>9, <2>1, <2>2 DEF ResultInv, Covers
<1>17. QED
  BY <1>2, <1>10, <1>11, <1>13, <1>14, <1>15, <1>16, Locally DEF TaskInv

LEMMA CommitStep ==
  ASSUME WorkInv, NEW t \in Tasks, Commit(t)
  PROVE  Types' /\ \A u \in Tasks : TaskInv(u)'
<1>1. /\ crashes \in Owners /\ StepInv(t) /\ ImageInv(t) /\ DirInv(t) /\ ResultInv(t)
      /\ dir[t] \in Dirs
  BY Here DEF TaskInv
<1>2. PICK v \in {dir[t].tree.inputs, Own} :
        dir' = [dir EXCEPT ![t].tree = [@ EXCEPT !.committed = dir[t].tree.edits, !.inputs = v]]
  BY DEF Commit
<1>3. /\ session[t] # None /\ dir[t].tree # None /\ dir[t].tree.committed < dir[t].tree.edits
      /\ UNCHANGED <<source, status, answer, patch, stored, step, session, effect, work, overtaken,
                     builds, installed, crashes>>
  BY DEF Commit, task, results, owner, images, history
<1> DEFINE w == [dir[t].tree EXCEPT !.committed = dir[t].tree.edits, !.inputs = v]
           d == [dir[t] EXCEPT !.tree = w]
<1>4. dir[t].tree \in Trees /\ v \in Versions
  BY <1>1, <1>2, <1>3 DEF Dirs, Trees, Versions
<1>5. /\ w \in Trees /\ w.base = dir[t].tree.base /\ w.edits = dir[t].tree.edits
      /\ w.committed = dir[t].tree.edits
      /\ dir[t].tree.edits \in Nat /\ dir[t].tree.committed \in Nat
  BY <1>4 DEF Trees
<1>6. dir' = [dir EXCEPT ![t] = d]
  BY <1>2, <1>4 DEF WorkInv, Types, Dirs, Trees
<1> HIDE DEF w
<1>7. d \in Dirs /\ d.tree = w /\ d.marker = dir[t].marker
  BY <1>1, <1>5 DEF Dirs
<1> HIDE DEF d
<1>8. /\ dir' \in [Tasks -> Dirs] /\ dir'[t] = d /\ \A u \in Tasks \ {t} : dir'[u] = dir[u]
  BY <1>6, <1>7 DEF WorkInv, Types
<1>9. /\ dir'[t].marker = dir[t].marker /\ dir'[t].tree # None
      /\ dir'[t].tree.base = dir[t].tree.base /\ dir'[t].tree.edits = dir[t].tree.edits
      /\ dir'[t].tree.committed = dir[t].tree.edits
  BY <1>5, <1>7, <1>8, NothingAssumption
<1>10. Types'
  BY <1>3, <1>8 DEF WorkInv, Types
<1>11. \A u \in Tasks \ {t} : UNCHANGED local(u)
  BY <1>3, <1>8 DEF local
<1>12. StepInv(t)'
  <2>1. status[t] = "accepted"
    BY <1>1, <1>3 DEF StepInv
  <2>2. QED
    BY <1>1, <1>3, <2>1 DEF StepInv, Mine
<1>13. ImageInv(t)'
  BY <1>1, <1>3 DEF ImageInv, Mine
<1>14. DirInv(t)'
  <2>1. (Kept(t)' <=> Kept(t)) /\ (Ready(t)' <=> Ready(t))
    BY <1>3, <1>9 DEF Kept, Ready
  <2>2. QED
    BY <1>1, <1>3, <1>9, <2>1 DEF DirInv, Stands, Mine
<1>15. ResultInv(t)'
  <2>1. \A n \in Nat : n <= dir[t].tree.committed => n <= dir'[t].tree.committed
    BY <1>3, <1>5, <1>9
  <2>2. \A h \in Owners : effect[t][h].seen \in Captures \cup {None}
    BY Here DEF Effects
  <2>3. \A c \in Captures : Covers(t, c) => Covers(t, c)'
    BY <1>3, <2>1 DEF Covers, Captures
  <2>4. patch[t] \in Captures \cup {None}
    BY Here
  <2>5. dir'[t].tree.committed <= dir'[t].tree.edits
    BY <1>5, <1>9
  <2>6. ASSUME ~overtaken[t]
        PROVE  /\ \A h \in Owners : effect[t][h].at = "put" => Covers(t, effect[t][h].seen)'
               /\ patch[t] # None => Covers(t, patch[t])'
    <3>1. ASSUME NEW h \in Owners, effect[t][h].at = "put"
          PROVE  effect[t][h].seen \in Captures /\ Covers(t, effect[t][h].seen)
      BY <1>1, <2>2, <2>6, <3>1 DEF ResultInv
    <3>2. patch[t] # None => patch[t] \in Captures /\ Covers(t, patch[t])
      BY <1>1, <2>4, <2>6 DEF ResultInv
    <3>3. QED
      BY <1>3, <2>3, <3>1, <3>2 DEF Covers
  <2>7. QED
    BY <1>1, <1>3, <2>5, <2>6 DEF ResultInv, Covers
<1>16. QED
  BY <1>3, <1>10, <1>11, <1>12, <1>13, <1>14, <1>15, Locally DEF TaskInv

LEMMA AnswerStep ==
  ASSUME WorkInv, NEW t \in Tasks, Answer(t)
  PROVE  Types' /\ \A u \in Tasks : TaskInv(u)'
<1>1. /\ crashes \in Owners /\ StepInv(t) /\ ImageInv(t) /\ DirInv(t) /\ ResultInv(t)
      /\ Mine(t) \in Effects /\ work[t] \in Nat /\ answer[t] \in Nat \cup {None}
  BY Here DEF TaskInv, Mine
<1>2. /\ step[t] = "session" /\ step' = [step EXCEPT ![t] = "finish"]
      /\ answer' = [answer EXCEPT ![t] = IF @ = None THEN work[t] ELSE @]
      /\ Goes(t, crashes, "capture")
      /\ UNCHANGED <<source, status, dir, patch, stored, session, work, overtaken, builds,
                     installed, crashes>>
  BY DEF Answer, results, images, history
<1>3. /\ effect' \in [Tasks -> [Owners -> Effects]]
      /\ effect'[t][crashes] = [effect[t][crashes] EXCEPT !.at = "capture"]
      /\ \A h \in Owners \ {crashes} : effect'[t][h] = effect[t][h]
      /\ \A u \in Tasks \ {t} : effect'[u] = effect[u]
  <2>1. "capture" \in Stages
    BY DEF Stages, Finishing
  <2>2. Goes(t, crashes, "capture") /\ crashes \in Owners
    BY <1>1, <1>2
  <2>3. QED
    BY <2>1, <2>2, Going
<1>4. /\ step'[t] = "finish" /\ answer'[t] = IF answer[t] = None THEN work[t] ELSE answer[t]
      /\ answer' \in [Tasks -> Nat \cup {None}]
      /\ \A u \in Tasks \ {t} : step'[u] = step[u] /\ answer'[u] = answer[u]
  BY <1>2 DEF WorkInv, Types
<1>5. answer'[t] # None /\ answer'[t] <= work[t]
  BY <1>1, <1>4, WorkspaceAssumption DEF ResultInv
<1>6. Mine(t)' = effect'[t][crashes] /\ Mine(t)'.at = "capture"
  BY <1>1, <1>2, <1>3 DEF Mine, Effects
<1>7. Types'
  BY <1>2, <1>3, <1>4 DEF WorkInv, Types
<1>8. \A u \in Tasks \ {t} : UNCHANGED local(u)
  BY <1>2, <1>3, <1>4 DEF local
<1>9. status[t] = "accepted"
  BY <1>1, <1>2 DEF StepInv
<1>10. \A h \in Owners : effect'[t][h] = effect[t][h] \/ (h = crashes /\ effect'[t][h].at = "capture")
  BY <1>3, <1>6
<1>11. StepInv(t)'
  <2>1. \A h \in Owners : h > crashes' => effect'[t][h] = Idle
    BY <1>1, <1>2, <1>10 DEF StepInv, Owners
  <2>2. source[t] # None
    BY <1>1, <1>9 DEF StepInv
  <2>3. QED
    BY <1>1, <1>2, <1>4, <1>6, <1>9, <2>1, <2>2 DEF StepInv, Preparing, Finishing, Final
<1>12. ImageInv(t)'
  BY <1>1, <1>2, <1>6, <1>10 DEF ImageInv
<1>13. DirInv(t)'
  <2>1. ~overtaken[t] => Ready(t)
    BY <1>1, <1>2 DEF DirInv
  <2>2. QED
    BY <1>1, <1>2, <1>6, <2>1 DEF DirInv, Stands, Kept, Ready
<1>14. ResultInv(t)'
  <2>1. CASE answer[t] = None
    BY <1>1, <1>2, <1>5, <1>9, <1>10, <2>1 DEF ResultInv, Finishing
  <2>2. CASE answer[t] # None
    BY <1>1, <1>2, <1>4, <1>5, <1>9, <1>10, <2>2 DEF ResultInv, Covers, Finishing
  <2>3. QED
    BY <2>1, <2>2
<1>15. QED
  BY <1>2, <1>7, <1>8, <1>11, <1>12, <1>13, <1>14, Locally DEF TaskInv

LEMMA CloseSessionStep ==
  ASSUME WorkInv, NEW t \in Tasks, CloseSession(t)
  PROVE  Types' /\ \A u \in Tasks : TaskInv(u)'
<1>1. /\ StepInv(t) /\ ImageInv(t) /\ DirInv(t) /\ ResultInv(t)
  BY Here DEF TaskInv
<1>2. /\ session' = [session EXCEPT ![t] = None]
      /\ UNCHANGED <<source, status, answer, dir, patch, stored, step, effect, work, overtaken,
                     builds, installed, crashes>>
  BY DEF CloseSession, task, results, images, history
<1>3. session'[t] = None /\ \A u \in Tasks \ {t} : session'[u] = session[u]
  BY <1>2 DEF WorkInv, Types
<1>4. Types'
  BY <1>2 DEF WorkInv, Types
<1>5. \A u \in Tasks \ {t} : UNCHANGED local(u)
  BY <1>2, <1>3 DEF local
<1>6. StepInv(t)'
  BY <1>1, <1>2, <1>3 DEF StepInv, Mine
<1>7. ImageInv(t)'
  BY <1>1, <1>2, <1>3 DEF ImageInv, Mine
<1>8. DirInv(t)'
  BY <1>1, <1>2, <1>3 DEF DirInv, Stands, Kept, Ready, Mine
<1>9. ResultInv(t)'
  BY <1>1, <1>2 DEF ResultInv, Covers
<1>10. QED
  BY <1>2, <1>4, <1>5, <1>6, <1>7, <1>8, <1>9, Locally DEF TaskInv

-----------------------------------------------------------------------------
(* The finish effect. *)

\* A step of finish changes one effect and what is stored: the results are left to show.
LEMMA FinishStep ==
  ASSUME WorkInv, NEW t \in Tasks, NEW g \in Owners, NEW e \in Effects,
         effect[t][g].at \in Finishing, effect' = [effect EXCEPT ![t][g] = e],
         e.at \in Finishing \cup {"finished"} \/ (e = Idle /\ g # crashes),
         UNCHANGED <<source, status, answer, dir, step, session, work, overtaken, builds,
                     installed, crashes>>,
         patch' \in [Tasks -> Captures \cup {None}],
         stored' \in [Tasks -> SUBSET {"result", "execution"}],
         \A u \in Tasks \ {t} : patch'[u] = patch[u] /\ stored'[u] = stored[u],
         ResultInv(t)'
  PROVE  Types' /\ \A u \in Tasks : TaskInv(u)'
<1> USE DEF Preparing, Finishing, Idle
<1>1. /\ crashes \in Owners /\ StepInv(t) /\ ImageInv(t) /\ DirInv(t) /\ ResultInv(t)
  BY Here DEF TaskInv
<1>2. /\ effect' \in [Tasks -> [Owners -> Effects]] /\ effect'[t][g] = e
      /\ \A h \in Owners \ {g} : effect'[t][h] = effect[t][h]
      /\ \A u \in Tasks \ {t} : effect'[u] = effect[u]
  BY Moves
<1>3. /\ g # crashes => Mine(t)' = Mine(t)
      /\ g = crashes => Mine(t)' = e /\ Mine(t) = effect[t][g]
  BY <1>1, <1>2 DEF Mine
<1>4. status[t] # "none" /\ source[t] # None
  BY <1>1 DEF StepInv
<1>5. g = crashes => step[t] = "finish" /\ e.at \in Finishing \cup {"finished"}
  BY <1>1, <1>3 DEF StepInv
<1>6. Types'
  BY <1>2 DEF WorkInv, Types
<1>7. \A u \in Tasks \ {t} : UNCHANGED local(u)
  BY <1>2 DEF local
<1>9. StepInv(t)'
  <2>1. \A h \in Owners : h > crashes' => effect'[t][h] = Idle
    BY <1>1, <1>2 DEF StepInv
  <2>2. QED
    BY <1>1, <1>3, <1>4, <1>5, <2>1 DEF StepInv
<1>10. ImageInv(t)'
  BY <1>1, <1>2, <1>3, <1>5 DEF ImageInv
<1>11. DirInv(t)'
  <2>1. (Kept(t)' <=> Kept(t)) /\ (Ready(t)' <=> Ready(t))
    BY DEF Kept, Ready
  <2>2. g = crashes => Stands(t, Mine(t).at)'
    BY <1>3, <1>5 DEF Stands
  <2>3. QED
    BY <1>1, <1>3, <2>1, <2>2 DEF DirInv, Stands
<1>12. QED
  BY <1>6, <1>7, <1>9, <1>10, <1>11, Locally DEF TaskInv

LEMMA CaptureStep ==
  ASSUME WorkInv, NEW t \in Tasks, NEW g \in Owners, Capture(t, g)
  PROVE  Types' /\ \A u \in Tasks : TaskInv(u)'
<1> DEFINE c == [from |-> dir[t].tree.committed, to |-> dir[t].tree.edits]
           e == [effect[t][g] EXCEPT !.at = "put", !.seen = c]
<1>1. /\ DirInv(t) /\ ResultInv(t) /\ effect[t][g] \in Effects /\ dir[t] \in Dirs
      /\ work[t] \in Nat /\ answer[t] \in Nat \cup {None}
  BY Here DEF TaskInv
<1>2. /\ effect[t][g].at = "capture" /\ dir[t].tree # None
      /\ UNCHANGED <<source, status, answer, dir, patch, stored, step, session, work, overtaken,
                     builds, installed, crashes>>
      /\ effect' = [effect EXCEPT ![t][g].at = "put", ![t][g].seen = c]
  BY DEF Capture, At, task, results, owner, images, history
<1>3. c \in Captures /\ c.from = dir[t].tree.committed /\ c.to = dir[t].tree.edits
  BY <1>1, <1>2 DEF Captures, Dirs, Trees
<1> HIDE DEF c
<1>4. e \in Effects /\ e.at = "put" /\ e.seen = c
  BY <1>1, <1>3 DEF Effects, Stages, Finishing
<1>5. effect' = [effect EXCEPT ![t][g] = e]
  BY <1>1, <1>2 DEF WorkInv, Types, Effects
<1> HIDE DEF e
<1>6. effect'[t][g] = e /\ \A h \in Owners \ {g} : effect'[t][h] = effect[t][h]
  BY <1>4, <1>5, Moves
<1>7. ResultInv(t)'
  <2>1. answer[t] # None /\ c # None
    BY <1>1, <1>2, <1>3, NothingAssumption DEF ResultInv, Finishing
  <2>2. ASSUME ~overtaken[t] PROVE c.to >= answer[t] /\ c.from <= dir[t].tree.committed
    <3>1. dir[t].tree.edits = work[t] /\ dir[t].tree.committed \in Nat
      BY <1>1, <1>2, <2>1, <2>2 DEF DirInv, Ready, Kept, Dirs, Trees
    <3>2. QED
      BY <1>1, <1>3, <2>1, <3>1 DEF ResultInv
  <2>3. QED
    BY <1>1, <1>2, <1>4, <1>6, <2>1, <2>2 DEF ResultInv, Covers, Finishing
<1>8. patch' \in [Tasks -> Captures \cup {None}]
      /\ stored' \in [Tasks -> SUBSET {"result", "execution"}]
  BY <1>2 DEF WorkInv, Types
<1>9. QED
  BY <1>2, <1>4, <1>5, <1>7, <1>8, FinishStep DEF Finishing

LEMMA PutStep ==
  ASSUME WorkInv, NEW t \in Tasks, NEW g \in Owners, Put(t, g)
  PROVE  Types' /\ \A u \in Tasks : TaskInv(u)'
<1> DEFINE e == [effect[t][g] EXCEPT !.at = "rest", !.seen = None]
<1>1. /\ ResultInv(t) /\ effect[t][g] \in Effects
  BY Here DEF TaskInv
<1>2. /\ effect[t][g].at = "put" /\ patch' = [patch EXCEPT ![t] = effect[t][g].seen]
      /\ stored' = [stored EXCEPT ![t] = @ \cup {"result"}]
      /\ UNCHANGED <<source, status, answer, dir, step, session, work, overtaken,
                     builds, installed, crashes>>
      /\ effect' = [effect EXCEPT ![t][g].at = "rest", ![t][g].seen = None]
  BY DEF Put, At, task, owner, images, history
<1>3. e \in Effects /\ e.at = "rest"
  BY <1>1 DEF Effects, Stages, Finishing
<1>4. effect' = [effect EXCEPT ![t][g] = e]
  BY <1>1, <1>2 DEF WorkInv, Types, Effects
<1> HIDE DEF e
<1>5. effect'[t][g] = e /\ \A h \in Owners \ {g} : effect'[t][h] = effect[t][h]
  BY <1>3, <1>4, Moves
<1>6. effect[t][g].seen \in Captures /\ effect[t][g].seen # None
  BY <1>1, <1>2 DEF ResultInv, Effects
<1>7. /\ patch' \in [Tasks -> Captures \cup {None}]
      /\ stored' \in [Tasks -> SUBSET {"result", "execution"}]
      /\ patch'[t] = effect[t][g].seen /\ stored'[t] = stored[t] \cup {"result"}
      /\ stored[t] \subseteq {"result", "execution"}
      /\ \A u \in Tasks \ {t} : patch'[u] = patch[u] /\ stored'[u] = stored[u]
  BY <1>2, <1>6 DEF WorkInv, Types
<1>8. ResultInv(t)'
  <2>1. stored[t] = {"result", "execution"} => stored'[t] = {"result", "execution"}
    BY <1>7
  <2>2. answer[t] # None
    BY <1>1, <1>2 DEF ResultInv, Finishing
  <2>3. ~overtaken[t] => Covers(t, effect[t][g].seen)
    BY <1>1, <1>2 DEF ResultInv
  <2>4. patch'[t] # None /\ "result" \in stored'[t] /\ (~overtaken'[t] => Covers(t, patch[t])')
    BY <1>2, <1>6, <1>7, <2>3 DEF Covers
  <2>5. \A h \in Owners : \/ effect'[t][h] = effect[t][h]
                          \/ effect'[t][h].at = "rest"
    BY <1>3, <1>5
  <2>6. ASSUME NEW h \in Owners
        PROVE  /\ effect'[t][h].at = "put" => effect'[t][h].seen # None
               /\ effect'[t][h].at = "finished" => stored'[t] = {"result", "execution"}
               /\ ~overtaken'[t] /\ effect'[t][h].at = "put" => Covers(t, effect[t][h].seen)'
    BY <1>1, <1>2, <2>1, <2>5 DEF ResultInv, Covers
  <2>7. status[t] = "completed" => stored'[t] = {"result", "execution"}
    BY <1>1, <2>1 DEF ResultInv
  <2>8. /\ answer'[t] # None => answer'[t] <= work'[t]
        /\ dir'[t].tree # None => dir'[t].tree.committed <= dir'[t].tree.edits
    BY <1>1, <1>2 DEF ResultInv
  <2> HIDE DEF Covers
  <2>9. QED
    BY <1>2, <2>2, <2>4, <2>6, <2>7, <2>8 DEF ResultInv
<1>9. /\ effect[t][g].at \in Finishing
      /\ e.at \in Finishing \cup {"finished"} \/ (e = Idle /\ g # crashes)
  BY <1>2, <1>3 DEF Finishing
<1>10. QED
  BY <1>2, <1>3, <1>4, <1>7, <1>8, <1>9, FinishStep

LEMMA PutRestStep ==
  ASSUME WorkInv, NEW t \in Tasks, NEW g \in Owners, PutRest(t, g)
  PROVE  Types' /\ \A u \in Tasks : TaskInv(u)'
<1> DEFINE e == IF g # crashes THEN Idle
                ELSE [Idle EXCEPT !.at = "finished", !.plan = effect[t][g].plan]
<1>1. /\ ResultInv(t) /\ effect[t][g] \in Effects
  BY Here DEF TaskInv
<1>2. /\ effect[t][g].at = "rest" /\ stored' = [stored EXCEPT ![t] = @ \cup {"execution"}]
      /\ UNCHANGED <<source, status, answer, dir, patch, step, session, work, overtaken,
                     builds, installed, crashes>>
  BY DEF PutRest, At, task, owner, images, history
<1>3. e \in Effects /\ effect' = [effect EXCEPT ![t][g] = e]
  BY <1>1, Constants DEF PutRest, Ends, Effects, Stages, Over
<1>4. e.at = "finished" \/ (e = Idle /\ g # crashes)
  BY DEF Idle
<1> HIDE DEF e
<1>5. effect'[t][g] = e /\ \A h \in Owners \ {g} : effect'[t][h] = effect[t][h]
  BY <1>3, Moves
<1>6. /\ patch' \in [Tasks -> Captures \cup {None}]
      /\ stored' \in [Tasks -> SUBSET {"result", "execution"}]
      /\ stored'[t] = stored[t] \cup {"execution"} /\ stored[t] \subseteq {"result", "execution"}
      /\ \A u \in Tasks \ {t} : patch'[u] = patch[u] /\ stored'[u] = stored[u]
  BY <1>2 DEF WorkInv, Types
<1>7. ResultInv(t)'
  <2>1. patch[t] # None /\ "result" \in stored[t]
    BY <1>1, <1>2 DEF ResultInv
  <2>2. stored'[t] = {"result", "execution"}
    BY <1>6, <2>1
  <2>3. \A h \in Owners : \/ effect'[t][h] = effect[t][h]
                          \/ effect'[t][h].at \in {"finished", "none"}
    BY <1>4, <1>5 DEF Idle
  <2>4. answer[t] # None
    BY <1>1, <2>1 DEF ResultInv
  <2>5. QED
    BY <1>1, <1>2, <2>1, <2>2, <2>3, <2>4 DEF ResultInv, Covers, Finishing
<1>8. /\ effect[t][g].at \in Finishing
      /\ e.at \in Finishing \cup {"finished"} \/ (e = Idle /\ g # crashes)
  BY <1>2, <1>4 DEF Finishing
<1>9. QED
  BY <1>2, <1>3, <1>6, <1>7, <1>8, FinishStep

-----------------------------------------------------------------------------
(* The owner dies. *)

LEMMA CrashStep ==
  ASSUME WorkInv, Crash
  PROVE  Types' /\ \A u \in Tasks : TaskInv(u)'
<1>1. /\ crashes < MaxCrashes /\ crashes' = crashes + 1
      /\ step' = [t \in Tasks |-> IF status[t] = "accepted" THEN "none" ELSE step[t]]
      /\ session' = [t \in Tasks |-> None]
      /\ UNCHANGED <<source, status, answer, dir, patch, stored, work, overtaken, builds, installed>>
  BY DEF Crash, task, results, images, history
<1>2. crashes \in Owners /\ crashes' \in Owners /\ Owners \subseteq Nat
  BY <1>1, WorkspaceAssumption DEF WorkInv, Types, Owners
<1>3. /\ effect' \in [Tasks -> [Owners -> Effects]]
      /\ \A t \in Tasks : \A g \in Owners : effect'[t][g] \in {effect[t][g], Idle}
  BY Constants DEF Crash, WorkInv, Types
<1>4. Types'
  BY <1>1, <1>2, <1>3 DEF WorkInv, Types
<1>5. ASSUME NEW t \in Tasks PROVE TaskInv(t)'
  <2>1. StepInv(t) /\ ImageInv(t) /\ DirInv(t) /\ ResultInv(t)
    BY <1>5, Here DEF TaskInv
  <2>2. session'[t] = None /\ step'[t] = IF status[t] = "accepted" THEN "none" ELSE step[t]
    BY <1>1
  <2>3. \A h \in Owners : h > crashes => effect'[t][h] = Idle
    BY <1>3, <2>1 DEF StepInv
  <2>4. \A h \in Owners : h > crashes' => effect'[t][h] = Idle
    BY <1>1, <1>2, <2>3
  <2>5. Mine(t)' = Idle
    BY <1>1, <1>2, <2>3 DEF Mine
  <2>6. step'[t] = "none" \/ (step'[t] = step[t] /\ status[t] # "accepted")
    BY <2>2
  <2>7. StepInv(t)'
    BY <1>1, <1>3, <2>1, <2>2, <2>4, <2>5, <2>6 DEF StepInv, Idle, Preparing, Finishing, Final
  <2>8. ImageInv(t)'
    BY <1>1, <1>3, <2>1, <2>2, <2>5 DEF ImageInv, Idle
  <2>9. DirInv(t)'
    BY <1>1, <2>1, <2>2, <2>5 DEF DirInv, Stands, Kept, Ready, Idle, StepInv
  <2>10. ResultInv(t)'
    <3>1. \A h \in Owners : effect'[t][h] = effect[t][h] \/ effect'[t][h].at = "none"
      BY <1>3 DEF Idle
    <3>2. step'[t] = "finish" => step[t] = "finish"
      BY <2>6
    <3>3. QED
      BY <1>1, <2>1, <3>1, <3>2 DEF ResultInv, Covers, Finishing
  <2>11. QED
    BY <2>7, <2>8, <2>9, <2>10 DEF TaskInv
<1>6. QED
  BY <1>4, <1>5

-----------------------------------------------------------------------------
(* The theorems. *)

LEMMA WorkStep == WorkInv /\ [Next]_vars => WorkInv'
<1> SUFFICES ASSUME WorkInv, [Next]_vars PROVE Types' /\ \A u \in Tasks : TaskInv(u)'
  BY StoreStep DEF WorkInv
<1>1. ASSUME UNCHANGED <<task, dir, results, owner, effect, installed, crashes, history>>,
             \E n \in Nat : DOMAIN builds' = 1 .. n
      PROVE  Types' /\ \A u \in Tasks : TaskInv(u)'
  <2>1. Types'
    BY <1>1 DEF WorkInv, Types, task, results, owner, history
  <2>2. \A u \in Tasks : UNCHANGED local(u)
    BY <1>1 DEF local, task, results, owner, history
  <2>3. QED
    BY <1>1, <2>1, <2>2, Elsewhere DEF WorkInv
<1>2. \E n \in Nat : DOMAIN builds = 1 .. n
  BY DEF WorkInv, Types
<1>3. CASE UNCHANGED vars
  BY <1>1, <1>2, <1>3 DEF vars, images
<1>4. CASE Push \/ \E p \in Publishers : Publish(p) \/ Point(p)
  BY <1>1, <1>2, <1>4 DEF Push, Publish, Point, images
<1>5. ASSUME NEW b \in DOMAIN builds, Build(b) PROVE Types' /\ \A u \in Tasks : TaskInv(u)'
  <2>1. DOMAIN builds' = DOMAIN builds
    BY <1>5 DEF Build
  <2>2. QED
    BY <1>1, <1>2, <1>5, <2>1 DEF Build
<1>6. ASSUME NEW t \in Tasks,
             \/ Submit(t) \/ Start(t) \/ OpenSession(t) \/ Edit(t) \/ Commit(t) \/ Answer(t)
             \/ SessionFails(t) \/ CloseSession(t) \/ Complete(t) \/ Abort(t)
      PROVE  Types' /\ \A u \in Tasks : TaskInv(u)'
  BY <1>6, SubmitStep, StartStep, OpenSessionStep, EditStep, CommitStep, AnswerStep,
     SettlingStep, CloseSessionStep
<1>7. ASSUME NEW t \in Tasks, NEW g \in Owners, EffectStep(t, g) \/ EffectFails(t, g)
      PROVE  Types' /\ \A u \in Tasks : TaskInv(u)'
  BY <1>7, CheckStep, ClearStep, DownloadStep, InitTreeStep, CheckoutStep, OpenMarkStep,
     MarkStep, InspectStep, PollStep, EffectOver, InstallStep, CaptureStep, PutStep, PutRestStep DEF EffectStep
<1>8. QED
  BY <1>3, <1>4, <1>5, <1>6, <1>7, CrashStep DEF Next

\* The invariant holds in every reachable state of the workspace, the effects and the session.
THEOREM WorkInvariance == Spec => []WorkInv
<1>1. Init => WorkInv
  <2> SUFFICES ASSUME Init PROVE WorkInv
    OBVIOUS
  <2>1. 0 \in Owners /\ 1 \in Commits /\ Scratch # None /\ None \notin Nat
    BY WorkspaceAssumption DEF Owners
  <2>2. StoreInv
    BY <2>1, WorkspaceAssumption DEF Init, StoreInv, SnapshotsResolve
  <2>3. Types
    BY <2>1, Constants DEF Init, Types
  <2>4. ASSUME NEW t \in Tasks PROVE TaskInv(t)
    <3>1. Mine(t) = Idle /\ \A g \in Owners : effect[t][g] = Idle
      BY <2>1 DEF Init, Mine
    <3>2. StepInv(t)
      BY <3>1 DEF Init, StepInv, Idle, Preparing, Finishing, Final
    <3>3. ImageInv(t)
      BY <3>1 DEF Init, ImageInv, Idle
    <3>4. DirInv(t)
      BY <3>1 DEF Init, DirInv, Stands, Idle, Bare
    <3>5. ResultInv(t)
      BY <3>1 DEF Init, ResultInv, Idle, Bare, Finishing
    <3>6. QED
      BY <3>2, <3>3, <3>4, <3>5 DEF TaskInv
  <2>5. QED
    BY <2>2, <2>3, <2>4 DEF WorkInv
<1>2. QED
  BY <1>1, WorkStep, PTL DEF Spec

\* workspace_effect.py's promise that the task directory survives owner restart: any number of
\* restarts, tasks and edits, with orphans that do not write.
THEOREM Survival == Spec => []WorkSurvives
<1>1. WorkInv => WorkSurvives
  BY DEF WorkInv, TaskInv, ImageInv, DirInv, Ready, Kept, WorkSurvives
<1>2. QED
  BY <1>1, WorkInvariance, PTL

\* No capture, repeated or orphaned, puts an older state over the result of a completed task
\* (capture_result, capture_scratch_result).
THEOREM Coverage == Spec => []ResultCoversAnswer
<1>1. WorkInv => ResultCoversAnswer
  BY DEF WorkInv, TaskInv, ResultInv, Covers, ResultCoversAnswer
<1>2. QED
  BY <1>1, WorkInvariance, PTL
=============================================================================
