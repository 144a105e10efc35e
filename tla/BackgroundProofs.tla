--------------------------- MODULE BackgroundProofs ---------------------------
(***************************************************************************)
(* Proofs about the background work of the operations app and about        *)
(* registration by e-mail, for any number of notifications, jobs, workers, *)
(* addresses, registrations and mails, and for any limits on retries.      *)
(***************************************************************************)
EXTENDS OperationsTasks, Registration, SumTheorems, TLAPS

-----------------------------------------------------------------------------
(* Tasks.                                                                  *)

NoteStates == {"NONE", "QUEUED", "SENT", "FAILED", "READ"}
JobStates  == {"NONE", "QUEUED", "RUNNING", "COMPLETED", "FAILED"}
TaskStates == {"none", "due", "queued", "taken", "done", "gave_up", "lost"}
Stages     == {"idle", "start", "claimed", "written", "completed"}

TaskTypes ==
    /\ note \in [Notes -> [status : NoteStates, sent : BOOLEAN, read : BOOLEAN]]
    /\ deadLetter \in [Notes -> Nat] /\ pushed \in [Notes -> Nat]
    /\ job \in [Jobs -> [status : JobStates, artifact : Nat, passed : BOOLEAN]]
    /\ task \in [Tasks -> TaskStates] /\ tried \in [Tasks -> Nat]
    /\ taskWorker \in [TaskWorkers -> [task : Tasks \cup {"none"}, at : Stages]]

\* A task is in the hands of one worker.
OneTaker ==
    /\ \A w \in TaskWorkers : taskWorker[w] # Free =>
          taskWorker[w].task \in Tasks /\ task[taskWorker[w].task] = "taken"
    /\ \A w, v \in TaskWorkers :
          taskWorker[w].task = taskWorker[v].task /\ taskWorker[w].task \in Tasks => w = v

\* A row that has not been made has no task.
NoRowNoTask ==
    /\ \A n \in Notes : note[n].status = "NONE" => task[n] = "none"
    /\ \A j \in Jobs : job[j].status = "NONE" => task[j] = "none"

\* A worker that has written a file is about to name that file in its job.
WrittenIsOnDisk ==
    \A w \in TaskWorkers : At(w, "written") =>
        [job |-> taskWorker[w].task, no |-> tried[taskWorker[w].task] + 1] \in files

\* Pushes of failed tries are counted by tried, the committed one by published.
PushesCounted ==
    \A n \in Notes : pushed[n] <= tried[n] + (IF n \in published THEN 1 ELSE 0)

TasksInv == TaskTypes /\ OneTaker /\ NoRowNoTask /\ WrittenIsOnDisk /\ PushesCounted
            /\ OneOutcomePerNotification /\ CompletedHasArtifact

\* What delivery has done stays true while its rows do not change and failures
\* are only counted up.
LEMMA NotesKept ==
    ASSUME TasksInv, published' = published, deadLetter' = deadLetter, pushed' = pushed,
           \A n \in Notes : note'[n].sent = note[n].sent,
           \A n \in Notes : tried'[n] \in Nat /\ tried'[n] >= tried[n]
    PROVE  PushesCounted' /\ OneOutcomePerNotification'
<1>1. \A n \in Notes : pushed[n] \in Nat /\ tried[n] \in Nat
  BY DEF TasksInv, TaskTypes, Tasks
<1>2. PushesCounted /\ OneOutcomePerNotification
  BY DEF TasksInv
<1>3. PushesCounted'
  BY <1>1, <1>2 DEF PushesCounted
<1>4. OneOutcomePerNotification'
  BY <1>1, <1>2 DEF OneOutcomePerNotification
<1> QED BY <1>3, <1>4

\* A job that is not completed in this step keeps what was true of it.
LEMMA JobsKept ==
    ASSUME TasksInv, files \subseteq files',
           \A j \in Jobs : job'[j].status = "COMPLETED" => job'[j] = job[j]
    PROVE  CompletedHasArtifact'
BY DEF TasksInv, CompletedHasArtifact, Reconciled

\* The task in the hands of a worker.
LEMMA InHand ==
    ASSUME TasksInv, NEW w \in TaskWorkers, taskWorker[w].task \in Tasks
    PROVE  /\ taskWorker[w] # Free /\ task[taskWorker[w].task] = "taken"
           /\ \A v \in TaskWorkers \ {w} : taskWorker[v].task # taskWorker[w].task
           /\ \A n \in Notes : taskWorker[w].task = n => note[n].status # "NONE"
           /\ \A j \in Jobs : taskWorker[w].task = j => job[j].status # "NONE"
<1>1. taskWorker[w] # Free
  <2>1. "none" \notin Tasks
    BY TaskAssumption DEF Tasks, Notes
  <2>2. Free.task = "none"
    BY DEF Free
  <2> QED BY <2>1, <2>2
<1>2. task[taskWorker[w].task] = "taken"
  BY <1>1 DEF TasksInv, OneTaker
<1>3. \A v \in TaskWorkers \ {w} : taskWorker[v].task # taskWorker[w].task
  BY DEF TasksInv, OneTaker
<1> QED BY <1>1, <1>2, <1>3 DEF TasksInv, NoRowNoTask

\* A worker gives its task back.
LEMMA WorkerFreed ==
    ASSUME TasksInv, NEW w \in TaskWorkers, taskWorker[w].task \in Tasks, NEW v \in TaskStates,
           taskWorker' = [taskWorker EXCEPT ![w] = Free],
           task' = [task EXCEPT ![taskWorker[w].task] = v]
    PROVE  /\ task' \in [Tasks -> TaskStates]
           /\ taskWorker' \in [TaskWorkers -> [task : Tasks \cup {"none"}, at : Stages]]
           /\ OneTaker'
           /\ \A u \in TaskWorkers : taskWorker'[u].task \in Tasks =>
                 u # w /\ taskWorker'[u] = taskWorker[u] /\ taskWorker[u].task # taskWorker[w].task
<1>1. "none" \notin Tasks
  BY TaskAssumption DEF Tasks, Notes
<1>2. /\ task \in [Tasks -> TaskStates] /\ OneTaker
      /\ taskWorker \in [TaskWorkers -> [task : Tasks \cup {"none"}, at : Stages]]
  BY DEF TasksInv, TaskTypes
<1>3. Free \in [task : Tasks \cup {"none"}, at : Stages] /\ Free.task = "none"
  BY DEF Free, Stages
<1>4. /\ task' \in [Tasks -> TaskStates]
      /\ taskWorker' \in [TaskWorkers -> [task : Tasks \cup {"none"}, at : Stages]]
  BY <1>2, <1>3
<1>5. taskWorker'[w] = Free /\ \A u \in TaskWorkers \ {w} : taskWorker'[u] = taskWorker[u]
  BY <1>2
<1>6. \A u \in TaskWorkers : taskWorker'[u].task \in Tasks =>
         u # w /\ taskWorker'[u] = taskWorker[u] /\ taskWorker[u].task # taskWorker[w].task
  BY <1>1, <1>3, <1>5, InHand
<1>7. \A t \in Tasks : t # taskWorker[w].task => task'[t] = task[t]
  BY <1>2
<1>8. OneTaker'
  <2>1. ASSUME NEW u \in TaskWorkers, taskWorker'[u] # Free
        PROVE  taskWorker'[u].task \in Tasks /\ task'[taskWorker'[u].task] = "taken"
    <3>1. u # w /\ taskWorker'[u] = taskWorker[u]
      BY <1>5, <2>1
    <3>2. taskWorker[u].task \in Tasks /\ task[taskWorker[u].task] = "taken"
      BY <1>2, <2>1, <3>1 DEF OneTaker
    <3> QED BY <1>6, <1>7, <3>1, <3>2
  <2>2. \A x, y \in TaskWorkers :
           taskWorker'[x].task = taskWorker'[y].task /\ taskWorker'[x].task \in Tasks => x = y
    BY <1>2, <1>6 DEF OneTaker
  <2> QED BY <2>1, <2>2 DEF OneTaker
<1> QED BY <1>4, <1>6, <1>8

\* A task that no worker has moves on.
LEMMA TaskMoved ==
    ASSUME TasksInv, NEW t \in Tasks, task[t] # "taken", NEW v \in TaskStates,
           task' = [task EXCEPT ![t] = v], taskWorker' = taskWorker
    PROVE  task' \in [Tasks -> TaskStates] /\ OneTaker'
<1>1. task \in [Tasks -> TaskStates] /\ OneTaker
  BY DEF TasksInv, TaskTypes
<1>2. task' \in [Tasks -> TaskStates] /\ \A u \in Tasks : u # t => task'[u] = task[u]
  BY <1>1
<1>3. OneTaker'
  BY <1>1, <1>2 DEF OneTaker
<1> QED BY <1>2, <1>3

\* What workers have written stays on disk and its number the same.
LEMMA WrittenKept ==
    ASSUME TasksInv, files \subseteq files',
           \A u \in TaskWorkers : At(u, "written")' =>
               /\ taskWorker'[u] = taskWorker[u]
               /\ tried'[taskWorker[u].task] = tried[taskWorker[u].task]
    PROVE  WrittenIsOnDisk'
BY DEF TasksInv, WrittenIsOnDisk, At

LEMMA TasksStart == TasksInit => TasksInv
<1> SUFFICES ASSUME TasksInit PROVE TasksInv
  OBVIOUS
<1>1. Free \in [task : Tasks \cup {"none"}, at : Stages] /\ Free.task = "none" /\ "none" \notin Tasks
  BY TaskAssumption DEF Free, Tasks, Notes, Stages
<1>2. TaskTypes
  BY <1>1 DEF TasksInit, TaskTypes, NoFile, NoteStates, JobStates, TaskStates
<1>3. OneTaker
  BY <1>1 DEF TasksInit, OneTaker
<1>4. NoRowNoTask
  BY DEF TasksInit, NoRowNoTask, Tasks
<1>5. WrittenIsOnDisk
  <2>1. \A w \in TaskWorkers : taskWorker[w].at # "written"
    BY DEF TasksInit, Free
  <2> QED BY <2>1 DEF WrittenIsOnDisk, At
<1>6. PushesCounted
  BY DEF TasksInit, PushesCounted, Tasks
<1>7. OneOutcomePerNotification
  BY DEF TasksInit, OneOutcomePerNotification, Tasks
<1>8. CompletedHasArtifact
  BY DEF TasksInit, CompletedHasArtifact, Reconciled
<1> QED BY <1>2, <1>3, <1>4, <1>5, <1>6, <1>7, <1>8 DEF TasksInv

\* A new row gets the task that its commit starts.
LEMMA RequestsKeep ==
    ASSUME TasksInv,
           \/ \E n \in Notes : create_notification(n)
           \/ \E j \in Jobs, passed \in BOOLEAN : CreateJob(j, passed)
           \/ \E N \in SUBSET Notes : NotificationRead(N)
    PROVE  TasksInv'
<1>1. TaskTypes /\ OneTaker /\ NoRowNoTask /\ Notes \subseteq Tasks /\ Jobs \subseteq Tasks
  BY DEF TasksInv, Tasks
<1>2. UNCHANGED <<published, deadLetter, pushed, files, tried, taskWorker>>
  BY DEF create_notification, CreateJob, NotificationRead, jobVars, noteVars
<1>3. WrittenIsOnDisk'
  BY <1>2, WrittenKept
<1>4. \A n \in Notes : tried'[n] \in Nat /\ tried'[n] >= tried[n]
  BY <1>1, <1>2 DEF TaskTypes
<1>5. ASSUME NEW n \in Notes, create_notification(n)
      PROVE  TasksInv'
  <2>1. /\ note[n].status = "NONE" /\ note' = [note EXCEPT ![n].status = "QUEUED"]
        /\ task' = [task EXCEPT ![n] = "due"] /\ job' = job
    BY <1>5 DEF create_notification, jobVars
  <2>2. task[n] # "taken" /\ n \in Tasks
    BY <1>1, <2>1 DEF NoRowNoTask
  <2>3. task' \in [Tasks -> TaskStates] /\ OneTaker'
    BY <1>2, <2>1, <2>2, TaskMoved DEF TaskStates
  <2>4. /\ note' \in [Notes -> [status : NoteStates, sent : BOOLEAN, read : BOOLEAN]]
        /\ note'[n].status = "QUEUED" /\ \A m \in Notes : m # n => note'[m] = note[m]
        /\ \A m \in Notes : note'[m].sent = note[m].sent
    BY <1>1, <2>1 DEF TaskTypes, NoteStates, JobStates
  <2>5. TaskTypes'
    BY <1>1, <1>2, <2>1, <2>3, <2>4 DEF TaskTypes
  <2>6. NoRowNoTask'
    <3>1. \A t \in Tasks : t # n => task'[t] = task[t]
      BY <1>1, <2>1 DEF TaskTypes
    <3>2. n \notin Jobs
      BY TaskAssumption DEF Notes
    <3> QED BY <1>1, <2>1, <2>4, <3>1, <3>2 DEF NoRowNoTask
  <2>7. PushesCounted' /\ OneOutcomePerNotification'
    BY <1>2, <1>4, <2>4, NotesKept
  <2>8. CompletedHasArtifact'
    BY <1>2, <2>1, JobsKept
  <2> QED BY <1>3, <2>3, <2>5, <2>6, <2>7, <2>8 DEF TasksInv
<1>6. ASSUME NEW j \in Jobs, NEW passed \in BOOLEAN, CreateJob(j, passed)
      PROVE  TasksInv'
  <2>1. /\ job[j].status = "NONE" /\ job' = [job EXCEPT ![j].status = "QUEUED", ![j].passed = passed]
        /\ task' = [task EXCEPT ![j] = "due"] /\ note' = note
    BY <1>6 DEF CreateJob, noteVars
  <2>2. task[j] # "taken" /\ j \in Tasks
    BY <1>1, <2>1 DEF NoRowNoTask
  <2>3. task' \in [Tasks -> TaskStates] /\ OneTaker'
    BY <1>2, <2>1, <2>2, TaskMoved DEF TaskStates
  <2>4. /\ job' \in [Jobs -> [status : JobStates, artifact : Nat, passed : BOOLEAN]]
        /\ job'[j].status = "QUEUED" /\ \A i \in Jobs : i # j => job'[i] = job[i]
    BY <1>1, <2>1 DEF TaskTypes, NoteStates, JobStates
  <2>5. TaskTypes'
    BY <1>1, <1>2, <2>1, <2>3, <2>4 DEF TaskTypes
  <2>6. NoRowNoTask'
    <3>1. \A t \in Tasks : t # j => task'[t] = task[t]
      BY <1>1, <2>1 DEF TaskTypes
    <3>2. j \notin Notes
      BY TaskAssumption DEF Notes
    <3> QED BY <1>1, <2>1, <2>4, <3>1, <3>2 DEF NoRowNoTask
  <2>7. PushesCounted' /\ OneOutcomePerNotification'
    BY <1>2, <1>4, <2>1, NotesKept
  <2>8. CompletedHasArtifact'
    BY <1>2, <2>4, JobsKept
  <2> QED BY <1>3, <2>3, <2>5, <2>6, <2>7, <2>8 DEF TasksInv
<1>7. ASSUME NEW N \in SUBSET Notes, NotificationRead(N)
      PROVE  TasksInv'
  <2>1. /\ \A n \in N : note[n].status # "NONE" /\ job' = job /\ task' = task
        /\ note' = [n \in Notes |-> IF n \in N THEN [note[n] EXCEPT !.status = "READ", !.read = TRUE]
                                               ELSE note[n]]
        /\ job' = job /\ task' = task
    BY <1>7 DEF NotificationRead, jobVars
  <2>2. \A n \in Notes : note[n] \in [status : NoteStates, sent : BOOLEAN, read : BOOLEAN]
    BY <1>1 DEF TaskTypes
  <2>3. \A n \in Notes :
           /\ note'[n] \in [status : NoteStates, sent : BOOLEAN, read : BOOLEAN]
           /\ note'[n].sent = note[n].sent
           /\ note'[n].status = "NONE" => note[n].status = "NONE"
    BY <2>1, <2>2 DEF NoteStates
  <2>4. note' \in [Notes -> [status : NoteStates, sent : BOOLEAN, read : BOOLEAN]]
    BY <2>1, <2>3
  <2>5. TaskTypes'
    BY <1>1, <1>2, <2>1, <2>4 DEF TaskTypes
  <2>6. NoRowNoTask' /\ OneTaker'
    BY <1>1, <1>2, <2>1, <2>3 DEF NoRowNoTask, OneTaker
  <2>7. PushesCounted' /\ OneOutcomePerNotification'
    BY <1>2, <1>4, <2>3, NotesKept
  <2>8. CompletedHasArtifact'
    BY <1>2, <2>1, JobsKept
  <2> QED BY <1>3, <2>5, <2>6, <2>7, <2>8 DEF TasksInv
<1> QED BY <1>5, <1>6, <1>7

\* Tasks are queued, lost, taken and delivered again.
LEMMA QueueKeeps ==
    ASSUME TasksInv, NEW t \in Tasks,
           \/ OnCommit(t) \/ RequestDies(t) \/ Redelivered(t)
           \/ \E w \in TaskWorkers : Take(w, t)
    PROVE  TasksInv'
<1>1. TaskTypes /\ OneTaker /\ NoRowNoTask /\ Notes \subseteq Tasks /\ Jobs \subseteq Tasks
  BY DEF TasksInv, Tasks
<1>2. /\ UNCHANGED <<note, published, deadLetter, pushed, job, files, tried>>
      /\ task[t] \in {"due", "done", "gave_up", "queued"}
      /\ \E v \in TaskStates : task' = [task EXCEPT ![t] = v]
  BY DEF OnCommit, RequestDies, Redelivered, Take, jobVars, noteVars, TaskStates
<1>3. PICK v \in TaskStates : task' = [task EXCEPT ![t] = v]
  BY <1>2
<1>4. PushesCounted' /\ OneOutcomePerNotification'
  <2>1. \A n \in Notes : tried'[n] \in Nat /\ tried'[n] >= tried[n]
    BY <1>1, <1>2 DEF TaskTypes
  <2> QED BY <1>2, <2>1, NotesKept
<1>5. CompletedHasArtifact'
  BY <1>2, JobsKept
<1>6. NoRowNoTask' /\ task' \in [Tasks -> TaskStates] /\ \A u \in Tasks : u # t => task'[u] = task[u]
  <2>1. task' \in [Tasks -> TaskStates] /\ \A u \in Tasks : u # t => task'[u] = task[u]
    BY <1>1, <1>3 DEF TaskTypes
  <2> QED BY <1>1, <1>2, <2>1 DEF NoRowNoTask
<1>7. CASE taskWorker' = taskWorker
  <2>1. OneTaker'
    BY <1>2, <1>3, <1>7, TaskMoved
  <2>2. WrittenIsOnDisk'
    BY <1>2, <1>7, WrittenKept
  <2>3. TaskTypes'
    BY <1>1, <1>2, <1>6, <1>7 DEF TaskTypes
  <2> QED BY <1>4, <1>5, <1>6, <2>1, <2>2, <2>3 DEF TasksInv
<1>8. ASSUME NEW w \in TaskWorkers, Take(w, t)
      PROVE  TasksInv'
  <2> DEFINE hand == [task |-> t, at |-> "start"]
  <2>1. /\ taskWorker[w] = Free /\ task[t] = "queued" /\ task' = [task EXCEPT ![t] = "taken"]
        /\ taskWorker' = [taskWorker EXCEPT ![w] = hand]
    BY <1>8 DEF Take
  <2>2. hand \in [task : Tasks \cup {"none"}, at : Stages] /\ hand.task = t /\ hand.at = "start"
    BY DEF Stages
  <2> HIDE DEF hand
  <2>3. /\ taskWorker' \in [TaskWorkers -> [task : Tasks \cup {"none"}, at : Stages]]
        /\ taskWorker'[w] = hand /\ \A u \in TaskWorkers \ {w} : taskWorker'[u] = taskWorker[u]
        /\ task'[t] = "taken"
    BY <1>1, <2>1, <2>2 DEF TaskTypes
  <2>4. TaskTypes'
    BY <1>1, <1>2, <1>6, <2>3 DEF TaskTypes
  <2>5. \A u \in TaskWorkers : taskWorker[u].task # t
    <3>1. ASSUME NEW u \in TaskWorkers, taskWorker[u].task = t PROVE FALSE
      BY <2>1, <3>1, InHand
    <3> QED BY <3>1
  <2>6. OneTaker'
    <3>1. ASSUME NEW u \in TaskWorkers, taskWorker'[u] # Free
          PROVE  taskWorker'[u].task \in Tasks /\ task'[taskWorker'[u].task] = "taken"
      <4>1. CASE u = w
        BY <2>2, <2>3, <4>1
      <4>2. CASE u # w
        BY <1>1, <1>6, <2>3, <2>5, <3>1, <4>2 DEF OneTaker
      <4> QED BY <4>1, <4>2
    <3>2. \A x, y \in TaskWorkers :
             taskWorker'[x].task = taskWorker'[y].task /\ taskWorker'[x].task \in Tasks => x = y
      BY <1>1, <2>2, <2>3, <2>5 DEF OneTaker
    <3> QED BY <3>1, <3>2 DEF OneTaker
  <2>7. WrittenIsOnDisk'
    <3>1. \A u \in TaskWorkers : At(u, "written")' => taskWorker'[u] = taskWorker[u]
      BY <2>2, <2>3 DEF At
    <3> QED BY <1>2, <3>1, WrittenKept
  <2> QED BY <1>4, <1>5, <1>6, <2>4, <2>6, <2>7 DEF TasksInv
<1> QED BY <1>7, <1>8 DEF OnCommit, RequestDies, Redelivered

\* What every end of a task has in common, by return, retry or the worker's death.
LEMMA EndOfTask ==
    ASSUME TasksInv, NEW w \in TaskWorkers, taskWorker[w].task \in Tasks, NEW v \in TaskStates,
           taskWorker' = [taskWorker EXCEPT ![w] = Free],
           task' = [task EXCEPT ![taskWorker[w].task] = v],
           \A u \in Tasks : u # taskWorker[w].task => tried'[u] = tried[u],
           files' = files,
           \A n \in Notes : note'[n].status = "NONE" => note[n].status = "NONE",
           \A j \in Jobs : job'[j].status = "NONE" => job[j].status = "NONE"
    PROVE  /\ task' \in [Tasks -> TaskStates]
           /\ taskWorker' \in [TaskWorkers -> [task : Tasks \cup {"none"}, at : Stages]]
           /\ OneTaker' /\ NoRowNoTask' /\ WrittenIsOnDisk'
<1> DEFINE t == taskWorker[w].task
<1>1. /\ task' \in [Tasks -> TaskStates] /\ OneTaker'
      /\ taskWorker' \in [TaskWorkers -> [task : Tasks \cup {"none"}, at : Stages]]
      /\ \A u \in TaskWorkers : taskWorker'[u].task \in Tasks =>
            taskWorker'[u] = taskWorker[u] /\ taskWorker[u].task # t
  BY WorkerFreed
<1>2. NoRowNoTask'
  <2>1. \A u \in Tasks : u # t => task'[u] = task[u]
    BY DEF TasksInv, TaskTypes
  <2>2. Notes \subseteq Tasks /\ Jobs \subseteq Tasks
    BY DEF Tasks
  <2>3. ASSUME NEW n \in Notes, note'[n].status = "NONE" PROVE task'[n] = "none"
    <3>1. note[n].status = "NONE" /\ n # t
      BY <2>3, InHand
    <3> QED BY <2>1, <2>2, <3>1 DEF TasksInv, NoRowNoTask
  <2>4. ASSUME NEW j \in Jobs, job'[j].status = "NONE" PROVE task'[j] = "none"
    <3>1. job[j].status = "NONE" /\ j # t
      BY <2>4, InHand
    <3> QED BY <2>1, <2>2, <3>1 DEF TasksInv, NoRowNoTask
  <2> QED BY <2>3, <2>4 DEF NoRowNoTask
<1>3. WrittenIsOnDisk'
  <2>1. ASSUME NEW u \in TaskWorkers, At(u, "written")'
        PROVE  /\ taskWorker'[u] = taskWorker[u]
               /\ tried'[taskWorker[u].task] = tried[taskWorker[u].task]
    <3>1. taskWorker'[u].task \in Tasks
      BY <2>1 DEF At, Tasks
    <3> QED BY <1>1, <3>1
  <2> QED BY <2>1, WrittenKept
<1> QED BY <1>1, <1>2, <1>3

\* The effect of a delivery on its own notification.
LEMMA EffectOnNote ==
    ASSUME TaskTypes, NEW n \in Notes, Effect(n)
    PROVE  /\ \A m \in Notes : m # n =>
                 note'[m] = note[m] /\ pushed'[m] = pushed[m] /\ deadLetter'[m] = deadLetter[m]
           /\ note' \in [Notes -> [status : NoteStates, sent : BOOLEAN, read : BOOLEAN]]
           /\ deadLetter' \in [Notes -> Nat] /\ pushed' \in [Notes -> Nat]
           /\ note'[n].status # "NONE"
           /\ n \in InApp => /\ note'[n].sent = TRUE /\ pushed'[n] = pushed[n] + 1
                             /\ deadLetter'[n] = deadLetter[n]
           /\ n \notin InApp => /\ note'[n].sent = note[n].sent /\ pushed'[n] = pushed[n]
                                /\ deadLetter'[n] = deadLetter[n] + 1
<1>1. /\ note \in [Notes -> [status : NoteStates, sent : BOOLEAN, read : BOOLEAN]]
      /\ deadLetter \in [Notes -> Nat] /\ pushed \in [Notes -> Nat]
  BY DEF TaskTypes
<1>2. note[n] \in [status : NoteStates, sent : BOOLEAN, read : BOOLEAN]
  BY <1>1
<1>3. CASE n \in InApp
  <2> DEFINE row == [note[n] EXCEPT !.status = "SENT", !.sent = TRUE]
  <2>1. /\ row \in [status : NoteStates, sent : BOOLEAN, read : BOOLEAN]
        /\ row.status = "SENT" /\ row.sent = TRUE
    BY <1>2 DEF NoteStates
  <2>2. /\ note' = [note EXCEPT ![n] = row] /\ pushed' = [pushed EXCEPT ![n] = @ + 1]
        /\ deadLetter' = deadLetter
    BY <1>3 DEF Effect
  <2> HIDE DEF row
  <2> QED BY <1>1, <1>3, <2>1, <2>2
<1>4. CASE n \notin InApp
  <2> DEFINE row == [note[n] EXCEPT !.status = "FAILED"]
  <2>1. /\ row \in [status : NoteStates, sent : BOOLEAN, read : BOOLEAN]
        /\ row.status = "FAILED" /\ row.sent = note[n].sent
    BY <1>2 DEF NoteStates
  <2>2. /\ note' = [note EXCEPT ![n] = row] /\ deadLetter' = [deadLetter EXCEPT ![n] = @ + 1]
        /\ pushed' = pushed
    BY <1>4 DEF Effect
  <2> HIDE DEF row
  <2> QED BY <1>1, <1>4, <2>1, <2>2
<1> QED BY <1>3, <1>4

\* The deliveries and the deaths of workers keep the invariant.
LEMMA DeliveryKeeps ==
    ASSUME TasksInv, NEW w \in TaskWorkers, Deliver(w) \/ DeliveryFails(w) \/ WorkerDies(w)
    PROVE  TasksInv'
<1> DEFINE t == taskWorker[w].task
<1>1. TaskTypes /\ Notes \subseteq Tasks /\ Jobs \subseteq Tasks
  BY DEF TasksInv, Tasks
<1>2. t \in Tasks
  BY <1>1 DEF Deliver, DeliveryFails, WorkerDies, TasksInv, OneTaker
<1>3. /\ taskWorker' = [taskWorker EXCEPT ![w] = Free]
      /\ \E v \in TaskStates : task' = [task EXCEPT ![t] = v]
      /\ job' = job /\ files' = files
  BY DEF Deliver, DeliveryFails, WorkerDies, Finish, RetryOrRaise, TaskStates, jobVars
<1>4. CompletedHasArtifact'
  BY <1>3, JobsKept
<1>5. ASSUME \A n \in Notes : note'[n].status = "NONE" => note[n].status = "NONE",
             \A u \in Tasks : u # t => tried'[u] = tried[u]
      PROVE  /\ task' \in [Tasks -> TaskStates]
             /\ taskWorker' \in [TaskWorkers -> [task : Tasks \cup {"none"}, at : Stages]]
             /\ OneTaker' /\ NoRowNoTask' /\ WrittenIsOnDisk'
  BY <1>2, <1>3, <1>5, EndOfTask
<1> HIDE DEF t
<1>6. CASE UNCHANGED <<note, published, deadLetter, pushed, tried>>
  <2>1. \A n \in Notes : tried'[n] \in Nat /\ tried'[n] >= tried[n]
    BY <1>1, <1>6 DEF TaskTypes
  <2>2. PushesCounted' /\ OneOutcomePerNotification'
    BY <1>6, <2>1, NotesKept
  <2>3. /\ task' \in [Tasks -> TaskStates]
        /\ taskWorker' \in [TaskWorkers -> [task : Tasks \cup {"none"}, at : Stages]]
        /\ OneTaker' /\ NoRowNoTask' /\ WrittenIsOnDisk'
    BY <1>5, <1>6
  <2>4. TaskTypes'
    BY <1>1, <1>3, <1>6, <2>3 DEF TaskTypes
  <2> QED BY <1>4, <2>2, <2>3, <2>4 DEF TasksInv
<1>7. CASE t \in Notes /\ t \notin published /\ Publish(t) /\ tried' = tried
  <2>1. /\ t \in Notes /\ t \notin published /\ published' = published \cup {t} /\ tried' = tried
        /\ PushesCounted /\ OneOutcomePerNotification
    BY <1>7 DEF Publish, TasksInv
  <2>2. /\ \A n \in Notes : n # t =>
              note'[n] = note[n] /\ pushed'[n] = pushed[n] /\ deadLetter'[n] = deadLetter[n]
        /\ note' \in [Notes -> [status : NoteStates, sent : BOOLEAN, read : BOOLEAN]]
        /\ deadLetter' \in [Notes -> Nat] /\ pushed' \in [Notes -> Nat]
        /\ note'[t].status # "NONE"
        /\ t \in InApp => /\ note'[t].sent = TRUE /\ pushed'[t] = pushed[t] + 1
                          /\ deadLetter'[t] = deadLetter[t]
        /\ t \notin InApp => /\ note'[t].sent = note[t].sent /\ pushed'[t] = pushed[t]
                             /\ deadLetter'[t] = deadLetter[t] + 1
    BY <1>1, <1>7, EffectOnNote DEF Publish
  <2>3. /\ pushed[t] \in Nat /\ tried[t] \in Nat /\ pushed[t] <= tried[t] /\ deadLetter[t] = 0
    BY <1>1, <2>1 DEF TaskTypes, PushesCounted, OneOutcomePerNotification
  <2>4. PushesCounted'
    BY <2>1, <2>2, <2>3 DEF PushesCounted
  <2>5. OneOutcomePerNotification'
    BY <2>1, <2>2, <2>3 DEF OneOutcomePerNotification
  <2>6. \A n \in Notes : note'[n].status = "NONE" => note[n].status = "NONE"
    BY <2>2
  <2>7. TaskTypes'
    BY <1>1, <1>3, <1>5, <2>1, <2>2, <2>6 DEF TaskTypes
  <2> QED BY <1>4, <1>5, <2>1, <2>4, <2>5, <2>6, <2>7 DEF TasksInv
<1>8. CASE DeliveryFails(w)
  <2>1. /\ t \in Notes /\ UNCHANGED <<note, published, deadLetter>>
        /\ tried' = [tried EXCEPT ![t] = @ + 1]
        /\ pushed' = pushed \/ (t \notin published /\ pushed' = [pushed EXCEPT ![t] = @ + 1])
    BY <1>8 DEF DeliveryFails, RetryOrRaise, t
  <2>2. /\ tried' \in [Tasks -> Nat] /\ pushed' \in [Notes -> Nat]
        /\ tried'[t] = tried[t] + 1 /\ \A u \in Tasks : u # t => tried'[u] = tried[u]
        /\ \A n \in Notes : n # t => pushed'[n] = pushed[n]
        /\ pushed'[t] = pushed[t] \/ (t \notin published /\ pushed'[t] = pushed[t] + 1)
    <3>1. tried \in [Tasks -> Nat] /\ pushed \in [Notes -> Nat]
      BY <1>1 DEF TaskTypes
    <3> QED BY <1>1, <2>1, <3>1
  <2>3. \A n \in Notes : pushed[n] \in Nat /\ tried[n] \in Nat
    BY <1>1 DEF TaskTypes
  <2>4. PushesCounted /\ OneOutcomePerNotification
    BY DEF TasksInv
  <2>5. PushesCounted'
    BY <1>1, <2>1, <2>2, <2>3, <2>4 DEF PushesCounted
  <2>6. OneOutcomePerNotification'
    <3> SUFFICES ASSUME NEW n \in Notes
                 PROVE  /\ n \notin published' => ~note'[n].sent /\ deadLetter'[n] = 0
                        /\ n \in published' => IF n \in InApp THEN note'[n].sent /\ pushed'[n] > 0
                                                              ELSE deadLetter'[n] = 1
                        /\ pushed'[n] <= tried'[n] + 1
      BY DEF OneOutcomePerNotification
    <3>1. pushed'[n] <= tried'[n] + 1
      BY <1>1, <2>1, <2>2, <2>3, <2>4 DEF OneOutcomePerNotification
    <3>2. pushed[n] > 0 => pushed'[n] > 0
      BY <2>2, <2>3
    <3> QED BY <2>1, <2>4, <3>1, <3>2 DEF OneOutcomePerNotification
  <2>7. TaskTypes'
    BY <1>1, <1>3, <1>5, <2>1, <2>2 DEF TaskTypes
  <2> QED BY <1>4, <1>5, <2>1, <2>2, <2>5, <2>6, <2>7 DEF TasksInv
<1>9. CASE Deliver(w)
  <2>1. t \in Notes /\ tried' = tried
        /\ ((t \in published /\ UNCHANGED <<note, published, deadLetter, pushed>>)
            \/ (t \notin published /\ Publish(t)))
    BY <1>9 DEF Deliver, AlreadyDelivered, Finish, noteVars, t
  <2> QED BY <1>6, <1>7, <2>1
<1>10. CASE WorkerDies(w)
  BY <1>6, <1>10 DEF WorkerDies, noteVars
<1> QED BY <1>8, <1>9, <1>10

\* The steps of a job that go on to the next stage.
LEMMA StagesKeep ==
    ASSUME TasksInv, NEW w \in TaskWorkers, Claim(w) \/ WriteArtifact(w) \/ CompleteJob(w)
    PROVE  TasksInv'
<1> DEFINE j == taskWorker[w].task
<1>1. /\ TaskTypes /\ OneTaker /\ NoRowNoTask /\ WrittenIsOnDisk
      /\ Notes \subseteq Tasks /\ Jobs \subseteq Tasks
  BY DEF TasksInv, Tasks
<1>2. PICK stage \in {"claimed", "written", "completed"} :
         /\ taskWorker' = [taskWorker EXCEPT ![w].at = stage]
         /\ stage = "written" => files' = files \cup {[job |-> j, no |-> tried[j] + 1]}
  BY DEF Claim, WriteArtifact, CompleteJob, Advance
<1>3. /\ j \in Jobs /\ UNCHANGED <<note, published, deadLetter, pushed, task, tried>>
      /\ files \subseteq files'
      /\ \/ job' = job \/ job' = [job EXCEPT ![j].status = "RUNNING"]
         \/ /\ At(w, "written")
            /\ job' = [job EXCEPT ![j].status = "COMPLETED", ![j].artifact = tried[j] + 1]
  BY DEF Claim, WriteArtifact, CompleteJob, Completes, Advance, At, noteVars
<1>4. taskWorker[w] # Free /\ job[j].status # "NONE"
  BY <1>1, <1>3, InHand
<1> HIDE DEF j
<1>5. /\ taskWorker' \in [TaskWorkers -> [task : Tasks \cup {"none"}, at : Stages]]
      /\ taskWorker'[w].at = stage
      /\ \A u \in TaskWorkers : taskWorker'[u].task = taskWorker[u].task
      /\ \A u \in TaskWorkers \ {w} : taskWorker'[u] = taskWorker[u]
  BY <1>1, <1>2 DEF TaskTypes, Stages
<1>6. /\ job' \in [Jobs -> [status : JobStates, artifact : Nat, passed : BOOLEAN]]
      /\ \A i \in Jobs \ {j} : job'[i] = job[i]
      /\ \/ job'[j] = job[j]
         \/ job'[j].status = "RUNNING"
         \/ /\ job'[j].status = "COMPLETED" /\ job'[j].artifact = tried[j] + 1
            /\ At(w, "written")
  <2>1. /\ job \in [Jobs -> [status : JobStates, artifact : Nat, passed : BOOLEAN]]
        /\ tried[j] + 1 \in Nat
    BY <1>1, <1>3 DEF TaskTypes
  <2> DEFINE run == [job[j] EXCEPT !.status = "RUNNING"]
             made == [job[j] EXCEPT !.status = "COMPLETED", !.artifact = tried[j] + 1]
  <2>2. /\ run \in [status : JobStates, artifact : Nat, passed : BOOLEAN] /\ run.status = "RUNNING"
        /\ made \in [status : JobStates, artifact : Nat, passed : BOOLEAN]
        /\ made.status = "COMPLETED" /\ made.artifact = tried[j] + 1
    BY <1>3, <2>1 DEF JobStates
  <2>3. \/ job' = job \/ job' = [job EXCEPT ![j] = run]
        \/ At(w, "written") /\ job' = [job EXCEPT ![j] = made]
    BY <1>3, <2>1
  <2> HIDE DEF run, made
  <2> QED BY <1>3, <2>1, <2>2, <2>3
<1>7. TaskTypes'
  BY <1>1, <1>3, <1>5, <1>6 DEF TaskTypes
<1>8. OneTaker'
  <2>1. \A u \in TaskWorkers : taskWorker'[u] # Free => taskWorker[u] # Free
    BY <1>4, <1>5
  <2> QED BY <1>1, <1>3, <1>5, <2>1 DEF OneTaker
<1>9. NoRowNoTask'
  <2>1. \A i \in Jobs : job'[i].status = "NONE" => job[i].status = "NONE"
    BY <1>6
  <2> QED BY <1>1, <1>3, <2>1 DEF NoRowNoTask
<1>10. WrittenIsOnDisk'
  <2> SUFFICES ASSUME NEW u \in TaskWorkers, At(u, "written")'
               PROVE  [job |-> taskWorker'[u].task, no |-> tried'[taskWorker'[u].task] + 1] \in files'
    BY DEF WrittenIsOnDisk
  <2>1. CASE u = w
    BY <1>2, <1>3, <1>5, <2>1 DEF At, j
  <2>2. CASE u # w
    <3>1. At(u, "written")
      BY <1>5, <2>2 DEF At
    <3>2. [job |-> taskWorker[u].task, no |-> tried[taskWorker[u].task] + 1] \in files
      BY <1>1, <3>1 DEF WrittenIsOnDisk
    <3>3. taskWorker'[u] = taskWorker[u] /\ tried' = tried
      BY <1>3, <1>5, <2>2
    <3> QED BY <1>3, <3>2, <3>3
  <2> QED BY <2>1, <2>2
<1>11. PushesCounted' /\ OneOutcomePerNotification'
  <2>1. \A n \in Notes : tried'[n] \in Nat /\ tried'[n] >= tried[n]
    BY <1>1, <1>3 DEF TaskTypes
  <2> QED BY <1>3, <2>1, NotesKept
<1>12. CompletedHasArtifact'
  <2> SUFFICES ASSUME NEW i \in Jobs, job'[i].status = "COMPLETED"
               PROVE  job'[i].artifact # NoFile /\ [job |-> i, no |-> job'[i].artifact] \in files'
    BY DEF CompletedHasArtifact, Reconciled
  <2>1. CASE job'[i] = job[i]
    BY <1>3, <2>1 DEF TasksInv, CompletedHasArtifact, Reconciled
  <2>2. CASE i = j /\ job'[j].artifact = tried[j] + 1 /\ At(w, "written")
    <3>1. [job |-> j, no |-> tried[j] + 1] \in files /\ tried[j] \in Nat
      BY <1>1, <1>3, <2>2 DEF WrittenIsOnDisk, TaskTypes, j
    <3> QED BY <1>3, <2>2, <3>1 DEF NoFile
  <2> QED BY <1>6, <2>1, <2>2
<1> QED BY <1>7, <1>8, <1>9, <1>10, <1>11, <1>12 DEF TasksInv

\* The steps that end a job, well or badly.
LEMMA JobEndsKeep ==
    ASSUME TasksInv, NEW w \in TaskWorkers,
           SkipJob(w) \/ RefuseJob(w) \/ ReturnJob(w) \/ JobFails(w)
    PROVE  TasksInv'
<1> DEFINE j == taskWorker[w].task
<1>1. TaskTypes /\ Notes \subseteq Tasks /\ Jobs \subseteq Tasks
  BY DEF TasksInv, Tasks
<1>2. /\ j \in Jobs /\ UNCHANGED <<note, published, deadLetter, pushed, files>>
      /\ taskWorker' = [taskWorker EXCEPT ![w] = Free]
      /\ \E v \in TaskStates : task' = [task EXCEPT ![j] = v]
      /\ tried' = tried \/ tried' = [tried EXCEPT ![j] = @ + 1]
  BY DEF SkipJob, RefuseJob, ReturnJob, JobFails, At, Finish, RetryOrRaise, TaskStates,
         noteVars, jobVars
<1>3. \/ job' = job
      \/ job' = [job EXCEPT ![j].status = "FAILED"]
  BY DEF SkipJob, RefuseJob, ReturnJob, JobFails, MarkFailed, jobVars
<1>4. ASSUME \A u \in Tasks : u # j => tried'[u] = tried[u],
             \A i \in Jobs : job'[i].status = "NONE" => job[i].status = "NONE"
      PROVE  /\ task' \in [Tasks -> TaskStates]
             /\ taskWorker' \in [TaskWorkers -> [task : Tasks \cup {"none"}, at : Stages]]
             /\ OneTaker' /\ NoRowNoTask' /\ WrittenIsOnDisk'
  BY <1>1, <1>2, <1>4, EndOfTask
<1> HIDE DEF j
<1>5. /\ tried' \in [Tasks -> Nat] /\ tried[j] \in Nat
      /\ \A u \in Tasks : u # j => tried'[u] = tried[u]
      /\ \A u \in Tasks : tried'[u] >= tried[u]
  <2>1. tried \in [Tasks -> Nat]
    BY <1>1 DEF TaskTypes
  <2> QED BY <1>1, <1>2, <2>1
<1>6. /\ job' \in [Jobs -> [status : JobStates, artifact : Nat, passed : BOOLEAN]]
      /\ \A i \in Jobs : job'[i] = job[i] \/ job'[i].status = "FAILED"
  <2>1. job \in [Jobs -> [status : JobStates, artifact : Nat, passed : BOOLEAN]]
    BY <1>1 DEF TaskTypes
  <2> DEFINE failed == [job[j] EXCEPT !.status = "FAILED"]
  <2>2. failed \in [status : JobStates, artifact : Nat, passed : BOOLEAN] /\ failed.status = "FAILED"
    BY <1>2, <2>1 DEF JobStates
  <2>3. job' = job \/ job' = [job EXCEPT ![j] = failed]
    BY <1>3, <2>1
  <2> HIDE DEF failed
  <2> QED BY <1>2, <2>1, <2>2, <2>3
<1>7. /\ task' \in [Tasks -> TaskStates]
      /\ taskWorker' \in [TaskWorkers -> [task : Tasks \cup {"none"}, at : Stages]]
      /\ OneTaker' /\ NoRowNoTask' /\ WrittenIsOnDisk'
  <2>1. \A i \in Jobs : job'[i].status = "NONE" => job[i].status = "NONE"
    BY <1>6
  <2> QED BY <1>4, <1>5, <2>1
<1>8. TaskTypes'
  BY <1>1, <1>2, <1>5, <1>6, <1>7 DEF TaskTypes
<1>9. PushesCounted' /\ OneOutcomePerNotification'
  BY <1>1, <1>2, <1>5, NotesKept
<1>10. CompletedHasArtifact'
  <2>1. \A i \in Jobs : job'[i].status = "COMPLETED" => job'[i] = job[i]
    BY <1>6
  <2> QED BY <1>2, <2>1, JobsKept
<1> QED BY <1>7, <1>8, <1>9, <1>10 DEF TasksInv

LEMMA TasksKeep == TasksInv /\ [TasksNext]_taskVars => TasksInv'
<1> SUFFICES ASSUME TasksInv, [TasksNext]_taskVars PROVE TasksInv'
  OBVIOUS
<1>1. ASSUME NEW w \in TaskWorkers, Work(w) \/ Fail(w) \/ WorkerDies(w)
      PROVE  TasksInv'
  BY <1>1, DeliveryKeeps, StagesKeep, JobEndsKeep DEF Work, Fail
<1>2. CASE UNCHANGED taskVars
  BY <1>2 DEF taskVars, TasksInv, TaskTypes, OneTaker, NoRowNoTask, WrittenIsOnDisk, At, PushesCounted,
              OneOutcomePerNotification, CompletedHasArtifact, Reconciled
<1> QED BY <1>1, <1>2, RequestsKeep, QueueKeeps DEF TasksNext

LEMMA TasksInvariant == TasksSpec => []TasksInv
BY TasksStart, TasksKeep, PTL DEF TasksSpec

\* However many workers deliver, fail, die or are given a task again, and
\* whenever the customer reads it, a notification has one committed outcome
\* (consume_once in _deliver_notification_outbox_event).
THEOREM DeliveredOnce == TasksSpec => []OneOutcomePerNotification
<1>1. TasksInv => OneOutcomePerNotification
  BY DEF TasksInv
<1> QED BY <1>1, TasksInvariant, PTL

\* A completed report or privacy export names a file that exists, through any
\* failures and retries of generate_report_job and generate_privacy_export.
THEOREM CompletedJobsHaveFiles == TasksSpec => []CompletedHasArtifact
<1>1. TasksInv => CompletedHasArtifact
  BY DEF TasksInv
<1> QED BY <1>1, TasksInvariant, PTL

-----------------------------------------------------------------------------
(* Registration.                                                           *)

RegStates       == {"pending", "expired", "completed"}
ChallengeStates == {"active", "locked", "invalidated", "consumed"}
MailStates      == {"pending", "processing", "sent", "dead_letter"}

RegRow       == [status : RegStates, address : Addresses, lapsed : BOOLEAN, decoy : BOOLEAN]
ChallengeRow == [reg : RegIds, address : Addresses, ordinal : 1 .. MaxSends, status : ChallengeStates,
                 age : Fresh .. HourOld, guesses : 0 .. MaxGuesses]
MailRow      == [status : MailStates, due : BOOLEAN, tries : Nat, otp : Nat]

RegistrationTypes ==
    /\ madeBy \in [Addresses -> SUBSET RegIds] /\ existing \in SUBSET Addresses
    /\ pending \in [RegIds -> RegRow \cup {NoReg}] /\ challenge \in Seq(ChallengeRow)
    /\ mail \in [MailKeys -> MailRow \cup {NoMail}] /\ mailFaults \in Nat
    /\ registering \in [Clients -> [at : {"read"}, address : Addresses, decoy : BOOLEAN] \cup {AtRest}]
    /\ mailer \in [Mailers -> [at : {"claimed"}, key : MailKeys]
                              \cup [at : {"failed"}, key : MailKeys, tries : Nat] \cup {AtRest}]

\* A worker has a mail in hand that is there.
MailInHand == \A w \in Mailers : mailer[w] # AtRest => mail[mailer[w].key] \in MailRow

\* A challenge belongs to a registration of its address.
ChallengesOwned ==
    \A i \in DOMAIN challenge : /\ pending[challenge[i].reg] \in RegRow
                                /\ pending[challenge[i].reg].address = challenge[i].address

\* The code of a challenge is in one mail, under the challenge's ordinal, and
\* only registrations that are no decoys have such mails.
CodesMailed ==
    /\ \A i \in DOMAIN challenge : ~pending[challenge[i].reg].decoy =>
          LET m == mail[<<challenge[i].reg, challenge[i].ordinal>>] IN m \in MailRow /\ m.otp = i
    /\ \A p \in RegIds, n \in 1 .. LastOrdinal : mail[<<p, n>>] # NoMail =>
          pending[p] \in RegRow /\ ~pending[p].decoy

Consumed(p) == {i \in DOMAIN challenge : challenge[i].reg = p /\ challenge[i].status = "consumed"}

\* An address has one account, and a completed registration one consumed code.
OneOwner ==
    \A a \in Addresses : madeBy[a] = {} \/ (a \notin existing /\ \E p \in RegIds : madeBy[a] = {p})

CompletedByOneCode ==
    \A p \in RegIds :
        IF pending[p].status = "completed"
        THEN /\ ~pending[p].decoy /\ p \in madeBy[pending[p].address]
             /\ \E i \in DOMAIN challenge : Consumed(p) = {i}
        ELSE Consumed(p) = {}

\* Challenges grow old in the order they were made.
OldestFirst == \A i, j \in DOMAIN challenge : i < j => challenge[i].age >= challenge[j].age

\* A decoy was made because the address had an account.
DecoysHaveAccounts ==
    /\ \A p \in RegIds : pending[p] # NoReg /\ pending[p].decoy => HasAccount(pending[p].address)
    /\ \A c \in Clients : registering[c].at = "read" /\ registering[c].decoy => HasAccount(registering[c].address)

\* An address has one open registration, and while it is open no other
\* registration of the address gets a challenge.
OneOpen ==
    /\ \A p, q \in RegIds : Open(p) /\ Open(q) /\ pending[p].address = pending[q].address => p = q
    /\ \A i, j \in DOMAIN challenge :
          i < j /\ Open(challenge[i].reg) /\ challenge[j].address = challenge[i].address
              => challenge[j].reg = challenge[i].reg

Recent(a)   == {i \in DOMAIN challenge : challenge[i].address = a /\ challenge[i].age < HourOld}
RecentOf(p) == {i \in DOMAIN challenge : challenge[i].reg = p /\ challenge[i].age < HourOld}

OpenFor(a) == \E p \in RegIds : Open(p) /\ pending[p].address = a
Room(a)    == (IF HasAccount(a) THEN 1 ELSE 0) + (IF OpenFor(a) THEN 1 ELSE 0)

\* How many codes of an address are less than an hour old: a registration that
\* is not open leaves room for the next, and an account adds one code.
SendsBounded ==
    /\ \A p \in RegIds : Cardinality(RecentOf(p)) <= MaxSends
    /\ \A a \in Addresses : Sends(a) + 1 <= MaxSends + Room(a)

RegistrationInv ==
    /\ RegistrationTypes /\ MailInHand /\ ChallengesOwned /\ CodesMailed /\ OneOwner /\ CompletedByOneCode
    /\ OldestFirst /\ DecoysHaveAccounts /\ OneOpen /\ SendsBounded

\* How the rows of a step relate to those before it: they keep what identifies
\* them, codes only grow older, and a mail keeps its code.
RegsFollow(r, s) ==
    \A p \in RegIds : r[p] \in RegRow =>
        s[p] \in RegRow /\ s[p].address = r[p].address /\ s[p].decoy = r[p].decoy

CodesFollow(c, d) ==
    \A i \in DOMAIN c : /\ i \in DOMAIN d
                        /\ d[i].reg = c[i].reg /\ d[i].address = c[i].address
                        /\ d[i].ordinal = c[i].ordinal /\ d[i].age >= c[i].age

MailsFollow(m, n) ==
    \A k \in MailKeys : m[k] \in MailRow => n[k] \in MailRow /\ (k[2] # 0 => n[k].otp = m[k].otp)

LEMMA NoRows ==
    /\ NoReg \notin RegRow /\ NoReg.status = "NONE"
    /\ NoMail \notin MailRow /\ NoMail.status = "NONE"
    /\ AtRest.at = "rest"
BY DEF NoReg, NoMail, AtRest, RegRow, MailRow, RegStates, MailStates

LEMMA RegistrationStarts == RegistrationInit => RegistrationInv
<1> SUFFICES ASSUME RegistrationInit PROVE RegistrationInv
  OBVIOUS
<1>1. challenge = <<>> /\ DOMAIN challenge = {}
  BY DEF RegistrationInit
<1>2. RegistrationTypes
  BY <1>1 DEF RegistrationInit, RegistrationTypes
<1>3. MailInHand /\ DecoysHaveAccounts
  BY NoRows DEF RegistrationInit, MailInHand, DecoysHaveAccounts
<1>4. ChallengesOwned /\ OldestFirst
  BY <1>1 DEF ChallengesOwned, OldestFirst
<1>5. CodesMailed
  <2>1. \A p \in RegIds, n \in 1 .. LastOrdinal : <<p, n>> \in MailKeys
    BY DEF MailKeys
  <2> QED BY <1>1, <2>1 DEF RegistrationInit, CodesMailed
<1>6. OneOwner
  BY DEF RegistrationInit, OneOwner
<1>7. CompletedByOneCode
  BY <1>1, NoRows DEF RegistrationInit, CompletedByOneCode, Consumed
<1>8. \A p \in RegIds : ~Open(p)
  BY NoRows DEF RegistrationInit, Open
<1>9. OneOpen
  BY <1>1, <1>8 DEF OneOpen
<1>10. SendsBounded
  <2>1. \A a \in Addresses : Recent(a) = {} /\ Sends(a) = 0
    BY <1>1, FS_EmptySet DEF Recent, Sends
  <2>2. \A p \in RegIds : Cardinality(RecentOf(p)) = 0
    BY <1>1, FS_EmptySet DEF RecentOf
  <2>3. MaxSends \in Nat /\ MaxSends >= 1
    BY RegistrationAssumption
  <2> QED BY <2>1, <2>2, <2>3 DEF SendsBounded, Room
<1> QED BY <1>2, <1>3, <1>4, <1>5, <1>6, <1>7, <1>9, <1>10 DEF RegistrationInv

\* What the types say of the rows that are there.
LEMMA ChallengeRows ==
    ASSUME RegistrationInv
    PROVE  /\ Len(challenge) \in Nat /\ DOMAIN challenge = 1 .. Len(challenge)
           /\ IsFiniteSet(DOMAIN challenge)
           /\ \A i \in DOMAIN challenge :
                 /\ challenge[i] \in ChallengeRow
                 /\ challenge[i].reg \in RegIds /\ challenge[i].address \in Addresses
                 /\ challenge[i].ordinal \in 1 .. MaxSends /\ challenge[i].age \in Fresh .. HourOld
                 /\ <<challenge[i].reg, challenge[i].ordinal>> \in MailKeys
           /\ \A p \in RegIds, n \in 1 .. LastOrdinal : <<p, n>> \in MailKeys
           /\ 1 .. MaxSends \subseteq 1 .. LastOrdinal
<1>1. challenge \in Seq(ChallengeRow)
  BY DEF RegistrationInv, RegistrationTypes
<1>2. /\ Len(challenge) \in Nat /\ DOMAIN challenge = 1 .. Len(challenge)
      /\ \A i \in DOMAIN challenge : challenge[i] \in ChallengeRow
  BY <1>1
<1>3. IsFiniteSet(DOMAIN challenge)
  BY <1>2, FS_Interval
<1>4. \A p \in RegIds, n \in 1 .. LastOrdinal : <<p, n>> \in MailKeys
  BY RegistrationAssumption DEF MailKeys, LastOrdinal
<1>5. 1 .. MaxSends \subseteq 1 .. LastOrdinal
  BY RegistrationAssumption DEF LastOrdinal
<1> QED BY <1>2, <1>3, <1>4, <1>5 DEF ChallengeRow

\* The mail worker changes nothing but the mails, and these keep their codes.
LEMMA MailsKeep ==
    ASSUME RegistrationInv, UNCHANGED <<madeBy, existing, pending, challenge, registering>>,
           mail' \in [MailKeys -> MailRow \cup {NoMail}], MailsFollow(mail, mail'),
           \A k \in MailKeys : mail[k] = NoMail => mail'[k] = NoMail
    PROVE  /\ ChallengesOwned' /\ CodesMailed' /\ OneOwner' /\ CompletedByOneCode'
           /\ OldestFirst' /\ DecoysHaveAccounts' /\ OneOpen' /\ SendsBounded'
<1>1. ChallengesOwned' /\ OneOwner' /\ OldestFirst'
  BY DEF RegistrationInv, ChallengesOwned, OneOwner, OldestFirst
<1>2. CompletedByOneCode' /\ DecoysHaveAccounts' /\ OneOpen'
  BY DEF RegistrationInv, CompletedByOneCode, Consumed, DecoysHaveAccounts, HasAccount, OneOpen, Open
<1>3. SendsBounded'
  BY DEF RegistrationInv, SendsBounded, RecentOf, Sends, HasAccount, Open, OpenFor, Room
<1>4. CodesMailed'
  BY ChallengeRows DEF RegistrationInv, CodesMailed, MailsFollow
<1> QED BY <1>1, <1>2, <1>3, <1>4

\* A worker writes the mail it has in hand, or one it takes.
LEMMA MailWritten ==
    ASSUME RegistrationInv, NEW w \in Mailers, NEW k \in MailKeys, NEW hand, NEW row \in MailRow,
           mail[k] \in MailRow, row.otp = mail[k].otp, Update(w, k, row, hand),
           hand = AtRest \/ (hand.key = k /\ hand \in [at : {"claimed"}, key : MailKeys]
                                                  \cup [at : {"failed"}, key : MailKeys, tries : Nat]),
           mailFaults' \in Nat
    PROVE  RegistrationInv'
<1>1. /\ mail' = [mail EXCEPT ![k] = row] /\ mailer' = [mailer EXCEPT ![w] = hand]
      /\ UNCHANGED <<madeBy, existing, pending, challenge, registering>>
  BY DEF Update
<1>2. RegistrationTypes /\ MailInHand
  BY DEF RegistrationInv
<1>3. /\ mail' \in [MailKeys -> MailRow \cup {NoMail}] /\ mail'[k] = row
      /\ \A l \in MailKeys : l # k => mail'[l] = mail[l]
  BY <1>1, <1>2 DEF RegistrationTypes
<1>4. MailsFollow(mail, mail') /\ \A l \in MailKeys : mail[l] = NoMail => mail'[l] = NoMail
  BY <1>3, NoRows DEF MailsFollow
<1>5. RegistrationTypes'
  BY <1>1, <1>2, <1>3 DEF RegistrationTypes
<1>6. MailInHand'
  <2> SUFFICES ASSUME NEW v \in Mailers, mailer'[v] # AtRest PROVE mail'[mailer'[v].key] \in MailRow
    BY DEF MailInHand
  <2>1. mailer'[w] = hand /\ \A u \in Mailers \ {w} : mailer'[u] = mailer[u]
    BY <1>1, <1>2 DEF RegistrationTypes
  <2>2. CASE v = w
    BY <1>3, <2>1, <2>2
  <2>3. CASE v # w
    <3>1. mailer'[v] = mailer[v] /\ mailer[v].key \in MailKeys
      BY <1>2, <2>1, <2>3 DEF RegistrationTypes
    <3> QED BY <1>2, <1>3, <3>1 DEF MailInHand
  <2> QED BY <2>2, <2>3
<1>7. /\ ChallengesOwned' /\ CodesMailed' /\ OneOwner' /\ CompletedByOneCode'
      /\ OldestFirst' /\ DecoysHaveAccounts' /\ OneOpen' /\ SendsBounded'
  BY <1>1, <1>3, <1>4, MailsKeep
<1> QED BY <1>5, <1>6, <1>7 DEF RegistrationInv

\* Every step of the mail workers.
LEMMA MailersKeep ==
    ASSUME RegistrationInv,
           \/ \E w \in Mailers, k \in MailKeys :
                 \/ ClaimMail(w, k) \/ Suppress(w, k) \/ Disabled(w, k)
                 \/ DeliverMail(w, k) \/ ProviderFails(w, k)
           \/ \E w \in Mailers, retryable \in BOOLEAN : RecordFailure(w, retryable)
           \/ \E w \in Mailers : MailerDies(w)
           \/ \E k \in MailKeys : MailDue(k)
    PROVE  RegistrationInv'
<1>1. RegistrationTypes /\ MailInHand
  BY DEF RegistrationInv
<1>2. ASSUME NEW k \in MailKeys, mail[k] \in MailRow, NEW s \in MailStates, NEW due \in BOOLEAN
      PROVE  /\ [mail[k] EXCEPT !.status = s, !.due = due] \in MailRow
             /\ [mail[k] EXCEPT !.status = s, !.due = due].otp = mail[k].otp
  BY <1>2 DEF MailRow
<1>3. ASSUME NEW w \in Mailers, NEW k \in MailKeys, ClaimMail(w, k)
      PROVE  RegistrationInv'
  <2> DEFINE t == Min({mail[k].tries + 1, MaxTries})
             row == [mail[k] EXCEPT !.status = "processing", !.due = FALSE, !.tries = t]
             hand == [at |-> "claimed", key |-> k]
  <2>1. mail[k] \in MailRow
    BY <1>1, <1>3, NoRows DEF RegistrationTypes, ClaimMail, Claimable
  <2>2. t \in Nat
    <3>1. mail[k].tries + 1 \in Nat /\ MaxTries \in Nat
      BY <2>1, RegistrationAssumption DEF MailRow
    <3>2. \E x \in {mail[k].tries + 1, MaxTries} : \A y \in {mail[k].tries + 1, MaxTries} : x <= y
      BY <3>1
    <3> QED BY <3>1, <3>2 DEF Min
  <2>3. Update(w, k, row, hand) /\ mailFaults' = mailFaults
    BY <1>3 DEF ClaimMail
  <2> HIDE DEF t
  <2>4. row \in MailRow /\ row.otp = mail[k].otp
    BY <2>1, <2>2 DEF MailRow, MailStates
  <2>5. hand.key = k /\ hand \in [at : {"claimed"}, key : MailKeys]
    OBVIOUS
  <2> HIDE DEF row, hand
  <2> QED BY <1>1, <2>1, <2>3, <2>4, <2>5, MailWritten DEF RegistrationTypes
<1>4. ASSUME NEW w \in Mailers, NEW k \in MailKeys, Holds(w, k)
      PROVE  mail[k] \in MailRow
  BY <1>1, <1>4, NoRows DEF Holds, MailInHand
<1>5. ASSUME NEW w \in Mailers, NEW k \in MailKeys, Suppress(w, k) \/ Disabled(w, k) \/ DeliverMail(w, k)
      PROVE  RegistrationInv'
  <2>1. PICK s \in MailStates : /\ Update(w, k, [mail[k] EXCEPT !.status = s, !.due = FALSE], AtRest)
                                /\ Holds(w, k) /\ mailFaults' = mailFaults
    BY <1>5 DEF Suppress, Disabled, DeliverMail, MailStates
  <2> DEFINE row == [mail[k] EXCEPT !.status = s, !.due = FALSE]
  <2>2. mail[k] \in MailRow /\ row \in MailRow /\ row.otp = mail[k].otp
    BY <1>2, <1>4, <2>1
  <2> HIDE DEF row
  <2> QED BY <1>1, <2>1, <2>2, MailWritten DEF RegistrationTypes, row
<1>6. ASSUME NEW w \in Mailers, NEW k \in MailKeys, ProviderFails(w, k)
      PROVE  RegistrationInv'
  <2> DEFINE hand == [at |-> "failed", key |-> k, tries |-> mail[k].tries]
  <2>1. Update(w, k, mail[k], hand) /\ mail[k] \in MailRow /\ mailFaults' \in Nat
    BY <1>1, <1>4, <1>6 DEF ProviderFails, Fault, RegistrationTypes
  <2>2. hand.key = k /\ hand \in [at : {"failed"}, key : MailKeys, tries : Nat]
    BY <2>1 DEF MailRow
  <2> HIDE DEF hand
  <2> QED BY <2>1, <2>2, MailWritten
<1>7. ASSUME NEW w \in Mailers, NEW retryable \in BOOLEAN, RecordFailure(w, retryable)
      PROVE  RegistrationInv'
  <2> DEFINE k == mailer[w].key
  <2>1. mailer[w] # AtRest
    BY <1>7, NoRows DEF RecordFailure
  <2>2. k \in MailKeys /\ mail[k] \in MailRow
    BY <1>1, <2>1 DEF MailInHand, RegistrationTypes
  <2>3. PICK s \in MailStates : Update(w, k, [mail[k] EXCEPT !.status = s, !.due = FALSE], AtRest)
    BY <1>7 DEF RecordFailure, AfterFailure, MailStates
  <2> DEFINE row == [mail[k] EXCEPT !.status = s, !.due = FALSE]
  <2>4. row \in MailRow /\ row.otp = mail[k].otp
    BY <1>2, <2>2
  <2>5. mailFaults' \in Nat
    BY <1>1, <1>7 DEF RecordFailure, RegistrationTypes
  <2> HIDE DEF row, k
  <2> QED BY <2>2, <2>3, <2>4, <2>5, MailWritten DEF row
<1>8. ASSUME NEW w \in Mailers, MailerDies(w)
      PROVE  RegistrationInv'
  <2>1. /\ mailer' = [mailer EXCEPT ![w] = AtRest] /\ mailFaults' = mailFaults + 1
        /\ UNCHANGED <<madeBy, existing, pending, challenge, mail, registering>>
    BY <1>8 DEF MailerDies, Fault
  <2>2. RegistrationTypes'
    BY <1>1, <2>1 DEF RegistrationTypes
  <2>3. MailInHand'
    BY <1>1, <2>1 DEF RegistrationTypes, MailInHand
  <2>4. MailsFollow(mail, mail') /\ \A l \in MailKeys : mail[l] = NoMail => mail'[l] = NoMail
    BY <2>1 DEF MailsFollow
  <2>5. mail' \in [MailKeys -> MailRow \cup {NoMail}]
    BY <1>1, <2>1 DEF RegistrationTypes
  <2> QED BY <2>1, <2>2, <2>3, <2>4, <2>5, MailsKeep DEF RegistrationInv
<1>9. ASSUME NEW k \in MailKeys, MailDue(k)
      PROVE  RegistrationInv'
  <2> DEFINE row == [mail[k] EXCEPT !.due = TRUE]
  <2>1. mail[k] \in MailRow
    BY <1>1, <1>9, NoRows DEF RegistrationTypes, MailDue
  <2>2. row \in MailRow /\ row.otp = mail[k].otp
    BY <2>1 DEF MailRow
  <2>3. /\ mail' = [mail EXCEPT ![k] = row]
        /\ UNCHANGED <<madeBy, existing, pending, challenge, registering, mailer, mailFaults>>
    BY <1>9 DEF MailDue
  <2> HIDE DEF row
  <2>4. /\ mail' \in [MailKeys -> MailRow \cup {NoMail}]
        /\ mail'[k] = row /\ \A l \in MailKeys : l # k => mail'[l] = mail[l]
    BY <1>1, <2>2, <2>3 DEF RegistrationTypes
  <2>5. MailsFollow(mail, mail') /\ \A l \in MailKeys : mail[l] = NoMail => mail'[l] = NoMail
    BY <2>1, <2>2, <2>4, NoRows DEF MailsFollow
  <2>6. RegistrationTypes'
    BY <1>1, <2>3, <2>4 DEF RegistrationTypes
  <2>7. MailInHand'
    BY <1>1, <2>2, <2>3, <2>4 DEF RegistrationTypes, MailInHand
  <2> QED BY <2>3, <2>4, <2>5, <2>6, <2>7, MailsKeep DEF RegistrationInv
<1> QED BY <1>3, <1>5, <1>6, <1>7, <1>8, <1>9

\* Codes grow old: the recent ones become fewer, but for one that is new.
LEMMA RecentCodes ==
    ASSUME RegistrationInv, NEW a, NEW p, challenge' \in Seq(ChallengeRow),
           CodesFollow(challenge, challenge'),
           NEW new \in SUBSET {Len(challenge) + 1}, DOMAIN challenge' = DOMAIN challenge \cup new
    PROVE  /\ Sends(a) \in Nat /\ Sends(a)' \in Nat
           /\ Cardinality(RecentOf(p)) \in Nat /\ Cardinality(RecentOf(p)') \in Nat
           /\ Sends(a)' <= Sends(a) + 1 /\ Cardinality(RecentOf(p)') <= Cardinality(RecentOf(p)) + 1
           /\ (\A i \in new : challenge'[i].address # a) => Sends(a)' <= Sends(a)
           /\ (\A i \in new : challenge'[i].reg # p) => Cardinality(RecentOf(p)') <= Cardinality(RecentOf(p))
<1> DEFINE n == Len(challenge) + 1
<1>1. /\ IsFiniteSet(DOMAIN challenge)
      /\ \A i \in DOMAIN challenge : challenge[i].age \in Fresh .. HourOld
  BY ChallengeRows
<1>2. \A i \in DOMAIN challenge' : challenge'[i].age \in Fresh .. HourOld
  <2>1. \A i \in DOMAIN challenge' : challenge'[i] \in ChallengeRow
    OBVIOUS
  <2> QED BY <2>1 DEF ChallengeRow
<1>3. \A i \in DOMAIN challenge : challenge'[i].age < HourOld => challenge[i].age < HourOld
  BY <1>1, <1>2 DEF CodesFollow, Fresh, HourOld
<1>4. /\ Recent(a)' \subseteq Recent(a) \cup {n} /\ RecentOf(p)' \subseteq RecentOf(p) \cup {n}
      /\ (\A i \in new : challenge'[i].address # a) => Recent(a)' \subseteq Recent(a)
      /\ (\A i \in new : challenge'[i].reg # p) => RecentOf(p)' \subseteq RecentOf(p)
  BY <1>3 DEF CodesFollow, Recent, RecentOf
<1>5. IsFiniteSet(Recent(a)) /\ IsFiniteSet(RecentOf(p))
  <2>1. Recent(a) \in SUBSET DOMAIN challenge /\ RecentOf(p) \in SUBSET DOMAIN challenge
    BY DEF Recent, RecentOf
  <2> QED BY <1>1, <2>1, FS_Subset
<1>6. ASSUME NEW S, NEW T, IsFiniteSet(S), T \subseteq S \cup {n}
      PROVE  /\ Cardinality(S) \in Nat /\ Cardinality(T) \in Nat
             /\ Cardinality(T) <= Cardinality(S) + 1
             /\ T \subseteq S => Cardinality(T) <= Cardinality(S)
  <2>1. /\ IsFiniteSet(S \cup {n}) /\ Cardinality(S) \in Nat
        /\ Cardinality(S \cup {n}) <= Cardinality(S) + 1 /\ Cardinality(S \cup {n}) \in Nat
    <3>1. IsFiniteSet(S \cup {n}) /\ Cardinality(S \cup {n}) = IF n \in S THEN Cardinality(S) ELSE Cardinality(S) + 1
      BY <1>6, FS_AddElement
    <3>2. Cardinality(S) \in Nat
      BY <1>6, FS_CardinalityType
    <3> QED BY <3>1, <3>2
  <2>2. IsFiniteSet(T) /\ Cardinality(T) <= Cardinality(S \cup {n})
    BY <1>6, <2>1, FS_Subset
  <2>3. T \subseteq S => Cardinality(T) <= Cardinality(S)
    BY <1>6, FS_Subset
  <2> QED BY <2>1, <2>2, <2>3, FS_CardinalityType
<1>7. Sends(a) = Cardinality(Recent(a)) /\ Sends(a)' = Cardinality(Recent(a)')
  BY DEF Sends, Recent
<1> HIDE DEF n
<1> QED BY <1>4, <1>5, <1>6, <1>7

\* Registrations and codes that keep what identifies them.
LEMMA RowsFollow ==
    ASSUME RegistrationInv, challenge' \in Seq(ChallengeRow), DOMAIN challenge' = DOMAIN challenge,
           CodesFollow(challenge, challenge'),
           pending' \in [RegIds -> RegRow \cup {NoReg}], RegsFollow(pending, pending'),
           \A p \in RegIds : Open(p)' => Open(p),
           MailsFollow(mail, mail'),
           \A p \in RegIds, n \in 1 .. LastOrdinal : mail[<<p, n>>] = NoMail => mail'[<<p, n>>] = NoMail
    PROVE  ChallengesOwned' /\ CodesMailed' /\ OneOpen'
<1>1. ChallengesOwned /\ CodesMailed /\ OneOpen
  BY DEF RegistrationInv
<1>2. \A i \in DOMAIN challenge : /\ pending'[challenge[i].reg] \in RegRow
                                  /\ pending'[challenge[i].reg].address = pending[challenge[i].reg].address
                                  /\ pending'[challenge[i].reg].decoy = pending[challenge[i].reg].decoy
  BY <1>1, ChallengeRows DEF ChallengesOwned, RegsFollow
<1>3. ChallengesOwned'
  BY <1>1, <1>2 DEF ChallengesOwned, CodesFollow
<1>4. CodesMailed'
  <2>1. ASSUME NEW i \in DOMAIN challenge, ~pending'[challenge'[i].reg].decoy
        PROVE  /\ mail'[<<challenge'[i].reg, challenge'[i].ordinal>>] \in MailRow
               /\ mail'[<<challenge'[i].reg, challenge'[i].ordinal>>].otp = i
    <3> DEFINE k == <<challenge[i].reg, challenge[i].ordinal>>
    <3>1. <<challenge'[i].reg, challenge'[i].ordinal>> = k /\ k \in MailKeys
      BY ChallengeRows DEF CodesFollow
    <3>2. ~pending[challenge[i].reg].decoy
      BY <1>2, <2>1 DEF CodesFollow
    <3>3. mail[k] \in MailRow /\ mail[k].otp = i
      BY <1>1, <3>2 DEF CodesMailed
    <3>4. challenge[i].ordinal \in 1 .. MaxSends
      BY ChallengeRows
    <3>5. k[2] # 0
      BY <3>4, RegistrationAssumption
    <3> HIDE DEF k
    <3> QED BY <3>1, <3>3, <3>5 DEF MailsFollow
  <2>2. ASSUME NEW p \in RegIds, NEW n \in 1 .. LastOrdinal, mail'[<<p, n>>] # NoMail
        PROVE  pending'[p] \in RegRow /\ ~pending'[p].decoy
    BY <1>1, <2>2 DEF CodesMailed, RegsFollow
  <2> QED BY <2>1, <2>2 DEF CodesMailed
<1>5. OneOpen'
  <2>1. \A p \in RegIds : Open(p)' => Open(p) /\ pending'[p].address = pending[p].address
    BY NoRows DEF RegistrationInv, RegistrationTypes, Open, RegsFollow
  <2>2. ASSUME NEW p \in RegIds, NEW q \in RegIds, Open(p)', Open(q)', pending'[p].address = pending'[q].address
        PROVE  p = q
    BY <1>1, <2>1, <2>2 DEF OneOpen
  <2>3. ASSUME NEW i \in DOMAIN challenge, NEW j \in DOMAIN challenge, i < j,
               challenge'[j].address = challenge'[i].address,
               NEW r, r = challenge'[i].reg, Open(r)'
        PROVE  challenge'[j].reg = r
    <3>1. r = challenge[i].reg /\ Open(r) /\ challenge[j].address = challenge[i].address
      BY <2>1, <2>3, ChallengeRows DEF CodesFollow
    <3>2. challenge[j].reg = r
      BY <1>1, <2>3, <3>1 DEF OneOpen
    <3> QED BY <2>3, <3>2 DEF CodesFollow
  <2> QED BY <2>2, <2>3 DEF OneOpen, Open
<1> QED BY <1>3, <1>4, <1>5

\* No new code and no less room.
LEMMA SendsKept ==
    ASSUME RegistrationInv, challenge' \in Seq(ChallengeRow), DOMAIN challenge' = DOMAIN challenge,
           CodesFollow(challenge, challenge'),
           \A a \in Addresses : /\ HasAccount(a) => HasAccount(a)'
                                /\ OpenFor(a) /\ (HasAccount(a)' => HasAccount(a)) => OpenFor(a)'
    PROVE  SendsBounded'
<1>1. {} \in SUBSET {Len(challenge) + 1} /\ DOMAIN challenge' = DOMAIN challenge \cup {}
  OBVIOUS
<1>2. SendsBounded /\ MaxSends \in Nat
  BY RegistrationAssumption DEF RegistrationInv
<1>3. ASSUME NEW p \in RegIds PROVE Cardinality(RecentOf(p)') <= MaxSends
  <2>1. /\ Cardinality(RecentOf(p)) \in Nat /\ Cardinality(RecentOf(p)') \in Nat
        /\ Cardinality(RecentOf(p)') <= Cardinality(RecentOf(p))
    BY <1>1, RecentCodes
  <2> QED BY <1>2, <2>1 DEF SendsBounded
<1>4. ASSUME NEW a \in Addresses PROVE Sends(a)' + 1 <= MaxSends + Room(a)'
  <2>1. Sends(a) \in Nat /\ Sends(a)' \in Nat /\ Sends(a)' <= Sends(a)
    BY <1>1, RecentCodes
  <2>2. Room(a) \in Nat /\ Room(a)' \in Nat /\ Room(a) <= Room(a)'
    BY DEF Room
  <2> QED BY <1>2, <2>1, <2>2 DEF SendsBounded
<1> QED BY <1>3, <1>4 DEF SendsBounded

\* No code is accepted and no registration completed.
LEMMA CompletionKept ==
    ASSUME RegistrationInv, CodesFollow(challenge, challenge'), RegsFollow(pending, pending'),
           madeBy' = madeBy,
           \A i \in DOMAIN challenge' : challenge'[i].status = "consumed" =>
               i \in DOMAIN challenge /\ challenge[i].status = "consumed",
           \A i \in DOMAIN challenge : challenge[i].status = "consumed" => challenge'[i].status = "consumed",
           \A p \in RegIds : pending'[p].status = "completed" <=> pending[p].status = "completed"
    PROVE  CompletedByOneCode'
<1> SUFFICES ASSUME NEW p \in RegIds
             PROVE  IF pending'[p].status = "completed"
                    THEN /\ ~pending'[p].decoy /\ p \in madeBy'[pending'[p].address]
                         /\ \E i \in DOMAIN challenge' : Consumed(p)' = {i}
                    ELSE Consumed(p)' = {}
  BY DEF CompletedByOneCode
<1>1. CompletedByOneCode
  BY DEF RegistrationInv
<1>2. Consumed(p)' = Consumed(p)
  BY DEF Consumed, CodesFollow
<1>3. CASE pending[p].status = "completed"
  <2>1. pending[p] \in RegRow
    BY <1>3, NoRows DEF RegistrationInv, RegistrationTypes
  <2>2. pending'[p].address = pending[p].address /\ pending'[p].decoy = pending[p].decoy
    BY <2>1 DEF RegsFollow
  <2>3. ~pending[p].decoy /\ p \in madeBy[pending[p].address]
    BY <1>1, <1>3 DEF CompletedByOneCode
  <2>4. PICK i \in DOMAIN challenge : Consumed(p) = {i}
    BY <1>1, <1>3 DEF CompletedByOneCode
  <2>5. i \in DOMAIN challenge'
    BY DEF CodesFollow
  <2> QED BY <1>2, <1>3, <2>2, <2>3, <2>4, <2>5
<1>4. CASE pending[p].status # "completed"
  BY <1>1, <1>2, <1>4 DEF CompletedByOneCode
<1> QED BY <1>3, <1>4

\* Mails stay where the workers found them.
LEMMA HandsKept ==
    ASSUME RegistrationInv, mailer' = mailer, MailsFollow(mail, mail')
    PROVE  MailInHand'
<1>1. \A w \in Mailers : mailer[w] # AtRest => mailer[w].key \in MailKeys
  BY DEF RegistrationInv, RegistrationTypes
<1> QED BY <1>1 DEF RegistrationInv, MailInHand, MailsFollow

\* Accounts stay, and who has looked and found one remembers it.
LEMMA DecoysKept ==
    ASSUME RegistrationInv, RegsFollow(pending, pending'),
           pending' \in [RegIds -> RegRow \cup {NoReg}],
           \A a \in Addresses : HasAccount(a) => HasAccount(a)',
           \A p \in RegIds : pending[p] = NoReg /\ pending'[p] # NoReg /\ pending'[p].decoy =>
               HasAccount(pending[p].address)',
           \A c \in Clients : registering'[c] = registering[c] \/ registering'[c] = AtRest
    PROVE  DecoysHaveAccounts'
<1>1. DecoysHaveAccounts /\ RegistrationTypes
  BY DEF RegistrationInv
<1>2. ASSUME NEW p \in RegIds, pending'[p] # NoReg, pending'[p].decoy
      PROVE  HasAccount(pending[p].address)'
  <2>1. CASE pending[p] = NoReg
    BY <1>2, <2>1
  <2>2. CASE pending[p] # NoReg
    <3>1. pending[p] \in RegRow /\ pending[p].address \in Addresses
      BY <1>1, <2>2 DEF RegistrationTypes, RegRow
    <3>2. pending'[p].address = pending[p].address /\ pending'[p].decoy = pending[p].decoy
      BY <3>1 DEF RegsFollow
    <3>3. HasAccount(pending[p].address)
      BY <1>1, <1>2, <2>2, <3>2 DEF DecoysHaveAccounts
    <3>4. \A b \in Addresses : HasAccount(b) /\ b = pending'[p].address => HasAccount(pending[p].address)'
      BY DEF HasAccount
    <3> QED BY <3>1, <3>2, <3>3, <3>4
  <2> QED BY <2>1, <2>2
<1>3. ASSUME NEW c \in Clients, registering'[c].at = "read", registering'[c].decoy
      PROVE  HasAccount(registering[c].address)'
  <2>1. registering'[c] = registering[c]
    BY <1>3, NoRows
  <2>2. registering[c] # AtRest
    BY <1>3, <2>1, NoRows
  <2>3. registering[c].address \in Addresses
    BY <1>1, <2>2 DEF RegistrationTypes
  <2>4. HasAccount(registering[c].address)
    BY <1>1, <1>3, <2>1 DEF DecoysHaveAccounts
  <2>5. \A b \in Addresses : HasAccount(b) /\ b = registering'[c].address => HasAccount(registering[c].address)'
    BY DEF HasAccount
  <2> QED BY <2>1, <2>3, <2>4, <2>5
<1> QED BY <1>2, <1>3 DEF DecoysHaveAccounts

\* A register request looks for an account.
LEMMA BeginKeeps ==
    ASSUME RegistrationInv, NEW c \in Clients, NEW a \in Addresses, RegisterBegins(c, a)
    PROVE  RegistrationInv'
<1> DEFINE row == [at |-> "read", address |-> a, decoy |-> HasAccount(a)]
<1>1. /\ registering' = [registering EXCEPT ![c] = row]
      /\ UNCHANGED <<madeBy, existing, pending, challenge, mail, mailer, mailFaults>>
  BY DEF RegisterBegins
<1>2. HasAccount(a) \in BOOLEAN
  BY DEF HasAccount
<1>3. row \in [at : {"read"}, address : Addresses, decoy : BOOLEAN] /\ row.address = a
      /\ (row.decoy => HasAccount(a))
  BY <1>2
<1> HIDE DEF row
<1>4. /\ RegistrationTypes /\ MailInHand /\ ChallengesOwned /\ CodesMailed /\ OneOwner /\ CompletedByOneCode
      /\ OldestFirst /\ DecoysHaveAccounts /\ OneOpen /\ SendsBounded
  BY DEF RegistrationInv
<1>5. /\ registering' \in [Clients -> [at : {"read"}, address : Addresses, decoy : BOOLEAN] \cup {AtRest}]
      /\ registering'[c] = row /\ \A d \in Clients \ {c} : registering'[d] = registering[d]
  BY <1>1, <1>3, <1>4 DEF RegistrationTypes
<1>6. RegistrationTypes'
  BY <1>1, <1>4, <1>5 DEF RegistrationTypes
<1>7. DecoysHaveAccounts'
  BY <1>1, <1>3, <1>4, <1>5 DEF DecoysHaveAccounts, HasAccount
<1>8. /\ MailInHand' /\ ChallengesOwned' /\ CodesMailed' /\ OneOwner' /\ OldestFirst'
  BY <1>1, <1>4 DEF MailInHand, ChallengesOwned, CodesMailed, OneOwner, OldestFirst
<1>9. CompletedByOneCode' /\ OneOpen' /\ SendsBounded'
  BY <1>1, <1>4 DEF CompletedByOneCode, Consumed, OneOpen, Open, SendsBounded, RecentOf, Sends, Room,
                    OpenFor, HasAccount
<1> QED BY <1>6, <1>7, <1>8, <1>9 DEF RegistrationInv

\* One code changes.
LEMMA CodeChanged ==
    ASSUME RegistrationInv, NEW i \in DOMAIN challenge, NEW row \in ChallengeRow,
           row.reg = challenge[i].reg, row.address = challenge[i].address,
           row.ordinal = challenge[i].ordinal, row.age >= challenge[i].age,
           challenge' = [challenge EXCEPT ![i] = row]
    PROVE  /\ challenge' \in Seq(ChallengeRow) /\ DOMAIN challenge' = DOMAIN challenge
           /\ CodesFollow(challenge, challenge')
           /\ challenge'[i] = row /\ \A j \in DOMAIN challenge \ {i} : challenge'[j] = challenge[j]
<1>1. challenge \in Seq(ChallengeRow) /\ \A j \in DOMAIN challenge : challenge[j].age \in Fresh .. HourOld
  BY ChallengeRows DEF RegistrationInv, RegistrationTypes
<1>2. challenge' \in Seq(ChallengeRow) /\ DOMAIN challenge' = DOMAIN challenge
  BY <1>1
<1>3. challenge'[i] = row /\ \A j \in DOMAIN challenge \ {i} : challenge'[j] = challenge[j]
  BY <1>1
<1>4. CodesFollow(challenge, challenge')
  BY <1>1, <1>2, <1>3 DEF CodesFollow, Fresh, HourOld
<1> QED BY <1>2, <1>3, <1>4

\* One code changes and it is not accepted.
LEMMA CodeKeeps ==
    ASSUME RegistrationInv, NEW i \in DOMAIN challenge, NEW row \in ChallengeRow,
           row.reg = challenge[i].reg, row.address = challenge[i].address,
           row.ordinal = challenge[i].ordinal, row.age >= challenge[i].age,
           row.status = "consumed" <=> challenge[i].status = "consumed",
           challenge' = [challenge EXCEPT ![i] = row], OldestFirst',
           UNCHANGED <<madeBy, existing, pending, mail, registering, mailer, mailFaults>>
    PROVE  RegistrationInv'
<1>1. /\ challenge' \in Seq(ChallengeRow) /\ DOMAIN challenge' = DOMAIN challenge
      /\ CodesFollow(challenge, challenge')
      /\ challenge'[i] = row /\ \A j \in DOMAIN challenge \ {i} : challenge'[j] = challenge[j]
  BY CodeChanged
<1>2. RegistrationTypes'
  BY <1>1 DEF RegistrationInv, RegistrationTypes
<1>3. RegsFollow(pending, pending') /\ MailsFollow(mail, mail')
  BY DEF RegsFollow, MailsFollow
<1>4. \A p \in RegIds : Open(p)' <=> Open(p)
  BY DEF Open
<1>5. \A a \in Addresses : (HasAccount(a)' <=> HasAccount(a)) /\ (OpenFor(a)' <=> OpenFor(a))
  BY DEF HasAccount, OpenFor, Open
<1>6. pending' \in [RegIds -> RegRow \cup {NoReg}]
  BY <1>2 DEF RegistrationTypes
<1>7. ChallengesOwned' /\ CodesMailed' /\ OneOpen'
  BY <1>1, <1>3, <1>4, <1>6, RowsFollow
<1>8. SendsBounded'
  BY <1>1, <1>5, SendsKept
<1>9. MailInHand' /\ DecoysHaveAccounts'
  BY <1>3, <1>5, <1>6, HandsKept, DecoysKept
<1>10. CompletedByOneCode'
  <2>1. \A j \in DOMAIN challenge : challenge'[j].status = "consumed" <=> challenge[j].status = "consumed"
    BY <1>1
  <2> QED BY <1>1, <1>3, <2>1, CompletionKept
<1>11. OneOwner'
  BY DEF RegistrationInv, OneOwner
<1> QED BY <1>2, <1>7, <1>8, <1>9, <1>10, <1>11 DEF RegistrationInv

\* A code grows older.
LEMMA AgesKeep ==
    ASSUME RegistrationInv, NEW i \in DOMAIN challenge, ChallengeAges(i)
    PROVE  RegistrationInv'
<1> DEFINE row == [challenge[i] EXCEPT !.age = @ + 1]
<1>1. challenge[i] \in ChallengeRow /\ challenge[i].age < HourOld
  BY ChallengeRows DEF ChallengeAges
<1>2. challenge' = [challenge EXCEPT ![i] = row]
  BY DEF ChallengeAges
<1>3. /\ row \in ChallengeRow /\ row.age = challenge[i].age + 1 /\ row.age >= challenge[i].age
      /\ row.reg = challenge[i].reg /\ row.address = challenge[i].address
      /\ row.ordinal = challenge[i].ordinal /\ row.status = challenge[i].status
  BY <1>1 DEF ChallengeRow, Fresh, HourOld
<1> HIDE DEF row
<1>4. /\ DOMAIN challenge' = DOMAIN challenge
      /\ challenge'[i] = row /\ \A j \in DOMAIN challenge \ {i} : challenge'[j] = challenge[j]
  BY <1>2, <1>3, CodeChanged
<1>5. OldestFirst'
  <2>1. \A j \in 1 .. i - 1 : challenge[j].age > challenge[i].age
    BY DEF ChallengeAges
  <2>2. /\ DOMAIN challenge = 1 .. Len(challenge) /\ Len(challenge) \in Nat
        /\ \A j \in DOMAIN challenge : challenge[j].age \in Nat
    <3>1. \A j \in DOMAIN challenge : challenge[j].age \in Fresh .. HourOld
      BY ChallengeRows
    <3>2. DOMAIN challenge = 1 .. Len(challenge) /\ Len(challenge) \in Nat
      BY ChallengeRows
    <3> QED BY <3>1, <3>2 DEF Fresh, HourOld
  <2>3. ASSUME NEW j \in DOMAIN challenge, NEW k \in DOMAIN challenge, j < k
        PROVE  challenge'[j].age >= challenge'[k].age
    <3>1. challenge[j].age >= challenge[k].age
      BY <2>3 DEF RegistrationInv, OldestFirst
    <3>2. CASE k = i
      <4>1. j \in 1 .. i - 1
        BY <2>2, <2>3, <3>2
      <4> QED BY <1>3, <1>4, <2>1, <2>2, <2>3, <3>2, <4>1
    <3>3. CASE j = i /\ k # i
      BY <1>3, <1>4, <2>2, <3>1, <3>3
    <3>4. CASE j # i /\ k # i
      BY <1>4, <3>1, <3>4
    <3> QED BY <3>2, <3>3, <3>4
  <2> QED BY <1>4, <2>3 DEF OldestFirst
<1> QED BY <1>2, <1>3, <1>5, CodeKeeps DEF ChallengeAges

\* An active code of an open registration.
LEMMA ActiveCode ==
    ASSUME RegistrationInv, NEW p \in RegIds, Open(p), NEW i \in Active(p)
    PROVE  /\ i \in DOMAIN challenge /\ challenge[i] \in ChallengeRow
           /\ challenge[i].reg = p /\ challenge[i].status = "active"
           /\ pending[p] \in RegRow /\ pending[p].address \in Addresses
           /\ pending[p].status = "pending" /\ ~pending[p].lapsed
<1>1. i \in DOMAIN challenge /\ challenge[i].reg = p /\ challenge[i].status = "active"
  BY DEF Active
<1>2. pending[p].status = "pending" /\ ~pending[p].lapsed
  BY DEF Open
<1>3. pending[p] \in RegRow
  BY <1>2, NoRows DEF RegistrationInv, RegistrationTypes
<1>4. pending[p].address \in Addresses
  BY <1>3 DEF RegRow
<1> QED BY <1>1, <1>2, <1>3, <1>4, ChallengeRows

\* The right code makes an account.
LEMMA ActivationKeeps ==
    ASSUME RegistrationInv, NEW p \in RegIds, Open(p), NEW i \in Active(p),
           Guessable(i), CanActivate(p),
           challenge' = [challenge EXCEPT ![i].status = "consumed", ![i].guesses = @ + 1],
           madeBy' = [madeBy EXCEPT ![pending[p].address] = @ \cup {p}],
           pending' = [pending EXCEPT ![p].status = "completed"],
           mail' = [mail EXCEPT ![Welcome(p)] = NewMail(0)],
           UNCHANGED <<existing, registering, mailer, mailFaults>>
    PROVE  RegistrationInv'
<1> DEFINE row == [challenge[i] EXCEPT !.status = "consumed", !.guesses = @ + 1]
           reg == [pending[p] EXCEPT !.status = "completed"]
<1> PICK a : a = pending[p].address
  OBVIOUS
<1>1. /\ i \in DOMAIN challenge /\ challenge[i] \in ChallengeRow
      /\ challenge[i].reg = p /\ challenge[i].status = "active"
      /\ pending[p] \in RegRow /\ a \in Addresses
      /\ pending[p].status = "pending" /\ ~pending[p].lapsed
  BY ActiveCode
<1>2. /\ RegistrationTypes /\ MailInHand /\ OneOwner /\ CompletedByOneCode /\ OldestFirst
  BY DEF RegistrationInv
<1>3. /\ row \in ChallengeRow /\ row.reg = challenge[i].reg /\ row.address = challenge[i].address
      /\ row.ordinal = challenge[i].ordinal /\ row.age = challenge[i].age /\ row.status = "consumed"
  BY <1>1, RegistrationAssumption DEF ChallengeRow, ChallengeStates, Guessable
<1>4. /\ reg \in RegRow /\ reg.address = a /\ reg.decoy = pending[p].decoy /\ reg.status = "completed"
  BY <1>1 DEF RegRow, RegStates
<1>5. challenge' = [challenge EXCEPT ![i] = row] /\ pending' = [pending EXCEPT ![p] = reg]
  OBVIOUS
<1> HIDE DEF row, reg
<1>6. row.age >= challenge[i].age
  <2>1. challenge[i].age \in Fresh .. HourOld
    BY <1>1, ChallengeRows
  <2> QED BY <1>3, <2>1 DEF Fresh, HourOld
<1>7. /\ challenge' \in Seq(ChallengeRow) /\ DOMAIN challenge' = DOMAIN challenge
      /\ CodesFollow(challenge, challenge')
      /\ challenge'[i] = row /\ \A j \in DOMAIN challenge \ {i} : challenge'[j] = challenge[j]
  BY <1>1, <1>3, <1>5, <1>6, CodeChanged
<1>8. /\ pending' \in [RegIds -> RegRow \cup {NoReg}] /\ RegsFollow(pending, pending')
      /\ pending'[p] = reg /\ \A q \in RegIds \ {p} : pending'[q] = pending[q]
      /\ \A q \in RegIds : pending[q] = NoReg => pending'[q] = NoReg
  <2>1. pending \in [RegIds -> RegRow \cup {NoReg}]
    BY <1>2 DEF RegistrationTypes
  <2>2. /\ pending' \in [RegIds -> RegRow \cup {NoReg}]
        /\ pending'[p] = reg /\ \A q \in RegIds \ {p} : pending'[q] = pending[q]
    BY <1>4, <1>5, <2>1
  <2>3. pending[p] # NoReg
    BY <1>1, NoRows
  <2> QED BY <1>4, <2>2, <2>3 DEF RegsFollow
<1>9. \A q \in RegIds : (Open(q)' => Open(q)) /\ (q # p /\ Open(q) => Open(q)')
  BY <1>4, <1>8 DEF Open
<1>10. /\ mail' \in [MailKeys -> MailRow \cup {NoMail}] /\ MailsFollow(mail, mail')
       /\ \A q \in RegIds, n \in 1 .. LastOrdinal : mail[<<q, n>>] = NoMail => mail'[<<q, n>>] = NoMail
  <2>1. NewMail(0) \in MailRow /\ NewMail(0).otp = 0 /\ Welcome(p) \in MailKeys
    BY RegistrationAssumption DEF NewMail, MailRow, MailStates, Welcome, MailKeys, LastOrdinal
  <2>2. ASSUME NEW q \in RegIds, NEW n \in 1 .. LastOrdinal
        PROVE  <<q, n>> # Welcome(p) /\ <<q, n>> \in MailKeys
    <3>1. n # 0 /\ <<q, n>> \in MailKeys
      BY ChallengeRows
    <3> QED BY <3>1 DEF Welcome
  <2>3. mail \in [MailKeys -> MailRow \cup {NoMail}]
    BY <1>2 DEF RegistrationTypes
  <2>4. mail' \in [MailKeys -> MailRow \cup {NoMail}] /\ \A k \in MailKeys : k # Welcome(p) => mail'[k] = mail[k]
    BY <2>1, <2>3
  <2>5. Welcome(p)[2] = 0 /\ mail'[Welcome(p)] \in MailRow
    BY <2>1, <2>3 DEF Welcome
  <2>6. MailsFollow(mail, mail')
    BY <2>4, <2>5 DEF MailsFollow
  <2> QED BY <2>2, <2>4, <2>6
<1>11. /\ a \notin existing /\ madeBy[a] = {} /\ ~pending[p].decoy
       /\ madeBy' \in [Addresses -> SUBSET RegIds] /\ madeBy'[a] = {p}
       /\ \A b \in Addresses \ {a} : madeBy'[b] = madeBy[b]
  BY <1>1, <1>2 DEF CanActivate, HasAccount, RegistrationTypes
<1>12. RegistrationTypes'
  BY <1>2, <1>7, <1>8, <1>10, <1>11 DEF RegistrationTypes
<1>13. OneOwner'
  BY <1>1, <1>2, <1>11 DEF OneOwner
<1>14. \A b \in Addresses : HasAccount(b) => HasAccount(b)'
  BY <1>11 DEF HasAccount
<1>15. OldestFirst'
  BY <1>2, <1>3, <1>7 DEF OldestFirst
<1>16. ChallengesOwned' /\ CodesMailed' /\ OneOpen'
  BY <1>7, <1>8, <1>9, <1>10, RowsFollow
<1>17. MailInHand' /\ DecoysHaveAccounts'
  BY <1>8, <1>10, <1>14, HandsKept, DecoysKept
<1>18. SendsBounded'
  <2>1. ~HasAccount(a) /\ HasAccount(a)' /\ a = pending[p].address
    BY <1>11 DEF HasAccount
  <2>2. ASSUME NEW b \in Addresses, OpenFor(b), HasAccount(b)' => HasAccount(b) PROVE OpenFor(b)'
    <3>1. PICK q \in RegIds : Open(q) /\ pending[q].address = b
      BY <2>2 DEF OpenFor
    <3>2. q # p
      BY <2>1, <2>2, <3>1
    <3> QED BY <1>8, <1>9, <3>1, <3>2 DEF OpenFor
  <2> QED BY <1>7, <1>14, <2>2, SendsKept
<1>19. CompletedByOneCode'
  <2>1. Consumed(p) = {}
    BY <1>1, <1>2 DEF CompletedByOneCode
  <2>2. Consumed(p)' = {i} /\ \A q \in RegIds \ {p} : Consumed(q)' = Consumed(q)
    BY <1>1, <1>3, <1>7, <2>1 DEF Consumed
  <2>3. p \in madeBy'[a] /\ \A b \in Addresses : madeBy[b] \subseteq madeBy'[b]
    BY <1>11
  <2> SUFFICES ASSUME NEW q \in RegIds
               PROVE  IF pending'[q].status = "completed"
                      THEN /\ ~pending'[q].decoy /\ q \in madeBy'[pending'[q].address]
                           /\ \E j \in DOMAIN challenge' : Consumed(q)' = {j}
                      ELSE Consumed(q)' = {}
    BY DEF CompletedByOneCode
  <2>4. CASE q = p
    BY <1>1, <1>4, <1>7, <1>8, <1>11, <2>2, <2>3, <2>4
  <2>5. CASE q # p /\ pending[q].status # "completed"
    BY <1>2, <1>8, <2>2, <2>5 DEF CompletedByOneCode
  <2>6. CASE q # p /\ pending[q].status = "completed"
    <3>1. pending[q] \in RegRow /\ pending[q].address \in Addresses
      BY <1>2, <2>6, NoRows DEF RegistrationTypes, RegRow
    <3>2. /\ ~pending[q].decoy /\ q \in madeBy[pending[q].address]
          /\ \E j \in DOMAIN challenge : Consumed(q) = {j}
      BY <1>2, <2>6 DEF CompletedByOneCode
    <3> QED BY <1>7, <1>8, <2>2, <2>3, <2>6, <3>1, <3>2
  <2> QED BY <2>4, <2>5, <2>6
<1> QED BY <1>12, <1>13, <1>15, <1>16, <1>17, <1>18, <1>19 DEF RegistrationInv

\* A code is tried.
LEMMA VerifyKeeps ==
    ASSUME RegistrationInv, NEW p \in RegIds, NEW right \in BOOLEAN, Verify(p, right)
    PROVE  RegistrationInv'
<1>1. PICK i \in Active(p) :
        /\ Open(p) /\ UNCHANGED <<existing, registering, mailer, mailFaults>>
        /\ \/ /\ challenge' = [challenge EXCEPT ![i].status = "locked"]
              /\ UNCHANGED <<madeBy, pending, mail>>
           \/ /\ Guessable(i) /\ challenge' = [challenge EXCEPT ![i].guesses = @ + 1]
              /\ UNCHANGED <<madeBy, pending, mail>>
           \/ /\ Guessable(i) /\ CanActivate(p)
              /\ challenge' = [challenge EXCEPT ![i].status = "consumed", ![i].guesses = @ + 1]
              /\ madeBy' = [madeBy EXCEPT ![pending[p].address] = @ \cup {p}]
              /\ pending' = [pending EXCEPT ![p].status = "completed"]
              /\ mail' = [mail EXCEPT ![Welcome(p)] = NewMail(0)]
  BY DEF Verify
<1>2. /\ i \in DOMAIN challenge /\ challenge[i] \in ChallengeRow
      /\ challenge[i].reg = p /\ challenge[i].status = "active"
  BY <1>1, ActiveCode
<1>3. challenge[i].age \in Nat
  BY <1>2 DEF ChallengeRow, Fresh, HourOld
<1>4. ASSUME NEW row \in ChallengeRow, row.reg = challenge[i].reg, row.address = challenge[i].address,
             row.ordinal = challenge[i].ordinal, row.age = challenge[i].age, row.status # "consumed",
             challenge' = [challenge EXCEPT ![i] = row], UNCHANGED <<madeBy, pending, mail>>
      PROVE  RegistrationInv'
  <2>1. row.age >= challenge[i].age
    BY <1>3, <1>4
  <2>2. /\ DOMAIN challenge' = DOMAIN challenge
        /\ challenge'[i] = row /\ \A j \in DOMAIN challenge \ {i} : challenge'[j] = challenge[j]
    BY <1>2, <1>4, <2>1, CodeChanged
  <2>3. OldestFirst'
    BY <1>4, <2>2 DEF RegistrationInv, OldestFirst
  <2> QED BY <1>1, <1>2, <1>4, <2>1, <2>3, CodeKeeps
<1>5. CASE /\ challenge' = [challenge EXCEPT ![i].status = "locked"]
           /\ UNCHANGED <<madeBy, pending, mail>>
  <2> DEFINE row == [challenge[i] EXCEPT !.status = "locked"]
  <2>1. /\ row \in ChallengeRow /\ row.reg = challenge[i].reg /\ row.address = challenge[i].address
        /\ row.ordinal = challenge[i].ordinal /\ row.age = challenge[i].age /\ row.status # "consumed"
    BY <1>2 DEF ChallengeRow, ChallengeStates
  <2>2. challenge' = [challenge EXCEPT ![i] = row]
    BY <1>5
  <2> HIDE DEF row
  <2> QED BY <1>4, <1>5, <2>1, <2>2
<1>6. CASE /\ Guessable(i) /\ challenge' = [challenge EXCEPT ![i].guesses = @ + 1]
           /\ UNCHANGED <<madeBy, pending, mail>>
  <2> DEFINE row == [challenge[i] EXCEPT !.guesses = @ + 1]
  <2>1. /\ row \in ChallengeRow /\ row.reg = challenge[i].reg /\ row.address = challenge[i].address
        /\ row.ordinal = challenge[i].ordinal /\ row.age = challenge[i].age /\ row.status # "consumed"
    BY <1>2, <1>6, RegistrationAssumption DEF ChallengeRow, ChallengeStates, Guessable
  <2>2. challenge' = [challenge EXCEPT ![i] = row]
    BY <1>6
  <2> HIDE DEF row
  <2> QED BY <1>4, <1>6, <2>1, <2>2
<1> QED BY <1>1, <1>5, <1>6, ActivationKeeps



\* A registration is over a day old.  The codes of its address that are less
\* than an hour old were all made for it, and when nobody has the address yet
\* they have different ordinals, none of which is that of its first code.
LEMMA LapseKeeps ==
    ASSUME RegistrationInv, NEW p \in RegIds, RegistrationLapses(p)
    PROVE  RegistrationInv'
<1> PICK a : a = pending[p].address
  OBVIOUS
<1> DEFINE reg == [pending[p] EXCEPT !.lapsed = TRUE]
<1>1. /\ RegistrationTypes /\ ChallengesOwned /\ CodesMailed /\ OldestFirst /\ DecoysHaveAccounts
      /\ OneOpen /\ SendsBounded /\ OneOwner
  BY DEF RegistrationInv
<1>2. /\ Open(p) /\ pending' = [pending EXCEPT ![p] = reg]
      /\ UNCHANGED <<madeBy, existing, challenge, mail, registering, mailer, mailFaults>>
  BY DEF RegistrationLapses
<1>3. PICK i \in DOMAIN challenge : challenge[i].reg = p /\ challenge[i].age = HourOld
  BY DEF RegistrationLapses
<1>4. pending[p] \in RegRow /\ pending[p].status = "pending"
  BY <1>1, <1>2, NoRows DEF RegistrationTypes, Open
<1>5. /\ reg \in RegRow /\ reg.address = a /\ reg.decoy = pending[p].decoy
      /\ reg.status = "pending" /\ reg.lapsed = TRUE
  BY <1>4 DEF RegRow
<1> HIDE DEF reg
<1>6. /\ pending' \in [RegIds -> RegRow \cup {NoReg}]
      /\ pending'[p] = reg /\ \A q \in RegIds \ {p} : pending'[q] = pending[q]
  BY <1>1, <1>2, <1>5 DEF RegistrationTypes
<1>7. /\ RegsFollow(pending, pending') /\ \A q \in RegIds : pending[q] = NoReg => pending'[q] = NoReg
      /\ \A q \in RegIds : pending'[q].status = pending[q].status
  BY <1>4, <1>5, <1>6, NoRows DEF RegsFollow
<1>8. \A q \in RegIds : (Open(q)' => Open(q)) /\ (q # p /\ Open(q) => Open(q)')
  BY <1>5, <1>6 DEF Open
<1>9. CodesFollow(challenge, challenge') /\ MailsFollow(mail, mail') /\ challenge' \in Seq(ChallengeRow)
  <2>1. \A j \in DOMAIN challenge : challenge[j].age \in Fresh .. HourOld
    BY ChallengeRows
  <2>2. \A j \in DOMAIN challenge : challenge'[j] = challenge[j] /\ challenge'[j].age >= challenge[j].age
    BY <1>2, <2>1 DEF Fresh, HourOld
  <2> QED BY <1>1, <1>2, <2>2 DEF RegistrationTypes, CodesFollow, MailsFollow
<1>10. ChallengesOwned' /\ CodesMailed' /\ OneOpen'
  BY <1>2, <1>6, <1>7, <1>8, <1>9, RowsFollow
<1>11. MailInHand' /\ DecoysHaveAccounts'
  BY <1>2, <1>6, <1>7, <1>9, HandsKept, DecoysKept DEF HasAccount
<1>12. CompletedByOneCode' /\ OldestFirst' /\ OneOwner'
  BY <1>1, <1>2, <1>7, <1>9, CompletionKept DEF OldestFirst, OneOwner
<1>13. RegistrationTypes'
  BY <1>1, <1>2, <1>6 DEF RegistrationTypes
<1>14. SendsBounded'
  <2>1. a \in Addresses /\ challenge[i].address = a
    BY <1>1, <1>3, <1>4 DEF RegRow, ChallengesOwned
  <2>2. \A j \in Recent(a) : j # i /\ challenge[j].reg = p
    <3> SUFFICES ASSUME NEW j \in Recent(a) PROVE j # i /\ challenge[j].reg = p
      OBVIOUS
    <3>1. j \in DOMAIN challenge /\ challenge[j].address = a /\ challenge[j].age < HourOld
      BY DEF Recent
    <3>2. i \in Nat /\ j \in Nat /\ challenge[j].age \in Nat
      <4>1. challenge[j].age \in Fresh .. HourOld /\ DOMAIN challenge = 1 .. Len(challenge)
        BY <3>1, ChallengeRows
      <4> QED BY <1>3, <3>1, <4>1 DEF Fresh, HourOld
    <3>3. ~(challenge[j].age >= challenge[i].age)
      BY <1>3, <3>1, <3>2 DEF HourOld
    <3>4. j # i
      BY <1>3, <3>1, <3>2, <3>3
    <3>5. ~(j < i)
      BY <1>1, <1>3, <3>1, <3>3 DEF OldestFirst
    <3>6. i < j
      BY <3>2, <3>4, <3>5
    <3> QED BY <1>1, <1>2, <1>3, <2>1, <3>1, <3>4, <3>6 DEF OneOpen
  <2>3. /\ IsFiniteSet(RecentOf(p)) /\ Recent(a) \subseteq RecentOf(p)
        /\ RecentOf(p) \in SUBSET DOMAIN challenge
    <3>1. RecentOf(p) \in SUBSET DOMAIN challenge /\ Recent(a) \subseteq RecentOf(p)
      BY <2>2 DEF Recent, RecentOf
    <3> QED BY <3>1, ChallengeRows, FS_Subset
  <2>4. MaxSends \in Nat /\ Sends(a) \in Nat /\ Sends(a) <= MaxSends
    <3>1. /\ Cardinality(Recent(a)) <= Cardinality(RecentOf(p))
          /\ Cardinality(Recent(a)) \in Nat /\ Cardinality(RecentOf(p)) \in Nat
      BY <2>3, FS_Subset, FS_CardinalityType
    <3>2. Cardinality(RecentOf(p)) <= MaxSends /\ Sends(a) = Cardinality(Recent(a))
      BY <1>1 DEF SendsBounded, Sends, Recent
    <3> QED BY <3>1, <3>2, RegistrationAssumption
  <2>5. ASSUME ~HasAccount(a) PROVE Sends(a) + 1 <= MaxSends
    <3> DEFINE o == challenge[i].ordinal
               T == (1 .. MaxSends) \ {o}
               f == [j \in Recent(a) |-> challenge[j].ordinal]
    <3>1. ~pending[p].decoy
      BY <1>1, <1>4, <2>5, NoRows DEF DecoysHaveAccounts
    <3>2. \A j \in DOMAIN challenge : challenge[j].reg = p =>
             mail[<<p, challenge[j].ordinal>>].otp = j /\ challenge[j].ordinal \in 1 .. MaxSends
      BY <1>1, <3>1, ChallengeRows DEF CodesMailed
    <3>3. \A j \in Recent(a) : j \in DOMAIN challenge /\ challenge[j].reg = p /\ j # i
      BY <2>2 DEF Recent
    <3>4. f \in Injection(Recent(a), T)
      <4>1. ASSUME NEW j \in DOMAIN challenge, NEW k \in DOMAIN challenge, challenge[j].reg = p,
                   challenge[k].reg = p, challenge[j].ordinal = challenge[k].ordinal
            PROVE  j = k
        <5>1. mail[<<p, challenge[j].ordinal>>].otp = j /\ mail[<<p, challenge[k].ordinal>>].otp = k
          BY <3>2, <4>1
        <5>2. <<p, challenge[j].ordinal>> = <<p, challenge[k].ordinal>>
          BY <4>1
        <5> QED BY <5>1, <5>2
      <4>2. \A j \in Recent(a) : challenge[j].ordinal \in T
        BY <1>3, <3>2, <3>3, <4>1
      <4>3. \A j, k \in Recent(a) : challenge[j].ordinal = challenge[k].ordinal => j = k
        BY <3>3, <4>1
      <4> QED BY <4>2, <4>3 DEF Injection, IsInjective
    <3>5. IsFiniteSet(1 .. MaxSends) /\ Cardinality(1 .. MaxSends) = MaxSends
      BY <2>4, FS_Interval
    <3>6. IsFiniteSet(T) /\ Cardinality(T) = MaxSends - 1
      BY <1>3, <3>2, <3>5, FS_RemoveElement
    <3>7. Cardinality(Recent(a)) <= Cardinality(T)
      BY <3>4, <3>6, FS_Injection
    <3>8. Sends(a) = Cardinality(Recent(a))
      BY DEF Sends, Recent
    <3> HIDE DEF T
    <3> QED BY <2>4, <3>6, <3>7, <3>8
  <2>6. \A b \in Addresses : (HasAccount(b)' <=> HasAccount(b)) /\ Sends(b)' = Sends(b)
    BY <1>2 DEF HasAccount, Sends
  <2>7. Sends(a)' + 1 <= MaxSends + Room(a)'
    <3>1. Room(a)' = 0 \/ Room(a)' = 1 \/ Room(a)' = 2
      BY DEF Room
    <3>2. HasAccount(a) => Room(a)' = 1 \/ Room(a)' = 2
      BY <2>1, <2>6 DEF Room
    <3>3. Sends(a)' = Sends(a)
      BY <2>1, <2>6
    <3> QED BY <2>4, <2>5, <3>1, <3>2, <3>3
  <2>8. ASSUME NEW b \in Addresses, b # a PROVE Sends(b)' + 1 <= MaxSends + Room(b)'
    <3>1. OpenFor(b) <=> OpenFor(b)'
      BY <1>5, <1>6, <1>8, <2>8 DEF OpenFor
    <3>2. Room(b)' = Room(b)
      BY <2>6, <2>8, <3>1 DEF Room
    <3> QED BY <1>1, <2>6, <3>2 DEF SendsBounded
  <2>9. \A q \in RegIds : Cardinality(RecentOf(q)') <= MaxSends
    BY <1>1, <1>2 DEF SendsBounded, RecentOf
  <2>10. \A b \in Addresses : Sends(b)' + 1 <= MaxSends + Room(b)'
    BY <2>7, <2>8
  <2> QED BY <2>9, <2>10 DEF SendsBounded
<1> QED BY <1>10, <1>11, <1>12, <1>13, <1>14 DEF RegistrationInv

\* The codes are the same but for their guesses and for those that are replaced.
SameCodes(c, d) ==
    \A i \in DOMAIN c : /\ d[i].reg = c[i].reg /\ d[i].address = c[i].address
                        /\ d[i].ordinal = c[i].ordinal /\ d[i].age = c[i].age
                        /\ d[i].status = "consumed" <=> c[i].status = "consumed"

\* Code new with its mail row is made for registration p, which is or becomes
\* the open one of address a.
AddsCode(p, a, o, new, old, row) ==
    /\ new \in ChallengeRow /\ new.reg = p /\ new.address = a /\ new.ordinal = o
    /\ new.status = "active" /\ new.age = Fresh
    /\ old \in Seq(ChallengeRow) /\ DOMAIN old = DOMAIN challenge /\ SameCodes(challenge, old)
    /\ challenge' = Append(old, new)
    /\ pending' \in [RegIds -> RegRow \cup {NoReg}] /\ RegsFollow(pending, pending')
    /\ pending'[p] \in RegRow /\ pending'[p].address = a
    /\ Open(p)' /\ (Open(p) \/ pending[p] = NoReg)
    /\ \A q \in RegIds \ {p} : (Open(q)' => Open(q)) /\ (Open(q) => pending[q].address # a)
    /\ \A q \in RegIds : pending'[q].status = "completed" <=> pending[q].status = "completed"
    /\ row \in MailRow /\ row.otp = Len(challenge) + 1
    /\ mail' = IF pending'[p].decoy THEN mail ELSE [mail EXCEPT ![<<p, o>>] = row]
    /\ ~pending'[p].decoy => mail[<<p, o>>] = NoMail
    /\ UNCHANGED <<madeBy, existing, mailer, mailFaults>>

LEMMA CodeAdded ==
    ASSUME RegistrationInv, NEW p \in RegIds, NEW a \in Addresses, NEW o \in 1 .. MaxSends,
           NEW new, NEW old, NEW row, AddsCode(p, a, o, new, old, row)
    PROVE  /\ challenge' \in Seq(ChallengeRow) /\ CodesFollow(challenge, challenge')
           /\ DOMAIN challenge' = DOMAIN challenge \cup {Len(challenge) + 1}
           /\ challenge'[Len(challenge) + 1] = new
           /\ mail' \in [MailKeys -> MailRow \cup {NoMail}]
           /\ MailInHand' /\ ChallengesOwned' /\ CodesMailed' /\ OneOwner' /\ CompletedByOneCode'
           /\ OldestFirst' /\ OneOpen'
<1> USE DEF AddsCode
<1> PICK n : n = Len(challenge) + 1
  OBVIOUS
<1>1. /\ RegistrationTypes /\ ChallengesOwned /\ CodesMailed /\ OneOwner /\ OldestFirst /\ OneOpen
  BY DEF RegistrationInv
<1>2. /\ DOMAIN challenge = 1 .. Len(challenge) /\ Len(challenge) \in Nat
      /\ \A i \in DOMAIN challenge : challenge[i].age \in Fresh .. HourOld
  BY ChallengeRows
<1>3. Len(old) = Len(challenge)
  BY <1>2
<1>4. /\ challenge' \in Seq(ChallengeRow) /\ DOMAIN challenge' = DOMAIN challenge \cup {n}
      /\ challenge'[n] = new /\ \A i \in DOMAIN challenge : challenge'[i] = old[i]
      /\ n \in Nat /\ n \notin DOMAIN challenge /\ \A i \in DOMAIN challenge : i \in Nat /\ i < n
  BY <1>2, <1>3
<1>5. \A i \in DOMAIN challenge :
         /\ i \in DOMAIN challenge'
         /\ challenge'[i].reg = challenge[i].reg /\ challenge'[i].address = challenge[i].address
         /\ challenge'[i].ordinal = challenge[i].ordinal /\ challenge'[i].age = challenge[i].age
         /\ challenge'[i].age >= challenge[i].age
         /\ challenge'[i].status = "consumed" <=> challenge[i].status = "consumed"
  <2>1. \A i \in DOMAIN challenge : challenge[i].age >= challenge[i].age
    BY <1>2 DEF Fresh, HourOld
  <2> QED BY <1>4, <2>1 DEF SameCodes
<1>6. CodesFollow(challenge, challenge')
  BY <1>5 DEF CodesFollow
<1>7. /\ mail' \in [MailKeys -> MailRow \cup {NoMail}] /\ MailsFollow(mail, mail')
      /\ \A k \in MailKeys : k # <<p, o>> \/ pending'[p].decoy => mail'[k] = mail[k]
      /\ ~pending'[p].decoy => mail'[<<p, o>>] = row
  <2>1. mail \in [MailKeys -> MailRow \cup {NoMail}] /\ <<p, o>> \in MailKeys
    BY <1>1, ChallengeRows DEF RegistrationTypes
  <2>2. CASE pending'[p].decoy
    BY <2>1, <2>2 DEF MailsFollow
  <2>3. CASE ~pending'[p].decoy
    <3>1. /\ mail' = [mail EXCEPT ![<<p, o>>] = row] /\ mail[<<p, o>>] \notin MailRow
      BY <2>3, NoRows
    <3>2. /\ mail' \in [MailKeys -> MailRow \cup {NoMail}] /\ mail'[<<p, o>>] = row
          /\ \A k \in MailKeys : k # <<p, o>> => mail'[k] = mail[k]
      BY <2>1, <3>1
    <3> QED BY <2>3, <3>1, <3>2 DEF MailsFollow
  <2> QED BY <2>2, <2>3
<1>8. MailInHand'
  BY <1>7, HandsKept
<1>9. \A i \in DOMAIN challenge : /\ pending[challenge[i].reg] \in RegRow
                                  /\ pending'[challenge[i].reg] \in RegRow
                                  /\ pending'[challenge[i].reg].address = challenge[i].address
                                  /\ pending'[challenge[i].reg].decoy = pending[challenge[i].reg].decoy
  BY <1>1, ChallengeRows DEF ChallengesOwned, RegsFollow
<1>10. ChallengesOwned'
  <2> SUFFICES ASSUME NEW i \in DOMAIN challenge'
               PROVE  /\ pending'[challenge'[i].reg] \in RegRow
                      /\ pending'[challenge'[i].reg].address = challenge'[i].address
    BY DEF ChallengesOwned
  <2>1. CASE i = n
    BY <1>4, <2>1
  <2>2. CASE i \in DOMAIN challenge
    BY <1>5, <1>9, <2>2
  <2> QED BY <1>4, <2>1, <2>2
<1>11. CodesMailed'
  <2>1. ASSUME NEW i \in DOMAIN challenge, ~pending'[challenge'[i].reg].decoy
        PROVE  /\ mail'[<<challenge'[i].reg, challenge'[i].ordinal>>] \in MailRow
               /\ mail'[<<challenge'[i].reg, challenge'[i].ordinal>>].otp = i
    <3> PICK k : k = <<challenge[i].reg, challenge[i].ordinal>>
      OBVIOUS
    <3>1. <<challenge'[i].reg, challenge'[i].ordinal>> = k /\ k \in MailKeys
      BY <1>5, ChallengeRows
    <3>2. ~pending[challenge[i].reg].decoy
      BY <1>5, <1>9, <2>1
    <3>3. mail[k] \in MailRow /\ mail[k].otp = i
      BY <1>1, <3>2 DEF CodesMailed
    <3>4. k # <<p, o>> \/ pending'[p].decoy
      BY <3>3, NoRows
    <3>5. mail'[k] = mail[k]
      BY <1>7, <3>1, <3>4
    <3> QED BY <3>1, <3>3, <3>5
  <2>2. ASSUME ~pending'[challenge'[n].reg].decoy
        PROVE  /\ mail'[<<challenge'[n].reg, challenge'[n].ordinal>>] \in MailRow
               /\ mail'[<<challenge'[n].reg, challenge'[n].ordinal>>].otp = n
    BY <1>4, <1>7, <2>2
  <2>3. ASSUME NEW q \in RegIds, NEW m \in 1 .. LastOrdinal, mail'[<<q, m>>] # NoMail
        PROVE  pending'[q] \in RegRow /\ ~pending'[q].decoy
    <3>1. CASE mail[<<q, m>>] # NoMail
      BY <1>1, <3>1 DEF CodesMailed, RegsFollow
    <3>2. CASE mail[<<q, m>>] = NoMail
      <4>1. <<q, m>> = <<p, o>> /\ ~pending'[p].decoy
        BY <1>7, <2>3, <3>2, ChallengeRows
      <4>2. q = p
        BY <4>1
      <4> QED BY <4>1, <4>2
    <3> QED BY <3>1, <3>2
  <2> QED BY <1>4, <2>1, <2>2, <2>3 DEF CodesMailed
<1>12. OneOwner'
  BY <1>1 DEF OneOwner
<1>13. CompletedByOneCode'
  <2>1. \A i \in DOMAIN challenge' : challenge'[i].status = "consumed" =>
           i \in DOMAIN challenge /\ challenge[i].status = "consumed"
    BY <1>4, <1>5
  <2> QED BY <1>5, <1>6, <2>1, CompletionKept
<1>14. OldestFirst'
  <2>1. \A i \in DOMAIN challenge : challenge'[i].age >= challenge'[n].age
    <3>1. challenge'[n].age = 0
      BY <1>4 DEF Fresh
    <3> SUFFICES ASSUME NEW i \in DOMAIN challenge PROVE challenge'[i].age >= 0
      BY <3>1
    <3>2. challenge[i].age \in Fresh .. HourOld
      BY <1>2
    <3>3. challenge'[i].age = challenge[i].age
      BY <1>5
    <3>4. challenge[i].age >= 0
      BY <3>2 DEF Fresh, HourOld
    <3> QED BY <3>3, <3>4
  <2> SUFFICES ASSUME NEW i \in DOMAIN challenge', NEW j \in DOMAIN challenge', i < j
               PROVE  challenge'[i].age >= challenge'[j].age
    BY DEF OldestFirst
  <2>2. i \in DOMAIN challenge
    BY <1>4
  <2>3. CASE j = n
    BY <2>1, <2>2, <2>3
  <2>4. CASE j \in DOMAIN challenge
    BY <1>1, <1>5, <2>2, <2>4 DEF OldestFirst
  <2> QED BY <1>4, <2>3, <2>4
<1>15. OneOpen'
  <2>1. \A q \in RegIds : Open(q)' /\ pending'[q].address = a => q = p
    <3> SUFFICES ASSUME NEW q \in RegIds \ {p}, Open(q)' PROVE pending'[q].address # a
      OBVIOUS
    <3>1. Open(q) /\ pending[q].address # a
      OBVIOUS
    <3>2. pending[q] \in RegRow
      BY <1>1, <3>1, NoRows DEF Open, RegistrationTypes
    <3> QED BY <3>1, <3>2 DEF RegsFollow
  <2>2. \A q \in RegIds \ {p} : Open(q)' => Open(q) /\ pending'[q].address = pending[q].address
    BY <1>1, NoRows DEF Open, RegistrationTypes, RegsFollow
  <2>3. ASSUME NEW q \in RegIds, NEW r \in RegIds, Open(q)', Open(r)',
               pending'[q].address = pending'[r].address
        PROVE  q = r
    <3>1. CASE q = p \/ r = p
      BY <2>1, <2>3, <3>1
    <3>2. CASE q # p /\ r # p
      BY <1>1, <2>2, <2>3, <3>2 DEF OneOpen
    <3> QED BY <3>1, <3>2
  <2>4. ASSUME NEW i \in DOMAIN challenge', NEW j \in DOMAIN challenge', i < j,
               NEW r, r = challenge'[i].reg, Open(r)', challenge'[j].address = challenge'[i].address
        PROVE  challenge'[j].reg = r
    <3>1. i \in DOMAIN challenge /\ r = challenge[i].reg /\ r \in RegIds
      <4>1. i \in DOMAIN challenge
        BY <1>4, <2>4
      <4>2. r = challenge[i].reg
        BY <1>5, <2>4, <4>1
      <4> QED BY <4>1, <4>2, ChallengeRows
    <3>2. pending'[r].address = challenge[i].address
      BY <1>9, <3>1
    <3>3. CASE j = n
      BY <1>4, <1>5, <2>1, <2>4, <3>1, <3>2, <3>3
    <3>4. CASE j \in DOMAIN challenge
      <4>1. challenge[j].address = challenge[i].address
        BY <1>5, <2>4, <3>1, <3>4
      <4>2. Open(r)
        <5>1. CASE r # p
          BY <2>2, <2>4, <3>1, <5>1
        <5>2. CASE r = p
          BY <1>9, <3>1, <5>2, NoRows
        <5> QED BY <5>1, <5>2
      <4>3. challenge[j].reg = challenge[i].reg
        BY <1>1, <2>4, <3>1, <3>4, <4>1, <4>2 DEF OneOpen
      <4> QED BY <1>5, <3>1, <3>4, <4>3
    <3> QED BY <1>4, <3>3, <3>4
  <2> QED BY <2>3, <2>4 DEF OneOpen, Open
<1> QED BY <1>4, <1>6, <1>7, <1>8, <1>10, <1>11, <1>12, <1>13, <1>14, <1>15

\* A new code and the room there was for it.
LEMMA SendsAfterCode ==
    ASSUME RegistrationInv, NEW p \in RegIds, NEW a \in Addresses, NEW n, n = Len(challenge) + 1,
           challenge' \in Seq(ChallengeRow), CodesFollow(challenge, challenge'),
           DOMAIN challenge' = DOMAIN challenge \cup {n},
           challenge'[n].reg = p, challenge'[n].address = a, ChallengesOwned',
           UNCHANGED <<madeBy, existing>>,
           \A b \in Addresses \ {a} : OpenFor(b) => OpenFor(b)', OpenFor(a)',
           \/ Sends(a) < MaxSends
           \/ ~OpenFor(a) /\ RecentOf(p) = {}
    PROVE  SendsBounded'
<1>1. {n} \in SUBSET {Len(challenge) + 1} /\ SendsBounded /\ MaxSends \in Nat /\ MaxSends >= 1
  BY RegistrationAssumption DEF RegistrationInv
<1>2. \A b \in Addresses : HasAccount(b)' <=> HasAccount(b)
  BY DEF HasAccount
<1>3. ASSUME NEW b \in Addresses, NEW q \in RegIds
      PROVE  /\ Sends(b) \in Nat /\ Sends(b)' \in Nat
             /\ Cardinality(RecentOf(q)) \in Nat /\ Cardinality(RecentOf(q)') \in Nat
             /\ Sends(b)' <= Sends(b) + 1 /\ Cardinality(RecentOf(q)') <= Cardinality(RecentOf(q)) + 1
             /\ b # a => Sends(b)' <= Sends(b)
             /\ q # p => Cardinality(RecentOf(q)') <= Cardinality(RecentOf(q))
  BY <1>1, RecentCodes
<1>4. ASSUME NEW b \in Addresses PROVE Sends(b)' + 1 <= MaxSends + Room(b)'
  <2>1. /\ Sends(b) \in Nat /\ Sends(b)' \in Nat /\ Sends(b)' <= Sends(b) + 1
        /\ b # a => Sends(b)' <= Sends(b)
    BY <1>3
  <2>2. Sends(b) + 1 <= MaxSends + Room(b)
    BY <1>1 DEF SendsBounded
  <2>3. CASE b # a
    <3>1. Room(b) \in Nat /\ Room(b)' \in Nat /\ Room(b) <= Room(b)'
      BY <1>2, <2>3 DEF Room
    <3> QED BY <1>1, <2>1, <2>2, <2>3, <3>1
  <2>4. CASE b = a /\ Sends(a) < MaxSends
    <3>1. Room(b)' \in Nat /\ Room(b)' >= 1
      BY <2>4 DEF Room
    <3> QED BY <1>1, <2>1, <2>4, <3>1
  <2>5. CASE b = a /\ ~OpenFor(a)
    <3>1. Room(b)' \in Nat /\ Room(b) \in Nat /\ Room(b)' = Room(b) + 1
      BY <1>2, <2>5 DEF Room
    <3> QED BY <1>1, <2>1, <2>2, <3>1
  <2> QED BY <2>3, <2>4, <2>5
<1>5. ASSUME NEW q \in RegIds PROVE Cardinality(RecentOf(q)') <= MaxSends
  <2>1. /\ Cardinality(RecentOf(q)) \in Nat /\ Cardinality(RecentOf(q)') \in Nat
        /\ Cardinality(RecentOf(q)') <= Cardinality(RecentOf(q)) + 1
        /\ q # p => Cardinality(RecentOf(q)') <= Cardinality(RecentOf(q))
        /\ Sends(a) \in Nat /\ Sends(a)' \in Nat /\ Sends(a)' <= Sends(a) + 1
    BY <1>3
  <2>2. CASE q # p
    BY <1>1, <2>1, <2>2 DEF SendsBounded
  <2>3. CASE q = p /\ RecentOf(p) = {}
    BY <1>1, <2>1, <2>3, FS_EmptySet
  <2>4. CASE q = p /\ Sends(a) < MaxSends
    <3>1. \A i \in DOMAIN challenge' : challenge'[i].reg = p => challenge'[i].address = a
      BY DEF ChallengesOwned
    <3>2. RecentOf(p)' \subseteq Recent(a)' /\ Recent(a)' \in SUBSET DOMAIN challenge'
      BY <3>1 DEF RecentOf, Recent
    <3>3. IsFiniteSet(Recent(a)')
      <4>1. IsFiniteSet(DOMAIN challenge \cup {n})
        BY ChallengeRows, FS_AddElement
      <4> QED BY <3>2, <4>1, FS_Subset
    <3>4. Cardinality(RecentOf(p)') <= Cardinality(Recent(a)') /\ Sends(a)' = Cardinality(Recent(a)')
      BY <3>2, <3>3, FS_Subset DEF Sends, Recent
    <3> QED BY <1>1, <2>1, <2>4, <3>4
  <2> QED BY <2>2, <2>3, <2>4
<1> QED BY <1>4, <1>5 DEF SendsBounded

\* The row of a new code and of its mail.
LEMMA NewRows ==
    ASSUME NEW p \in RegIds, NEW a \in Addresses, NEW o \in 1 .. MaxSends, NEW n \in Nat
    PROVE  /\ NewMail(n) \in MailRow /\ NewMail(n).otp = n
           /\ NewChallenge(p, a, o) \in ChallengeRow
           /\ NewChallenge(p, a, o).reg = p /\ NewChallenge(p, a, o).address = a
           /\ NewChallenge(p, a, o).ordinal = o /\ NewChallenge(p, a, o).status = "active"
           /\ NewChallenge(p, a, o).age = Fresh
<1>1. MaxGuesses \in Nat
  BY RegistrationAssumption
<1>2. NewMail(n) \in MailRow /\ NewMail(n).otp = n
  BY DEF NewMail, MailRow, MailStates
<1> QED BY <1>1, <1>2 DEF NewChallenge, ChallengeRow, ChallengeStates, Fresh, HourOld

\* A code is sent again.
LEMMA ResendKeeps ==
    ASSUME RegistrationInv, NEW p \in RegIds, Resend(p)
    PROVE  RegistrationInv'
<1> PICK a, o, n : a = pending[p].address /\ o = Ordinal(p) /\ n = Len(challenge) + 1
  OBVIOUS
<1> DEFINE new == NewChallenge(p, a, o)
           row == NewMail(n)
           old == Invalidated(p)
<1>1. RegistrationTypes /\ OneOpen /\ Len(challenge) \in Nat
  BY ChallengeRows DEF RegistrationInv
<1>2. /\ Open(p) /\ Sends(a) < MaxSends /\ (pending[p].decoy \/ mail[<<p, o>>] = NoMail)
      /\ challenge' = Append(old, new)
      /\ mail' = IF pending[p].decoy THEN mail ELSE [mail EXCEPT ![<<p, o>>] = row]
      /\ UNCHANGED <<madeBy, existing, pending, registering, mailer, mailFaults>>
  BY DEF Resend, ResendDue, KeyConflict
<1>3. pending[p] \in RegRow /\ a \in Addresses
  BY <1>1, <1>2, NoRows DEF Open, RegistrationTypes, RegRow
<1>4. o \in 1 .. MaxSends /\ n \in Nat
  <2>1. Recent(a) \in SUBSET DOMAIN challenge /\ Sends(a) = Cardinality(Recent(a))
    BY DEF Recent, Sends
  <2>2. Sends(a) \in Nat
    BY <2>1, ChallengeRows, FS_Subset, FS_CardinalityType
  <2> QED BY <1>1, <1>2, <2>2, RegistrationAssumption DEF Ordinal
<1>5. /\ new \in ChallengeRow /\ new.reg = p /\ new.address = a /\ new.ordinal = o
      /\ new.status = "active" /\ new.age = Fresh /\ row \in MailRow /\ row.otp = n
  BY <1>3, <1>4, NewRows
<1>6. /\ old \in Seq(ChallengeRow) /\ DOMAIN old = DOMAIN challenge /\ SameCodes(challenge, old)
  <2>1. /\ \A i \in DOMAIN challenge : challenge[i] \in ChallengeRow
        /\ DOMAIN challenge = 1 .. Len(challenge)
    BY ChallengeRows
  <2>2. \A i \in DOMAIN challenge :
           /\ old[i] \in ChallengeRow
           /\ old[i].reg = challenge[i].reg /\ old[i].address = challenge[i].address
           /\ old[i].ordinal = challenge[i].ordinal /\ old[i].age = challenge[i].age
           /\ old[i].status = "consumed" <=> challenge[i].status = "consumed"
    BY <2>1 DEF Invalidated, Active, ChallengeRow, ChallengeStates
  <2>3. old = [i \in 1 .. Len(challenge) |-> old[i]]
    BY <2>1 DEF Invalidated
  <2> HIDE DEF old
  <2>4. old \in Seq(ChallengeRow)
    BY <1>1, <2>1, <2>2, <2>3
  <2> QED BY <2>1, <2>2, <2>3, <2>4 DEF SameCodes
<1> HIDE DEF new, row, old
<1>7. RegsFollow(pending, pending') /\ pending' \in [RegIds -> RegRow \cup {NoReg}]
  BY <1>1, <1>2 DEF RegsFollow, RegistrationTypes
<1>8. \A q \in RegIds : Open(q)' <=> Open(q)
  BY <1>2 DEF Open
<1>9. /\ pending'[p] \in RegRow /\ pending'[p].address = a
      /\ mail' = IF pending'[p].decoy THEN mail ELSE [mail EXCEPT ![<<p, o>>] = row]
      /\ ~pending'[p].decoy => mail[<<p, o>>] = NoMail
      /\ \A q \in RegIds : pending'[q].status = "completed" <=> pending[q].status = "completed"
      /\ \A q \in RegIds \ {p} : (Open(q)' => Open(q)) /\ (Open(q) => pending[q].address # a)
  BY <1>1, <1>2, <1>3, <1>8 DEF OneOpen
<1>10. /\ challenge' \in Seq(ChallengeRow) /\ CodesFollow(challenge, challenge')
       /\ DOMAIN challenge' = DOMAIN challenge \cup {n} /\ challenge'[n] = new
       /\ mail' \in [MailKeys -> MailRow \cup {NoMail}]
       /\ MailInHand' /\ ChallengesOwned' /\ CodesMailed' /\ OneOwner' /\ CompletedByOneCode'
       /\ OldestFirst' /\ OneOpen'
  <2>1. AddsCode(p, a, o, new, old, row)
    BY <1>2, <1>5, <1>6, <1>7, <1>8, <1>9 DEF AddsCode
  <2> QED BY <1>3, <1>4, <2>1, CodeAdded
<1>11. RegistrationTypes'
  BY <1>1, <1>2, <1>7, <1>10 DEF RegistrationTypes
<1>12. DecoysHaveAccounts'
  BY <1>2, <1>7, DecoysKept DEF HasAccount
<1>13. SendsBounded'
  <2>1. OpenFor(a) /\ \A b \in Addresses : OpenFor(b)' <=> OpenFor(b)
    BY <1>2, <1>3 DEF OpenFor, Open
  <2> QED BY <1>2, <1>3, <1>5, <1>10, <2>1, SendsAfterCode
<1> QED BY <1>10, <1>11, <1>12, <1>13 DEF RegistrationInv

\* The registrations of L are closed, and their active codes with them.
Closed(L) == [p \in RegIds |-> IF p \in L THEN [pending[p] EXCEPT !.status = "expired"] ELSE pending[p]]
Ended(L)  == [i \in DOMAIN challenge |->
                 IF challenge[i].reg \in L /\ challenge[i].status = "active"
                 THEN [challenge[i] EXCEPT !.status = "invalidated"] ELSE challenge[i]]

LEMMA ClosingKeeps ==
    ASSUME RegistrationInv, NEW L \in SUBSET RegIds,
           \A p \in L : pending[p].status = "pending" /\ pending[p].lapsed
    PROVE  /\ Ended(L) \in Seq(ChallengeRow) /\ DOMAIN Ended(L) = DOMAIN challenge
           /\ SameCodes(challenge, Ended(L))
           /\ Closed(L) \in [RegIds -> RegRow \cup {NoReg}] /\ RegsFollow(pending, Closed(L))
           /\ \A p \in RegIds : /\ p \notin L => Closed(L)[p] = pending[p]
                                /\ p \in L => Closed(L)[p].status = "expired" /\ pending[p] \in RegRow
<1>1. /\ \A i \in DOMAIN challenge : challenge[i] \in ChallengeRow
      /\ DOMAIN challenge = 1 .. Len(challenge) /\ Len(challenge) \in Nat
  BY ChallengeRows
<1>2. \A i \in DOMAIN challenge :
         /\ Ended(L)[i] \in ChallengeRow
         /\ Ended(L)[i].reg = challenge[i].reg /\ Ended(L)[i].address = challenge[i].address
         /\ Ended(L)[i].ordinal = challenge[i].ordinal /\ Ended(L)[i].age = challenge[i].age
         /\ Ended(L)[i].status = "consumed" <=> challenge[i].status = "consumed"
  BY <1>1 DEF Ended, ChallengeRow, ChallengeStates
<1>3. Ended(L) = [i \in 1 .. Len(challenge) |-> Ended(L)[i]] /\ DOMAIN Ended(L) = DOMAIN challenge
  BY <1>1 DEF Ended
<1>4. Ended(L) \in Seq(ChallengeRow) /\ SameCodes(challenge, Ended(L))
  BY <1>1, <1>2, <1>3 DEF SameCodes
<1>5. \A p \in RegIds : pending[p] \in RegRow \cup {NoReg}
  BY DEF RegistrationInv, RegistrationTypes
<1>6. \A p \in L : pending[p] \in RegRow
  BY <1>5, NoRows
<1>7. \A p \in L : /\ Closed(L)[p] \in RegRow /\ Closed(L)[p].address = pending[p].address
                   /\ Closed(L)[p].decoy = pending[p].decoy /\ Closed(L)[p].status = "expired"
  BY <1>6 DEF Closed, RegRow, RegStates
<1>8. \A p \in RegIds : p \notin L => Closed(L)[p] = pending[p]
  BY DEF Closed
<1>9. Closed(L) \in [RegIds -> RegRow \cup {NoReg}]
  <2>1. \A p \in RegIds : Closed(L)[p] \in RegRow \cup {NoReg}
    BY <1>5, <1>7, <1>8
  <2>2. Closed(L) = [p \in RegIds |-> Closed(L)[p]]
    BY DEF Closed
  <2> HIDE DEF Closed
  <2> QED BY <2>1, <2>2
<1>10. RegsFollow(pending, Closed(L))
  BY <1>7, <1>8 DEF RegsFollow
<1> QED BY <1>3, <1>4, <1>6, <1>7, <1>8, <1>9, <1>10

\* A request registers, reusing the open row of the address or inserting one.
LEMMA RegisterKeeps ==
    ASSUME RegistrationInv, NEW c \in Clients, Register(c)
    PROVE  RegistrationInv'
<1> PICK a, L, n : /\ a = registering[c].address /\ n = Len(challenge) + 1
                   /\ L = {p \in RegIds : /\ pending[p].status = "pending" /\ pending[p].address = a
                                          /\ pending[p].lapsed}
  OBVIOUS
<1> PICK closed, ended : closed = Closed(L) /\ ended = Ended(L)
  OBVIOUS
<1>1. /\ registering[c].at = "read" /\ registering' = [registering EXCEPT ![c] = AtRest]
      /\ UNCHANGED <<madeBy, existing, mailer, mailFaults>>
  BY DEF Register
<1>2. \/ pending' = closed /\ challenge' = ended /\ mail' = mail
      \/ /\ {p \in RegIds : Open(p) /\ pending[p].address = a} = {}
         /\ \E p \in {q \in RegIds : pending[q] = NoReg} :
               /\ pending' = [closed EXCEPT ![p] = [status |-> "pending", address |-> a, lapsed |-> FALSE,
                                                    decoy |-> registering[c].decoy]]
               /\ challenge' = Append(ended, NewChallenge(p, a, 1))
               /\ mail' = IF registering[c].decoy THEN mail ELSE [mail EXCEPT ![<<p, 1>>] = NewMail(n)]
  BY DEF Register, Closed, Ended
<1>3. /\ RegistrationTypes /\ ChallengesOwned /\ CodesMailed /\ OneOwner /\ OldestFirst
      /\ DecoysHaveAccounts /\ Len(challenge) \in Nat
      /\ \A i \in DOMAIN challenge : challenge[i].age \in Fresh .. HourOld
  BY ChallengeRows DEF RegistrationInv
<1>4. a \in Addresses /\ registering[c].decoy \in BOOLEAN /\ (registering[c].decoy => HasAccount(a))
  BY <1>1, <1>3, NoRows DEF RegistrationTypes, DecoysHaveAccounts
<1>5. /\ ended \in Seq(ChallengeRow) /\ DOMAIN ended = DOMAIN challenge /\ SameCodes(challenge, ended)
      /\ closed \in [RegIds -> RegRow \cup {NoReg}] /\ RegsFollow(pending, closed)
      /\ \A p \in RegIds : /\ p \notin L => closed[p] = pending[p]
                           /\ p \in L => closed[p].status = "expired" /\ pending[p] \in RegRow
  BY ClosingKeeps
<1>6. \A p \in L : pending[p].status = "pending" /\ pending[p].lapsed
  OBVIOUS
<1>7. /\ registering' \in [Clients -> [at : {"read"}, address : Addresses, decoy : BOOLEAN] \cup {AtRest}]
      /\ \A d \in Clients : registering'[d] = registering[d] \/ registering'[d] = AtRest
  BY <1>1, <1>3 DEF RegistrationTypes
<1>8. \A b \in Addresses : HasAccount(b)' <=> HasAccount(b)
  BY <1>1 DEF HasAccount
<1>9. CASE pending' = closed /\ challenge' = ended /\ mail' = mail
  <2>1. CodesFollow(challenge, challenge') /\ MailsFollow(mail, mail')
    <3>1. \A i \in DOMAIN challenge : challenge[i].age >= challenge[i].age
      BY <1>3 DEF Fresh, HourOld
    <3> QED BY <1>5, <1>9, <3>1 DEF SameCodes, CodesFollow, MailsFollow
  <2>2. \A p \in RegIds : Open(p)' <=> Open(p)
    BY <1>5, <1>6, <1>9 DEF Open
  <2>3. /\ RegsFollow(pending, pending') /\ pending' \in [RegIds -> RegRow \cup {NoReg}]
        /\ \A p \in RegIds : pending[p] = NoReg => pending'[p] = NoReg
        /\ \A p \in RegIds : pending'[p].status = "completed" <=> pending[p].status = "completed"
    BY <1>5, <1>6, <1>9, NoRows
  <2>4. ChallengesOwned' /\ CodesMailed' /\ OneOpen'
    BY <1>5, <1>9, <2>1, <2>2, <2>3, RowsFollow
  <2>5. MailInHand' /\ DecoysHaveAccounts'
    BY <1>1, <1>7, <1>8, <2>1, <2>3, HandsKept, DecoysKept
  <2>6. CompletedByOneCode'
    <3>1. \A i \in DOMAIN challenge : challenge'[i].status = "consumed" <=> challenge[i].status = "consumed"
      BY <1>5, <1>9 DEF SameCodes
    <3> QED BY <1>1, <1>5, <1>9, <2>1, <2>3, <3>1, CompletionKept
  <2>7. OneOwner' /\ OldestFirst'
    <3>1. \A i \in DOMAIN challenge : challenge'[i].age = challenge[i].age
      BY <1>5, <1>9 DEF SameCodes
    <3>2. DOMAIN challenge' = DOMAIN challenge
      BY <1>5, <1>9
    <3>3. OldestFirst'
      BY <1>3, <3>1, <3>2 DEF OldestFirst
    <3> QED BY <1>1, <1>3, <3>3 DEF OneOwner
  <2>8. SendsBounded'
    <3>1. ASSUME NEW b \in Addresses, OpenFor(b) PROVE OpenFor(b)'
      <4>1. PICK q \in RegIds : Open(q) /\ pending[q].address = b
        BY <3>1 DEF OpenFor
      <4>2. q \notin L
        BY <1>6, <4>1 DEF Open
      <4> QED BY <1>5, <1>9, <2>2, <4>1, <4>2 DEF OpenFor
    <3> QED BY <1>5, <1>8, <1>9, <2>1, <3>1, SendsKept
  <2>9. RegistrationTypes'
    BY <1>1, <1>3, <1>5, <1>7, <1>9 DEF RegistrationTypes
  <2> QED BY <2>4, <2>5, <2>6, <2>7, <2>8, <2>9 DEF RegistrationInv
<1>10. ASSUME NEW p \in RegIds, pending[p] = NoReg,
              {q \in RegIds : Open(q) /\ pending[q].address = a} = {},
              pending' = [closed EXCEPT ![p] = [status |-> "pending", address |-> a, lapsed |-> FALSE,
                                                decoy |-> registering[c].decoy]],
              challenge' = Append(ended, NewChallenge(p, a, 1)),
              mail' = IF registering[c].decoy THEN mail ELSE [mail EXCEPT ![<<p, 1>>] = NewMail(n)]
       PROVE  RegistrationInv'
  <2> PICK o, new, row : o = 1 /\ new = NewChallenge(p, a, 1) /\ row = NewMail(n)
    OBVIOUS
  <2> DEFINE reg == [status |-> "pending", address |-> a, lapsed |-> FALSE, decoy |-> registering[c].decoy]
  <2>1. /\ reg \in RegRow /\ reg.address = a /\ reg.status = "pending" /\ reg.lapsed = FALSE
        /\ reg.decoy = registering[c].decoy
    BY <1>4 DEF RegRow, RegStates
  <2>2. pending' = [closed EXCEPT ![p] = reg]
    BY <1>10
  <2> HIDE DEF reg
  <2>3. o \in 1 .. MaxSends /\ n \in Nat
    BY <1>3, RegistrationAssumption
  <2>4. /\ new \in ChallengeRow /\ new.reg = p /\ new.address = a /\ new.ordinal = o
        /\ new.status = "active" /\ new.age = Fresh /\ row \in MailRow /\ row.otp = n
    BY <1>4, <2>3, NewRows
  <2>5. p \notin L
    BY <1>6, <1>10, NoRows
  <2>6. /\ pending' \in [RegIds -> RegRow \cup {NoReg}] /\ pending'[p] = reg
        /\ \A q \in RegIds \ {p} : pending'[q] = closed[q]
    BY <1>5, <2>1, <2>2
  <2>7. /\ RegsFollow(pending, pending')
        /\ \A q \in RegIds : pending'[q].status = "completed" <=> pending[q].status = "completed"
    <3>1. RegsFollow(pending, pending')
      BY <1>5, <1>10, <2>6, NoRows DEF RegsFollow
    <3>2. pending'[p].status # "completed" /\ pending[p].status # "completed"
      BY <1>10, <2>1, <2>6, NoRows
    <3>3. \A q \in RegIds \ {p} : pending'[q].status = "completed" <=> pending[q].status = "completed"
      BY <1>5, <1>6, <2>6
    <3> QED BY <3>1, <3>2, <3>3
  <2>8. Open(p)' /\ \A q \in RegIds \ {p} : Open(q)' <=> Open(q)
    BY <1>5, <1>6, <2>1, <2>6 DEF Open
  <2>9. mail[<<p, 1>>] = NoMail
    <3>1. 1 \in 1 .. LastOrdinal
      BY RegistrationAssumption DEF LastOrdinal
    <3> QED BY <1>3, <1>10, <3>1, NoRows DEF CodesMailed
  <2>10. AddsCode(p, a, o, new, ended, row)
    <3>1. \A q \in RegIds \ {p} : (Open(q)' => Open(q)) /\ (Open(q) => pending[q].address # a)
      BY <1>10, <2>8
    <3>2. /\ mail' = IF pending'[p].decoy THEN mail ELSE [mail EXCEPT ![<<p, o>>] = row]
          /\ pending'[p].address = a /\ pending'[p] \in RegRow
      BY <1>10, <2>1, <2>6
    <3> QED BY <1>1, <1>5, <1>10, <2>4, <2>6, <2>7, <2>8, <2>9, <3>1, <3>2 DEF AddsCode
  <2>11. /\ challenge' \in Seq(ChallengeRow) /\ CodesFollow(challenge, challenge')
         /\ DOMAIN challenge' = DOMAIN challenge \cup {n} /\ challenge'[n] = new
         /\ mail' \in [MailKeys -> MailRow \cup {NoMail}]
         /\ MailInHand' /\ ChallengesOwned' /\ CodesMailed' /\ OneOwner' /\ CompletedByOneCode'
         /\ OldestFirst' /\ OneOpen'
    BY <1>4, <2>3, <2>10, CodeAdded
  <2>12. RegistrationTypes'
    BY <1>1, <1>3, <1>7, <2>6, <2>11 DEF RegistrationTypes
  <2>13. DecoysHaveAccounts'
    <3>1. \A q \in RegIds : pending[q] = NoReg /\ pending'[q] # NoReg => q = p
      BY <1>5, <2>6, NoRows
    <3>2. pending'[p].decoy => HasAccount(pending[p].address)'
      BY <1>1, <1>4, <2>1, <2>6 DEF HasAccount
    <3> QED BY <1>7, <1>8, <2>6, <2>7, <3>1, <3>2, DecoysKept
  <2>14. SendsBounded'
    <3>1. ~OpenFor(a) /\ OpenFor(a)'
      BY <1>10, <2>1, <2>6, <2>8 DEF OpenFor
    <3>2. RecentOf(p) = {}
      BY <1>3, <1>10, NoRows DEF RecentOf, ChallengesOwned
    <3>3. ASSUME NEW b \in Addresses, OpenFor(b), b # a PROVE OpenFor(b)'
      <4>1. PICK q \in RegIds : Open(q) /\ pending[q].address = b
        BY <3>3 DEF OpenFor
      <4>2. q \notin L /\ q # p
        BY <1>6, <1>10, <4>1, NoRows DEF Open
      <4> QED BY <1>5, <2>6, <2>8, <4>1, <4>2 DEF OpenFor
    <3> QED BY <1>1, <1>4, <2>4, <2>11, <3>1, <3>2, <3>3, SendsAfterCode
  <2> QED BY <2>11, <2>12, <2>13, <2>14 DEF RegistrationInv
<1> QED BY <1>2, <1>9, <1>10

LEMMA RegistrationKeeps == RegistrationInv /\ [RegistrationNext]_registrationVars => RegistrationInv'
<1> SUFFICES ASSUME RegistrationInv, [RegistrationNext]_registrationVars PROVE RegistrationInv'
  OBVIOUS
<1>1. ASSUME NEW w \in Mailers, MailerWorks(w) \/ MailerDies(w) \/ \E k \in MailKeys : ClaimMail(w, k)
      PROVE  RegistrationInv'
  BY <1>1, MailersKeep DEF MailerWorks
<1>2. ASSUME NEW c \in Clients, Register(c) \/ \E a \in Addresses : RegisterBegins(c, a)
      PROVE  RegistrationInv'
  BY <1>2, RegisterKeeps, BeginKeeps
<1>3. ASSUME NEW p \in RegIds, Resend(p) \/ RegistrationLapses(p) \/ \E right \in BOOLEAN : Verify(p, right)
      PROVE  RegistrationInv'
  BY <1>3, ResendKeeps, LapseKeeps, VerifyKeeps
<1>4. CASE UNCHANGED registrationVars
  <2>1. UNCHANGED <<madeBy, existing, pending, challenge, mail, registering, mailer, mailFaults>>
    BY <1>4 DEF registrationVars
  <2>2. RegistrationTypes' /\ MailInHand' /\ MailsFollow(mail, mail')
    BY <2>1 DEF RegistrationInv, RegistrationTypes, MailInHand, MailsFollow
  <2>3. mail' \in [MailKeys -> MailRow \cup {NoMail}]
    BY <2>2 DEF RegistrationTypes
  <2> QED BY <2>1, <2>2, <2>3, MailsKeep DEF RegistrationInv
<1> QED BY <1>1, <1>2, <1>3, <1>4, AgesKeep, MailersKeep DEF RegistrationNext

LEMMA RegistrationInvariant == RegistrationSpec => []RegistrationInv
BY RegistrationStarts, RegistrationKeeps, PTL DEF RegistrationSpec

\* Whatever requests race for an address, one registration makes its account,
\* by one code (_activate_registration and the unique index on the address).
THEOREM OneAccountForAnAddress == RegistrationSpec => []OneAccountPerAddress
<1>1. ASSUME RegistrationInv PROVE OneAccountPerAddress
  <2>1. OneOwner /\ CompletedByOneCode
    BY <1>1 DEF RegistrationInv
  <2>2. ASSUME NEW a \in Addresses
        PROVE  Cardinality(madeBy[a] \cup (IF a \in existing THEN {"before"} ELSE {})) <= 1
    <3> PICK S : S = madeBy[a] \cup (IF a \in existing THEN {"before"} ELSE {})
      OBVIOUS
    <3>1. S = {} \/ \E x : S = {x}
      BY <2>1, <2>2 DEF OneOwner
    <3>2. Cardinality(S) = 0 \/ Cardinality(S) = 1
      BY <3>1, FS_EmptySet, FS_Singleton
    <3> QED BY <3>2
  <2>3. ASSUME NEW p \in RegIds
        PROVE  Cardinality(Consumed(p)) =
                  IF pending[p].status = "completed" /\ ~pending[p].decoy /\ p \in madeBy[pending[p].address]
                  THEN 1 ELSE 0
    <3>1. CASE pending[p].status = "completed"
      <4>1. /\ ~pending[p].decoy /\ p \in madeBy[pending[p].address]
            /\ \E i \in DOMAIN challenge : Consumed(p) = {i}
        BY <2>1, <2>3, <3>1 DEF CompletedByOneCode
      <4> QED BY <3>1, <4>1, FS_Singleton
    <3>2. CASE pending[p].status # "completed"
      <4>1. Consumed(p) = {}
        BY <2>1, <2>3, <3>2 DEF CompletedByOneCode
      <4> QED BY <3>2, <4>1, FS_EmptySet
    <3> QED BY <3>1, <3>2
  <2> QED BY <2>2, <2>3 DEF OneAccountPerAddress, Consumed
<1> QED BY <1>1, RegistrationInvariant, PTL

\* A worker gives a code to the provider only while the code is the current one
\* of its registration (_otp_delivery_is_current under the registration's lock).
THEOREM CodesSubmittedAreCurrent == RegistrationSpec => OnlyCurrentCodeSubmitted
<1>1. ASSUME RegistrationInv, [RegistrationNext]_registrationVars
      PROVE  [\A w \in Mailers : Submits(w) /\ mailer[w].key[2] # 0 =>
                 LET code == challenge[mail[mailer[w].key].otp]
                 IN  code.status = "active" /\ code.age < Expired]_registrationVars
  <2> SUFFICES ASSUME NEW w \in Mailers, RegistrationNext, Submits(w), NEW k, k = mailer[w].key, k[2] # 0
               PROVE  challenge[mail[k].otp].status = "active" /\ challenge[mail[k].otp].age < Expired
    BY <1>1
  <2>1. RegistrationTypes /\ MailInHand /\ CodesMailed
    BY <1>1 DEF RegistrationInv
  <2>2. /\ mailer[w] # AtRest /\ mailer[w].at = "claimed" /\ mailer[w].key = k
        /\ mailer'[w] # mailer[w] /\ mailer \in [Mailers -> [at : {"claimed"}, key : MailKeys]
                              \cup [at : {"failed"}, key : MailKeys, tries : Nat] \cup {AtRest}]
    BY <2>1, NoRows DEF Submits, RegistrationTypes
  <2>0. k \in MailKeys
    BY <2>2, NoRows
  <2>3. ASSUME DeliveryIsCurrent(k)
        PROVE  challenge[mail[k].otp].status = "active" /\ challenge[mail[k].otp].age < Expired
    <3>1. k = <<k[1], k[2]>> /\ k[1] \in RegIds /\ k[2] \in 0 .. LastOrdinal
      BY <2>0 DEF MailKeys
    <3>2. k[2] \in 1 .. LastOrdinal
      BY <3>1
    <3>3. mail[k] # NoMail
      BY <2>1, <2>2, NoRows DEF MailInHand
    <3>4. ~pending[k[1]].decoy
      BY <2>1, <3>1, <3>2, <3>3 DEF CodesMailed
    <3>5. PICK i \in Active(k[1]) : challenge[i].age < Expired /\ challenge[i].ordinal = k[2]
      BY <2>3 DEF DeliveryIsCurrent
    <3>6. i \in DOMAIN challenge /\ challenge[i].reg = k[1] /\ challenge[i].status = "active"
      BY DEF Active
    <3>7. <<challenge[i].reg, challenge[i].ordinal>> = k
      BY <3>1, <3>5, <3>6
    <3>8. mail[k].otp = i
      BY <2>1, <3>4, <3>6, <3>7 DEF CodesMailed
    <3> QED BY <3>5, <3>6, <3>8
  <2>4. ASSUME NEW v \in Mailers, NEW l \in MailKeys, NEW row, NEW hand, Update(v, l, row, hand), v # w
        PROVE  FALSE
    BY <2>2, <2>4 DEF Update
  <2>5. ASSUME NEW v \in Mailers, NEW l \in MailKeys, Suppress(v, l) \/ Disabled(v, l)
        PROVE  FALSE
    <3>1. v = w /\ l = k /\ mailFaults' = mailFaults
      BY <2>2, <2>4, <2>5 DEF Suppress, Disabled, Holds
    <3>2. PICK s \in {"dead_letter", "pending"} :
             Update(w, k, [mail[k] EXCEPT !.status = s, !.due = FALSE], AtRest)
      BY <2>5, <3>1 DEF Suppress, Disabled
    <3>3. mail[k] \in MailRow
      BY <2>1, <2>2 DEF MailInHand
    <3>4. [mail[k] EXCEPT !.status = s, !.due = FALSE].status = s
      BY <3>3 DEF MailRow
    <3>5. mail'[k].status = s
      BY <2>0, <2>1, <3>2, <3>4 DEF Update, RegistrationTypes
    <3>6. mailer'[w] = AtRest
      BY <2>2, <3>2 DEF Update
    <3> QED BY <3>5, <3>6, NoRows DEF Submits
  <2>6. ASSUME NEW v \in Mailers, NEW l \in MailKeys, DeliverMail(v, l) \/ ProviderFails(v, l)
        PROVE  DeliveryIsCurrent(k)
    <3>1. v = w
      BY <2>4, <2>6 DEF DeliverMail, ProviderFails
    <3>2. l = k
      BY <2>2, <2>6, <3>1 DEF DeliverMail, ProviderFails, Holds
    <3> QED BY <2>6, <3>1, <3>2 DEF DeliverMail, ProviderFails
  <2>7. ASSUME NEW v \in Mailers, \E retryable \in BOOLEAN : RecordFailure(v, retryable)
        PROVE  FALSE
    <3>1. v # w
      BY <2>2, <2>7 DEF RecordFailure
    <3>2. mailer'[w] = mailer[w]
      BY <2>2, <2>7, <3>1 DEF RecordFailure, Update
    <3> QED BY <2>2, <3>2
  <2>8. ASSUME NEW v \in Mailers, MailerDies(v)
        PROVE  FALSE
    <3>1. mailer'[w] = AtRest /\ mailFaults' # mailFaults
      BY <2>1, <2>2, <2>8 DEF MailerDies, Fault, RegistrationTypes
    <3> QED BY <3>1, NoRows DEF Submits
  <2>9. ASSUME NEW v \in Mailers, NEW l \in MailKeys, ClaimMail(v, l)
        PROVE  FALSE
    <3>1. v # w
      BY <2>2, <2>9 DEF ClaimMail
    <3> QED BY <2>4, <2>9, <3>1 DEF ClaimMail
  <2>10. CASE mailer' = mailer
    BY <2>2, <2>10
  <2>11. CASE \E v \in Mailers : MailerWorks(v) \/ MailerDies(v) \/ \E l \in MailKeys : ClaimMail(v, l)
    BY <2>3, <2>5, <2>6, <2>7, <2>8, <2>9, <2>11 DEF MailerWorks
  <2> QED BY <2>10, <2>11 DEF RegistrationNext, Register, RegisterBegins, Resend, RegistrationLapses, Verify,
                              ChallengeAges, MailDue
<1> QED BY <1>1, RegistrationInvariant, PTL DEF RegistrationSpec, OnlyCurrentCodeSubmitted

\* The guesses at the codes of an address within an hour are bounded, over all
\* its registrations, resends and clients (the limits on attempts and sends).
THEOREM GuessesAreBounded == RegistrationSpec => []GuessesBounded
<1>1. ASSUME RegistrationInv, NEW a \in Addresses, NEW f, f = [i \in Recent(a) |-> challenge[i].guesses]
      PROVE  SumFunctionOnSet(f, Recent(a)) <= (MaxSends + 1) * MaxGuesses
  <2>1. Recent(a) \in SUBSET DOMAIN challenge /\ Sends(a) = Cardinality(Recent(a))
    BY DEF Recent, Sends
  <2>2. MaxSends \in Nat /\ MaxGuesses \in Nat
    BY RegistrationAssumption
  <2>3. IsFiniteSet(Recent(a)) /\ Cardinality(Recent(a)) \in Nat
    BY <1>1, <2>1, ChallengeRows, FS_Subset, FS_CardinalityType
  <2>4. Cardinality(Recent(a)) <= MaxSends + 1
    <3>1. Sends(a) + 1 <= MaxSends + Room(a)
      BY <1>1 DEF RegistrationInv, SendsBounded
    <3>2. Room(a) = 0 \/ Room(a) = 1 \/ Room(a) = 2
      BY DEF Room
    <3> QED BY <2>1, <2>2, <2>3, <3>1, <3>2
  <2>5. \A i \in Recent(a) : f[i] \in 0 .. MaxGuesses
    <3>1. \A i \in Recent(a) : challenge[i] \in ChallengeRow
      BY <1>1, <2>1, ChallengeRows
    <3> QED BY <1>1, <3>1 DEF ChallengeRow
  <2>6. MaxSends + 1 \in Nat
    BY <2>2
  <2> QED BY <2>2, <2>3, <2>4, <2>5, <2>6, SumBound
<1>2. RegistrationInv => GuessesBounded
  BY <1>1 DEF GuessesBounded, Recent
<1> QED BY <1>2, RegistrationInvariant, PTL

=============================================================================
