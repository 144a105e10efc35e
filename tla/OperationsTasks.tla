--------------------------- MODULE OperationsTasks ---------------------------
(***************************************************************************)
(* The background work of the operations app: notifications delivered from *)
(* its outbox and the report and privacy-export jobs (operations/tasks.py),*)
(* from the transaction that creates the row to the last retry.            *)
(*                                                                         *)
(* A row commits, then an on_commit callback hands a Celery task to Redis, *)
(* then a worker takes it.  The task is acknowledged when it is taken, so a*)
(* process that dies takes it along, and nothing in the app looks for rows *)
(* without a task: task[t] = "lost".  A task that was published twice runs *)
(* again after its first copy has ended.  A delivery is one transaction; a *)
(* job is claimed in one transaction, its file is written outside, it is   *)
(* completed in another, and the metrics are counted after that.           *)
(***************************************************************************)
EXTENDS Naturals, FiniteSets

CONSTANTS InApp, Email,    \* notifications by channel, named by their dedup_key
          Jobs,            \* ReportJob and PrivacyExportJob rows, named by their key
          TaskWorkers,     \* Celery workers
          NoteRetries,     \* max_retries of deliver_notification_outbox_event
          JobRetries,      \* max_retries of the two generators
          MaxTaskFaults    \* bound: processes that die and tasks delivered again

ASSUME TaskAssumption == /\ NoteRetries \in Nat /\ JobRetries \in Nat /\ MaxTaskFaults \in Nat
                         /\ InApp \cap Email = {} /\ Jobs \cap (InApp \cup Email) = {}
                         /\ "none" \notin InApp \cup Email \cup Jobs

Notes == InApp \cup Email
Tasks == Notes \cup Jobs

VARIABLES
    note,        \* Notification: status, and whether sent_at and read_at are set
    published,   \* OutboxEvent.published_at and ProcessedEvent, written together
    deadLetter,  \* notification.dead_letter events, by notification
    pushed,      \* realtime messages sent, by notification
    job,         \* ReportJob / PrivacyExportJob: status, artifact_ref, reconciliation_passed
    files,       \* private artifacts on disk: the job and the attempt that wrote it
    task,        \* where the task of a row is
    retries,     \* failed attempts of the copy that runs (request.retries)
    tried,       \* history: failed attempts of all copies of the task
    taskWorker,  \* by worker: the task and how far it is
    taskFaults   \* how often one of these has happened

taskVars == <<note, published, deadLetter, pushed, job, files, task, retries, tried, taskWorker,
              taskFaults>>
noteVars == <<note, published, deadLetter, pushed>>
jobVars  == <<job, files>>

NoFile == 0      \* artifact_ref is empty
Free   == [task |-> "none", at |-> "idle"]   \* "none" names no row

TasksInit ==
    /\ note = [n \in Notes |-> [status |-> "NONE", sent |-> FALSE, read |-> FALSE]]
    /\ published = {} /\ deadLetter = [n \in Notes |-> 0] /\ pushed = [n \in Notes |-> 0]
    /\ job = [j \in Jobs |-> [status |-> "NONE", artifact |-> NoFile, passed |-> FALSE]] /\ files = {}
    /\ task = [t \in Tasks |-> "none"] /\ retries = [t \in Tasks |-> 0]
    /\ tried = [t \in Tasks |-> 0] /\ taskWorker = [w \in TaskWorkers |-> Free] /\ taskFaults = 0

-----------------------------------------------------------------------------
(* Requests.                                                               *)

\* create_notification: get_or_create on the dedup_key, so a second call with
\* it changes nothing; a new row comes with its outbox event.
create_notification(n) ==
    /\ note[n].status = "NONE"
    /\ note' = [note EXCEPT ![n].status = "QUEUED"] /\ task' = [task EXCEPT ![n] = "due"]
    /\ UNCHANGED <<published, deadLetter, pushed, jobVars, retries, tried, taskWorker, taskFaults>>

\* reconcile_operational_domains, as far as rows of this module can fail it.
Reconciled == \A j \in Jobs : job[j].status = "COMPLETED" => job[j].artifact # NoFile

\* ReportJobListCreate.create, PrivacyExportListCreate.create: the same key
\* again returns the row and starts nothing.  The reconciliation of a report
\* looks at other domains too and may fail because of them.
CreateJob(j, passed) ==
    /\ job[j].status = "NONE" /\ (passed => Reconciled)
    /\ job' = [job EXCEPT ![j].status = "QUEUED", ![j].passed = passed]
    /\ task' = [task EXCEPT ![j] = "due"]
    /\ UNCHANGED <<noteVars, files, retries, tried, taskWorker, taskFaults>>

\* NotificationRead; NotificationReadAll updates all that are unread.
NotificationRead(N) ==
    /\ N # {} /\ \A n \in N : note[n].status # "NONE"
    /\ \/ Cardinality(N) = 1
       \/ N = {n \in Notes : note[n].status # "NONE" /\ ~note[n].read}
    /\ note' = [n \in Notes |-> IF n \in N THEN [note[n] EXCEPT !.status = "READ", !.read = TRUE]
                                           ELSE note[n]]
    /\ UNCHANGED <<published, deadLetter, pushed, jobVars, task, retries, tried, taskWorker, taskFaults>>

\* transaction.on_commit(lambda: task.delay(...))
OnCommit(t) ==
    /\ task[t] = "due" /\ task' = [task EXCEPT ![t] = "queued"]
    /\ UNCHANGED <<noteVars, jobVars, retries, tried, taskWorker, taskFaults>>

\* The web process dies, or Redis refuses, between the commit and the callback.
RequestDies(t) ==
    /\ task[t] = "due" /\ taskFaults < MaxTaskFaults
    /\ task' = [task EXCEPT ![t] = "lost"] /\ taskFaults' = taskFaults + 1
    /\ UNCHANGED <<noteVars, jobVars, retries, tried, taskWorker>>

-----------------------------------------------------------------------------
(* Workers.                                                                *)

Take(w, t) ==
    /\ taskWorker[w] = Free /\ task[t] = "queued"
    /\ task' = [task EXCEPT ![t] = "taken"]
    /\ taskWorker' = [taskWorker EXCEPT ![w] = [task |-> t, at |-> "start"]]
    /\ UNCHANGED <<noteVars, jobVars, retries, tried, taskFaults>>

\* Celery publishes again when it has lost the connection to Redis: a second
\* copy of the task comes after the first, with retries of its own.
Redelivered(t) ==
    /\ task[t] \in {"done", "gave_up"} /\ taskFaults < MaxTaskFaults
    /\ task' = [task EXCEPT ![t] = "queued"] /\ retries' = [retries EXCEPT ![t] = 0]
    /\ taskFaults' = taskFaults + 1
    /\ UNCHANGED <<noteVars, jobVars, tried, taskWorker>>

\* The task has returned.
Finish(w) == /\ task' = [task EXCEPT ![taskWorker[w].task] = "done"]
             /\ taskWorker' = [taskWorker EXCEPT ![w] = Free]
             /\ UNCHANGED <<retries, tried, taskFaults>>

\* self.retry while request.retries < max_retries, else the exception is raised.
Limit(t) == IF t \in Jobs THEN JobRetries ELSE NoteRetries

RetryOrRaise(w) ==
    LET t == taskWorker[w].task IN
    /\ retries' = [retries EXCEPT ![t] = @ + 1] /\ tried' = [tried EXCEPT ![t] = @ + 1]
    /\ task' = [task EXCEPT ![t] = IF retries[t] < Limit(t) THEN "queued" ELSE "gave_up"]
    /\ taskWorker' = [taskWorker EXCEPT ![w] = Free]
    /\ UNCHANGED taskFaults

\* The effect inside consume_once: IN_APP is pushed and SENT; the disabled
\* provider of every other channel raises, which is a permanent failure.
Effect(n) ==
    IF n \in InApp
    THEN /\ pushed' = [pushed EXCEPT ![n] = @ + 1]
         /\ note' = [note EXCEPT ![n].status = "SENT", ![n].sent = TRUE]
         /\ UNCHANGED deadLetter
    ELSE /\ note' = [note EXCEPT ![n].status = "FAILED"]
         /\ deadLetter' = [deadLetter EXCEPT ![n] = @ + 1]
         /\ UNCHANGED pushed

\* Variant: the outbox row is left open.
Publish_Leaves(n) == Effect(n) /\ UNCHANGED published

Publish(n) == Effect(n) /\ published' = published \cup {n}

\* Variant: a notification that has been read needs no delivery.
AlreadyDelivered_Read(n) == n \in published \/ note[n].read

\* published_at is set; the status of the notification is not looked at.
AlreadyDelivered(n) == n \in published

\* _deliver_notification_outbox_event: one transaction under the event's lock.
Deliver(w) ==
    LET n == taskWorker[w].task IN
    /\ n \in Notes
    /\ IF AlreadyDelivered(n) THEN UNCHANGED noteVars ELSE Publish(n)
    /\ Finish(w) /\ UNCHANGED jobVars

\* It raises and is rolled back; a push that was made is not taken back.
DeliveryFails(w) ==
    LET n == taskWorker[w].task IN
    /\ n \in Notes
    /\ \/ UNCHANGED pushed
       \/ n \in InApp \ published /\ pushed' = [pushed EXCEPT ![n] = @ + 1]
    /\ RetryOrRaise(w) /\ UNCHANGED <<note, published, deadLetter, jobVars>>

At(w, stage) == taskWorker[w].task \in Jobs /\ taskWorker[w].at = stage
Advance(w, stage) == /\ taskWorker' = [taskWorker EXCEPT ![w].at = stage]
                     /\ UNCHANGED <<task, retries, tried, taskFaults>>

\* The claim: QUEUED and FAILED jobs only.
Claim(w) ==
    LET j == taskWorker[w].task IN
    /\ At(w, "start") /\ job[j].status \in {"QUEUED", "FAILED"} /\ job[j].passed
    /\ job' = [job EXCEPT ![j].status = "RUNNING"]
    /\ Advance(w, "claimed") /\ UNCHANGED <<noteVars, files>>

\* A second copy finds the job COMPLETED.
SkipJob(w) ==
    /\ At(w, "start") /\ job[taskWorker[w].task].status \in {"RUNNING", "COMPLETED"}
    /\ Finish(w) /\ UNCHANGED <<noteVars, jobVars>>

\* A report that is not reconciled fails for good, without a retry.
RefuseJob(w) ==
    LET j == taskWorker[w].task IN
    /\ At(w, "start") /\ job[j].status \in {"QUEUED", "FAILED"} /\ ~job[j].passed
    /\ job' = [job EXCEPT ![j].status = "FAILED"]
    /\ Finish(w) /\ UNCHANGED <<noteVars, files>>

\* write_private_artifact: a new name every time, visible once it is whole.
WriteArtifact(w) ==
    LET j == taskWorker[w].task IN
    /\ At(w, "claimed")
    /\ files' = files \cup {[job |-> j, no |-> tried[j] + 1]}
    /\ Advance(w, "written") /\ UNCHANGED <<noteVars, job>>

\* Variant: the job is completed before its file is written.
Completes_Early(w) == At(w, "claimed")

Completes(w) == At(w, "written")

CompleteJob(w) ==
    LET j == taskWorker[w].task IN
    /\ Completes(w)
    /\ job' = [job EXCEPT ![j].status = "COMPLETED", ![j].artifact = tried[j] + 1]
    /\ Advance(w, "completed") /\ UNCHANGED <<noteVars, files>>

\* The metrics are counted and the task returns.
ReturnJob(w) == At(w, "completed") /\ Finish(w) /\ UNCHANGED <<noteVars, jobVars>>

\* Variant: the exception handler does not mark the job.
MarkFailed_Not(j) == UNCHANGED job

MarkFailed(j) == job' = [job EXCEPT ![j].status = "FAILED"]

\* Any exception, in a second copy too, and after the job was COMPLETED: the job is
\* FAILED then and made again.
JobFails(w) ==
    /\ taskWorker[w].task \in Jobs
    /\ MarkFailed(taskWorker[w].task) /\ RetryOrRaise(w) /\ UNCHANGED <<noteVars, files>>

WorkerDies(w) ==
    /\ taskWorker[w] # Free /\ taskFaults < MaxTaskFaults
    /\ task' = [task EXCEPT ![taskWorker[w].task] = "lost"]
    /\ taskWorker' = [taskWorker EXCEPT ![w] = Free] /\ taskFaults' = taskFaults + 1
    /\ UNCHANGED <<noteVars, jobVars, retries, tried>>

\* One step of a task that ends well, or badly.
Work(w) == \/ Deliver(w) \/ Claim(w) \/ SkipJob(w) \/ RefuseJob(w) \/ WriteArtifact(w)
           \/ CompleteJob(w) \/ ReturnJob(w)
Fail(w) == DeliveryFails(w) \/ JobFails(w)

TasksNext ==
    \/ \E n \in Notes : create_notification(n)
    \/ \E N \in SUBSET Notes : NotificationRead(N)
    \/ \E j \in Jobs, passed \in BOOLEAN : CreateJob(j, passed)
    \/ \E t \in Tasks : OnCommit(t) \/ RequestDies(t) \/ Redelivered(t) \/ \E w \in TaskWorkers : Take(w, t)
    \/ \E w \in TaskWorkers : Work(w) \/ Fail(w) \/ WorkerDies(w)

\* Callbacks run, a worker that is up goes on, and a queued task is taken even
\* if others keep the workers busy.
TasksFairness ==
    /\ \A t \in Tasks : WF_taskVars(OnCommit(t)) /\ SF_taskVars(\E w \in TaskWorkers : Take(w, t))
    /\ \A w \in TaskWorkers : WF_taskVars(Work(w) \/ Fail(w))

TasksSpec == TasksInit /\ [][TasksNext]_taskVars /\ TasksFairness

-----------------------------------------------------------------------------
(* Properties.                                                             *)

\* However often a delivery is tried, a notification has one committed outcome:
\* sent once, or one dead letter; a push beyond the first belongs to a failed try.
OneOutcomePerNotification ==
    \A n \in Notes :
        /\ n \notin published => ~note[n].sent /\ deadLetter[n] = 0
        /\ n \in published => IF n \in InApp THEN note[n].sent /\ pushed[n] > 0
                                             ELSE deadLetter[n] = 1
        /\ pushed[n] <= tried[n] + 1

\* What a customer may download exists and is the file of a finished attempt;
\* this is also the REPORTING and PRIVACY check of the reconciliation.
CompletedHasArtifact ==
    /\ Reconciled
    /\ \A j \in Jobs : job[j].status = "COMPLETED" => [job |-> j, no |-> job[j].artifact] \in files

\* A job does not stay QUEUED or RUNNING, in a retry or a second copy neither,
\* however it fails, unless a process died with its task
\* (test_artifact_failure_is_bounded_and_job_is_not_left_running).
JobEnds ==
    \A j \in Jobs : job[j].status \in {"QUEUED", "RUNNING"} ~>
        job[j].status \in {"COMPLETED", "FAILED"} \/ task[j] = "lost"

\* Every attempt that max_retries allows has failed and the exception was raised.
Exhausted(n) == task[n] = "gave_up" /\ retries[n] = NoteRetries + 1

\* A notification is delivered or dead-lettered, in particular reading it does not
\* stop that, unless a process died with its task or every attempt failed.  What
\* is left then is an open outbox event and no dead letter or reason, although
\* docs/NOTIFICATION-DELIVERY.md says that exhaustion records one.
NotificationEnds ==
    \A n \in Notes : note[n].status = "QUEUED" ~>
        \/ n \in published
        \/ task[n] = "lost"
        \/ Exhausted(n) /\ n \notin published /\ deadLetter[n] = 0
=============================================================================
