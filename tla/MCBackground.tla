---------------------------- MODULE MCBackground -----------------------------
(***************************************************************************)
(* What Celery workers do for requests that have been answered:            *)
(* notifications, report and export jobs, and mails.  They are rows of     *)
(* their own and share nothing but the workers, so one run explores each   *)
(* for itself: "queue" is the one a behaviour is about.                    *)
(***************************************************************************)
EXTENDS OperationsTasks, Registration

VARIABLE queue

BackgroundInit ==
    /\ queue \in {"notifications", "jobs", "mails"} /\ TasksInit /\ RegistrationInit
    /\ queue # "mails" => mailEnabled /\ existing = {}

BackgroundNext ==
    /\ \/ queue = "notifications" /\ TasksNext /\ UNCHANGED <<jobVars, registrationVars>>
       \/ queue = "jobs"  /\ TasksNext         /\ UNCHANGED <<noteVars, registrationVars>>
       \/ queue = "mails" /\ RegistrationNext  /\ UNCHANGED taskVars
    /\ UNCHANGED queue

BackgroundSpec ==
    /\ BackgroundInit /\ [][BackgroundNext]_<<queue, taskVars, registrationVars>>
    /\ TasksFairness /\ RegistrationFairness
=============================================================================
