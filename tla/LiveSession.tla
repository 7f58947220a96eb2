---------------------------- MODULE LiveSession ----------------------------
(***************************************************************************)
(* The session of the live tests: the environment secret TR_SESSION_JSON,  *)
(* the two workflows that copy it into a file and check it there, and      *)
(* scripts/reauth-ci.ts, which checks a file (--check-session), replaces   *)
(* its session by a PIN login (--pin), or enrols a new session from a      *)
(* maintainer's machine.  Jobs, the maintainer and the broker know nothing *)
(* of each other but through the secret.                                   *)
(***************************************************************************)
EXTENDS Naturals

CONSTANTS
  Jobs,       \* workflow jobs that may run at the same time
  MaxLogin,   \* bound on the logins of the account
  MaxChecks   \* bound on the times the broker confirms a session

ASSUME LiveAssumption == MaxLogin \in Nat \ {0} /\ MaxChecks \in Nat

VARIABLES
  hour,           \* Berlin time: before, in or after the approval window
  accountLogins,  \* logins so far; a session is known by its login ...
  checks,         \* ... and by the number of the confirmation that made it
  expired,        \* logins whose session the broker answers with 401
  secret,         \* TR_SESSION_JSON
  jobs,           \* the workflow jobs, with the file and the event of each
  enrolment,      \* what the maintainer's enrolment awaits, and its session
  contested       \* history: whether an enrolment and a refresh job ever overlapped

liveVars == <<hour, accountLogins, checks, expired, secret, jobs, enrolment, contested>>
broker == <<accountLogins, checks>>

Session == [login : 0..MaxLogin, check : 0..MaxChecks]
NoSession == [login |-> 0, check |-> 0]
Usable(session) == session # NoSession /\ session.login \notin expired
Hours == {"before", "window", "after"}
\* The cron entries and the manual trigger of refresh-live-session.yml.
RefreshTriggers == {"two-hourly", "daily", "dispatch"}

NoJob == [pc |-> "idle", kind |-> "none", trigger |-> "none", attempt |-> 0, file |-> NoSession]
NotEnrolling == [pc |-> "idle", session |-> NoSession]

Refreshing(j) == jobs[j].kind = "refresh"
JobGoes(j, pc) == jobs' = [jobs EXCEPT ![j].pc = pc]
JobEnds(j) == jobs' = [jobs EXCEPT ![j] = NoJob]
HasFile(j, session, pc) == jobs' = [jobs EXCEPT ![j].file = session, ![j].pc = pc]
Overlap(refreshing) == contested' = (contested \/ (refreshing /\ enrolment.pc # "idle"))

(***************************************************************************)
(* The world.                                                              *)
(***************************************************************************)
HourPasses ==
  /\ hour' = CASE hour = "before" -> "window" [] hour = "window" -> "after" [] hour = "after" -> "before"
  /\ UNCHANGED <<broker, expired, secret, jobs, enrolment, contested>>

SessionExpires(login) ==
  /\ expired' = expired \union {login}
  /\ UNCHANGED <<hour, broker, secret, jobs, enrolment, contested>>

(***************************************************************************)
(* A job.  The concurrency group lets one refresh job run at a time; a job *)
(* of the merge queue is in a group of its own.  The secrets of a job are  *)
(* those of its start.                                                     *)
(***************************************************************************)
MutantGroupFree(kind) == TRUE
GroupFree(kind) == kind = "refresh" => \A j \in Jobs : ~Refreshing(j)

JobStarts(j, kind, trigger, attempt) ==
  /\ jobs[j].pc = "idle" /\ GroupFree(kind)
  /\ jobs' = [jobs EXCEPT ![j] = [pc |-> "checking", kind |-> kind, trigger |-> trigger,
                                  attempt |-> attempt, file |-> secret]]
  /\ Overlap(kind = "refresh")
  /\ UNCHANGED <<hour, broker, expired, secret, enrolment>>

\* refreshSavedSession: the session is restored, refreshed and saved in the
\* file.  Only a refresh job stores it.
CheckConfirms(j) ==
  /\ jobs[j].pc = "checking" /\ Usable(jobs[j].file)
  /\ checks < MaxChecks /\ checks' = checks + 1
  /\ HasFile(j, [jobs[j].file EXCEPT !.check = checks'],
             IF Refreshing(j) THEN "storing" ELSE "testing")
  /\ UNCHANGED <<hour, accountLogins, expired, secret, enrolment, contested>>

\* checkCiSession: no session in the file, or a 401.  The conditions of the
\* PIN step of the workflow; the summary of the job is all that is left else.
CheckUnavailable(j) ==
  /\ jobs[j].pc = "checking" /\ ~Usable(jobs[j].file)
  /\ IF Refreshing(j) /\ jobs[j].trigger = "daily" /\ jobs[j].attempt = 1
     THEN JobGoes(j, "pin") ELSE JobEnds(j)
  /\ UNCHANGED <<hour, broker, expired, secret, enrolment, contested>>

\* isCiPinLoginAllowed.
PinLoginAllowed(j) ==
  jobs[j].trigger = "daily" /\ jobs[j].attempt = 1 /\ hour = "window"

\* loginSavedSessionWithPin: once before the browser is set up ...
PinStarts(j) ==
  /\ jobs[j].pc = "pin"
  /\ IF PinLoginAllowed(j) THEN JobGoes(j, "browser") ELSE JobEnds(j)
  /\ UNCHANGED <<hour, broker, expired, secret, enrolment, contested>>

MutantBrowserReady(j) ==
  /\ jobs[j].pc = "browser" /\ JobGoes(j, "approving")
  /\ UNCHANGED <<hour, broker, expired, secret, enrolment, contested>>

\* ... and once more before the login asks for approval.
BrowserReady(j) ==
  /\ jobs[j].pc = "browser"
  /\ IF PinLoginAllowed(j) THEN JobGoes(j, "approving") ELSE JobEnds(j)
  /\ UNCHANGED <<hour, broker, expired, secret, enrolment, contested>>

\* A login approved in time is completed with the context of its browser,
\* asserted to be whole, and saved in the file.
NewSession == [login |-> accountLogins + 1, check |-> checks + 1]
LogsIn ==
  /\ accountLogins < MaxLogin /\ checks < MaxChecks
  /\ accountLogins' = accountLogins + 1 /\ checks' = checks + 1

PinApproved(j) ==
  /\ jobs[j].pc = "approving" /\ LogsIn
  /\ HasFile(j, NewSession, "storing")
  /\ UNCHANGED <<hour, expired, secret, enrolment, contested>>

\* Any other failure of the script, an approval that does not come and an
\* assertion among them, or of a command fails the job.
JobFails(j) ==
  /\ jobs[j].pc \in {"checking", "browser", "approving", "storing"} /\ JobEnds(j)
  /\ UNCHANGED <<hour, broker, expired, secret, enrolment, contested>>

JobStores(j) ==
  /\ jobs[j].pc = "storing" /\ secret' = jobs[j].file /\ JobEnds(j)
  /\ UNCHANGED <<hour, broker, expired, enrolment, contested>>

TestsEnd(j) ==
  /\ jobs[j].pc = "testing" /\ JobEnds(j)
  /\ UNCHANGED <<hour, broker, expired, secret, enrolment, contested>>

(***************************************************************************)
(* enrollRepositorySession, one await after the other.                     *)
(***************************************************************************)
EnrolmentGoes(pc, session) == enrolment' = [pc |-> pc, session |-> session]

EnrolmentStarts ==
  /\ enrolment.pc = "idle" /\ EnrolmentGoes("collecting", NoSession)
  /\ contested' = (contested \/ \E j \in Jobs : Refreshing(j))
  /\ UNCHANGED <<hour, broker, expired, secret, jobs>>

ContextCollected ==
  /\ enrolment.pc = "collecting" /\ EnrolmentGoes("login", NoSession)
  /\ UNCHANGED <<hour, broker, expired, secret, jobs, contested>>

QrApproved ==
  /\ enrolment.pc = "login" /\ LogsIn /\ EnrolmentGoes("storing", NewSession)
  /\ UNCHANGED <<hour, expired, secret, jobs, contested>>

EnrolmentFails ==
  /\ enrolment.pc # "idle" /\ enrolment' = NotEnrolling
  /\ UNCHANGED <<hour, broker, expired, secret, jobs, contested>>

EnrolmentStores ==
  /\ enrolment.pc = "storing" /\ secret' = enrolment.session /\ enrolment' = NotEnrolling
  /\ UNCHANGED <<hour, broker, expired, jobs, contested>>

(***************************************************************************)
(* The specification.                                                      *)
(***************************************************************************)
LiveInit ==
  /\ hour = "before" /\ accountLogins = 1 /\ checks = 0 /\ expired = {} /\ contested = FALSE
  /\ secret \in {NoSession, [login |-> 1, check |-> 0]}
  /\ jobs = [j \in Jobs |-> NoJob] /\ enrolment = NotEnrolling

JobStep(j) ==
  \/ \E trigger \in RefreshTriggers, attempt \in 1..2 : JobStarts(j, "refresh", trigger, attempt)
  \/ JobStarts(j, "merge", "queue", 1)
  \/ CheckConfirms(j) \/ CheckUnavailable(j) \/ PinStarts(j) \/ BrowserReady(j)
  \/ PinApproved(j) \/ JobFails(j) \/ JobStores(j) \/ TestsEnd(j)

EnrolmentStep ==
  EnrolmentStarts \/ ContextCollected \/ QrApproved \/ EnrolmentFails \/ EnrolmentStores

LiveNext ==
  \/ HourPasses
  \/ \E login \in 1..accountLogins : SessionExpires(login)
  \/ \E j \in Jobs : JobStep(j)
  \/ EnrolmentStep

LiveSpec == LiveInit /\ [][LiveNext]_liveVars

(***************************************************************************)
(* Properties.                                                             *)
(***************************************************************************)
LiveTypeOK ==
  /\ hour \in Hours /\ accountLogins \in 1..MaxLogin /\ checks \in 0..MaxChecks
  /\ expired \subseteq 1..MaxLogin /\ contested \in BOOLEAN
  /\ secret \in Session
  /\ jobs \in [Jobs ->
       [pc : {"idle", "checking", "pin", "browser", "approving", "storing", "testing"},
        kind : {"none", "refresh", "merge"}, trigger : RefreshTriggers \union {"none", "queue"},
        attempt : 0..2, file : Session]]
  /\ enrolment \in [pc : {"idle", "collecting", "login", "storing"},
                    session : Session]

\* docs/maintainers.md:139-144: only the first attempt of the daily job, at a
\* time within the window, and only for an account whose session was found
\* unavailable, asks the phone for approval, however long the browser takes.
ApprovalInWindow ==
  [][\A j \in Jobs : jobs'[j].pc = "approving" /\ jobs[j].pc # "approving" =>
       /\ hour = "window" /\ Refreshing(j) /\ jobs[j].trigger = "daily" /\ jobs[j].attempt = 1
       /\ ~Usable(jobs[j].file)]_liveVars

SessionOlder(a, b) == a.login < b.login \/ (a.login = b.login /\ a.check < b.check)

\* The secret goes on to later logins and later confirmations only: the jobs
\* that write it take turns (refresh-live-session.yml:12-14), and those of the
\* merge queue write nothing.  An enrolment that overlaps a job can lose, or
\* undo, either one's session.
SecretMovesForward ==
  [][~contested => ~SessionOlder(secret', secret)]_liveVars
=============================================================================
