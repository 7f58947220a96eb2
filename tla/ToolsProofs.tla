----------------------------- MODULE ToolsProofs -----------------------------
(***************************************************************************)
(* Safety of the session of the live tests, for any number of jobs, logins *)
(* and confirmations; of the orders and the refresh timer of the REPL, for *)
(* any number of helpers, codes and timers; and of the records of the      *)
(* badge worker, for any number of runs, reports and ingestions.           *)
(***************************************************************************)
EXTENDS ReplOrders, ReplSession, LiveSession, CiBadges, FiniteSetTheorems, TLAPS

-----------------------------------------------------------------------------
(***************************************************************************)
(* The session of the live tests: the inductive invariant.                 *)
(***************************************************************************)

\* Only a refresh job gets as far as a login or the secret, and to the login
\* only the first attempt of the daily one, when its session is unavailable.
\* A session that is unavailable remains so.
JobsWithinRights ==
  \A j \in Jobs :
    /\ jobs[j].pc \in {"pin", "browser", "approving", "storing"} => Refreshing(j)
    /\ jobs[j].pc \in {"pin", "browser", "approving"} =>
         jobs[j].trigger = "daily" /\ jobs[j].attempt = 1 /\ ~Usable(jobs[j].file)
    /\ jobs[j].pc = "idle" => ~Refreshing(j)

\* The concurrency group.
OneRefresh == \A j, k \in Jobs : Refreshing(j) /\ Refreshing(k) => j = k

Overlapped == enrolment.pc # "idle" /\ \E j \in Jobs : Refreshing(j)

\* No session is of a login or a confirmation that has not been yet.
Past(session) == session.login <= accountLogins /\ session.check <= checks
SessionsPast ==
  /\ Past(secret) /\ Past(enrolment.session)
  /\ \A j \in Jobs : Past(jobs[j].file)

\* What a writer has in hand is not older than the secret, because nobody
\* else has written it since the writer read it.
WritersForward ==
  ~contested =>
    /\ ~Overlapped
    /\ \A j \in Jobs : Refreshing(j) => ~SessionOlder(jobs[j].file, secret)
    /\ enrolment.pc = "storing" => ~SessionOlder(enrolment.session, secret)

LiveInv == LiveTypeOK /\ JobsWithinRights /\ OneRefresh /\ SessionsPast /\ WritersForward

JobRecord ==
  [pc : {"idle", "checking", "pin", "browser", "approving", "storing", "testing"},
   kind : {"none", "refresh", "merge"}, trigger : RefreshTriggers \union {"none", "queue"},
   attempt : 0..2, file : Session]

\* What a job may be turned into without a new refresh job coming to be.
RightRecord(old, new) ==
  /\ new.kind = "refresh" => old.kind = "refresh"
  /\ new.pc \in {"pin", "browser", "approving", "storing"} => new.kind = "refresh"
  /\ new.pc \in {"pin", "browser", "approving"} =>
       new.trigger = "daily" /\ new.attempt = 1 /\ ~Usable(new.file)
  /\ new.pc = "idle" => new.kind # "refresh"

LEMMA NoJobFits ==
  /\ NoSession \in Session /\ NoJob \in JobRecord
  /\ NotEnrolling \in [pc : {"idle", "collecting", "login", "storing"}, session : Session]
  /\ NoJob.kind = "none" /\ NoJob.pc = "idle" /\ NoJob.file = NoSession
  /\ NotEnrolling.pc = "idle" /\ NotEnrolling.session = NoSession
  /\ NoSession.login = 0 /\ NoSession.check = 0
BY LiveAssumption DEF LiveAssumption, NoSession, NoJob, NotEnrolling, Session, JobRecord

LEMMA LiveInitially == LiveInit => LiveInv
<1> SUFFICES ASSUME LiveInit PROVE LiveInv
  OBVIOUS
<1>1. secret \in Session /\ secret.login <= 1 /\ secret.check = 0
  BY LiveAssumption DEF LiveAssumption, LiveInit, Session, NoSession
<1>2. /\ \A j \in Jobs : jobs[j] = NoJob
      /\ jobs \in [Jobs -> JobRecord] /\ enrolment = NotEnrolling
  BY NoJobFits DEF LiveInit
<1>3. LiveTypeOK
  <2>1. hour \in Hours /\ expired \subseteq 1..MaxLogin /\ contested \in BOOLEAN
    BY DEF LiveInit, Hours
  <2>2. accountLogins \in 1..MaxLogin /\ checks \in 0..MaxChecks
    BY LiveAssumption DEF LiveAssumption, LiveInit
  <2> QED BY <1>1, <1>2, <2>1, <2>2, NoJobFits DEF LiveTypeOK, JobRecord
<1>4. JobsWithinRights /\ OneRefresh /\ ~Overlapped /\ \A j \in Jobs : ~Refreshing(j)
  BY <1>2, NoJobFits DEF JobsWithinRights, OneRefresh, Overlapped, Refreshing
<1>5. SessionsPast
  BY <1>1, <1>2, NoJobFits DEF LiveInit, SessionsPast, Past
<1>6. WritersForward
  BY <1>2, <1>4, NoJobFits DEF WritersForward
<1> QED BY <1>3, <1>4, <1>5, <1>6 DEF LiveInv

\* A job that becomes another record.
LEMMA JobStepKeeps ==
  ASSUME LiveInv, NEW j \in Jobs, NEW new \in JobRecord,
         jobs' = [jobs EXCEPT ![j] = new], RightRecord(jobs[j], new),
         UNCHANGED <<expired, secret, enrolment, contested>>, hour' \in Hours,
         accountLogins' \in accountLogins..MaxLogin, checks' \in checks..MaxChecks,
         new.file.login <= accountLogins', new.file.check <= checks',
         ~contested /\ new.kind = "refresh" => ~SessionOlder(new.file, secret)
  PROVE  LiveInv'
<1>1. \A k \in Jobs : jobs'[k] = IF k = j THEN new ELSE jobs[k]
  BY DEF LiveInv, LiveTypeOK
<1>2. LiveTypeOK'
  BY DEF LiveInv, LiveTypeOK, JobRecord
<1>3. JobsWithinRights'
  BY <1>1 DEF LiveInv, JobsWithinRights, RightRecord, Refreshing, Usable
<1>4. \A k \in Jobs : Refreshing(k)' => Refreshing(k)
  BY <1>1 DEF RightRecord, Refreshing
<1>5. OneRefresh' /\ (Overlapped' => Overlapped)
  BY <1>4 DEF LiveInv, OneRefresh, Overlapped
<1>6. SessionsPast'
  <2>1. accountLogins <= accountLogins' /\ checks <= checks'
        /\ accountLogins \in Nat /\ accountLogins' \in Nat /\ checks \in Nat /\ checks' \in Nat
    BY LiveAssumption DEF LiveAssumption, LiveInv, LiveTypeOK
  <2>2. \A s \in Session : Past(s) => s.login <= accountLogins' /\ s.check <= checks'
    BY <2>1 DEF Past, Session
  <2>3. /\ secret \in Session /\ enrolment.session \in Session
        /\ \A k \in Jobs : jobs[k].file \in Session
    BY DEF LiveInv, LiveTypeOK
  <2> QED BY <1>1, <2>2, <2>3 DEF LiveInv, SessionsPast, Past
<1>7. WritersForward'
  BY <1>1, <1>4, <1>5 DEF LiveInv, WritersForward, Refreshing, SessionOlder
<1> QED BY <1>2, <1>3, <1>5, <1>6, <1>7 DEF LiveInv

\* The facts a step of a job or of the enrolment starts from.
LEMMA LiveFacts ==
  ASSUME LiveInv
  PROVE  /\ hour \in Hours /\ accountLogins \in 1..MaxLogin /\ checks \in 0..MaxChecks
         /\ accountLogins \in Nat /\ checks \in Nat /\ MaxLogin \in Nat /\ MaxChecks \in Nat
         /\ secret \in Session /\ secret.login \in Nat /\ secret.check \in Nat
         /\ secret.login <= accountLogins /\ secret.check <= checks
         /\ \A j \in Jobs : /\ jobs[j] \in JobRecord /\ jobs[j].file \in Session
                            /\ jobs[j].file.login \in Nat /\ jobs[j].file.check \in Nat
                            /\ jobs[j].file.login <= accountLogins /\ jobs[j].file.check <= checks
<1> USE LiveAssumption DEF LiveAssumption
<1>1. hour \in Hours /\ accountLogins \in 1..MaxLogin /\ checks \in 0..MaxChecks
      /\ MaxLogin \in Nat /\ MaxChecks \in Nat
  BY DEF LiveInv, LiveTypeOK
<1>2. secret \in Session /\ \A j \in Jobs : jobs[j] \in JobRecord /\ jobs[j].file \in Session
  BY DEF LiveInv, LiveTypeOK, JobRecord
<1>3. \A s \in Session : s.login \in Nat /\ s.check \in Nat
  BY <1>1 DEF Session
<1>4. /\ secret.login <= accountLogins /\ secret.check <= checks
      /\ \A j \in Jobs : jobs[j].file.login <= accountLogins /\ jobs[j].file.check <= checks
  BY DEF LiveInv, SessionsPast, Past
<1> QED BY <1>1, <1>2, <1>3, <1>4

\* The world: the hour passes, and a session that expires is less usable.
LEMMA WorldKeeps ==
  ASSUME LiveInv, HourPasses \/ \E login \in 1..accountLogins : SessionExpires(login)
  PROVE  LiveInv'
<1>1. UNCHANGED <<broker, secret, jobs, enrolment, contested>>
  BY DEF HourPasses, SessionExpires
<1>2. hour' \in Hours /\ expired' \subseteq 1..MaxLogin /\ expired \subseteq expired'
  <2>1. CASE HourPasses
    BY <2>1 DEF HourPasses, Hours, LiveInv, LiveTypeOK
  <2>2. ASSUME NEW login \in 1..accountLogins, SessionExpires(login)
        PROVE  hour' \in Hours /\ expired' \subseteq 1..MaxLogin /\ expired \subseteq expired'
    <3>1. login \in 1..MaxLogin
      BY LiveFacts
    <3> QED BY <3>1, <2>2 DEF SessionExpires, LiveInv, LiveTypeOK
  <2> QED BY <2>1, <2>2
<1>3. LiveTypeOK'
  BY <1>1, <1>2 DEF broker, LiveInv, LiveTypeOK
<1>5. JobsWithinRights'
  BY <1>1, <1>2 DEF LiveInv, JobsWithinRights, Refreshing, Usable
<1>6. OneRefresh' /\ SessionsPast' /\ WritersForward'
  BY <1>1 DEF broker, LiveInv, OneRefresh, Refreshing, SessionsPast, Past, WritersForward,
     Overlapped, SessionOlder
<1> QED BY <1>3, <1>5, <1>6 DEF LiveInv

\* The concurrency group keeps a second refresh job from starting, and what
\* the job that starts reads is the secret itself.
LEMMA JobStartKeeps ==
  ASSUME LiveInv, NEW j \in Jobs, NEW kind \in {"refresh", "merge"},
         NEW trigger \in RefreshTriggers \union {"queue"}, NEW attempt \in 1..2,
         JobStarts(j, kind, trigger, attempt)
  PROVE  LiveInv'
<1> DEFINE new == [pc |-> "checking", kind |-> kind, trigger |-> trigger,
                   attempt |-> attempt, file |-> secret]
<1>1. /\ jobs' = [jobs EXCEPT ![j] = new]
      /\ UNCHANGED <<hour, broker, expired, secret, enrolment>>
      /\ contested' = (contested \/ (kind = "refresh" /\ enrolment.pc # "idle"))
      /\ kind = "refresh" => \A k \in Jobs : ~Refreshing(k)
  BY DEF JobStarts, Overlap, GroupFree
<1>2. new \in JobRecord
  BY LiveFacts DEF JobRecord, Session
<1>3. /\ new.kind = kind /\ new.pc = "checking" /\ new.file = secret
  OBVIOUS
<1> HIDE DEF new
<1>4. \A k \in Jobs : jobs'[k] = IF k = j THEN new ELSE jobs[k]
  BY <1>1 DEF LiveInv, LiveTypeOK
<1>5. LiveTypeOK'
  <2>1. jobs' \in [Jobs -> JobRecord]
    BY <1>1, <1>2 DEF LiveInv, LiveTypeOK, JobRecord
  <2>2. contested' \in BOOLEAN
    BY <1>1 DEF LiveInv, LiveTypeOK
  <2> QED BY <1>1, <2>1, <2>2 DEF broker, LiveInv, LiveTypeOK, JobRecord
<1>6. JobsWithinRights'
  BY <1>1, <1>3, <1>4 DEF LiveInv, JobsWithinRights, Refreshing, Usable
<1>7. OneRefresh'
  BY <1>1, <1>3, <1>4 DEF LiveInv, OneRefresh, Refreshing
<1>8. SessionsPast'
  BY <1>1, <1>3, <1>4 DEF broker, LiveInv, SessionsPast, Past
<1>9. WritersForward'
  <2> SUFFICES ASSUME ~contested' PROVE WritersForward'
    BY DEF WritersForward
  <2>1. ~contested /\ ~(kind = "refresh" /\ enrolment.pc # "idle")
    BY <1>1
  <2>2. ~Overlapped'
    BY <1>1, <1>3, <1>4, <2>1 DEF LiveInv, WritersForward, Overlapped, Refreshing
  <2>3. \A k \in Jobs : Refreshing(k)' => ~SessionOlder(jobs'[k].file, secret)
    <3>1. ~SessionOlder(secret, secret)
      BY LiveFacts DEF SessionOlder
    <3> QED BY <1>1, <1>3, <1>4, <2>1, <3>1 DEF LiveInv, WritersForward, Refreshing
  <2> QED BY <1>1, <2>1, <2>2, <2>3 DEF LiveInv, WritersForward, SessionOlder
<1> QED BY <1>5, <1>6, <1>7, <1>8, <1>9 DEF LiveInv

\* A job that ends.
LEMMA JobEndKeeps ==
  ASSUME LiveInv, NEW j \in Jobs, JobEnds(j),
         UNCHANGED <<hour, broker, expired, secret, enrolment, contested>>
  PROVE  LiveInv'
<1>1. NoJob.file.login <= accountLogins /\ NoJob.file.check <= checks
  BY LiveFacts, NoJobFits
<1>2. RightRecord(jobs[j], NoJob) /\ NoJob.kind # "refresh"
  BY NoJobFits DEF RightRecord
<1>3. accountLogins' \in accountLogins..MaxLogin /\ checks' \in checks..MaxChecks
  BY LiveFacts DEF broker
<1> QED BY <1>1, <1>2, <1>3, NoJobFits, LiveFacts, JobStepKeeps DEF JobEnds, broker

\* A job that goes on with the file it has.
LEMMA JobGoKeeps ==
  ASSUME LiveInv, NEW j \in Jobs,
         NEW pc \in {"pin", "browser", "approving"}, JobGoes(j, pc),
         Refreshing(j), jobs[j].trigger = "daily", jobs[j].attempt = 1, ~Usable(jobs[j].file),
         UNCHANGED <<hour, broker, expired, secret, enrolment, contested>>
  PROVE  LiveInv'
<1> DEFINE new == [jobs[j] EXCEPT !.pc = pc]
<1>1. jobs' = [jobs EXCEPT ![j] = new]
  BY DEF JobGoes
<1>2. new \in JobRecord /\ RightRecord(jobs[j], new) /\ new.file = jobs[j].file
  BY LiveFacts DEF JobRecord, RightRecord, Refreshing, Usable
<1> HIDE DEF new
<1>3. ~contested => ~SessionOlder(jobs[j].file, secret)
  BY DEF LiveInv, WritersForward
<1>4. accountLogins' \in accountLogins..MaxLogin /\ checks' \in checks..MaxChecks
      /\ jobs[j].file.login <= accountLogins' /\ jobs[j].file.check <= checks'
  BY LiveFacts DEF broker
<1> QED BY <1>1, <1>2, <1>3, <1>4, LiveFacts, JobStepKeeps DEF broker

\* A session that is put into the file of a job: later than what was there,
\* and of a login or a confirmation of this moment.
LEMMA JobFileKeeps ==
  ASSUME LiveInv, NEW j \in Jobs, NEW session \in Session, NEW pc \in {"storing", "testing"},
         HasFile(j, session, pc), pc = "storing" => Refreshing(j),
         UNCHANGED <<hour, expired, secret, enrolment, contested>>,
         accountLogins' \in accountLogins..MaxLogin, checks' \in checks..MaxChecks,
         session.login <= accountLogins', session.check <= checks',
         ~contested /\ Refreshing(j) => ~SessionOlder(session, secret)
  PROVE  LiveInv'
<1> DEFINE new == [jobs[j] EXCEPT !.file = session, !.pc = pc]
<1>1. jobs' = [jobs EXCEPT ![j] = new]
  BY DEF HasFile
<1>2. new \in JobRecord /\ RightRecord(jobs[j], new) /\ new.file = session
      /\ new.kind = jobs[j].kind
  BY LiveFacts DEF JobRecord, RightRecord, Refreshing
<1> HIDE DEF new
<1> QED BY <1>1, <1>2, LiveFacts, JobStepKeeps DEF Refreshing

LEMMA CheckConfirmsKeeps ==
  ASSUME LiveInv, NEW j \in Jobs, CheckConfirms(j)
  PROVE  LiveInv'
<1> DEFINE session == [jobs[j].file EXCEPT !.check = checks']
           pc == IF Refreshing(j) THEN "storing" ELSE "testing"
<1>1. /\ checks < MaxChecks /\ checks' = checks + 1 /\ HasFile(j, session, pc)
      /\ UNCHANGED <<hour, accountLogins, expired, secret, enrolment, contested>>
  BY DEF CheckConfirms
<1>2. checks' \in checks..MaxChecks /\ checks' \in 0..MaxChecks
      /\ accountLogins' \in accountLogins..MaxLogin
  BY <1>1, LiveFacts
<1>3. /\ session \in Session /\ session.login = jobs[j].file.login /\ session.check = checks'
      /\ session.login <= accountLogins' /\ session.check <= checks'
  BY <1>1, <1>2, LiveFacts DEF Session
<1>4. pc \in {"storing", "testing"} /\ (pc = "storing" => Refreshing(j))
  OBVIOUS
<1> HIDE DEF session, pc
<1>5. ~contested /\ Refreshing(j) => ~SessionOlder(session, secret)
  <2>1. ~contested /\ Refreshing(j) => ~SessionOlder(jobs[j].file, secret)
    BY DEF LiveInv, WritersForward
  <2> QED BY <1>1, <1>3, <2>1, LiveFacts DEF SessionOlder
<1> QED BY <1>1, <1>2, <1>3, <1>4, <1>5, JobFileKeeps

\* Whoever logs in has a session that is later than any other.
LEMMA NewSessionFacts ==
  ASSUME LiveInv, LogsIn
  PROVE  /\ NewSession \in Session
         /\ accountLogins' \in accountLogins..MaxLogin /\ checks' \in checks..MaxChecks
         /\ NewSession.login <= accountLogins' /\ NewSession.check <= checks'
         /\ ~SessionOlder(NewSession, secret)
BY LiveFacts DEF LogsIn, NewSession, Session, SessionOlder

LEMMA PinApprovedKeeps ==
  ASSUME LiveInv, NEW j \in Jobs, PinApproved(j)
  PROVE  LiveInv'
<1>1. /\ LogsIn /\ HasFile(j, NewSession, "storing") /\ jobs[j].pc = "approving"
      /\ UNCHANGED <<hour, expired, secret, enrolment, contested>>
  BY DEF PinApproved
<1>2. Refreshing(j)
  BY <1>1 DEF LiveInv, JobsWithinRights
<1> QED BY <1>1, <1>2, NewSessionFacts, JobFileKeeps

\* Where the conditions of the PIN login do not hold the job ends; where they
\* do they are those JobsWithinRights asks for.
LEMMA PinStepsKeep ==
  ASSUME LiveInv, NEW j \in Jobs, CheckUnavailable(j) \/ PinStarts(j) \/ BrowserReady(j)
  PROVE  LiveInv'
<1>1. UNCHANGED <<hour, broker, expired, secret, enrolment, contested>>
  BY DEF CheckUnavailable, PinStarts, BrowserReady
<1>2. CASE JobEnds(j)
  BY <1>1, <1>2, JobEndKeeps
<1>3. CASE ~JobEnds(j)
  <2>1. /\ \E pc \in {"pin", "browser", "approving"} : JobGoes(j, pc)
        /\ Refreshing(j) /\ jobs[j].trigger = "daily" /\ jobs[j].attempt = 1
        /\ ~Usable(jobs[j].file)
    BY <1>3 DEF CheckUnavailable, PinStarts, BrowserReady, LiveInv, JobsWithinRights, PinLoginAllowed
  <2> QED BY <1>1, <2>1, JobGoKeeps
<1> QED BY <1>2, <1>3

\* A job that stores ends, and the session it leaves is no older than the
\* secret before; as no other job refreshes and, in a history without an
\* overlap, nobody enrols, nobody has anything that is older than it.
LEMMA JobStoresKeeps ==
  ASSUME LiveInv, NEW j \in Jobs, JobStores(j)
  PROVE  LiveInv'
<1>1. /\ jobs[j].pc = "storing" /\ secret' = jobs[j].file /\ jobs' = [jobs EXCEPT ![j] = NoJob]
      /\ UNCHANGED <<hour, accountLogins, checks, expired, enrolment, contested>>
  BY DEF JobStores, JobEnds, broker
<1>2. Refreshing(j)
  BY <1>1 DEF LiveInv, JobsWithinRights
<1>3. \A k \in Jobs : jobs'[k] = IF k = j THEN NoJob ELSE jobs[k]
  BY <1>1 DEF LiveInv, LiveTypeOK
<1>4. \A k \in Jobs : jobs'[k].kind # "refresh"
  BY <1>2, <1>3, NoJobFits DEF LiveInv, OneRefresh, Refreshing
<1>5. LiveTypeOK'
  <2>1. jobs' \in [Jobs -> JobRecord] /\ secret' \in Session
    BY <1>1, LiveFacts, NoJobFits DEF LiveInv, LiveTypeOK, JobRecord
  <2> QED BY <1>1, <2>1 DEF LiveInv, LiveTypeOK, JobRecord
<1>6. JobsWithinRights' /\ OneRefresh' /\ ~Overlapped'
  BY <1>1, <1>3, <1>4, NoJobFits DEF LiveInv, JobsWithinRights, OneRefresh, Overlapped,
     Refreshing, Usable
<1>7. SessionsPast'
  BY <1>1, <1>3, LiveFacts, NoJobFits DEF LiveInv, SessionsPast, Past
<1>8. WritersForward'
  <2> SUFFICES ASSUME ~contested' PROVE WritersForward'
    BY DEF WritersForward
  <2>1. enrolment'.pc # "storing"
    BY <1>1, <1>2 DEF LiveInv, WritersForward, Overlapped
  <2> QED BY <1>4, <1>6, <2>1 DEF WritersForward, Refreshing
<1> QED BY <1>5, <1>6, <1>7, <1>8 DEF LiveInv

\* The enrolment: it starts with nothing, and what it logs in with is later
\* than the secret.
LEMMA EnrolmentKeeps ==
  ASSUME LiveInv, EnrolmentStep
  PROVE  LiveInv'
<1>1. ASSUME NEW pc \in {"idle", "collecting", "login"},
             enrolment' = [pc |-> pc, session |-> NoSession],
             UNCHANGED <<hour, accountLogins, checks, expired, secret, jobs>>,
             contested' \in BOOLEAN, contested => contested',
             ~contested' /\ enrolment.pc = "idle" /\ pc # "idle" => \A j \in Jobs : ~Refreshing(j)
      PROVE  LiveInv'
  <2>1. LiveTypeOK'
    <3>1. enrolment' \in [pc : {"idle", "collecting", "login", "storing"}, session : Session]
      BY <1>1, NoJobFits
    <3> QED BY <1>1, <3>1 DEF LiveInv, LiveTypeOK
  <2>2. JobsWithinRights' /\ OneRefresh' /\ enrolment'.pc = pc
    BY <1>1 DEF LiveInv, JobsWithinRights, OneRefresh, Refreshing, Usable
  <2>3. SessionsPast'
    <3>1. Past(NoSession)
      BY LiveFacts, NoJobFits DEF Past
    <3> QED BY <1>1, <3>1 DEF LiveInv, SessionsPast, Past
  <2>4. WritersForward'
    BY <1>1, <2>2 DEF LiveInv, WritersForward, Overlapped, Refreshing, SessionOlder
  <2> QED BY <2>1, <2>2, <2>3, <2>4 DEF LiveInv
<1>2. ASSUME EnrolmentStarts \/ ContextCollected \/ EnrolmentFails PROVE LiveInv'
  <2>1. UNCHANGED <<hour, accountLogins, checks, expired, secret, jobs>>
    BY <1>2 DEF EnrolmentStarts, ContextCollected, EnrolmentFails, broker
  <2>2. contested' \in BOOLEAN /\ (contested => contested')
    BY <1>2 DEF EnrolmentStarts, ContextCollected, EnrolmentFails, LiveInv, LiveTypeOK
  <2>3. \E pc \in {"idle", "collecting", "login"} :
          /\ enrolment' = [pc |-> pc, session |-> NoSession]
          /\ ~contested' /\ enrolment.pc = "idle" /\ pc # "idle" => \A j \in Jobs : ~Refreshing(j)
    BY <1>2 DEF EnrolmentStarts, ContextCollected, EnrolmentFails, EnrolmentGoes, NotEnrolling
  <2> QED BY <1>1, <2>1, <2>2, <2>3
<1>3. ASSUME QrApproved PROVE LiveInv'
  <2>1. /\ enrolment.pc = "login" /\ LogsIn /\ enrolment' = [pc |-> "storing", session |-> NewSession]
        /\ UNCHANGED <<hour, expired, secret, jobs, contested>>
    BY <1>3 DEF QrApproved, EnrolmentGoes
  <2>2. LiveTypeOK'
    <3>1. accountLogins' \in 1..MaxLogin /\ checks' \in 0..MaxChecks
      BY <2>1, NewSessionFacts, LiveFacts
    <3>2. enrolment' \in [pc : {"idle", "collecting", "login", "storing"}, session : Session]
      BY <2>1, NewSessionFacts
    <3> QED BY <2>1, <3>1, <3>2 DEF LiveInv, LiveTypeOK
  <2>3. JobsWithinRights' /\ OneRefresh' /\ (Overlapped' => Overlapped)
    BY <2>1 DEF LiveInv, JobsWithinRights, OneRefresh, Overlapped, Refreshing, Usable
  <2>4. SessionsPast'
    <3>1. \A session \in Session : Past(session) =>
            session.login <= accountLogins' /\ session.check <= checks'
      BY <2>1, LiveFacts DEF Past, Session, LogsIn
    <3> QED BY <2>1, <3>1, NewSessionFacts, LiveFacts DEF LiveInv, SessionsPast, Past
  <2>5. WritersForward'
    BY <2>1, <2>3, NewSessionFacts DEF LiveInv, WritersForward, Refreshing, SessionOlder
  <2> QED BY <2>2, <2>3, <2>4, <2>5 DEF LiveInv
<1>4. ASSUME EnrolmentStores PROVE LiveInv'
  <2>1. /\ enrolment.pc = "storing" /\ secret' = enrolment.session /\ enrolment' = NotEnrolling
        /\ UNCHANGED <<hour, accountLogins, checks, expired, jobs, contested>>
    BY <1>4 DEF EnrolmentStores, broker
  <2>2. LiveTypeOK'
    <3>1. secret' \in Session
      BY <2>1 DEF LiveInv, LiveTypeOK
    <3> QED BY <2>1, <3>1, NoJobFits DEF LiveInv, LiveTypeOK
  <2>3. JobsWithinRights' /\ OneRefresh' /\ ~Overlapped'
    BY <2>1, NoJobFits DEF LiveInv, JobsWithinRights, OneRefresh, Overlapped, Refreshing, Usable
  <2>4. SessionsPast'
    <3>1. Past(NoSession)
      BY LiveFacts, NoJobFits DEF Past
    <3> QED BY <2>1, <3>1, NoJobFits DEF LiveInv, SessionsPast, Past
  <2>5. ~contested => \A j \in Jobs : ~Refreshing(j)
    BY <2>1 DEF LiveInv, WritersForward, Overlapped
  <2>6. WritersForward'
    BY <2>1, <2>3, <2>5, NoJobFits DEF WritersForward, Refreshing
  <2> QED BY <2>2, <2>3, <2>4, <2>6 DEF LiveInv
<1> QED BY <1>2, <1>3, <1>4 DEF EnrolmentStep

LEMMA LiveNextKeeps == LiveInv /\ [LiveNext]_liveVars => LiveInv'
<1> SUFFICES ASSUME LiveInv, [LiveNext]_liveVars PROVE LiveInv'
  OBVIOUS
<1>1. CASE HourPasses \/ \E login \in 1..accountLogins : SessionExpires(login)
  BY <1>1, WorldKeeps
<1>2. ASSUME NEW j \in Jobs, JobStep(j) PROVE LiveInv'
  <2>1. CASE \/ \E trigger \in RefreshTriggers, attempt \in 1..2 : JobStarts(j, "refresh", trigger, attempt)
             \/ JobStarts(j, "merge", "queue", 1)
    BY <2>1, JobStartKeeps
  <2>2. CASE CheckConfirms(j)
    BY <2>2, CheckConfirmsKeeps
  <2>3. CASE CheckUnavailable(j) \/ PinStarts(j) \/ BrowserReady(j)
    BY <2>3, PinStepsKeep
  <2>4. CASE PinApproved(j)
    BY <2>4, PinApprovedKeeps
  <2>5. CASE JobFails(j) \/ TestsEnd(j)
    BY <2>5, JobEndKeeps DEF JobFails, TestsEnd
  <2>6. CASE JobStores(j)
    BY <2>6, JobStoresKeeps
  <2> QED BY <1>2, <2>1, <2>2, <2>3, <2>4, <2>5, <2>6 DEF JobStep
<1>3. CASE EnrolmentStep
  BY <1>3, EnrolmentKeeps
<1>4. CASE UNCHANGED liveVars
  BY <1>4 DEF liveVars, broker, LiveInv, LiveTypeOK, JobsWithinRights, OneRefresh, SessionsPast,
     Past, WritersForward, Overlapped, Refreshing, Usable, SessionOlder
<1> QED BY <1>1, <1>2, <1>3, <1>4 DEF LiveNext

LEMMA LiveInvAlways == LiveSpec => []LiveInv
BY LiveInitially, LiveNextKeeps, PTL DEF LiveSpec

\* Every session, job and login is what the module declares.
THEOREM LiveTypeCorrect == LiveSpec => []LiveTypeOK
<1>1. LiveInv => LiveTypeOK
  BY DEF LiveInv
<1> QED BY <1>1, LiveInvAlways, PTL

\* A phone is asked for approval by the first attempt of the daily job alone,
\* within the window, when the account has no usable session in its file
\* (isCiPinLoginAllowed is asked again after the browser is set up).
THEOREM ApprovalInWindowAlways == LiveSpec => ApprovalInWindow
<1> DEFINE Approval == \A j \in Jobs : jobs'[j].pc = "approving" /\ jobs[j].pc # "approving" =>
             /\ hour = "window" /\ Refreshing(j) /\ jobs[j].trigger = "daily" /\ jobs[j].attempt = 1
             /\ ~Usable(jobs[j].file)
<1>1. LiveInv /\ [LiveNext]_liveVars => [Approval]_liveVars
  <2> SUFFICES ASSUME LiveInv, LiveNext, NEW j \in Jobs,
                      jobs'[j].pc = "approving", jobs[j].pc # "approving"
               PROVE  /\ hour = "window" /\ Refreshing(j) /\ jobs[j].trigger = "daily"
                      /\ jobs[j].attempt = 1 /\ ~Usable(jobs[j].file)
    OBVIOUS
  <2>1. jobs' # jobs
    OBVIOUS
  <2>2. PICK k \in Jobs : JobStep(k)
    BY <2>1 DEF LiveNext, HourPasses, SessionExpires, EnrolmentStep, EnrolmentStarts,
       ContextCollected, QrApproved, EnrolmentFails, EnrolmentStores
  <2>3. jobs \in [Jobs -> JobRecord]
    BY DEF LiveInv, LiveTypeOK, JobRecord
  <2>4. BrowserReady(k) /\ JobGoes(k, "approving") /\ k = j
    <3>1. CASE BrowserReady(k)
      BY <2>3, <3>1, NoJobFits DEF BrowserReady, JobGoes, JobEnds
    <3>2. CASE \E kind, trigger, attempt : JobStarts(k, kind, trigger, attempt)
      BY <2>3, <3>2 DEF JobStarts
    <3>3. CASE CheckConfirms(k) \/ PinApproved(k)
      BY <2>3, <3>3 DEF CheckConfirms, PinApproved, HasFile, JobRecord
    <3>4. CASE JobEnds(k)
      BY <2>3, <3>4, NoJobFits DEF JobEnds
    <3>5. CASE JobGoes(k, "pin") \/ JobGoes(k, "browser")
      BY <2>3, <3>5 DEF JobGoes, JobRecord
    <3> QED BY <2>2, <3>1, <3>2, <3>3, <3>4, <3>5 DEF JobStep, CheckUnavailable, PinStarts,
            JobFails, JobStores, TestsEnd
  <2>5. PinLoginAllowed(j) /\ jobs[j].pc = "browser"
    BY <2>3, <2>4, NoJobFits DEF BrowserReady, JobEnds
  <2> QED BY <2>5 DEF PinLoginAllowed, LiveInv, JobsWithinRights
<1>2. [][Approval]_liveVars => ApprovalInWindow
  BY DEF ApprovalInWindow
<1> HIDE DEF Approval
<1> QED BY <1>1, <1>2, LiveInvAlways, PTL DEF LiveSpec

\* As long as no enrolment has overlapped a refresh job, the secret is
\* replaced by later sessions only (the concurrency group).
THEOREM SecretMovesForwardAlways == LiveSpec => SecretMovesForward
<1> DEFINE Forward == ~contested => ~SessionOlder(secret', secret)
<1>1. LiveInv /\ [LiveNext]_liveVars => [Forward]_liveVars
  <2> SUFFICES ASSUME LiveInv, LiveNext, ~contested
               PROVE  ~SessionOlder(secret', secret)
    OBVIOUS
  <2>1. CASE secret' = secret
    BY <2>1, LiveFacts DEF SessionOlder
  <2>2. ASSUME NEW j \in Jobs, JobStores(j) PROVE ~SessionOlder(secret', secret)
    BY <2>2 DEF JobStores, LiveInv, WritersForward, JobsWithinRights
  <2>3. CASE EnrolmentStores
    BY <2>3 DEF EnrolmentStores, LiveInv, WritersForward
  <2> QED
    BY <2>1, <2>2, <2>3 DEF LiveNext, HourPasses, SessionExpires, JobStep, JobStarts, CheckConfirms,
       CheckUnavailable, PinStarts, BrowserReady, PinApproved, JobFails, TestsEnd, EnrolmentStep,
       EnrolmentStarts, ContextCollected, QrApproved, EnrolmentFails
<1>2. [][Forward]_liveVars => SecretMovesForward
  BY DEF SecretMovesForward
<1> HIDE DEF Forward
<1> QED BY <1>1, <1>2, LiveInvAlways, PTL DEF LiveSpec

-----------------------------------------------------------------------------
(***************************************************************************)
(* The orders of the REPL: the inductive invariant.                        *)
(***************************************************************************)
CallRecord ==
  [pc : {"none", "session", "destinations", "quote", "preview", "sending", "sent", "refused"},
   helper : {"none", "stage", "confirmOrder", "confirmCancel"}, order : Orders \union {"none"},
   code : 0..MaxCodes, again : BOOLEAN]
PendingRecord == [code : 0..MaxCodes, expired : BOOLEAN]

ReplOrdersTypeOK ==
  /\ calls \in [Calls -> CallRecord] /\ evaluating \subseteq Calls /\ codes \in 0..MaxCodes
  /\ orderPending \in PendingRecord /\ cancelPending \in PendingRecord
  /\ offer \in 0..MaxCodes /\ agreed \subseteq 1..codes /\ sent \in [Codes -> Nat]

\* A call that has taken its confirmation.
Committed(c) == calls[c].pc \in {"sending", "sent"}

\* Each confirmation is taken by one call, for a code the user agreed to, and
\* that call sends it once.
TakenOnce ==
  /\ \A c \in Calls : Committed(c) => /\ calls[c].code \in agreed
                                     /\ calls[c].helper \in {"confirmOrder", "confirmCancel"}
  /\ \A c \in Calls : calls[c].pc = "sending" => sent[calls[c].code] = 0
  /\ \A c, d \in Calls : Committed(c) /\ Committed(d) /\ calls[c].code = calls[d].code => c = d

\* What may still be confirmed is the last offer, and has been taken by no
\* call; a code that has not been made has not been sent.
Untaken(code) == sent[code] = 0 /\ \A c \in Calls : Committed(c) => calls[c].code # code
Offered(pending) == pending.code # 0 /\ ~pending.expired => offer = pending.code
PendingUntaken(pending) ==
  /\ pending.code \in 0..codes
  /\ pending.code # 0 => Untaken(pending.code)
PendingsRight ==
  /\ PendingUntaken(orderPending) /\ PendingUntaken(cancelPending)
  /\ Offered(orderPending) /\ Offered(cancelPending)
  /\ orderPending.code = 0 \/ cancelPending.code = 0
LaterUnsent == \A code \in Codes : code > codes => sent[code] = 0

ReplOrdersInv == ReplOrdersTypeOK /\ TakenOnce /\ PendingsRight /\ LaterUnsent /\ SentAsConfirmed

LEMMA NothingFits ==
  /\ NoCall \in CallRecord /\ NoPending \in PendingRecord
  /\ NoCall.pc = "none" /\ NoCall.code = 0 /\ NoPending.code = 0
  /\ \A order \in Orders \union {"none"} :
       Stage(order) \in CallRecord /\ Stage(order).pc = "session"
<1>1. /\ NoCall \in CallRecord /\ NoPending \in PendingRecord
      /\ NoCall.pc = "none" /\ NoCall.code = 0 /\ NoPending.code = 0
  BY ReplOrdersAssumption DEF ReplOrdersAssumption, NoCall, NoPending, CallRecord, PendingRecord
<1>2. \A order \in Orders \union {"none"} :
        Stage(order) \in CallRecord /\ Stage(order).pc = "session"
  BY <1>1 DEF Stage, CallRecord
<1> QED BY <1>1, <1>2

LEMMA ReplOrdersInitially == ReplOrdersInit => ReplOrdersInv
<1> SUFFICES ASSUME ReplOrdersInit PROVE ReplOrdersInv
  OBVIOUS
<1>1. /\ \A c \in Calls : calls[c] = NoCall
      /\ calls \in [Calls -> CallRecord]
  BY NothingFits DEF ReplOrdersInit
<1>2. ReplOrdersTypeOK
  BY <1>1, NothingFits, ReplOrdersAssumption DEF ReplOrdersAssumption, ReplOrdersInit,
     ReplOrdersTypeOK, Codes
<1>3. TakenOnce
  BY <1>1, NothingFits DEF TakenOnce, Committed
<1>4. PendingsRight /\ LaterUnsent /\ SentAsConfirmed
  BY NothingFits, ReplOrdersAssumption DEF ReplOrdersAssumption, ReplOrdersInit, PendingsRight,
     PendingUntaken, Offered, LaterUnsent, SentAsConfirmed, Codes
<1> QED BY <1>2, <1>3, <1>4 DEF ReplOrdersInv

\* A step in which no confirmation is made, taken or sent.
LEMMA QuietStepKeeps ==
  ASSUME ReplOrdersInv, ReplOrdersTypeOK', codes' = codes, sent' = sent, agreed \subseteq agreed',
         \A c \in Calls : calls'[c].pc \in {"sending", "sent"} =>
           /\ Committed(c) /\ calls'[c].code = calls[c].code /\ calls'[c].helper = calls[c].helper
           /\ calls'[c].pc = "sending" => calls[c].pc = "sending",
         orderPending'.code \in {0, orderPending.code}, Offered(orderPending)',
         cancelPending'.code \in {0, cancelPending.code}, Offered(cancelPending)'
  PROVE  ReplOrdersInv'
<1>1. TakenOnce'
  BY DEF ReplOrdersInv, TakenOnce, Committed
<1>2. \A code : Untaken(code) => Untaken(code)'
  BY DEF Untaken, Committed
<1>3. PendingsRight'
  BY <1>2 DEF ReplOrdersInv, ReplOrdersTypeOK, PendingsRight, PendingUntaken
<1>4. LaterUnsent' /\ SentAsConfirmed'
  BY DEF ReplOrdersInv, LaterUnsent, SentAsConfirmed
<1> QED BY <1>1, <1>3, <1>4 DEF ReplOrdersInv

\* A call that becomes one that has taken nothing, or goes on with what it
\* has, while a confirmation that is pending remains or is dropped.
LEMMA CallStepKeeps ==
  ASSUME ReplOrdersInv, NEW c \in Calls, NEW call \in CallRecord, NEW awaiting \in SUBSET Calls,
         Starts(c, call, awaiting), UNCHANGED codes, UNCHANGED history,
         orderPending' \in {NoPending, orderPending},
         cancelPending' \in {NoPending, cancelPending},
         call.pc \in {"sending", "sent"} => call.pc = calls[c].pc /\ call.code = calls[c].code /\ call.helper = calls[c].helper
  PROVE  ReplOrdersInv'
<1>1. \A d \in Calls : calls'[d] = IF d = c THEN call ELSE calls[d]
  BY DEF Starts, ReplOrdersInv, ReplOrdersTypeOK
<1>2. ReplOrdersTypeOK'
  <2>1. calls' \in [Calls -> CallRecord] /\ evaluating' \subseteq Calls
    BY DEF Starts, ReplOrdersInv, ReplOrdersTypeOK
  <2> QED BY <2>1, NothingFits DEF history, ReplOrdersInv, ReplOrdersTypeOK
<1>3. \A d \in Calls : calls'[d].pc \in {"sending", "sent"} =>
        /\ Committed(d) /\ calls'[d].code = calls[d].code /\ calls'[d].helper = calls[d].helper
        /\ calls'[d].pc = "sending" => calls[d].pc = "sending"
  BY <1>1 DEF Committed
<1>4. Offered(orderPending)' /\ Offered(cancelPending)'
  BY NothingFits DEF history, Offered, ReplOrdersInv, PendingsRight
<1>5. orderPending'.code \in {0, orderPending.code} /\ cancelPending'.code \in {0, cancelPending.code}
  BY NothingFits
<1> QED BY <1>2, <1>3, <1>4, <1>5, QuietStepKeeps DEF history

\* A call that ends.
LEMMA CallEndKeeps ==
  ASSUME ReplOrdersInv, NEW c \in Calls, Ends(c), UNCHANGED confirmations, UNCHANGED history
  PROVE  ReplOrdersInv'
<1>1. evaluating \ {c} \in SUBSET Calls
  BY DEF ReplOrdersInv, ReplOrdersTypeOK
<1> QED BY <1>1, NothingFits, CallStepKeeps DEF Ends, confirmations

\* stageOrder until the preview it shows.
LEMMA StagingKeeps ==
  ASSUME ReplOrdersInv, NEW c \in Calls,
         (\E order \in Orders : LineStages(c, order)) \/ StageAdvances(c) \/ StageThrows(c)
  PROVE  ReplOrdersInv'
<1>1. UNCHANGED confirmations /\ UNCHANGED history
  BY DEF LineStages, StageAdvances, StageThrows
<1>2. evaluating \in SUBSET Calls /\ calls[c] \in CallRecord
  BY DEF ReplOrdersInv, ReplOrdersTypeOK
<1>3. ASSUME NEW order \in Orders, LineStages(c, order) PROVE ReplOrdersInv'
  <2>1. PICK awaiting \in {{c}, {}} : Starts(c, Stage(order), awaiting)
    BY <1>3 DEF LineStages
  <2> QED BY <1>1, <2>1, NothingFits, CallStepKeeps DEF confirmations
<1>4. CASE StageAdvances(c)
  <2> DEFINE pc == NextStep(calls[c].pc, calls[c].order)
             call == [calls[c] EXCEPT !.pc = pc]
  <2>1. Starts(c, call, evaluating)
    BY <1>4 DEF StageAdvances, Goes
  <2>2. pc \in {"destinations", "quote", "preview"}
    BY DEF NextStep
  <2> HIDE DEF pc
  <2>3. call \in CallRecord /\ call.pc \notin {"sending", "sent"}
    BY <1>2, <2>2 DEF CallRecord
  <2> QED BY <1>1, <1>2, <2>1, <2>3, CallStepKeeps DEF confirmations
<1>5. CASE StageThrows(c)
  <2>1. CASE Ends(c)
    BY <1>1, <2>1, CallEndKeeps
  <2>2. CASE ~Ends(c)
    <3> DEFINE call == [Stage(calls[c].order) EXCEPT !.again = TRUE]
    <3>1. Starts(c, call, evaluating)
      BY <1>5, <2>2 DEF StageThrows
    <3>2. Stage(calls[c].order) \in CallRecord /\ Stage(calls[c].order).pc = "session"
      BY <1>2, NothingFits DEF CallRecord
    <3>3. call \in CallRecord /\ call.pc = "session"
      BY <3>2 DEF CallRecord
    <3> QED BY <1>1, <1>2, <3>1, <3>3, CallStepKeeps DEF confirmations
  <2> QED BY <2>1, <2>2
<1> QED BY <1>3, <1>4, <1>5

\* A confirmation that is made takes the place of both; its code is new.
LEMMA OfferKeeps ==
  ASSUME ReplOrdersInv, codes < MaxCodes, codes' = codes + 1, offer' = codes',
         calls' \in [Calls -> CallRecord], evaluating' \subseteq Calls,
         \A c \in Calls : calls'[c].pc \in {"sending", "sent"} => calls'[c] = calls[c],
         UNCHANGED <<agreed, sent>>,
         \/ /\ orderPending' = [code |-> codes', expired |-> FALSE] /\ cancelPending' = NoPending
         \/ /\ cancelPending' = [code |-> codes', expired |-> FALSE] /\ orderPending' = NoPending
  PROVE  ReplOrdersInv'
<1>1. codes \in 0..MaxCodes /\ codes' \in 1..MaxCodes /\ codes' \in 0..MaxCodes /\ MaxCodes \in Nat /\ codes \in Nat
  BY ReplOrdersAssumption DEF ReplOrdersAssumption, ReplOrdersInv, ReplOrdersTypeOK
<1>2. ReplOrdersTypeOK'
  <2>1. orderPending' \in PendingRecord /\ cancelPending' \in PendingRecord
    <3>1. [code |-> codes', expired |-> FALSE] \in PendingRecord
      BY <1>1 DEF PendingRecord
    <3> QED BY <3>1, NothingFits
  <2>2. agreed' \subseteq 1..codes'
    BY <1>1 DEF ReplOrdersInv, ReplOrdersTypeOK
  <2> QED BY <1>1, <2>1, <2>2 DEF ReplOrdersInv, ReplOrdersTypeOK
<1>3. TakenOnce'
  BY DEF ReplOrdersInv, TakenOnce, Committed
<1>4. sent[codes'] = 0 /\ \A c \in Calls : Committed(c) => calls[c].code # codes'
  BY <1>1 DEF ReplOrdersInv, ReplOrdersTypeOK, LaterUnsent, TakenOnce, Codes
<1>5. PendingsRight'
  <2>1. Offered(orderPending)' /\ Offered(cancelPending)'
    BY NothingFits DEF Offered
  <2>2. PendingUntaken(orderPending)' /\ PendingUntaken(cancelPending)'
    BY <1>1, <1>4, NothingFits DEF PendingUntaken, Untaken, Committed
  <2> QED BY <2>1, <2>2, NothingFits DEF PendingsRight
<1>6. LaterUnsent' /\ SentAsConfirmed'
  BY <1>1 DEF ReplOrdersInv, LaterUnsent, SentAsConfirmed, Codes
<1> QED BY <1>2, <1>3, <1>5, <1>6 DEF ReplOrdersInv

LEMMA OffersKeep ==
  ASSUME ReplOrdersInv, CancelOrder \/ \E c \in Calls : Staged(c)
  PROVE  ReplOrdersInv'
<1>1. CASE CancelOrder
  BY <1>1, OfferKeeps DEF CancelOrder, ReplOrdersInv, ReplOrdersTypeOK
<1>2. ASSUME NEW c \in Calls, Staged(c) PROVE ReplOrdersInv'
  <2>1. /\ calls' \in [Calls -> CallRecord] /\ evaluating' \subseteq Calls
        /\ \A d \in Calls : calls'[d] = IF d = c THEN NoCall ELSE calls[d]
    BY <1>2, NothingFits DEF Staged, Ends, Starts, ReplOrdersInv, ReplOrdersTypeOK
  <2>2. \A d \in Calls : calls'[d].pc \in {"sending", "sent"} => calls'[d] = calls[d]
    BY <2>1, NothingFits
  <2> QED BY <1>2, <2>1, <2>2, OfferKeeps DEF Staged
<1> QED BY <1>1, <1>2

\* Confirmations that are dropped or expire, and the process that ends.
LEMMA DropsKeep ==
  ASSUME ReplOrdersInv, DiscardOrder \/ PendingOrder \/ CodeExpires \/ ProcessEnds
  PROVE  ReplOrdersInv'
<1>1. UNCHANGED <<codes, agreed, sent>>
  BY DEF DiscardOrder, PendingOrder, DropsOrder, CodeExpires, ProcessEnds
<1>2. calls' \in [Calls -> CallRecord] /\ evaluating' \subseteq Calls
  BY NothingFits DEF DiscardOrder, PendingOrder, DropsOrder, CodeExpires, ProcessEnds,
     ReplOrdersInv, ReplOrdersTypeOK
<1>3. \A c \in Calls : calls'[c].pc \in {"sending", "sent"} => calls'[c] = calls[c]
  BY NothingFits DEF DiscardOrder, PendingOrder, DropsOrder, CodeExpires, ProcessEnds
<1>4. offer \in 0..MaxCodes /\ 0 \in 0..MaxCodes
  BY ReplOrdersAssumption DEF ReplOrdersAssumption, ReplOrdersInv, ReplOrdersTypeOK
<1>5. /\ orderPending' \in PendingRecord /\ cancelPending' \in PendingRecord
      /\ orderPending'.code \in {0, orderPending.code}
      /\ cancelPending'.code \in {0, cancelPending.code}
      /\ offer' \in {0, offer}
      /\ Offered(orderPending)' /\ Offered(cancelPending)'
  <2>0. /\ orderPending \in PendingRecord /\ cancelPending \in PendingRecord
        /\ Offered(orderPending) /\ Offered(cancelPending)
        /\ orderPending.code = 0 \/ cancelPending.code = 0
    BY DEF ReplOrdersInv, ReplOrdersTypeOK, PendingsRight
  <2>1. CASE DropsOrder
    BY <2>0, <2>1, NothingFits DEF DropsOrder, Offered
  <2>2. CASE CodeExpires
    BY <2>0, <2>2 DEF CodeExpires, Offered, PendingRecord
  <2>3. CASE ProcessEnds
    BY <2>3, NothingFits DEF ProcessEnds, Offered
  <2> QED BY <2>1, <2>2, <2>3 DEF DiscardOrder, PendingOrder
<1>6. ReplOrdersTypeOK'
  BY <1>1, <1>2, <1>4, <1>5 DEF ReplOrdersInv, ReplOrdersTypeOK
<1> QED BY <1>1, <1>3, <1>5, <1>6, QuietStepKeeps DEF Committed

\* consumeConfirmation: what is pending is taken by the call, or dropped, or
\* left alone, before the call awaits anything; the second evaluation of a
\* line finds nothing it could take.
LEMMA ConfirmsKeeps ==
  ASSUME ReplOrdersInv, NEW c \in Calls, NEW call \in CallRecord, NEW awaiting \in SUBSET Calls,
         call.helper \in {"confirmOrder", "confirmCancel"}, call.code \in 1..codes,
         Confirms(c, call, awaiting), codes' = codes, offer' = offer, sent' = sent,
         \/ agreed' = IF offer = call.code THEN agreed \union {call.code} ELSE agreed
         \/ Committed(c) /\ calls[c].code = call.code /\ agreed' = agreed
  PROVE  ReplOrdersInv'
<1> DEFINE pending == Pending(call.helper)
           accepted == ~pending.expired /\ pending.code = call.code
           new == [call EXCEPT !.pc = IF accepted THEN "sending" ELSE "refused"]
<1>1. /\ Starts(c, new, awaiting)
      /\ IF accepted \/ pending.expired THEN Takes(call.helper)
         ELSE UNCHANGED <<orderPending, cancelPending>>
  BY DEF Confirms
<1>2. /\ orderPending' \in {NoPending, orderPending} /\ cancelPending' \in {NoPending, cancelPending}
      /\ accepted => Takes(call.helper)
  BY <1>1 DEF Takes
<1>3. /\ new \in CallRecord /\ new.code = call.code /\ new.helper = call.helper
      /\ new.pc = IF accepted THEN "sending" ELSE "refused"
  BY DEF CallRecord
<1>4. /\ call.code # 0 /\ agreed \subseteq agreed' /\ agreed' \subseteq 1..codes
  <2>1. agreed' = agreed \/ agreed' = agreed \union {call.code}
    OBVIOUS
  <2>2. codes \in Nat /\ agreed \subseteq 1..codes
    BY ReplOrdersAssumption DEF ReplOrdersAssumption, ReplOrdersInv, ReplOrdersTypeOK
  <2>3. call.code # 0 /\ {call.code} \subseteq 1..codes
    BY <2>2
  <2> QED BY <2>1, <2>2, <2>3
<1>5. CASE ~accepted
  <2> HIDE DEF accepted, pending, new
  <2>1. \A d \in Calls : calls'[d] = IF d = c THEN new ELSE calls[d]
    BY <1>1 DEF Starts, ReplOrdersInv, ReplOrdersTypeOK
  <2>2. ReplOrdersTypeOK'
    <3>1. calls' \in [Calls -> CallRecord] /\ evaluating' \subseteq Calls
      BY <1>1, <1>3 DEF Starts, ReplOrdersInv, ReplOrdersTypeOK
    <3> QED BY <1>2, <1>4, <3>1, NothingFits DEF ReplOrdersInv, ReplOrdersTypeOK
  <2>3. Offered(orderPending)' /\ Offered(cancelPending)'
    BY <1>2, NothingFits DEF Offered, ReplOrdersInv, PendingsRight
  <2>4. orderPending'.code \in {0, orderPending.code} /\ cancelPending'.code \in {0, cancelPending.code}
    BY <1>2, NothingFits
  <2>5. \A d \in Calls : calls'[d].pc \in {"sending", "sent"} => d # c
    BY <1>3, <1>5, <2>1
  <2> QED BY <1>4, <2>1, <2>2, <2>3, <2>4, <2>5, QuietStepKeeps DEF Committed
<1>6. CASE accepted
  <2>1. Untaken(call.code) /\ offer = call.code
    BY <1>2, <1>4, <1>6 DEF Pending, Takes, ReplOrdersInv, PendingsRight, PendingUntaken, Offered
  <2>2. orderPending'.code = 0 /\ cancelPending'.code = 0
    BY <1>2, <1>4, <1>6, NothingFits DEF Pending, Takes, ReplOrdersInv, PendingsRight
  <2>3. call.code \in agreed' /\ ~(Committed(c) /\ calls[c].code = call.code)
    BY <2>1 DEF Untaken
  <2> HIDE DEF accepted, pending, new
  <2>4. \A d \in Calls : calls'[d] = IF d = c THEN new ELSE calls[d]
    BY <1>1 DEF Starts, ReplOrdersInv, ReplOrdersTypeOK
  <2>5. ReplOrdersTypeOK'
    <3>1. calls' \in [Calls -> CallRecord] /\ evaluating' \subseteq Calls
      BY <1>1, <1>3 DEF Starts, ReplOrdersInv, ReplOrdersTypeOK
    <3> QED BY <1>2, <1>4, <3>1, NothingFits DEF ReplOrdersInv, ReplOrdersTypeOK
  <2>6. TakenOnce'
    BY <1>3, <1>4, <1>6, <2>1, <2>3, <2>4 DEF ReplOrdersInv, TakenOnce, Committed, Untaken
  <2>7. PendingsRight'
    BY <2>2, <2>5 DEF PendingsRight, PendingUntaken, Offered, ReplOrdersTypeOK
  <2>8. LaterUnsent' /\ SentAsConfirmed'
    BY <1>4 DEF ReplOrdersInv, LaterUnsent, SentAsConfirmed
  <2> QED BY <2>5, <2>6, <2>7, <2>8 DEF ReplOrdersInv
<1> QED BY <1>5, <1>6

LEMMA LineConfirmsKeeps ==
  ASSUME ReplOrdersInv, NEW c \in Calls, NEW helper \in {"confirmOrder", "confirmCancel"},
         NEW code \in 1..codes, LineConfirms(c, helper, code)
  PROVE  ReplOrdersInv'
<1> DEFINE call == [NoCall EXCEPT !.helper = helper, !.code = code]
<1>1. PICK awaiting \in {{c}, {}} : Confirms(c, call, awaiting)
  BY DEF LineConfirms
<1>2. code \in 0..MaxCodes
  BY ReplOrdersAssumption DEF ReplOrdersAssumption, ReplOrdersInv, ReplOrdersTypeOK
<1>3. call \in CallRecord /\ call.helper = helper /\ call.code = code
  BY <1>2, NothingFits DEF CallRecord
<1>4. /\ UNCHANGED <<codes, offer, sent>>
      /\ agreed' = IF offer = code THEN agreed \union {code} ELSE agreed
  BY DEF LineConfirms
<1> HIDE DEF call
<1> QED BY <1>1, <1>3, <1>4, ConfirmsKeeps

\* The one call that has taken the confirmation sends what it has shown.
LEMMA SendsKeeps ==
  ASSUME ReplOrdersInv, NEW c \in Calls, Sends(c)
  PROVE  ReplOrdersInv'
<1> DEFINE code == calls[c].code
           new == [calls[c] EXCEPT !.pc = "sent"]
<1>1. /\ calls[c].pc = "sending" /\ sent' = [sent EXCEPT ![code] = @ + 1]
      /\ calls' = [calls EXCEPT ![c] = new] /\ evaluating' = evaluating
      /\ UNCHANGED <<codes, orderPending, cancelPending, offer, agreed>>
  BY DEF Sends, Goes, Starts, confirmations
<1>2. /\ code \in agreed /\ code \in 1..codes /\ code \in Codes /\ sent[code] = 0
      /\ Committed(c)
  BY <1>1, ReplOrdersAssumption DEF ReplOrdersAssumption, ReplOrdersInv, ReplOrdersTypeOK,
     TakenOnce, Committed, Codes
<1>3. new \in CallRecord /\ new.pc = "sent" /\ new.code = code /\ new.helper = calls[c].helper
  BY DEF ReplOrdersInv, ReplOrdersTypeOK, CallRecord
<1> HIDE DEF code, new
<1>4. \A d \in Calls : calls'[d] = IF d = c THEN new ELSE calls[d]
  BY <1>1 DEF ReplOrdersInv, ReplOrdersTypeOK
<1>5. \A k \in Codes : sent'[k] = IF k = code THEN 1 ELSE sent[k]
  BY <1>1, <1>2 DEF ReplOrdersInv, ReplOrdersTypeOK
<1>6. ReplOrdersTypeOK'
  BY <1>1, <1>2, <1>3 DEF ReplOrdersInv, ReplOrdersTypeOK
<1>7. \A d \in Calls : d # c /\ Committed(d) => calls[d].code # code /\ calls[d].code \in Codes
  <2>1. \A d \in Calls : d # c /\ Committed(d) => calls[d].code # code
    BY <1>2 DEF code, ReplOrdersInv, TakenOnce
  <2>2. agreed \subseteq Codes
    BY ReplOrdersAssumption DEF ReplOrdersAssumption, ReplOrdersInv, ReplOrdersTypeOK, Codes
  <2> QED BY <2>1, <2>2 DEF ReplOrdersInv, TakenOnce
<1>8. TakenOnce'
  <2>1. \A d \in Calls : Committed(d)' => Committed(d) /\ calls'[d].code = calls[d].code
                                       /\ calls'[d].helper = calls[d].helper
    BY <1>2, <1>3, <1>4 DEF code, Committed
  <2>2. \A d \in Calls : calls'[d].pc = "sending" => sent'[calls'[d].code] = 0
    <3>1. \A d \in Calls : calls'[d].pc = "sending" => d # c /\ Committed(d) /\ calls[d].pc = "sending"
      BY <1>3, <1>4 DEF Committed
    <3> QED BY <1>4, <1>5, <1>7, <3>1 DEF ReplOrdersInv, TakenOnce
  <2>3. \A d, e \in Calls : Committed(d)' /\ Committed(e)' /\ calls'[d].code = calls'[e].code => d = e
    BY <2>1 DEF ReplOrdersInv, TakenOnce
  <2> QED BY <1>1, <2>1, <2>2, <2>3 DEF ReplOrdersInv, TakenOnce
<1>9. PendingsRight'
  <2>1. ASSUME NEW k \in 1..codes, Untaken(k)
        PROVE  sent'[k] = 0 /\ \A d \in Calls : calls'[d].pc \in {"sending", "sent"} => calls'[d].code # k
    <3>1. k # code /\ k \in Codes
      BY <1>2, <2>1, ReplOrdersAssumption DEF code, ReplOrdersAssumption, ReplOrdersInv,
         ReplOrdersTypeOK, Untaken, Codes
    <3> QED BY <1>3, <1>4, <1>5, <2>1, <3>1 DEF Untaken, Committed
  <2>2. PendingUntaken(orderPending)' /\ PendingUntaken(cancelPending)'
    BY <1>1, <2>1 DEF ReplOrdersInv, ReplOrdersTypeOK, PendingsRight, PendingUntaken, Untaken, Committed
  <2> QED BY <1>1, <2>2 DEF ReplOrdersInv, PendingsRight, Offered
<1>10. LaterUnsent' /\ SentAsConfirmed'
  BY <1>1, <1>2, <1>5, ReplOrdersAssumption DEF ReplOrdersAssumption, ReplOrdersInv,
     ReplOrdersTypeOK, LaterUnsent, SentAsConfirmed, Codes
<1> QED BY <1>6, <1>8, <1>9, <1>10 DEF ReplOrdersInv

LEMMA ConfirmThrowsKeeps ==
  ASSUME ReplOrdersInv, NEW c \in Calls, ConfirmThrows(c)
  PROVE  ReplOrdersInv'
<1>1. Committed(c) /\ UNCHANGED codes /\ UNCHANGED history
  BY DEF ConfirmThrows, Committed
<1>2. CASE Ends(c) /\ UNCHANGED <<orderPending, cancelPending>>
  BY <1>1, <1>2, CallEndKeeps DEF confirmations
<1>3. CASE ~(Ends(c) /\ UNCHANGED <<orderPending, cancelPending>>)
  <2> DEFINE call == [calls[c] EXCEPT !.again = TRUE]
  <2>1. Confirms(c, call, evaluating)
    BY <1>3 DEF ConfirmThrows
  <2>2. /\ call \in CallRecord /\ call.code = calls[c].code /\ call.helper = calls[c].helper
        /\ evaluating \in SUBSET Calls
    BY DEF ReplOrdersInv, ReplOrdersTypeOK, CallRecord
  <2>3. call.code \in 1..codes
    BY <1>1, <2>2 DEF ReplOrdersInv, ReplOrdersTypeOK, TakenOnce
  <2>4. call.helper \in {"confirmOrder", "confirmCancel"}
    BY <1>1, <2>2 DEF ReplOrdersInv, TakenOnce
  <2> HIDE DEF call
  <2> QED BY <1>1, <2>1, <2>2, <2>3, <2>4, ConfirmsKeeps DEF history
<1> QED BY <1>2, <1>3

LEMMA ReplOrdersNextKeeps == ReplOrdersInv /\ [ReplOrdersNext]_replOrdersVars => ReplOrdersInv'
<1> SUFFICES ASSUME ReplOrdersInv, [ReplOrdersNext]_replOrdersVars PROVE ReplOrdersInv'
  OBVIOUS
<1>1. ASSUME NEW c \in Calls, Helper(c) PROVE ReplOrdersInv'
  <2>1. CASE (\E order \in Orders : LineStages(c, order)) \/ StageAdvances(c) \/ StageThrows(c)
    BY <2>1, StagingKeeps
  <2>2. CASE \E helper \in {"confirmOrder", "confirmCancel"}, code \in 1..codes : LineConfirms(c, helper, code)
    BY <2>2, LineConfirmsKeeps
  <2>3. CASE Staged(c)
    BY <2>3, OffersKeep
  <2>4. CASE Refused(c) \/ ConfirmReturns(c)
    BY <2>4, CallEndKeeps DEF Refused, ConfirmReturns
  <2>5. CASE Sends(c)
    BY <2>5, SendsKeeps
  <2>6. CASE ConfirmThrows(c)
    BY <2>6, ConfirmThrowsKeeps
  <2> QED BY <1>1, <2>1, <2>2, <2>3, <2>4, <2>5, <2>6 DEF Helper
<1>2. CASE CancelOrder
  BY <1>2, OffersKeep
<1>3. CASE DiscardOrder \/ PendingOrder \/ CodeExpires \/ ProcessEnds
  BY <1>3, DropsKeep
<1>4. CASE UNCHANGED replOrdersVars
  BY <1>4 DEF replOrdersVars, ReplOrdersInv, ReplOrdersTypeOK, TakenOnce, Committed, PendingsRight,
     PendingUntaken, Untaken, Offered, LaterUnsent, SentAsConfirmed
<1> QED BY <1>1, <1>2, <1>3, <1>4 DEF ReplOrdersNext

\* No order and no cancellation is sent but once, for a code the user entered
\* while it was the last offer, however many helpers run at the same time and
\* although a line may be evaluated twice (consumeConfirmation takes the
\* confirmation before it awaits anything).
THEOREM SentAsConfirmedAlways == ReplOrdersSpec => []SentAsConfirmed
<1>1. ReplOrdersInv => SentAsConfirmed
  BY DEF ReplOrdersInv
<1> QED BY <1>1, ReplOrdersInitially, ReplOrdersNextKeeps, PTL DEF ReplOrdersSpec

-----------------------------------------------------------------------------
(***************************************************************************)
(* The refresh timer of the REPL.                                          *)
(***************************************************************************)
LEMMA KeptAliveKeeps ==
  ASSUME KeptAlive, [ReplSessionNext]_replSessionVars
  PROVE  KeptAlive'
<1>1. CASE TimerFires \/ StrayFires
  BY <1>1 DEF TimerFires, StrayFires, Fires, KeptAlive
<1>2. CASE ScheduledRestored \/ ScheduledRefreshed \/ ScheduledEnds \/ ScheduledFails
  BY <1>2 DEF ScheduledRestored, ScheduledRefreshed, ScheduledEnds, ScheduledFails, timers,
     Schedules, Arms, KeptAlive
<1>3. ASSUME NEW h \in Helpers, SessionHelper(h) PROVE KeptAlive'
  BY <1>3 DEF SessionHelper, LoginStarts, ContextCollects, LoginApproved, ProfileRead,
     RefreshStarts, RefreshAnswers, ClearStarts, FileCleared, HelperThrows, timers, Schedules,
     KeptAlive
<1>4. CASE Restore \/ UNCHANGED replSessionVars
  BY <1>4 DEF Restore, replSessionVars, timers, KeptAlive
<1>5. CASE Restarts
  BY <1>5 DEF Restarts, KeptAlive
<1> QED BY <1>1, <1>2, <1>3, <1>4, <1>5 DEF ReplSessionNext

\* The refresh the REPL has announced comes, however many helpers set, stop
\* or lose timers.
THEOREM KeptAliveAlways == ReplSessionSpec => []KeptAlive
<1>1. ReplSessionInit => KeptAlive
  BY DEF ReplSessionInit, KeptAlive
<1> QED BY <1>1, KeptAliveKeeps, PTL DEF ReplSessionSpec


-----------------------------------------------------------------------------
(***************************************************************************)
(* The badge worker: the inductive invariant.                              *)
(***************************************************************************)

RunRecord ==
  [event : Events, attempt : Nat, status : {"in_progress", "completed"},
   conclusion : {"none", "success", "failure", "cancelled"}, results : Outcomes \union {<<>>}]

KeyLists ==
  {<<>>, <<"latest">>, <<"scheduled">>, <<"manual">>,
   <<"latest", "scheduled">>, <<"latest", "manual">>}

GitHubTypes == runs \in Seq(RunRecord) /\ filed \subseteq Reports

StoreTypes ==
  /\ overlapped \in BOOLEAN
  /\ store \in [Categories -> Reports \union {NoReport}]
  /\ ingest \in [Posts ->
       [pc : {"idle", "get", "put", "stored", "ignored"}, report : Reports \union {NoReport},
        keys : KeyLists, wrote : BOOLEAN]]

\* The keys an ingestion has before it: all of the event's, or the second.
KeysLeft ==
  \A p \in Posts : Busy(p) =>
    /\ ingest[p].report \in Reports
    /\ \/ ingest[p].keys = Keys(ingest[p].report.event)
       \/ ingest[p].keys = <<"scheduled">> /\ ingest[p].report.event = "schedule"
       \/ ingest[p].keys = <<"manual">> /\ ingest[p].report.event = "workflow_dispatch"

OneIngestion == \A p, q \in Posts : Busy(p) /\ Busy(q) => p = q

\* What the comparison found still holds when the record is written, and an
\* ingestion that is at its second key has done the latest record.
WritesNewer ==
  \A p \in Posts : ingest[p].pc = "put" =>
    isNewerReport(ingest[p].report, store[Head(ingest[p].keys)])
LatestFirst ==
  \A p \in Posts : Busy(p) /\ ingest[p].keys \in {<<"scheduled">>, <<"manual">>} =>
    AtLeast(store["latest"], ingest[p].report)

IngestInv ==
  /\ StoreTypes /\ KeysLeft
  /\ ~overlapped => OneIngestion /\ WritesNewer /\ LatestFirst
  /\ LatestCovers

LEMMA KeyFacts ==
  /\ \A key \in Categories : Head(<<key>>) = key /\ Len(<<key>>) = 1
  /\ \A a, b \in Categories :
       Head(<<a, b>>) = a /\ Len(<<a, b>>) = 2 /\ Tail(<<a, b>>) = <<b>>
  /\ Len(<<>>) = 0
OBVIOUS

\* An ingestion is at the first of two keys, or at its last one.
AtFirst(p) ==
  /\ Head(ingest[p].keys) = "latest" /\ Len(ingest[p].keys) = 2
  /\ \/ Tail(ingest[p].keys) = <<"scheduled">> /\ ingest[p].report.event = "schedule"
     \/ Tail(ingest[p].keys) = <<"manual">> /\ ingest[p].report.event = "workflow_dispatch"

AtLast(p) ==
  /\ Len(ingest[p].keys) = 1
  /\ \/ Head(ingest[p].keys) = "latest" /\ ingest[p].report.event = "push"
     \/ /\ Head(ingest[p].keys) = "scheduled" /\ ingest[p].report.event = "schedule"
        /\ ingest[p].keys = <<"scheduled">>
     \/ /\ Head(ingest[p].keys) = "manual" /\ ingest[p].report.event = "workflow_dispatch"
        /\ ingest[p].keys = <<"manual">>

LEMMA KeysCases ==
  ASSUME IngestInv, NEW p \in Posts, Busy(p)
  PROVE  /\ ingest[p].report \in Reports /\ Head(ingest[p].keys) \in Categories
         /\ AtFirst(p) \/ AtLast(p)
<1>1. ingest[p].report \in Reports /\ ingest[p].report.event \in Events
  BY DEF IngestInv, KeysLeft, Reports
<1>2. {"latest", "scheduled", "manual"} = Categories
  BY DEF Categories
<1>3. \/ ingest[p].keys = Keys(ingest[p].report.event)
      \/ ingest[p].keys = <<"scheduled">> /\ ingest[p].report.event = "schedule"
      \/ ingest[p].keys = <<"manual">> /\ ingest[p].report.event = "workflow_dispatch"
  BY DEF IngestInv, KeysLeft
<1>4. CASE ingest[p].keys = Keys(ingest[p].report.event)
  BY <1>1, <1>2, <1>4, KeyFacts DEF Keys, Events, AtFirst, AtLast
<1>5. CASE ingest[p].keys = <<"scheduled">> /\ ingest[p].report.event = "schedule"
  BY <1>1, <1>2, <1>5, KeyFacts DEF AtLast
<1>6. CASE ingest[p].keys = <<"manual">> /\ ingest[p].report.event = "workflow_dispatch"
  BY <1>1, <1>2, <1>6, KeyFacts DEF AtLast
<1> QED BY <1>3, <1>4, <1>5, <1>6

\* Being at least as new is an order on reports.
LEMMA AtLeastFacts ==
  /\ \A report \in Reports : AtLeast(report, report)
  /\ \A a, b \in Reports, c \in Reports \union {NoReport} :
       AtLeast(c, b) /\ AtLeast(a, c) => AtLeast(a, b)
  /\ \A a \in Reports, c \in Reports \union {NoReport} :
       /\ isNewerReport(a, c) /\ c # NoReport => AtLeast(a, c)
       /\ ~isNewerReport(a, c) => AtLeast(c, a)
BY BadgeAssumption DEF AtLeast, isNewerReport, Older, Reports

\* What a step leaves of an ingestion that is not its own.
LEMMA KeyDoneIngest ==
  ASSUME IngestInv, NEW p \in Posts, Busy(p), NEW wrote \in BOOLEAN, KeyDone(p, wrote)
  PROVE  /\ ingest' \in [Posts ->
              [pc : {"idle", "get", "put", "stored", "ignored"},
               report : Reports \union {NoReport}, keys : KeyLists, wrote : BOOLEAN]]
         /\ \A q \in Posts \ {p} : ingest'[q] = ingest[q]
         /\ \/ /\ Head(ingest[p].keys) = "latest" /\ ingest'[p].pc = "get"
               /\ ingest'[p].report = ingest[p].report
               /\ \/ ingest'[p].keys = <<"scheduled">> /\ ingest[p].report.event = "schedule"
                  \/ ingest'[p].keys = <<"manual">> /\ ingest[p].report.event = "workflow_dispatch"
            \/ Len(ingest[p].keys) = 1 /\ ingest'[p].pc \in {"stored", "ignored"}
<1>0. ingest[p].report \in Reports /\ (AtFirst(p) \/ AtLast(p))
  BY KeysCases
<1>1. CASE AtFirst(p)
  <2>1. ingest' = [ingest EXCEPT ![p] =
                    [ingest[p] EXCEPT !.pc = "get", !.keys = Tail(@), !.wrote = wrote]]
    BY <1>1 DEF KeyDone, AtFirst
  <2>2. ingest[p].report \in Reports \union {NoReport} /\ Tail(ingest[p].keys) \in KeyLists
    BY <1>0, <1>1 DEF KeyLists, AtFirst
  <2>3. /\ ingest'[p].pc = "get" /\ ingest'[p].report = ingest[p].report
        /\ ingest'[p].keys = Tail(ingest[p].keys)
    BY <2>1 DEF IngestInv, StoreTypes
  <2>4. /\ Head(ingest[p].keys) = "latest"
        /\ \/ ingest'[p].keys = <<"scheduled">> /\ ingest[p].report.event = "schedule"
           \/ ingest'[p].keys = <<"manual">> /\ ingest[p].report.event = "workflow_dispatch"
    BY <1>1, <2>3 DEF AtFirst
  <2>5. /\ ingest' \in [Posts ->
             [pc : {"idle", "get", "put", "stored", "ignored"},
              report : Reports \union {NoReport}, keys : KeyLists, wrote : BOOLEAN]]
        /\ \A q \in Posts \ {p} : ingest'[q] = ingest[q]
    BY <2>1, <2>2 DEF IngestInv, StoreTypes
  <2> QED BY <2>3, <2>4, <2>5
<1>2. CASE AtLast(p)
  <2>1. Len(ingest[p].keys) = 1
    BY <1>2 DEF AtLast
  <2>2. ingest' = [ingest EXCEPT ![p] = [Idle EXCEPT !.pc = IF wrote THEN "stored" ELSE "ignored"]]
    BY <2>1 DEF KeyDone
  <2>3. <<>> \in KeyLists
    BY DEF KeyLists
  <2> QED BY <2>1, <2>2, <2>3 DEF IngestInv, StoreTypes, Idle
<1> QED BY <1>0, <1>1, <1>2

(***************************************************************************)
(* Every step of the worker keeps it.                                      *)
(***************************************************************************)

\* Outside of ingestions neither records nor ingestions change.
LEMMA OthersKeep ==
  ASSUME IngestInv, UNCHANGED <<store, ingest, overlapped>> PROVE IngestInv'
BY DEF IngestInv, StoreTypes, KeysLeft, OneIngestion, WritesNewer, LatestFirst, LatestCovers, Busy

LEMMA PostArrivesKeeps ==
  ASSUME IngestInv, NEW p \in Posts, NEW report \in Reports, PostArrives(p, report)
  PROVE  IngestInv'
<1> DEFINE started == [pc |-> "get", report |-> report, keys |-> Keys(report.event), wrote |-> FALSE]
<1>1. /\ ~Busy(p) /\ store' = store
      /\ overlapped' = (overlapped \/ \E q \in Posts \ {p} : Busy(q))
      /\ ingest' = [ingest EXCEPT ![p] = IF validateStoredReport(report) THEN started ELSE Idle]
  BY DEF PostArrives
<1>2. /\ Keys(report.event) \in KeyLists
      /\ Keys(report.event) \notin {<<"scheduled">>, <<"manual">>}
  <2>1. report.event \in Events
    BY DEF Reports
  <2>2. Len(<<"scheduled">>) = 1 /\ Len(<<"manual">>) = 1
    OBVIOUS
  <2>3. Head(Keys(report.event)) = "latest" /\ Keys(report.event) \in KeyLists
    BY <2>1, KeyFacts DEF Events, Keys, KeyLists, Categories
  <2>4. Head(<<"scheduled">>) = "scheduled" /\ Head(<<"manual">>) = "manual"
    OBVIOUS
  <2> QED BY <2>3, <2>4
<1>3. <<>> \in KeyLists
  BY DEF KeyLists
<1>4. StoreTypes'
  BY <1>1, <1>2, <1>3 DEF IngestInv, StoreTypes, Idle
<1>5. /\ \A q \in Posts \ {p} : ingest'[q] = ingest[q]
      /\ \/ ingest'[p] = started
         \/ ingest'[p] = Idle
  BY <1>1 DEF IngestInv, StoreTypes
<1>6. KeysLeft'
  BY <1>5 DEF IngestInv, KeysLeft, Busy, Idle
<1>7. LatestCovers'
  BY <1>1 DEF IngestInv, LatestCovers
<1>8. ASSUME ~overlapped' PROVE OneIngestion' /\ WritesNewer' /\ LatestFirst'
  <2>1. ~overlapped /\ \A q \in Posts \ {p} : ~Busy(q)
    BY <1>1, <1>8
  <2>2. OneIngestion'
    BY <1>5, <2>1 DEF OneIngestion, Busy
  <2>3. WritesNewer'
    BY <1>5, <2>1 DEF WritesNewer, Busy, Idle
  <2>4. LatestFirst'
    BY <1>2, <1>5, <2>1 DEF LatestFirst, Busy, Idle
  <2> QED BY <2>2, <2>3, <2>4
<1> QED BY <1>4, <1>6, <1>7, <1>8 DEF IngestInv

\* An ingestion that goes on: with its record at least as new as its report,
\* it leaves the key for the next or answers.
LEMMA KeyDoneKeeps ==
  ASSUME IngestInv, NEW p \in Posts, Busy(p), NEW wrote \in BOOLEAN, KeyDone(p, wrote),
         UNCHANGED overlapped, store' \in [Categories -> Reports \union {NoReport}],
         ~overlapped => AtLeast(store'[Head(ingest[p].keys)], ingest[p].report),
         LatestCovers'
  PROVE  IngestInv'
<1>1. StoreTypes'
  BY KeyDoneIngest DEF IngestInv, StoreTypes
<1>2. /\ \A q \in Posts \ {p} : ingest'[q] = ingest[q]
      /\ \/ /\ Head(ingest[p].keys) = "latest" /\ ingest'[p].pc = "get"
            /\ ingest'[p].report = ingest[p].report
            /\ \/ ingest'[p].keys = <<"scheduled">> /\ ingest[p].report.event = "schedule"
               \/ ingest'[p].keys = <<"manual">> /\ ingest[p].report.event = "workflow_dispatch"
         \/ ingest'[p].pc \in {"stored", "ignored"}
  BY KeyDoneIngest
<1>3. ingest[p].report \in Reports
  BY KeysCases
<1>4. KeysLeft'
  BY <1>2, <1>3 DEF IngestInv, KeysLeft, Busy
<1>5. ASSUME ~overlapped PROVE OneIngestion' /\ WritesNewer' /\ LatestFirst'
  <2>1. \A q \in Posts \ {p} : ~Busy(q)
    BY <1>5 DEF IngestInv, OneIngestion
  <2>2. \A q \in Posts \ {p} : ~Busy(q)'
    BY <1>2, <2>1 DEF Busy
  <2>3. OneIngestion' /\ WritesNewer'
    BY <1>2, <2>2 DEF OneIngestion, WritesNewer, Busy
  <2>4. LatestFirst'
    BY <1>2, <1>5, <2>2 DEF LatestFirst, Busy
  <2> QED BY <2>3, <2>4
<1> QED BY <1>1, <1>4, <1>5 DEF IngestInv

LEMMA KvGetsKeeps ==
  ASSUME IngestInv, NEW p \in Posts, KvGets(p) PROVE IngestInv'
<1>1. /\ Busy(p) /\ ingest[p].pc = "get" /\ UNCHANGED <<store, overlapped>>
  BY DEF KvGets, Busy
<1>2. CASE isNewerReport(ingest[p].report, store[Head(ingest[p].keys)])
  <2>1. ingest' = [ingest EXCEPT ![p].pc = "put"]
    BY <1>2 DEF KvGets
  <2>2. StoreTypes'
    BY <1>1, <2>1 DEF IngestInv, StoreTypes
  <2>3. /\ \A q \in Posts \ {p} : ingest'[q] = ingest[q]
        /\ ingest'[p].keys = ingest[p].keys /\ ingest'[p].report = ingest[p].report
        /\ ingest'[p].pc = "put"
    BY <2>1 DEF IngestInv, StoreTypes
  <2>4. \A q \in Posts : Busy(q)' = Busy(q)
    BY <1>1, <2>3 DEF Busy
  <2>5. KeysLeft'
    BY <2>3, <2>4 DEF IngestInv, KeysLeft
  <2>6. ASSUME ~overlapped PROVE OneIngestion' /\ WritesNewer' /\ LatestFirst'
    <3>1. OneIngestion' /\ LatestFirst'
      BY <1>1, <2>3, <2>4, <2>6 DEF IngestInv, OneIngestion, LatestFirst
    <3>2. WritesNewer'
      BY <1>1, <1>2, <2>3, <2>6 DEF IngestInv, WritesNewer
    <3> QED BY <3>1, <3>2
  <2>7. LatestCovers'
    BY <1>1 DEF IngestInv, LatestCovers
  <2> QED BY <1>1, <2>2, <2>5, <2>6, <2>7 DEF IngestInv
<1>3. CASE ~isNewerReport(ingest[p].report, store[Head(ingest[p].keys)])
  <2>1. KeyDone(p, ingest[p].wrote)
    BY <1>3 DEF KvGets
  <2>2. /\ ingest[p].report \in Reports /\ store[Head(ingest[p].keys)] \in Reports \union {NoReport}
        /\ ingest[p].wrote \in BOOLEAN
    BY <1>1, KeysCases DEF IngestInv, StoreTypes
  <2>3. AtLeast(store'[Head(ingest[p].keys)], ingest[p].report)
    BY <1>1, <1>3, <2>2, AtLeastFacts
  <2>4. LatestCovers' /\ store' \in [Categories -> Reports \union {NoReport}]
    BY <1>1 DEF IngestInv, StoreTypes, LatestCovers
  <2> QED BY <1>1, <2>1, <2>2, <2>3, <2>4, KeyDoneKeeps
<1> QED BY <1>2, <1>3

\* A record that is written is newer than what it replaces, and the latest
\* one is at least as new as it.
LEMMA WrittenCovers ==
  ASSUME IngestInv, NEW p \in Posts, ingest[p].pc = "put", store' = Written(p),
         UNCHANGED overlapped
  PROVE  /\ store' \in [Categories -> Reports \union {NoReport}]
         /\ store'[Head(ingest[p].keys)] = ingest[p].report
         /\ \A key \in Categories \ {Head(ingest[p].keys)} : store'[key] = store[key]
         /\ LatestCovers'
<1>1. /\ ingest[p].report \in Reports /\ Head(ingest[p].keys) \in Categories
      /\ AtFirst(p) \/ AtLast(p)
  BY KeysCases DEF Busy
<1>2. /\ store' \in [Categories -> Reports \union {NoReport}]
      /\ store'[Head(ingest[p].keys)] = ingest[p].report
      /\ \A key \in Categories \ {Head(ingest[p].keys)} : store'[key] = store[key]
  BY <1>1 DEF Written, IngestInv, StoreTypes
<1>3. ASSUME ~overlapped, NEW key \in Categories, store'[key] # NoReport
      PROVE  AtLeast(store'["latest"], store'[key])
  <2>1. "latest" \in Categories
    BY DEF Categories
  <2>2. CASE Head(ingest[p].keys) = "latest"
    <3>1. CASE key = "latest"
      BY <1>1, <1>2, <2>2, <3>1, AtLeastFacts
    <3>2. CASE key # "latest"
      <4>1. store'[key] = store[key] /\ store[key] \in Reports
        BY <1>2, <1>3, <2>2, <3>2 DEF IngestInv, StoreTypes
      <4>2. AtLeast(store["latest"], store[key])
        BY <1>3, <4>1, BadgeAssumption DEF IngestInv, LatestCovers
      <4>3. AtLeast(ingest[p].report, store["latest"])
        <5>1. store["latest"] # NoReport /\ store["latest"] \in Reports \union {NoReport}
          BY <2>1, <4>2 DEF AtLeast, IngestInv, StoreTypes
        <5>2. isNewerReport(ingest[p].report, store["latest"])
          BY <1>3, <2>2 DEF IngestInv, WritesNewer
        <5> QED BY <1>1, <5>1, <5>2, AtLeastFacts
      <4>4. store["latest"] \in Reports \union {NoReport}
        BY <2>1 DEF IngestInv, StoreTypes
      <4>5. AtLeast(ingest[p].report, store[key])
        BY <1>1, <4>1, <4>2, <4>3, <4>4, AtLeastFacts
      <4> QED BY <1>2, <2>2, <4>1, <4>5
    <3> QED BY <3>1, <3>2
  <2>3. CASE Head(ingest[p].keys) # "latest"
    <3>1. AtLeast(store["latest"], ingest[p].report)
      BY <1>1, <1>3, <2>3 DEF IngestInv, LatestFirst, AtFirst, AtLast, Busy
    <3>2. store'["latest"] = store["latest"]
      BY <1>2, <2>1, <2>3
    <3>3. CASE key = Head(ingest[p].keys)
      BY <1>2, <3>1, <3>2, <3>3
    <3>4. CASE key # Head(ingest[p].keys)
      BY <1>2, <1>3, <3>2, <3>4 DEF IngestInv, LatestCovers
    <3> QED BY <3>3, <3>4
  <2> QED BY <2>2, <2>3
<1>4. LatestCovers'
  BY <1>3 DEF LatestCovers
<1> QED BY <1>2, <1>4

LEMMA KvPutsKeeps ==
  ASSUME IngestInv, NEW p \in Posts, KvPuts(p) PROVE IngestInv'
<1>1. /\ Busy(p) /\ ingest[p].pc = "put" /\ store' = Written(p) /\ KeyDone(p, TRUE)
      /\ UNCHANGED overlapped
  BY DEF KvPuts, Busy
<1>2. AtLeast(ingest[p].report, ingest[p].report)
  BY <1>1, KeysCases, AtLeastFacts
<1> QED BY <1>1, <1>2, WrittenCovers, KeyDoneKeeps

LEMMA KvFailsKeeps ==
  ASSUME IngestInv, NEW p \in Posts, KvFails(p) PROVE IngestInv'
<1>1. /\ Busy(p) /\ UNCHANGED overlapped /\ ingest' = [ingest EXCEPT ![p] = Idle]
      /\ store' = store \/ (ingest[p].pc = "put" /\ store' = Written(p))
  BY DEF KvFails
<1>2. /\ store' \in [Categories -> Reports \union {NoReport}] /\ LatestCovers'
  <2>1. CASE store' = store
    BY <1>1, <2>1 DEF IngestInv, StoreTypes, LatestCovers
  <2>2. CASE ingest[p].pc = "put" /\ store' = Written(p)
    BY <1>1, <2>2, WrittenCovers
  <2> QED BY <1>1, <2>1, <2>2
<1>3. <<>> \in KeyLists
  BY DEF KeyLists
<1>4. StoreTypes'
  BY <1>1, <1>2, <1>3 DEF IngestInv, StoreTypes, Idle
<1>5. ingest'[p] = Idle /\ \A q \in Posts \ {p} : ingest'[q] = ingest[q]
  BY <1>1 DEF IngestInv, StoreTypes
<1>6. KeysLeft'
  BY <1>5 DEF IngestInv, KeysLeft, Busy, Idle
<1>7. ASSUME ~overlapped PROVE OneIngestion' /\ WritesNewer' /\ LatestFirst'
  <2>1. \A q \in Posts : ~Busy(q)'
    BY <1>1, <1>5, <1>7 DEF IngestInv, OneIngestion, Busy, Idle
  <2> QED BY <2>1 DEF OneIngestion, WritesNewer, LatestFirst, Busy
<1> QED BY <1>1, <1>2, <1>4, <1>6, <1>7 DEF IngestInv

\* The reports that are posted are those of run attempts, or wrong ones.
LEMMA GitHubKeeps ==
  ASSUME GitHubTypes, GitHub PROVE GitHubTypes'
<1>1. ASSUME NEW event \in Triggers, RunStarts(event) PROVE GitHubTypes'
  <2>1. event \in Events
    BY BadgeAssumption
  <2>2. [event |-> event, attempt |-> 1, status |-> "in_progress",
         conclusion |-> "none", results |-> <<>>] \in RunRecord
    BY <2>1 DEF RunRecord
  <2> QED BY <1>1, <2>2 DEF RunStarts, GitHubTypes
<1>2. ASSUME NEW r \in DOMAIN runs, NEW results \in Outcomes, RunCompletes(r, results)
      PROVE  GitHubTypes'
  <2>1. Expected(results) \in {"success", "failure"}
    BY DEF Expected
  <2>2. runs[r] \in RunRecord /\ r \in Nat
    BY DEF GitHubTypes
  <2>3. /\ runs' = [runs EXCEPT ![r] = [runs[r] EXCEPT !.status = "completed",
                      !.conclusion = Expected(results), !.results = results]]
        /\ filed' = filed \union {Report(r)}
    BY <1>2 DEF RunCompletes
  <2>4. [runs[r] EXCEPT !.status = "completed",
           !.conclusion = Expected(results), !.results = results] \in RunRecord
    BY <2>1, <2>2 DEF RunRecord
  <2>5. runs' \in Seq(RunRecord) /\ runs'[r].results = results
    <3>1. runs' \in Seq(RunRecord)
      BY <2>3, <2>4 DEF GitHubTypes
    <3>2. runs'[r] = [runs[r] EXCEPT !.status = "completed",
                        !.conclusion = Expected(results), !.results = results]
      BY <2>3 DEF GitHubTypes
    <3> QED BY <2>2, <3>1, <3>2 DEF RunRecord
  <2>6. Report(r) \in Reports
    BY <2>1, <2>2, <2>5 DEF Report, Reports, RunRecord
  <2> QED BY <2>3, <2>5, <2>6 DEF GitHubTypes
<1>3. ASSUME NEW r \in DOMAIN runs, RunCancelled(r) \/ RunRepeats(r) PROVE GitHubTypes'
  <2>1. runs[r] \in RunRecord
    BY DEF GitHubTypes
  <2>2. PICK run \in RunRecord : runs' = [runs EXCEPT ![r] = run]
    <3>1. CASE RunCancelled(r)
      <4>1. [runs[r] EXCEPT !.status = "completed", !.conclusion = "cancelled"] \in RunRecord
        BY <2>1 DEF RunRecord
      <4> QED BY <3>1, <4>1 DEF RunCancelled
    <3>2. CASE RunRepeats(r)
      <4>1. runs[r].attempt + 1 \in Nat
        BY <2>1 DEF RunRecord
      <4>2. [runs[r] EXCEPT !.status = "in_progress", !.attempt = runs[r].attempt + 1,
               !.conclusion = "none", !.results = <<>>] \in RunRecord
        BY <2>1, <4>1 DEF RunRecord
      <4> QED BY <3>2, <4>2 DEF RunRepeats
    <3> QED BY <1>3, <3>1, <3>2
  <2>3. filed' = filed
    BY <1>3 DEF RunCancelled, RunRepeats
  <2> QED BY <2>2, <2>3 DEF GitHubTypes
<1> QED BY <1>1, <1>2, <1>3 DEF GitHub

LEMMA MisfiledType == \A report \in Reports : Misfiled(report) \in Reports
BY DEF Misfiled, Reports

BadgesInv == GitHubTypes /\ IngestInv

LEMMA BadgesKeep == BadgesInv /\ [BadgesNext]_badgesVars => BadgesInv'
<1> SUFFICES ASSUME BadgesInv, [BadgesNext]_badgesVars PROVE BadgesInv'
  OBVIOUS
<1> USE DEF BadgesInv
<1>1. CASE UNCHANGED badgesVars
  <2>1. UNCHANGED <<runs, filed>> /\ UNCHANGED <<store, ingest, overlapped>>
    BY <1>1 DEF badgesVars
  <2> QED BY <2>1, OthersKeep DEF GitHubTypes
<1>2. CASE GitHub
  <2>1. UNCHANGED <<store, ingest, overlapped>>
    BY <1>2 DEF GitHub, RunStarts, RunCompletes, RunCancelled, RunRepeats
  <2> QED BY <1>2, <2>1, OthersKeep, GitHubKeeps
<1>3. CASE Get
  <2>1. UNCHANGED <<runs, filed>> /\ UNCHANGED <<store, ingest, overlapped>>
    BY <1>3 DEF Get, RequestArrives, StoreAnswers, RunsAnswer, JobsAnswer, RequestFails
  <2> QED BY <2>1, OthersKeep DEF GitHubTypes
<1>4. ASSUME NEW p \in Posts, Ingestion(p) PROVE BadgesInv'
  <2>1. UNCHANGED <<runs, filed>>
    BY <1>4 DEF Ingestion, PostArrives, KvGets, KvPuts, KvFails
  <2>2. ASSUME NEW report \in filed, PostArrives(p, report) \/ PostArrives(p, Misfiled(report))
        PROVE  IngestInv'
    <3>1. report \in Reports /\ Misfiled(report) \in Reports
      BY MisfiledType DEF GitHubTypes
    <3> QED BY <2>2, <3>1, PostArrivesKeeps
  <2>3. IngestInv'
    BY <1>4, <2>2, KvGetsKeeps, KvPutsKeeps, KvFailsKeeps DEF Ingestion
  <2> QED BY <2>1, <2>3 DEF GitHubTypes
<1> QED BY <1>1, <1>2, <1>3, <1>4 DEF BadgesNext

LEMMA BadgesInitially == BadgesInit => BadgesInv
<1> SUFFICES ASSUME BadgesInit PROVE BadgesInv
  OBVIOUS
<1>1. GitHubTypes
  BY DEF BadgesInit, GitHubTypes
<1>2. <<>> \in KeyLists
  BY DEF KeyLists
<1>3. StoreTypes
  BY <1>2 DEF BadgesInit, StoreTypes, Idle
<1>4. \A p \in Posts : ~Busy(p) /\ ingest[p].pc # "put"
  BY DEF BadgesInit, Busy, Idle
<1>5. LatestCovers
  BY DEF BadgesInit, LatestCovers
<1> QED BY <1>1, <1>3, <1>4, <1>5 DEF BadgesInv, IngestInv, KeysLeft, OneIngestion, WritesNewer, LatestFirst

LEMMA BadgesInvAlways == BadgesSpec => []BadgesInv
BY BadgesInitially, BadgesKeep, PTL DEF BadgesSpec

\* While ingestions come one by one, the latest record is at least as new as
\* the others, for any number of runs, attempts, reports and failed writes.
THEOREM LatestCoversAlways == BadgesSpec => []LatestCovers
<1>1. BadgesInv => LatestCovers
  BY DEF BadgesInv, IngestInv
<1> QED BY <1>1, BadgesInvAlways, PTL

\* What an answer leaves in the records of its event.
LEMMA AnswerStores ==
  ASSUME IngestInv, NEW p \in Posts, Busy(p), ingest'[p].pc \in {"stored", "ignored"},
         ~overlapped, KvGets(p) \/ KvPuts(p),
         NEW key \in Categories, ingest[p].report.event \in EVENTS(key)
  PROVE  AtLeast(store'[key], ingest[p].report)
<1>1. PICK wrote \in BOOLEAN :
        /\ KeyDone(p, wrote)
        /\ \/ /\ ingest[p].pc = "put" /\ store' = Written(p) /\ UNCHANGED overlapped
           \/ /\ ~isNewerReport(ingest[p].report, store[Head(ingest[p].keys)]) /\ store' = store
  <2>1. CASE KvPuts(p)
    BY <2>1 DEF KvPuts
  <2>2. CASE KvGets(p) /\ isNewerReport(ingest[p].report, store[Head(ingest[p].keys)])
    <3>1. ingest'[p].pc = "put"
      BY <2>2 DEF KvGets, IngestInv, StoreTypes
    <3> QED BY <3>1
  <2>3. CASE KvGets(p) /\ ~isNewerReport(ingest[p].report, store[Head(ingest[p].keys)])
    <3>1. KeyDone(p, ingest[p].wrote) /\ store' = store
      BY <2>3 DEF KvGets
    <3>2. ingest[p].wrote \in BOOLEAN
      BY DEF IngestInv, StoreTypes
    <3> QED BY <2>3, <3>1, <3>2
  <2> QED BY <2>1, <2>2, <2>3
<1>2. /\ ingest[p].report \in Reports /\ Head(ingest[p].keys) \in Categories
      /\ AtFirst(p) \/ AtLast(p)
  BY KeysCases
<1>3. Len(ingest[p].keys) = 1
  BY <1>1, KeyDoneIngest
<1>4. AtLast(p)
  BY <1>2, <1>3 DEF AtFirst
<1>5. AtLeast(store'[Head(ingest[p].keys)], ingest[p].report)
  <2>1. CASE ingest[p].pc = "put" /\ store' = Written(p) /\ UNCHANGED overlapped
    BY <1>2, <2>1, WrittenCovers, AtLeastFacts
  <2>2. CASE ~isNewerReport(ingest[p].report, store[Head(ingest[p].keys)]) /\ store' = store
    <3>1. store[Head(ingest[p].keys)] \in Reports \union {NoReport}
      BY <1>2 DEF IngestInv, StoreTypes
    <3> QED BY <1>2, <2>2, <3>1, AtLeastFacts
  <2> QED BY <1>1, <2>1, <2>2
<1>6. CASE key = Head(ingest[p].keys)
  BY <1>5, <1>6
<1>7. CASE key # Head(ingest[p].keys)
  <2>1. key = "latest" /\ ingest[p].keys \in {<<"scheduled">>, <<"manual">>}
    BY <1>4, <1>7 DEF AtLast, EVENTS, Categories, Events
  <2>2. AtLeast(store["latest"], ingest[p].report)
    BY <2>1 DEF IngestInv, LatestFirst
  <2>3. store'["latest"] = store["latest"]
    BY <1>1, <1>7, <2>1, WrittenCovers
  <2> QED BY <2>1, <2>2, <2>3
<1> QED BY <1>6, <1>7

\* An ingestion that answers has left a report at least as new in each record
\* of its event, whatever failed half way before (putReportIfNewer).
THEOREM AnsweredIsStoredAlways == BadgesSpec => AnsweredIsStored
<1> DEFINE Stored == \A p \in Posts : Busy(p) /\ ingest'[p].pc \in {"stored", "ignored"} /\ ~overlapped =>
             \A key \in Categories :
               ingest[p].report.event \in EVENTS(key) => AtLeast(store'[key], ingest[p].report)
<1>1. BadgesInv /\ [BadgesNext]_badgesVars => [Stored]_badgesVars
  <2> SUFFICES ASSUME BadgesInv, BadgesNext, NEW p \in Posts, Busy(p),
                      ingest'[p].pc \in {"stored", "ignored"}, ~overlapped
               PROVE  \A key \in Categories :
                        ingest[p].report.event \in EVENTS(key) => AtLeast(store'[key], ingest[p].report)
    OBVIOUS
  <2>1. ingest'[p] # ingest[p]
    BY DEF Busy
  <2>2. ~GitHub /\ ~Get
    BY <2>1 DEF GitHub, RunStarts, RunCompletes, RunCancelled, RunRepeats,
       Get, RequestArrives, StoreAnswers, RunsAnswer, JobsAnswer, RequestFails
  <2>3. PICK q \in Posts : Ingestion(q)
    BY <2>2 DEF BadgesNext
  <2>4. q = p
    <3>1. ASSUME q # p PROVE ingest'[p] = ingest[p]
      BY <2>3, <3>1 DEF Ingestion, PostArrives, KvGets, KvPuts, KvFails, KeyDone,
         BadgesInv, IngestInv, StoreTypes
    <3> QED BY <2>1, <3>1
  <2>5. KvGets(p) \/ KvPuts(p)
    <3>1. ~KvFails(p)
      BY DEF KvFails, BadgesInv, IngestInv, StoreTypes, Idle
    <3>2. \A report : ~PostArrives(p, report)
      BY DEF PostArrives
    <3> QED BY <2>3, <2>4, <3>1, <3>2 DEF Ingestion
  <2> QED BY <2>5, AnswerStores DEF BadgesInv
<1> QED BY <1>1, BadgesInvAlways, PTL DEF BadgesSpec, AnsweredIsStored

-----------------------------------------------------------------------------
(***************************************************************************)
(* What the badge worker answers from its store.                           *)
(***************************************************************************)

\* Every report on its way or stored is that of an attempt, and of its key.
RecordsFiled ==
  /\ \A report \in filed : validateStoredReport(report)
  /\ \A p \in Posts : Busy(p) => ingest[p].report \in filed
  /\ \A key \in Categories :
       store[key] # NoReport => store[key] \in filed /\ store[key].event \in EVENTS(key)

OpenRequest ==
  [pc : {"store", "runs", "jobs", "failed"}, category : Categories, stored : BOOLEAN,
   link : BOOLEAN, run : Nat, found : RunRecord \union {NoReport}, known : Reports \union {NoReport}]

RequestType == request \in OpenRequest \/ request = NoRequest \/ request.pc = "answered"

\* A request that is at the store finds what it knew, or something newer.
KnownIsThere ==
  request.pc = "store" /\ ~overlapped /\ request.known # NoReport =>
    AtLeast(store[request.category], request.known)

TruthInv == BadgesInv /\ RecordsFiled /\ RequestType /\ KnownIsThere

LEMMA FiledIsValid ==
  ASSUME GitHubTypes, NEW r \in DOMAIN runs, NEW results \in Outcomes, RunCompletes(r, results)
  PROVE  validateStoredReport(Report(r))
BY DEF validateStoredReport, Report

\* No ingestion begins with a report filed under the wrong conclusion.
LEMMA MisfiledIsRefused ==
  ASSUME NEW report \in Reports, validateStoredReport(report)
  PROVE  ~validateStoredReport(Misfiled(report))
BY DEF validateStoredReport, Misfiled, Reports

LEMMA IngestionKeepsFiled ==
  ASSUME BadgesInv, RecordsFiled, NEW p \in Posts, Ingestion(p) PROVE RecordsFiled'
<1>1. IngestInv /\ filed \subseteq Reports /\ filed' = filed
  BY DEF BadgesInv, GitHubTypes, Ingestion, PostArrives, KvGets, KvPuts, KvFails
<1>2. ASSUME NEW report \in Reports, PostArrives(p, report),
             validateStoredReport(report) => report \in filed
      PROVE  RecordsFiled'
  <2>1. store' = store /\ \A q \in Posts \ {p} : ingest'[q] = ingest[q]
    BY <1>1, <1>2 DEF PostArrives, IngestInv, StoreTypes
  <2>2. ASSUME Busy(p)' PROVE ingest'[p].report = report /\ validateStoredReport(report)
    BY <1>1, <1>2, <2>2 DEF PostArrives, IngestInv, StoreTypes, Busy, Idle
  <2>3. \A q \in Posts : Busy(q)' => ingest'[q].report \in filed
    BY <1>2, <2>1, <2>2 DEF RecordsFiled, Busy
  <2> QED BY <1>1, <2>1, <2>3 DEF RecordsFiled
<1>3. ASSUME KvGets(p) \/ KvPuts(p) \/ KvFails(p) PROVE RecordsFiled'
  <2>1. Busy(p) /\ ingest[p].report \in filed
    BY <1>3 DEF RecordsFiled, KvGets, KvPuts, KvFails, Busy
  <2>2. \A q \in Posts : Busy(q)' => Busy(q) /\ ingest'[q].report = ingest[q].report
    <3>1. CASE KvFails(p)
      BY <1>1, <3>1 DEF KvFails, IngestInv, StoreTypes, Busy, Idle
    <3>2. CASE KvGets(p) /\ ingest' = [ingest EXCEPT ![p].pc = "put"]
      BY <1>1, <2>1, <3>2 DEF IngestInv, StoreTypes, Busy
    <3>3. CASE \E wrote : KeyDone(p, wrote)
      BY <1>1, <2>1, <3>3 DEF KeyDone, IngestInv, StoreTypes, Busy, Idle
    <3> QED BY <1>3, <3>1, <3>2, <3>3 DEF KvGets, KvPuts
  <2>3. store' = store \/ (store' = Written(p) /\ ingest[p].pc = "put")
    BY <1>3 DEF KvGets, KvPuts, KvFails
  <2>4. ingest[p].report.event \in EVENTS(Head(ingest[p].keys)) /\ Head(ingest[p].keys) \in Categories
    <3>1. AtFirst(p) \/ AtLast(p)
      BY <1>1, <2>1, KeysCases
    <3>2. ingest[p].report.event \in Events /\ Head(ingest[p].keys) \in Categories
      BY <1>1, <2>1, KeysCases DEF Reports
    <3> QED BY <3>1, <3>2 DEF AtFirst, AtLast, EVENTS, Categories
  <2>5. \A key \in Categories :
          store'[key] # NoReport => store'[key] \in filed /\ store'[key].event \in EVENTS(key)
    BY <1>1, <2>1, <2>3, <2>4 DEF RecordsFiled, Written, IngestInv, StoreTypes
  <2> QED BY <1>1, <2>1, <2>2, <2>5 DEF RecordsFiled
<1>4. ASSUME NEW report \in filed PROVE /\ report \in Reports /\ Misfiled(report) \in Reports
                                        /\ ~validateStoredReport(Misfiled(report))
  BY <1>1, <1>4, MisfiledType, MisfiledIsRefused DEF RecordsFiled
<1> QED BY <1>2, <1>3, <1>4 DEF Ingestion

\* Without overlaps a record is only replaced by a newer one.
LEMMA RecordsMoveForward ==
  ASSUME BadgesInv, NEW p \in Posts, Ingestion(p), ~overlapped',
         NEW key \in Categories, NEW known \in Reports, AtLeast(store[key], known)
  PROVE  AtLeast(store'[key], known) /\ ~overlapped
<1>1. ~overlapped /\ IngestInv
  <2>1. ASSUME NEW report, PostArrives(p, report) PROVE ~overlapped
    BY <2>1 DEF PostArrives
  <2>2. ASSUME KvGets(p) \/ KvPuts(p) \/ KvFails(p) PROVE ~overlapped
    BY <2>2 DEF KvGets, KvPuts, KvFails
  <2> QED BY <2>1, <2>2 DEF Ingestion, BadgesInv
<1>2. store' = store \/ (ingest[p].pc = "put" /\ store' = Written(p))
  BY DEF Ingestion, PostArrives, KvGets, KvPuts, KvFails
<1>3. ASSUME ingest[p].pc = "put", store' = Written(p) PROVE AtLeast(store'[key], known)
  <2>1. isNewerReport(ingest[p].report, store[Head(ingest[p].keys)])
    BY <1>1, <1>3 DEF IngestInv, WritesNewer
  <2>2. ingest[p].report \in Reports /\ store[key] \in Reports \union {NoReport}
    BY <1>1, <1>3, KeysCases DEF Busy, IngestInv, StoreTypes
  <2>3. store'[key] = IF key = Head(ingest[p].keys) THEN ingest[p].report ELSE store[key]
    BY <1>1, <1>3 DEF Written, IngestInv, StoreTypes
  <2>4. CASE key = Head(ingest[p].keys)
    <3>1. store[key] # NoReport
      BY DEF AtLeast
    <3> QED BY <2>1, <2>2, <2>3, <2>4, <3>1, AtLeastFacts
  <2> QED BY <2>3, <2>4
<1> QED BY <1>1, <1>2, <1>3

LEMMA RequestKeeps ==
  ASSUME TruthInv, Get PROVE RequestType' /\ KnownIsThere'
<1>1. UNCHANGED <<store, overlapped>>
  BY DEF Get, RequestArrives, StoreAnswers, RunsAnswer, JobsAnswer, RequestFails
<1>2. ASSUME NEW asked \in Requested, RequestArrives(asked) PROVE RequestType' /\ KnownIsThere'
  <2>1. asked.category \in Categories /\ asked.stored \in BOOLEAN /\ asked.link \in BOOLEAN
    BY BadgeAssumption
  <2>2. store[asked.category] \in Reports \union {NoReport}
    BY <2>1 DEF TruthInv, BadgesInv, IngestInv, StoreTypes
  <2>3. request' \in OpenRequest
    BY <1>2, <2>1, <2>2 DEF RequestArrives, OpenRequest
  <2>4. request'.pc = "store" => request'.known = store[request'.category]
    BY <1>2 DEF RequestArrives
  <2>5. request'.pc = "store" /\ request'.known # NoReport => AtLeast(store[request'.category], request'.known)
    BY <2>3, <2>4, AtLeastFacts DEF OpenRequest
  <2> QED BY <1>1, <2>3, <2>5 DEF RequestType, KnownIsThere
<1>3. ASSUME StoreAnswers \/ RunsAnswer \/ JobsAnswer \/ RequestFails
      PROVE  RequestType' /\ request'.pc # "store"
  <2>1. request \in OpenRequest
    <3>1. request.pc \in {"store", "runs", "jobs"}
      BY <1>3 DEF StoreAnswers, RunsAnswer, JobsAnswer, RequestFails
    <3>2. NoRequest.pc = "idle"
      BY DEF NoRequest
    <3> QED BY <3>1, <3>2 DEF TruthInv, RequestType
  <2>2. ASSUME NEW attempt, NEW run, NEW failures, Answer(attempt, run, failures)
        PROVE  request'.pc = "answered"
    BY <2>2 DEF Answer
  <2>3. CASE StoreAnswers
    BY <2>1, <2>2, <2>3 DEF StoreAnswers, RequestType, OpenRequest
  <2>4. CASE RunsAnswer
    <3>1. ASSUME NEW r \in Candidates(request.category),
                 request' = [request EXCEPT !.pc = "jobs", !.run = r, !.found = runs[r]]
          PROVE  request' \in OpenRequest /\ request'.pc = "jobs"
      <4>1. r \in Nat /\ runs[r] \in RunRecord
        BY <3>1 DEF Candidates, TruthInv, BadgesInv, GitHubTypes
      <4> QED BY <2>1, <3>1, <4>1 DEF OpenRequest
    <3> QED BY <2>2, <2>4, <3>1 DEF RunsAnswer, RequestType
  <2>5. CASE JobsAnswer
    BY <2>2, <2>5 DEF JobsAnswer, RequestType
  <2>6. CASE RequestFails
    BY <2>1, <2>6 DEF RequestFails, RequestType, OpenRequest
  <2> QED BY <1>3, <2>3, <2>4, <2>5, <2>6
<1> QED BY <1>2, <1>3 DEF Get, KnownIsThere

LEMMA TruthKeeps == TruthInv /\ [BadgesNext]_badgesVars => TruthInv'
<1> SUFFICES ASSUME TruthInv, [BadgesNext]_badgesVars PROVE TruthInv'
  OBVIOUS
<1>1. BadgesInv /\ BadgesInv' /\ RecordsFiled /\ RequestType /\ KnownIsThere
  BY BadgesKeep DEF TruthInv
<1>2. CASE UNCHANGED badgesVars
  BY <1>1, <1>2 DEF badgesVars, TruthInv, RecordsFiled, RequestType, KnownIsThere, Busy
<1>3. CASE GitHub
  <2>1. UNCHANGED <<store, ingest, request, overlapped>> /\ filed \subseteq filed'
    BY <1>3 DEF GitHub, RunStarts, RunCompletes, RunCancelled, RunRepeats
  <2>2. \A report \in filed' : validateStoredReport(report)
    <3>1. ASSUME NEW r \in DOMAIN runs, NEW results \in Outcomes, RunCompletes(r, results)
          PROVE  \A report \in filed' : validateStoredReport(report)
      <4>1. validateStoredReport(Report(r)) /\ filed' = filed \union {Report(r)}
        BY <1>1, <3>1, FiledIsValid DEF BadgesInv, RunCompletes
      <4> QED BY <1>1, <4>1 DEF RecordsFiled
    <3>2. filed' = filed \/ \E r \in DOMAIN runs, results \in Outcomes : RunCompletes(r, results)
      BY <1>3 DEF GitHub, RunStarts, RunCancelled, RunRepeats
    <3> QED BY <1>1, <3>1, <3>2 DEF RecordsFiled
  <2> QED BY <1>1, <2>1, <2>2 DEF TruthInv, RecordsFiled, RequestType, KnownIsThere, Busy
<1>4. CASE Get
  <2>1. UNCHANGED <<filed, store, ingest>>
    BY <1>4 DEF Get, RequestArrives, StoreAnswers, RunsAnswer, JobsAnswer, RequestFails
  <2>2. RecordsFiled'
    BY <1>1, <2>1 DEF RecordsFiled, Busy
  <2> QED BY <1>1, <1>4, <2>2, RequestKeeps DEF TruthInv
<1>5. ASSUME NEW p \in Posts, Ingestion(p) PROVE TruthInv'
  <2>1. request' = request
    BY <1>5 DEF Ingestion, PostArrives, KvGets, KvPuts, KvFails
  <2>2. ASSUME request.pc = "store", ~overlapped', request.known # NoReport
        PROVE  AtLeast(store'[request.category], request.known)
    <3>1. request \in OpenRequest
      BY <1>1, <2>2 DEF RequestType, NoRequest
    <3>2. request.category \in Categories /\ request.known \in Reports
      BY <2>2, <3>1 DEF OpenRequest
    <3>3. ~overlapped
      BY <1>5, <2>2 DEF Ingestion, PostArrives, KvGets, KvPuts, KvFails
    <3> QED BY <1>1, <1>5, <2>2, <3>2, <3>3, RecordsMoveForward DEF KnownIsThere
  <2> QED BY <1>1, <1>5, <2>1, <2>2, IngestionKeepsFiled DEF TruthInv, RequestType, KnownIsThere
<1> QED BY <1>2, <1>3, <1>4, <1>5 DEF BadgesNext

LEMMA TruthInitially == BadgesInit => TruthInv
BY BadgesInitially
   DEF BadgesInit, TruthInv, RecordsFiled, RequestType, KnownIsThere, NoRequest, Busy, Idle

\* A badge names its failed cases up to MAX_FAILURES, and counts the others.
LEMMA BadgeCounts ==
  ASSUME NEW results \in Outcomes
  PROVE  LET badge == renderBadge(FailedNames(results))
         IN  badge.more + Len(badge.names) = Len(FailedNames(results))
<1> DEFINE failed == {i \in DOMAIN results : IsFailed(results[i])}
           names == FailedNames(results)
<1>1. IsFiniteSet(failed) /\ Cardinality(failed) \in Nat
  <2>1. results \in Seq(CaseResult)
    BY BadgeAssumption
  <2>2. DOMAIN results = 1 .. Len(results) /\ Len(results) \in Nat
    BY <2>1
  <2>3. IsFiniteSet(DOMAIN results)
    BY <2>2, FS_Interval
  <2> QED BY <2>3, FS_Subset, FS_CardinalityType
<1>2. Len(names) = Cardinality(failed)
  BY <1>1 DEF FailedNames
<1>3. Len(SubSeq(names, 1, MAX_FAILURES)) = MAX_FAILURES
  BY BadgeAssumption
<1> HIDE DEF names
<1> QED BY <1>1, <1>2, <1>3, BadgeAssumption DEF renderBadge, names

\* README.md:11-16 of the worker: a badge from the store tells the outcome of an
\* attempt of its category, with its failed cases, and while ingestions come
\* one by one it is not older than what was stored when it was asked for.
THEOREM BadgeTruthfulAlways == BadgesSpec => BadgeTruthful
<1> DEFINE Told ==
       StoreAnswers /\ request'.pc = "answered" =>
       \E report \in filed :
         /\ <<report.run, report.attempt>> = request'.attempt
         /\ report.event \in EVENTS(request.category)
         /\ ~request.link =>
              /\ request'.message = IF Expected(report.results) = "success"
                                    THEN "passing" ELSE "failing"
              /\ request'.badge.more + Len(request'.badge.names) = Len(FailedNames(report.results))
         /\ ~overlapped /\ request.known # NoReport => ~Older(report, request.known)
<1>1. TruthInv => [Told]_badgesVars
  <2> SUFFICES ASSUME TruthInv, StoreAnswers, request'.pc = "answered" PROVE Told
    OBVIOUS
  <2> DEFINE report == store[request.category]
  <2>1. request \in OpenRequest /\ request.pc = "store" /\ RecordsFiled /\ KnownIsThere
    BY DEF TruthInv, RequestType, NoRequest, StoreAnswers
  <2>2. report # NoReport
    BY <2>1 DEF StoreAnswers, OpenRequest
  <2>3. /\ report \in filed /\ report.event \in EVENTS(request.category)
        /\ report \in Reports /\ validateStoredReport(report)
    BY <2>1, <2>2 DEF RecordsFiled, OpenRequest, TruthInv, BadgesInv, GitHubTypes
  <2>4. Answer(<<report.run, report.attempt>>, storedReportAsRun(report), FailedNames(report.results))
    BY <2>2 DEF StoreAnswers
  <2>5. request'.attempt = <<report.run, report.attempt>>
    BY <2>4 DEF Answer
  <2>6. ASSUME ~request.link
        PROVE  /\ request'.message = badgeState(storedReportAsRun(report))
               /\ request'.badge = renderBadge(FailedNames(report.results))
    BY <2>4, <2>6 DEF Answer
  <2>7. report.results \in Outcomes /\ report.conclusion = Expected(report.results)
    BY <2>3 DEF Reports, validateStoredReport
  <2>8. badgeState(storedReportAsRun(report)) =
          IF Expected(report.results) = "success" THEN "passing" ELSE "failing"
    <3>1. storedReportAsRun(report) # NoReport
      BY <2>3, BadgeAssumption DEF storedReportAsRun, Reports
    <3> QED BY <2>7, <3>1 DEF badgeState, storedReportAsRun
  <2>9. ~overlapped /\ request.known # NoReport => ~Older(report, request.known)
    BY <2>1 DEF KnownIsThere, AtLeast
  <2> HIDE DEF report
  <2> QED BY <2>3, <2>5, <2>6, <2>7, <2>8, <2>9, BadgeCounts
<1>2. TruthInv /\ [BadgesNext]_badgesVars => [Told]_badgesVars
  BY <1>1
<1> QED BY <1>2, TruthInitially, TruthKeeps, PTL DEF BadgesSpec, BadgeTruthful
=============================================================================
