------------------------------ MODULE CiBadges ------------------------------
(***************************************************************************)
(* The badge worker (workers/ci-badges/src/index.mjs) for one workflow     *)
(* alias: reports of finished run attempts are ingested into three records *)
(* of a key-value store, and badges and run links are answered from those  *)
(* or from GitHub.  An invocation of the worker is suspended at every      *)
(* access to the store and every request to GitHub, any number of others   *)
(* run meanwhile, and there is no lock.                                    *)
(***************************************************************************)
EXTENDS Naturals, Sequences, FiniteSets

CONSTANTS
  Posts,        \* ingestions that may be under way at the same time
  Triggers,     \* the events that start runs, of Events
  MaxRunAttempts,  \* bound on the attempts of all runs of the workflow
  Requested,    \* the badges and links that are asked for
  Outcomes,     \* the sequences of case results an attempt may end with
  Publish,      \* the name of the step that publishes the table
  MAX_FAILURES, \* failed checks a badge names
  NoReport

Events == {"push", "schedule", "workflow_dispatch"}

Categories == {"latest", "scheduled", "manual"}

CaseResult == [name : STRING, status : {"passed", "failed", "skipped"}]

Reports ==
  [run : Nat, attempt : Nat, event : Events, conclusion : {"success", "failure"},
   results : Outcomes]

ASSUME BadgeAssumption ==
  /\ MaxRunAttempts \in Nat /\ MAX_FAILURES \in Nat
  /\ Requested \subseteq [category : Categories, stored : BOOLEAN, link : BOOLEAN]
  /\ Triggers \subseteq Events /\ Outcomes \subseteq Seq(CaseResult)
  /\ NoReport \notin Reports \union [status : {"completed"}, conclusion : {"success", "failure"}]

VARIABLES
  runs,        \* the runs of the workflow on GitHub, the oldest first
  filed,       \* the reports the finished attempts have made to be published
  store,       \* CI_RESULTS: a report or NoReport under each key
  ingest,      \* the ingestions
  request,     \* a GET under way, or its answer
  overlapped   \* history: whether two ingestions were ever under way at once

badgesVars == <<runs, filed, store, ingest, request, overlapped>>

EVENTS(category) ==
  CASE category = "latest" -> Events
    [] category = "scheduled" -> {"schedule"}
    [] category = "manual" -> {"workflow_dispatch"}

(***************************************************************************)
(* Reports, and which of two is newer.                                     *)
(***************************************************************************)
IsFailed(result) == result.status = "failed"
\* The names of the failed cases, in their order.
FailedNames(results) ==
  LET failed == {i \in DOMAIN results : IsFailed(results[i])}
      Nth(n) == CHOOSE i \in failed : Cardinality({j \in failed : j <= i}) = n
  IN  [n \in 1 .. Cardinality(failed) |-> results[Nth(n)].name]

Expected(results) ==
  IF results # <<>> /\ \A i \in DOMAIN results : ~IsFailed(results[i])
  THEN "success" ELSE "failure"

MutantValid(report) == TRUE
validateStoredReport(report) == report.conclusion = Expected(report.results)

Older(a, b) == a.run < b.run \/ (a.run = b.run /\ a.attempt < b.attempt)

MutantNewer(incoming, current) == current = NoReport \/ incoming.run > current.run
isNewerReport(incoming, current) == current = NoReport \/ Older(current, incoming)

Report(r) ==
  [run |-> r, attempt |-> runs[r].attempt, event |-> runs[r].event,
   conclusion |-> Expected(runs'[r].results), results |-> runs'[r].results]

(***************************************************************************)
(* GitHub.                                                                 *)
(***************************************************************************)
RunAttempts == UNION {{<<r, n>> : n \in 1..runs[r].attempt} : r \in DOMAIN runs}
MayAttempt == Cardinality(RunAttempts) < MaxRunAttempts

RunStarts(event) ==
  /\ MayAttempt
  /\ runs' = Append(runs, [event |-> event, attempt |-> 1, status |-> "in_progress",
                           conclusion |-> "none", results |-> <<>>])
  /\ UNCHANGED <<filed, store, ingest, request, overlapped>>

RunCompletes(r, results) ==
  /\ runs[r].status = "in_progress"
  /\ runs' = [runs EXCEPT ![r].status = "completed", ![r].conclusion = Expected(results),
                          ![r].results = results]
  /\ filed' = filed \union {Report(r)}
  /\ UNCHANGED <<store, ingest, request, overlapped>>

\* A cancelled run files no report.
RunCancelled(r) ==
  /\ runs[r].status = "in_progress"
  /\ runs' = [runs EXCEPT ![r].status = "completed", ![r].conclusion = "cancelled"]
  /\ UNCHANGED <<filed, store, ingest, request, overlapped>>

RunRepeats(r) ==
  /\ runs[r].status = "completed" /\ MayAttempt
  /\ runs' = [runs EXCEPT ![r].status = "in_progress", ![r].attempt = @ + 1,
                          ![r].conclusion = "none", ![r].results = <<>>]
  /\ UNCHANGED <<filed, store, ingest, request, overlapped>>

(***************************************************************************)
(* ingestResults: the keys one after the other, each read and, if the      *)
(* report is newer, written.  A report may come late, again, or wrong.     *)
(***************************************************************************)
Idle == [pc |-> "idle", report |-> NoReport, keys |-> <<>>, wrote |-> FALSE]
Busy(p) == ingest[p].pc \in {"get", "put"}

MutantKeys(event) ==
  CASE event = "schedule" -> <<"scheduled", "latest">>
    [] event = "workflow_dispatch" -> <<"manual", "latest">>
    [] event = "push" -> <<"latest">>

Keys(event) ==
  CASE event = "schedule" -> <<"latest", "scheduled">>
    [] event = "workflow_dispatch" -> <<"latest", "manual">>
    [] event = "push" -> <<"latest">>

PostArrives(p, report) ==
  /\ ~Busy(p)
  /\ ingest' = [ingest EXCEPT ![p] =
       IF validateStoredReport(report)
       THEN [pc |-> "get", report |-> report, keys |-> Keys(report.event), wrote |-> FALSE]
       ELSE Idle]
  /\ overlapped' = (overlapped \/ \E q \in Posts \ {p} : Busy(q))
  /\ UNCHANGED <<runs, filed, store, request>>

\* The answer, 201 if any record was written and 202 if none was.
KeyDone(p, wrote) ==
  ingest' = [ingest EXCEPT ![p] =
    IF Len(ingest[p].keys) > 1
    THEN [ingest[p] EXCEPT !.pc = "get", !.keys = Tail(@), !.wrote = wrote]
    ELSE [Idle EXCEPT !.pc = IF wrote THEN "stored" ELSE "ignored"]]

\* putReportIfNewer: what get() returned is compared at once and forgotten.
KvGets(p) ==
  /\ ingest[p].pc = "get"
  /\ IF isNewerReport(ingest[p].report, store[Head(ingest[p].keys)])
     THEN ingest' = [ingest EXCEPT ![p].pc = "put"]
     ELSE KeyDone(p, ingest[p].wrote)
  /\ UNCHANGED <<runs, filed, store, request, overlapped>>

Written(p) == [store EXCEPT ![Head(ingest[p].keys)] = ingest[p].report]

KvPuts(p) ==
  /\ ingest[p].pc = "put"
  /\ store' = Written(p)
  /\ KeyDone(p, TRUE)
  /\ UNCHANGED <<runs, filed, request, overlapped>>

\* Nothing catches an error of the store: the invocation ends, the keys
\* that are left keep what they have, and the one under way may have either.
KvFails(p) ==
  /\ Busy(p)
  /\ ingest' = [ingest EXCEPT ![p] = Idle]
  /\ \/ store' = store
     \/ ingest[p].pc = "put" /\ store' = Written(p)
  /\ UNCHANGED <<runs, filed, request, overlapped>>

(***************************************************************************)
(* GET: a badge or a run link of a category.  An alias that stores results *)
(* asks the store first, and GitHub while the store has nothing; another   *)
(* alias asks GitHub, twice when the run failed.                           *)
(***************************************************************************)
badgeState(run) ==
  IF run = NoReport THEN "unknown"
  ELSE IF run.status # "completed" THEN "pending"
  ELSE IF run.conclusion = "success" THEN "passing" ELSE "failing"

\* renderBadge: the names that are shown, and how many more there are.
renderBadge(failures) ==
  IF Len(failures) > MAX_FAILURES
  THEN [names |-> SubSeq(failures, 1, MAX_FAILURES), more |-> Len(failures) - MAX_FAILURES]
  ELSE [names |-> failures, more |-> 0]

NoRequest == [pc |-> "idle"]

\* known is history: the record of the category when the request for it came.
RequestArrives(asked) ==
  /\ request' = [pc |-> IF asked.stored THEN "store" ELSE "runs", category |-> asked.category,
                 stored |-> asked.stored, link |-> asked.link, run |-> 0, found |-> NoReport,
                 known |-> IF asked.stored THEN store[asked.category] ELSE NoReport]
  /\ UNCHANGED <<runs, filed, store, ingest, overlapped>>

\* svgResponse and runLinkResponse.  attempt is history: the run and attempt
\* the answer is about.
Answer(attempt, run, failures) ==
  request' = [pc |-> "answered", attempt |-> attempt,
              message |-> IF request.link THEN "link" ELSE badgeState(run),
              badge |-> renderBadge(IF request.link THEN <<>> ELSE failures)]

storedReportAsRun(report) == [status |-> "completed", conclusion |-> report.conclusion]

StoreAnswers ==
  /\ request.pc = "store"
  /\ LET report == store[request.category]
     IN  IF report = NoReport THEN request' = [request EXCEPT !.pc = "runs"]
         ELSE Answer(<<report.run, report.attempt>>, storedReportAsRun(report),
                     FailedNames(report.results))
  /\ UNCHANGED <<runs, filed, store, ingest, overlapped>>

\* loadLatestRun: the newest run of the events of the category.
Candidates(category) == {r \in DOMAIN runs : runs[r].event \in EVENTS(category)}

RunsAnswer ==
  /\ request.pc = "runs"
  /\ \/ Candidates(request.category) = {} /\ Answer(<<0, 0>>, NoReport, <<>>)
     \/ \E r \in Candidates(request.category) :
          /\ \A other \in Candidates(request.category) : other <= r
          /\ IF ~request.stored /\ ~request.link /\ badgeState(runs[r]) = "failing"
             THEN request' = [request EXCEPT !.pc = "jobs", !.run = r, !.found = runs[r]]
             ELSE Answer(<<r, runs[r].attempt>>, runs[r], <<>>)
  /\ UNCHANGED <<runs, filed, store, ingest, overlapped>>

\* loadFailedChecks, for one job: its failed steps but for the one that
\* publishes the table, or the job itself.  The run may be at another attempt
\* by now; without an answer the badge names no checks.
FailedChecks(run) ==
  LET Counts(result) == IsFailed(result) /\ result.name # Publish
      steps == SelectSeq(run.results, Counts)
  IN  IF steps # <<>> THEN FailedNames(steps)
      ELSE IF run.conclusion = "failure" THEN <<"job">> ELSE <<>>

JobsAnswer ==
  /\ request.pc = "jobs"
  /\ \E failures \in {FailedChecks(runs[request.run]), <<>>} :
       Answer(<<request.run, request.found.attempt>>, request.found, failures)
  /\ UNCHANGED <<runs, filed, store, ingest, overlapped>>

\* A 502: an unknown badge, for a run link as well.
RequestFails ==
  /\ request.pc \in {"store", "runs"}
  /\ request' = [request EXCEPT !.pc = "failed"]
  /\ UNCHANGED <<runs, filed, store, ingest, overlapped>>

(***************************************************************************)
(* The specification.                                                      *)
(***************************************************************************)
BadgesInit ==
  /\ runs = <<>> /\ filed = {} /\ overlapped = FALSE
  /\ store = [key \in Categories |-> NoReport]
  /\ ingest = [p \in Posts |-> Idle]
  /\ request = NoRequest

Misfiled(report) == [report EXCEPT !.conclusion = IF @ = "success" THEN "failure" ELSE "success"]

GitHub ==
  \/ \E event \in Triggers : RunStarts(event)
  \/ \E r \in DOMAIN runs :
       \/ \E results \in Outcomes : RunCompletes(r, results)
       \/ RunCancelled(r) \/ RunRepeats(r)

Ingestion(p) ==
  \/ \E report \in filed : PostArrives(p, report) \/ PostArrives(p, Misfiled(report))
  \/ KvGets(p) \/ KvPuts(p) \/ KvFails(p)

Get ==
  \/ \E asked \in Requested : RequestArrives(asked)
  \/ StoreAnswers \/ RunsAnswer \/ JobsAnswer \/ RequestFails

BadgesNext == GitHub \/ Get \/ \E p \in Posts : Ingestion(p)

BadgesSpec == BadgesInit /\ [][BadgesNext]_badgesVars

(***************************************************************************)
(* Properties.                                                             *)
(***************************************************************************)
AtLeast(record, report) == record # NoReport /\ ~Older(record, report)

\* An ingestion that answers has left a report at least as new in each record
\* of its event, also when an earlier one of the same report failed half way
\* (putReportIfNewer).  Ingestions at the same time are another matter.
AnsweredIsStored ==
  [][\A p \in Posts : Busy(p) /\ ingest'[p].pc \in {"stored", "ignored"} /\ ~overlapped =>
       \A key \in Categories :
         ingest[p].report.event \in EVENTS(key) => AtLeast(store'[key], ingest[p].report)]_badgesVars

\* The latest badge is never behind the scheduled or the manual one, though
\* the records are written one by one and a write may fail (ingestResults).
LatestCovers ==
  ~overlapped => \A key \in Categories :
    store[key] # NoReport => AtLeast(store["latest"], store[key])

\* README.md:11-16 of the worker: a badge from the store is that of an
\* attempt of its category: passing if none of its cases failed, else with
\* its failed cases, and, while ingestions come one by one, not older than
\* what was stored when it was asked for.
BadgeTruthful ==
  [][StoreAnswers /\ request'.pc = "answered" =>
       \E report \in filed :
         /\ <<report.run, report.attempt>> = request'.attempt
         /\ report.event \in EVENTS(request.category)
         /\ ~request.link =>
              /\ request'.message = IF Expected(report.results) = "success"
                                    THEN "passing" ELSE "failing"
              /\ request'.badge.more + Len(request'.badge.names) = Len(FailedNames(report.results))
         /\ ~overlapped /\ request.known # NoReport => ~Older(report, request.known)]_badgesVars
=============================================================================
