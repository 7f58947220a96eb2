------------------------- MODULE LoginPollingProofs -------------------------
(***************************************************************************)
(* Safety of the login with a QR code for any number of challenges and of  *)
(* tokens they rotate through.                                             *)
(***************************************************************************)
EXTENDS LoginPolling, TLAPS

-----------------------------------------------------------------------------
(***************************************************************************)
(* The inductive invariant, in named parts.                                *)
(***************************************************************************)

\* The second confirmation in a row completes the process.
TwoConfirmationsComplete ==
  confirmed = 2 => pc \in {"completing", "ok", "failed"}

\* No answer makes the login forget or keep a token it should not: the one it
\* has is the last one offered.
TokenIsOffered == token = offered

\* From its delivery on the newest token is the one shown.
DeliveredIsShown ==
  pc \notin {"creating", "recreating", "failed"} /\ token # 0
    => shown = [challenge |-> challenges, token |-> token]

\* Where a challenge is about to be created again, the last one had expired, and
\* a callback that threw has ended the login.
GivenUpExpired ==
  /\ pc \in {"creating", "recreating"} /\ challenges > 0 => givenUp = "expired"
  /\ rejected => pc = "failed"

IInv ==
  /\ LoginTypeOK /\ TwoConfirmationsComplete /\ TokenIsOffered
  /\ DeliveredIsShown /\ GivenUpExpired /\ ExpiredNotPolled

-----------------------------------------------------------------------------
\* What LoginInit and Retry set the fields to.
LEMMA ClearedFits ==
  /\ 0 \in 0..MaxToken /\ 0 \in 0..MaxChallenges /\ 0 \in 0..2 /\ 0 # 2 /\ ~(0 > 0)
  /\ NotShown \in [challenge : 0..MaxChallenges, token : 0..MaxToken]
  BY BoundAssumption DEF BoundAssumption, NotShown

\* What Deliver does, for a new challenge and for a polled one.
LEMMA DeliverKeeps ==
  ASSUME IInv, NEW a \in NextAnswers, Deliver(a, "shown"), challenges' \in 0..MaxChallenges
  PROVE  /\ token' \in 0..MaxToken /\ offered' \in 0..MaxToken /\ expired' \in BOOLEAN
         /\ shown' \in [challenge : 0..MaxChallenges, token : 0..MaxToken]
         /\ pc' \in {"showing", "shown"}
         /\ token' = offered'
         /\ token' # 0 => shown' = [challenge |-> challenges', token |-> token']
  BY BoundAssumption DEF BoundAssumption, IInv, LoginTypeOK, TokenIsOffered, NextAnswers, Presented, Deliver, Merged, Key

\* A challenge given up because it expired leaves nothing behind.
LEMMA RetryKeeps ==
  ASSUME IInv, Retry("expired"), UNCHANGED late, pc # "failed"
  PROVE  IInv'
<1> USE ClearedFits DEF Retry
<1>1. LoginTypeOK'
  BY Zenon DEF IInv, LoginTypeOK
<1>2. TwoConfirmationsComplete' /\ TokenIsOffered' /\ DeliveredIsShown'
  BY Zenon DEF TwoConfirmationsComplete, TokenIsOffered, DeliveredIsShown
<1>3. GivenUpExpired' /\ ExpiredNotPolled'
  BY Zenon DEF IInv, GivenUpExpired, ExpiredNotPolled
<1> QED BY <1>1, <1>2, <1>3 DEF IInv

LEMMA Inductive == IInv /\ [LoginNext]_loginVars => IInv'
<1> SUFFICES ASSUME IInv, [LoginNext]_loginVars PROVE IInv'
  OBVIOUS
<1> USE BoundAssumption DEF BoundAssumption, IInv, LoginTypeOK, TwoConfirmationsComplete, TokenIsOffered,
        DeliveredIsShown, GivenUpExpired, ExpiredNotPolled
<1>1. ASSUME NEW a \in NextAnswers, Create(a) PROVE IInv'
  <2>1. challenges' \in 0..MaxChallenges /\ Deliver(a, "shown")
    BY <1>1 DEF Create
  <2>2. UNCHANGED <<progress, late, history>> /\ pc \in {"creating", "recreating"}
    BY <1>1 DEF Create
  <2> QED BY <2>1, <2>2, DeliverKeeps DEF progress, history
<1>2. ASSUME NEW a \in NextAnswers, PollAnswered(a) PROVE IInv'
  <2>1. challenges' \in 0..MaxChallenges /\ Deliver(a, "shown")
    BY <1>2 DEF PollAnswered
  <2>2. UNCHANGED <<challenges, progress, late, history>> /\ pc = "polling"
    BY <1>2 DEF PollAnswered
  <2> QED BY <2>1, <2>2, DeliverKeeps DEF progress, history
<1>3. CASE CreateRejected
  BY <1>3 DEF CreateRejected, Stays, presentation, progress, history
<1>4. CASE CallbackReturns
  BY <1>4 DEF CallbackReturns, Stays, presentation, progress, history
<1>5. CASE CallbackThrows
  <2>1. rejected' \in BOOLEAN
    BY <1>5, Zenon DEF CallbackThrows
  <2>2. pc = "showing" /\ pc' = "failed" /\ UNCHANGED <<presentation, progress, late, givenUp>>
    BY <1>5 DEF CallbackThrows
  <2> QED BY <2>1, <2>2 DEF presentation, progress
<1>6. CASE ChecksExpiry
  <2>1. CASE expired
    BY <1>6, <2>1, RetryKeeps DEF ChecksExpiry
  <2>2. CASE ~expired
    BY <1>6, <2>2 DEF ChecksExpiry, Stays, presentation, progress, history
  <2> QED BY <2>1, <2>2
<1>7. CASE ChallengeApproved \/ ChallengePending
  BY <1>7 DEF ChallengeApproved, ChallengePending, Stays, presentation, progress, history
<1>8. CASE ChallengeHasProcess
  <2>1. process' \in BOOLEAN
    BY <1>8, Zenon DEF ChallengeHasProcess
  <2>2. /\ pc = "looked" /\ pc' = "waiting"
        /\ UNCHANGED <<presentation, polled, confirmed, late, history>>
    BY <1>8 DEF ChallengeHasProcess
  <2> QED BY <2>1, <2>2 DEF presentation, history
<1>9. CASE Polls
  BY <1>9 DEF Polls, NextPoll, presentation, progress, history
<1>10. CASE ProcessConfirmed \/ ProcessPending \/ ProcessApproved
  BY <1>10 DEF ProcessConfirmed, ProcessPending, ProcessApproved, Stays,
     presentation, progress, history
<1>11. CASE Completes \/ RequestFails
  BY <1>11 DEF Completes, RequestFails, Stays, presentation, progress, history
<1>12. ASSUME NEW status \in Statuses, ChallengeFails(status) \/ ProcessFails(status)
       PROVE  IInv'
  BY <1>12, RetryKeeps DEF ChallengeFails, ProcessFails, Stays, presentation, progress, history
<1>13. CASE DeadlinePasses
  BY <1>13 DEF DeadlinePasses, Stays, presentation, progress, history
<1>14. CASE UNCHANGED loginVars
  BY <1>14 DEF loginVars, presentation, progress, history
<1> QED BY <1>1, <1>2, <1>3, <1>4, <1>5, <1>6, <1>7, <1>8, <1>9, <1>10, <1>11, <1>12, <1>13, <1>14
        DEF LoginNext, Answers

LEMMA Initial == LoginInit => IInv
<1> USE ClearedFits DEF LoginInit
<1>1. LoginInit => LoginTypeOK
  BY Zenon DEF LoginTypeOK
<1>2. LoginInit => TwoConfirmationsComplete /\ TokenIsOffered /\ DeliveredIsShown
  BY Zenon DEF TwoConfirmationsComplete, TokenIsOffered, DeliveredIsShown
<1>3. LoginInit => GivenUpExpired /\ ExpiredNotPolled
  BY Zenon DEF GivenUpExpired, ExpiredNotPolled
<1> QED BY <1>1, <1>2, <1>3 DEF IInv

LEMMA Invariant == LoginSpec => []IInv
  BY Initial, Inductive, PTL DEF LoginSpec

-----------------------------------------------------------------------------
(***************************************************************************)
(* The theorems.                                                           *)
(***************************************************************************)

\* The state of a login keeps its types: loginWithQr and pollQrChallenge count
\* two confirmations at most, whatever the broker answers.
THEOREM LoginTypeCorrect == LoginSpec => []LoginTypeOK
<1>1. IInv => LoginTypeOK
  BY DEF IInv
<1> QED BY <1>1, Invariant, PTL

\* Whenever a login waits for the broker, the user has been shown the newest
\* token of the current challenge: mergeChallenges and deliverChallenge lose no
\* token, however many rotate.
THEOREM ShownIsNewestAlways == LoginSpec => []ShownIsNewest
<1>1. IInv => ShownIsNewest
  BY DEF IInv, TokenIsOffered, DeliveredIsShown, ShownIsNewest
<1> QED BY <1>1, Invariant, PTL

\* pollQrChallenge polls no challenge it knows to have expired.
THEOREM ExpiredNotPolledAlways == LoginSpec => []ExpiredNotPolled
<1>1. IInv => ExpiredNotPolled
  BY DEF IInv
<1> QED BY <1>1, Invariant, PTL

\* loginWithQr creates a further challenge only after one that expired, never
\* after a callback that threw or another failure.
THEOREM ReplacedOnlyExpiredAlways == LoginSpec => ReplacedOnlyExpired
<1>1. IInv /\ [LoginNext]_loginVars
        => [challenges' > challenges /\ challenges > 0 => givenUp = "expired" /\ ~rejected]_loginVars
  <2> SUFFICES ASSUME IInv, LoginNext, challenges' > challenges, challenges > 0
               PROVE  givenUp = "expired" /\ ~rejected
    BY DEF loginVars
  <2>1. PICK a \in NextAnswers : Create(a)
    <3>1. challenges' # challenges /\ challenges \in Nat
      BY BoundAssumption DEF BoundAssumption, IInv, LoginTypeOK
    <3> QED BY <3>1 DEF LoginNext, Answers, PollAnswered, CreateRejected, CallbackReturns,
          CallbackThrows, ChecksExpiry, Retry, Stays, ChallengeApproved, ChallengeHasProcess,
          ChallengePending, Polls, ProcessConfirmed, ProcessPending, ProcessApproved, Completes,
          RequestFails, ChallengeFails, ProcessFails, DeadlinePasses, presentation
  <2> QED BY <2>1 DEF Create, IInv, GivenUpExpired
<1> QED BY <1>1, Invariant, PTL DEF LoginSpec, ReplacedOnlyExpired
-----------------------------------------------------------------------------
\* How many answers a login at this point can take once its deadline passed.
AnswersAhead ==
  [creating |-> 8, recreating |-> 7, polling |-> 6, showing |-> 5, shown |-> 4, looked |-> 3,
   processing |-> 3, waiting |-> 2, completing |-> 1, ok |-> 0, failed |-> 0]

\* After its deadline every answer to a login brings its end nearer, which eight
\* of them reach: neither loginWithQr nor pollQrChallenge begins a round again,
\* whatever the broker and the callback answer.
THEOREM LoginWindsUp ==
  LoginSpec => [][late => late' /\ (Answers => AnswersAhead[pc'] < AnswersAhead[pc])]_loginVars
<1>1. IInv /\ [LoginNext]_loginVars
        => [late => late' /\ (Answers => AnswersAhead[pc'] < AnswersAhead[pc])]_loginVars
  <2> SUFFICES ASSUME IInv, LoginNext, late
               PROVE  late' /\ (Answers => AnswersAhead[pc'] < AnswersAhead[pc])
    BY DEF loginVars
  <2>1. late'
    BY DEF LoginNext, Answers, Create, PollAnswered, CreateRejected, CallbackReturns,
       CallbackThrows, ChecksExpiry, ChallengeApproved, ChallengeHasProcess,
       ChallengePending, Polls, ProcessConfirmed, ProcessPending, ProcessApproved, Completes,
       RequestFails, ChallengeFails, ProcessFails, DeadlinePasses
  <2>2. ASSUME Answers PROVE AnswersAhead[pc'] < AnswersAhead[pc]
    <3>1. ASSUME NEW a \in NextAnswers, Create(a) \/ PollAnswered(a)
          PROVE  AnswersAhead[pc'] < AnswersAhead[pc]
      <4>1. pc' \in {"showing", "shown"} /\ pc \in {"creating", "recreating", "polling"}
        BY <3>1 DEF Create, PollAnswered, Deliver
      <4> QED BY <4>1 DEF AnswersAhead
    <3>2. CASE CreateRejected \/ CallbackReturns \/ CallbackThrows
      <4>1. \/ pc = "creating" /\ pc' \in {"recreating", "failed"}
            \/ pc = "recreating" /\ pc' = "failed"
            \/ pc = "showing" /\ pc' \in {"shown", "failed"}
        BY <3>2 DEF CreateRejected, CallbackReturns, CallbackThrows, Stays
      <4> QED BY <4>1 DEF AnswersAhead
    <3>3. CASE ChecksExpiry
      BY <3>3 DEF ChecksExpiry, Retry, Stays, AnswersAhead
    <3>4. CASE ChallengeApproved \/ ChallengeHasProcess \/ ChallengePending
      <4>1. pc = "looked" /\ pc' \in {"completing", "waiting"}
        BY <3>4 DEF ChallengeApproved, ChallengeHasProcess, ChallengePending, Stays
      <4> QED BY <4>1 DEF AnswersAhead
    <3>5. CASE Polls
      BY <3>5 DEF Polls, NextPoll, AnswersAhead
    <3>6. CASE ProcessConfirmed \/ ProcessPending \/ ProcessApproved
      <4>1. pc = "processing" /\ pc' \in {"waiting", "completing"}
        BY <3>6 DEF ProcessConfirmed, ProcessPending, ProcessApproved, Stays
      <4> QED BY <4>1 DEF AnswersAhead
    <3>7. CASE Completes \/ RequestFails
      <4>1. \/ pc = "completing" /\ pc' \in {"ok", "failed"}
            \/ pc \in {"polling", "processing", "waiting"} /\ pc' = "failed"
        BY <3>7 DEF Completes, RequestFails, Stays
      <4> QED BY <4>1 DEF AnswersAhead
    <3>8. ASSUME NEW status \in Statuses, ChallengeFails(status) \/ ProcessFails(status)
          PROVE  AnswersAhead[pc'] < AnswersAhead[pc]
      <4>1. pc \in {"looked", "processing"} /\ pc' = "failed"
        BY <3>8 DEF ChallengeFails, ProcessFails, Retry, Stays
      <4> QED BY <4>1 DEF AnswersAhead
    <3> QED BY <2>2, <3>1, <3>2, <3>3, <3>4, <3>5, <3>6, <3>7, <3>8 DEF Answers
  <2> QED BY <2>1, <2>2
<1> QED BY <1>1, Invariant, PTL DEF LoginSpec
=============================================================================
