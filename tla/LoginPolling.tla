---------------------------- MODULE LoginPolling ----------------------------
(***************************************************************************)
(* loginWithQr and pollQrChallenge of AuthApi (auth.ts): a challenge the   *)
(* user approves in the app, its rotating QR token shown through           *)
(* onChallengeUpdate, polls of the challenge and then of the login         *)
(* process, and a new challenge when one expires, all by one deadline.     *)
(***************************************************************************)
EXTENDS Naturals

CONSTANTS
  MaxToken,       \* bound on the tokens one challenge rotates through
  MaxChallenges   \* bound on the challenges one login creates

ASSUME BoundAssumption == MaxToken \in Nat \ {0} /\ MaxChallenges \in Nat \ {0}

VARIABLES
  pc,          \* what the login awaits, or how it ended
  challenges,  \* challenges created so far
  token,       \* the token of latestChallenge, 0 when it has none to show
  expired,     \* whether latestChallenge is past its expiry
  shown,       \* deliveredChallengeKey: challenge and token, or NotShown
  polled,      \* whether this challenge has been polled at all
  process,     \* whether processId is known
  confirmed,   \* confirmedPolls, capped at the 2 that suffice
  late,        \* whether the deadline has passed
  \* History: the last token an answer about this challenge carried, why the
  \* last challenge was given up, and whether the callback threw.
  offered, givenUp, rejected

progress == <<polled, process, confirmed>>
presentation == <<challenges, token, expired, shown, offered>>
history == <<givenUp, rejected>>
loginVars == <<pc, presentation, progress, late, history>>

NotShown == [challenge |-> 0, token |-> 0]
Key == [challenge |-> challenges', token |-> token']

\* An answer about a challenge: the next token, the same one, or none.
Presented == [token : 0..MaxToken, expired : BOOLEAN]
NextAnswers == {a \in Presented : a.token \in {0, offered, offered + 1}}

LoginInit ==
  /\ pc = "creating" /\ challenges = 0 /\ token = 0 /\ expired = FALSE
  /\ shown = NotShown /\ polled = FALSE /\ process = FALSE /\ confirmed = 0 /\ late = FALSE
  /\ offered = 0 /\ givenUp = "not" /\ rejected = FALSE

Stays(to) ==
  /\ pc' = to
  /\ UNCHANGED <<presentation, progress, history>>

(***************************************************************************)
(* How pollQrChallenge is left: by an error that loginWithQr takes for an  *)
(* expiry and that leaves time for another challenge, or for good.         *)
(***************************************************************************)
Retry(why) ==
  /\ IF late THEN pc' = "failed" ELSE pc' = "creating"
  /\ givenUp' = why
  /\ shown' = NotShown /\ token' = 0 /\ expired' = FALSE
  /\ polled' = FALSE /\ process' = FALSE /\ confirmed' = 0 /\ offered' = 0
  /\ UNCHANGED <<challenges, rejected>>

\* The condition and the first test of the polling loop.
MutantNextPoll == IF process THEN "processing" ELSE "polling"

NextPoll == IF late THEN "failed" ELSE IF process THEN "processing" ELSE "polling"

MutantMerged(a) == IF token = 0 THEN a.token ELSE token

\* mergeChallenges: an answer without a presentation keeps the previous one.
Merged(a) == IF a.token = 0 THEN token ELSE a.token

\* mergeChallenges and deliverChallenge: a presentation not yet shown is shown
\* before anything else is done with the answer.
Deliver(a, to) ==
  /\ token' = Merged(a) /\ expired' = a.expired
  /\ offered' = IF a.token = 0 THEN offered ELSE a.token
  /\ IF token' = 0 \/ Key = shown
     THEN shown' = shown /\ pc' = to
     ELSE shown' = Key /\ pc' = "showing"

(***************************************************************************)
(* Creating a challenge.                                                   *)
(***************************************************************************)
Create(a) ==
  /\ pc \in {"creating", "recreating"} /\ challenges < MaxChallenges
  /\ challenges' = challenges + 1
  /\ Deliver(a, "shown")
  /\ UNCHANGED <<progress, late, history>>

\* Without a phone number a rejected request is repeated with an empty one.
CreateRejected ==
  /\ \/ pc = "creating" /\ Stays("recreating")
     \/ pc \in {"creating", "recreating"} /\ Stays("failed")
  /\ UNCHANGED late

(***************************************************************************)
(* Polling.  At "shown" the answer has been delivered and its expiry is    *)
(* looked at, at "looked" the rest of it, unless nothing was polled yet.   *)
(***************************************************************************)
CallbackReturns ==
  /\ pc = "showing" /\ Stays("shown") /\ UNCHANGED late

CallbackThrows ==
  /\ pc = "showing" /\ pc' = "failed" /\ rejected' = TRUE
  /\ UNCHANGED <<presentation, progress, late, givenUp>>

ChecksExpiry ==
  /\ pc = "shown"
  /\ IF expired THEN Retry("expired") ELSE Stays(IF polled THEN "looked" ELSE "waiting")
  /\ UNCHANGED late

PollAnswered(a) ==
  /\ pc = "polling"
  /\ UNCHANGED <<challenges, progress, late, history>>
  /\ Deliver(a, "shown")

\* What else the answer says: a session or an authenticated status, a process
\* to poll instead, a terminal status, or none of these.  A field id is taken
\* for the process, even where it is the challenge's own.
ChallengeApproved == pc = "looked" /\ Stays("completing") /\ UNCHANGED late

ChallengeHasProcess ==
  /\ pc = "looked" /\ process' = TRUE /\ pc' = "waiting"
  /\ UNCHANGED <<presentation, polled, confirmed, late, history>>

ChallengeFails(status) ==
  /\ pc = "looked"
  /\ IF status = "expired" THEN Retry("expired") ELSE Stays("failed")
  /\ UNCHANGED late

ChallengePending == pc = "looked" /\ Stays("waiting") /\ UNCHANGED late

\* delay(), then the loop's condition and the abort signal.
Polls ==
  /\ pc = "waiting" /\ polled' = TRUE /\ pc' = NextPoll
  /\ UNCHANGED <<presentation, process, confirmed, late, history>>

\* The process: a session or an authenticated status, or CONFIRMED twice in a
\* row, completes it.
ProcessConfirmed ==
  /\ pc = "processing"
  /\ confirmed' = confirmed + 1
  /\ pc' = IF confirmed' = 2 THEN "completing" ELSE "waiting"
  /\ UNCHANGED <<presentation, polled, process, late, history>>

ProcessPending ==
  /\ pc = "processing" /\ confirmed' = 0 /\ pc' = "waiting"
  /\ UNCHANGED <<presentation, polled, process, late, history>>

ProcessApproved == pc = "processing" /\ Stays("completing") /\ UNCHANGED late

ProcessFails(status) ==
  /\ pc = "processing"
  /\ IF status = "expired" THEN Retry("expired") ELSE Stays("failed")
  /\ UNCHANGED late

\* completeWebSession and finalizeSession: see ClientSession.
Completes ==
  /\ pc = "completing"
  /\ \E end \in {"ok", "failed"} : Stays(end)
  /\ UNCHANGED late

\* An HTTP error or the abort signal ends the login, never a challenge only.
RequestFails ==
  /\ pc \in {"polling", "processing", "waiting"} /\ Stays("failed") /\ UNCHANGED late

DeadlinePasses == ~late /\ late' = TRUE /\ Stays(pc)

Statuses == {"failed", "expired"}

Answers ==
  \/ \E a \in NextAnswers : Create(a) \/ PollAnswered(a)
  \/ CreateRejected \/ CallbackReturns \/ CallbackThrows \/ ChecksExpiry
  \/ ChallengeApproved \/ ChallengeHasProcess \/ ChallengePending \/ Polls
  \/ ProcessConfirmed \/ ProcessPending \/ ProcessApproved \/ Completes \/ RequestFails
  \/ \E status \in Statuses : ChallengeFails(status) \/ ProcessFails(status)

LoginNext == Answers \/ DeadlinePasses

LoginSpec == LoginInit /\ [][LoginNext]_loginVars

\* Every request is answered, every callback returns or throws, and the clock
\* goes on.
FairLoginSpec == LoginSpec /\ WF_loginVars(Answers) /\ WF_loginVars(DeadlinePasses)

(***************************************************************************)
(* Properties.                                                             *)
(***************************************************************************)
LoginTypeOK ==
  /\ pc \in {"creating", "recreating", "showing", "shown", "looked", "waiting",
             "polling", "processing", "completing", "ok", "failed"}
  /\ challenges \in 0..MaxChallenges /\ token \in 0..MaxToken /\ offered \in 0..MaxToken
  /\ shown \in [challenge : 0..MaxChallenges, token : 0..MaxToken]
  /\ expired \in BOOLEAN /\ polled \in BOOLEAN /\ process \in BOOLEAN
  /\ late \in BOOLEAN /\ rejected \in BOOLEAN
  /\ confirmed \in 0..2 /\ givenUp \in {"not", "failed", "expired"}

\* README.md:517-519: the user looks at the newest token the broker has
\* presented for the current challenge, however it rotated and whichever
\* answers left it out, whenever the login waits for the broker.
ShownIsNewest ==
  pc \in {"looked", "waiting", "polling", "processing", "completing", "ok"} /\ offered # 0
    => shown = [challenge |-> challenges, token |-> offered]

\* A challenge known to have expired is not polled again.
ExpiredNotPolled ==
  pc \in {"looked", "waiting", "polling", "processing"} => ~expired

\* README.md:520-522: a challenge is replaced because it expired, and for no
\* other failure of the callback, of a request or of the user.
ReplacedOnlyExpired ==
  [][challenges' > challenges /\ challenges > 0 => givenUp = "expired" /\ ~rejected]_loginVars

\* A login whose deadline has passed ends, whatever is answered.
LoginEnds == late ~> pc \in {"ok", "failed"}
=============================================================================
