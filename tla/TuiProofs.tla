------------------------------ MODULE TuiProofs ------------------------------
(***************************************************************************)
(* Safety of the terminal UI, for any number of logins, orders, searches   *)
(* and selections: of its session, its order dialogs, its search and its   *)
(* dashboard.  The modules share no state.                                 *)
(***************************************************************************)
EXTENDS TuiSession, TuiOrder, TuiSearch, TuiDashboard, TLAPS

-----------------------------------------------------------------------------
(***************************************************************************)
(* The order dialogs.                                                      *)
(***************************************************************************)
FlowRecord ==
  [pc : {"closed", "side", "destinations", "destination", "mode", "size", "quote", "price",
         "preview", "confirm", "submitting", "message", "result", "reloading"},
   side : {"none", "buy", "sell"}, mode : {"none", "market", "limit", "stopMarket"},
   size : Quantities \union {0}]

\* Until the order is submitted nothing was accepted; once it is, the flag is
\* set; and what a flow has told is told until the next one begins.
OrderInv ==
  /\ flow \in FlowRecord /\ submitting \in BOOLEAN
  /\ flow.pc \in Dialogs \union Lookups \union {"confirm"} => accepted = before
  /\ flow.pc = "submitting" => submitting
  /\ told = "nothing sent" => accepted = before /\ flow.pc \in {"closed", "message"}

LEMMA NoFlowFits ==
  NoFlow \in FlowRecord /\ NoFlow.pc = "closed"
BY DEF NoFlow, FlowRecord

LEMMA OrderInitially == TuiOrderInit => OrderInv
BY NoFlowFits DEF TuiOrderInit, OrderInv, Dialogs, Lookups

\* The dialogs that go on.
LEMMA DialogsKeep ==
  ASSUME OrderInv,
         \/ FlowBegins \/ DestinationsArrive \/ DestinationChosen \/ PriceEntered \/ Escapes
         \/ \E side \in {"buy", "sell"} : SideChosen(side)
         \/ \E mode \in {"market", "limit", "stopMarket"} : ModeChosen(mode)
         \/ \E size \in Quantities : SizeEntered(size)
         \/ PriceQuoted \/ ResultDismissed
  PROVE  OrderInv'
<1>1. CASE FlowBegins
  BY <1>1 DEF FlowBegins, Opens, NoFlow, OrderInv, FlowRecord, Dialogs, Lookups
<1>2. CASE DestinationsArrive \/ DestinationChosen \/ PriceEntered \/ PriceQuoted
  BY <1>2 DEF DestinationsArrive, DestinationChosen, PriceEntered, PriceQuoted, Awaits, Opens,
     account, OrderInv, FlowRecord, Dialogs, Lookups
<1>3. CASE Escapes \/ ResultDismissed
  <2>1. CASE Escapes
    BY <2>1, NoFlowFits DEF Escapes, Awaits, account, OrderInv, Dialogs, Lookups
  <2>2. CASE ResultDismissed
    BY <2>2 DEF ResultDismissed, Awaits, Opens, account, OrderInv, FlowRecord, Dialogs, Lookups
  <2> QED BY <1>3, <2>1, <2>2
<1>4. ASSUME NEW side \in {"buy", "sell"}, SideChosen(side) PROVE OrderInv'
  BY <1>4 DEF SideChosen, Awaits, account, OrderInv, FlowRecord, Dialogs, Lookups
<1>5. ASSUME NEW mode \in {"market", "limit", "stopMarket"}, ModeChosen(mode) PROVE OrderInv'
  BY <1>5 DEF ModeChosen, Awaits, account, OrderInv, FlowRecord, Dialogs, Lookups
<1>6. ASSUME NEW size \in Quantities, SizeEntered(size) PROVE OrderInv'
  BY <1>6 DEF SizeEntered, Awaits, account, OrderInv, FlowRecord, Dialogs, Lookups
<1> QED BY <1>1, <1>2, <1>3, <1>4, <1>5, <1>6

\* The steps that tell the user something: what they tell depends on the flag,
\* and the flag is set before anything can be accepted.
LEMMA OutcomesKeep ==
  ASSUME OrderInv,
         \/ FlowFails \/ PreviewArrives \/ Declines \/ Confirmed \/ FlowEnds \/ SubmitThrows
         \/ BrokerAccepts \/ \E status \in Statuses : SubmitAnswers(status)
  PROVE  OrderInv'
<1>1. ASSUME Stops, flow.pc = "submitting" \/ accepted = before PROVE OrderInv'
  <2>1. Recovery = "nothing sent" => flow.pc # "submitting"
    BY DEF Recovery, OrderInv
  <2> QED BY <1>1, <2>1 DEF Stops, Opens, account, OrderInv, FlowRecord, Dialogs, Lookups
<1>2. CASE FlowFails \/ SubmitThrows
  BY <1>1, <1>2 DEF FlowFails, SubmitThrows, OrderInv, Dialogs, Lookups
<1>3. CASE PreviewArrives
  <2>1. CASE Awaits(Opens("confirm"))
    BY <1>3, <2>1 DEF PreviewArrives, Awaits, Opens, account, OrderInv, FlowRecord, Dialogs, Lookups
  <2> QED BY <1>1, <1>3, <2>1 DEF PreviewArrives, OrderInv, Lookups
<1>4. CASE Declines
  BY <1>4 DEF Declines, NoFlow, account, OrderInv, FlowRecord, Dialogs, Lookups
<1>5. CASE Confirmed
  BY <1>5 DEF Confirmed, Submits, Opens, account, OrderInv, FlowRecord, Dialogs, Lookups
<1>6. CASE FlowEnds
  BY <1>6 DEF FlowEnds, NoFlow, account, OrderInv, FlowRecord, Dialogs, Lookups
<1>7. CASE BrokerAccepts
  BY <1>7 DEF BrokerAccepts, OrderInv, Dialogs, Lookups
<1>8. ASSUME NEW status \in Statuses, SubmitAnswers(status) PROVE OrderInv'
  BY <1>8 DEF SubmitAnswers, Opens, account, OrderInv, FlowRecord, Dialogs, Lookups
<1> QED BY <1>2, <1>3, <1>4, <1>5, <1>6, <1>7, <1>8

LEMMA OrderKeeps == OrderInv /\ [TuiOrderNext]_tuiOrderVars => OrderInv'
<1> SUFFICES ASSUME OrderInv, [TuiOrderNext]_tuiOrderVars PROVE OrderInv'
  OBVIOUS
<1>1. CASE Dialog \/ BrokerAccepts \/ SubmitThrows \/ \E status \in Statuses : SubmitAnswers(status)
  BY <1>1, DialogsKeep, OutcomesKeep DEF Dialog
<1>2. ASSUME UNCHANGED <<flow, submitting, told, account>> PROVE OrderInv'
  BY <1>2 DEF account, OrderInv
<1>3. CASE \/ \E size \in Quantities \union {0} : PortfolioArrives(size)
           \/ PortfolioFails \/ DashboardReset \/ DashboardEntered \/ UNCHANGED tuiOrderVars
  <2>1. UNCHANGED <<flow, submitting, told, account>>
    BY <1>3 DEF PortfolioArrives, PortfolioFails, DashboardReset, DashboardEntered, tuiOrderVars,
       account
  <2> QED BY <1>2, <2>1
<1> QED BY <1>1, <1>3 DEF TuiOrderNext

\* A user who is told that nothing was sent can believe it: submitting is set
\* before the order is handed to the client, and only then can the broker have
\* accepted it.
THEOREM NothingSentTrueAlways == TuiOrderSpec => []NothingSentTrue
<1>1. OrderInv => NothingSentTrue
  BY DEF OrderInv, NothingSentTrue
<1> QED BY <1>1, OrderInitially, OrderKeeps, PTL DEF TuiOrderSpec

-----------------------------------------------------------------------------
(***************************************************************************)
(* The search.                                                             *)
(***************************************************************************)
Search == [query : Queries, class : Classes, generation : Nat]
Timer == [query : Queries, class : {"none"}, generation : Nat]

SearchTypeOK ==
  /\ newest \in Nat /\ query \in Queries /\ class \in Classes /\ input \in Queries
  /\ searches \subseteq Search /\ debounce \in Timer

\* A search of the newest generation is that of the query and the class shown.
NewestIsShown ==
  \A search \in searches :
    /\ search.generation <= newest
    /\ search.generation = newest /\ query # NoText => search.query = query /\ search.class = class

\* The search a timer is set for has not begun.
TimerIsFirst ==
  /\ debounce.generation <= newest
  /\ debounce # NoSearch /\ debounce.generation = newest =>
       \A search \in searches : search.generation # newest

SearchInv == SearchTypeOK /\ NewestIsShown /\ TimerIsFirst /\ ResultsMatchQuery

LEMMA NoSearchFits == NoSearch \in Timer /\ NoSearch.generation = 0
BY TuiSearchAssumption DEF TuiSearchAssumption, NoSearch, Timer

LEMMA SearchInitially == TuiSearchInit => SearchInv
<1> SUFFICES ASSUME TuiSearchInit PROVE SearchInv
  OBVIOUS
<1>1. SearchTypeOK
  <2>1. class \in Classes
    BY TuiSearchAssumption DEF TuiSearchAssumption, TuiSearchInit
  <2> QED BY <2>1, NoSearchFits, TuiSearchAssumption DEF TuiSearchAssumption, TuiSearchInit, SearchTypeOK
<1>2. NewestIsShown /\ TimerIsFirst /\ ResultsMatchQuery
  BY NoSearchFits DEF TuiSearchInit, NewestIsShown, TimerIsFirst, ResultsMatchQuery
<1> QED BY <1>1, <1>2 DEF SearchInv

\* A search that begins in a generation in which no other has.
LEMMA RunsKeep ==
  ASSUME SearchInv, NEW text \in Queries, NEW asked \in Classes, Runs(text, asked),
         class' = asked, newest' \in Nat, newest <= newest',
         \A search \in searches : search.generation < newest',
         debounce' = NoSearch, input' = input
  PROVE  SearchInv'
<1> DEFINE new == [query |-> text, class |-> asked, generation |-> newest']
<1>1. searches' = searches \union {new} /\ query' = text /\ loading' = TRUE
  BY DEF Runs
<1>2. new \in Search /\ new.query = text /\ new.class = asked /\ new.generation = newest'
  BY DEF Search
<1> HIDE DEF new
<1>3. SearchTypeOK'
  BY <1>1, <1>2, NoSearchFits DEF SearchInv, SearchTypeOK
<1>4. NewestIsShown'
  BY <1>1, <1>2 DEF SearchInv, SearchTypeOK, Search, NewestIsShown
<1>5. TimerIsFirst' /\ ResultsMatchQuery'
  BY <1>1, NoSearchFits DEF TimerIsFirst, ResultsMatchQuery
<1> QED BY <1>3, <1>4, <1>5 DEF SearchInv

\* A step without a new search, after which the newest generation, if it is
\* not a new one, has what it had.
LEMMA NoRunKeeps ==
  ASSUME SearchInv, SearchTypeOK', searches' \subseteq searches, newest <= newest',
         newest' = newest =>
           /\ query' = NoText \/ (query' = query /\ class' = class)
           /\ debounce' = NoSearch \/ debounce' = debounce,
         newest' # newest => debounce' = NoSearch \/ debounce'.generation \in {newest', debounce.generation},
         ResultsMatchQuery'
  PROVE  SearchInv'
<1>1. \A search \in searches : search.generation \in Nat /\ search.generation <= newest
  BY DEF SearchInv, SearchTypeOK, Search, NewestIsShown
<1>2. newest \in Nat /\ newest' \in Nat
  BY DEF SearchInv, SearchTypeOK
<1>3. NewestIsShown'
  BY <1>1, <1>2 DEF SearchInv, NewestIsShown
<1>4. TimerIsFirst'
  <2>1. debounce.generation <= newest /\ debounce.generation \in Nat
    BY DEF SearchInv, SearchTypeOK, TimerIsFirst, Timer
  <2>2. CASE newest' = newest
    BY <1>2, <2>1, <2>2, NoSearchFits DEF SearchInv, TimerIsFirst
  <2>3. CASE newest' # newest
    BY <1>1, <1>2, <2>1, <2>3, NoSearchFits DEF TimerIsFirst
  <2> QED BY <2>2, <2>3
<1> QED BY <1>3, <1>4 DEF SearchInv

LEMMA SearchKeeps == SearchInv /\ [TuiSearchNext]_tuiSearchVars => SearchInv'
<1> SUFFICES ASSUME SearchInv, [TuiSearchNext]_tuiSearchVars PROVE SearchInv'
  OBVIOUS
<1>0. /\ newest \in Nat /\ query \in Queries /\ class \in Classes /\ input \in Queries
      /\ NoText \in Queries /\ debounce.query \in Queries /\ ResultsMatchQuery
      /\ \A search \in searches : search.generation \in Nat /\ search.generation <= newest
  BY TuiSearchAssumption DEF TuiSearchAssumption, SearchInv, SearchTypeOK, Search, Timer, NewestIsShown
<1>1. ASSUME NEW text \in Queries, Types(text) PROVE SearchInv'
  <2>1. SearchTypeOK' /\ ResultsMatchQuery'
    BY <1>1 DEF Types, SearchInv, SearchTypeOK, ResultsMatchQuery
  <2> QED BY <1>0, <1>1, <2>1, NoRunKeeps DEF Types
<1>2. CASE Scheduled
  <2>1. CASE NextGeneration
    <3> DEFINE timer == [query |-> input, class |-> "none", generation |-> newest']
    <3>1. newest' = newest + 1 /\ newest' \in Nat
      BY <1>0, <2>1, TuiSearchAssumption DEF TuiSearchAssumption, NextGeneration
    <3>2. timer \in Timer /\ timer.generation = newest'
      BY <1>0, <3>1 DEF Timer
    <3>3. /\ UNCHANGED <<visible, input, class, searches>> /\ debounce' \in {NoSearch, timer}
          /\ query' = input /\ results' = NoResults
      BY <1>0, <1>2, <3>1 DEF Scheduled
    <3> HIDE DEF timer
    <3>4. SearchTypeOK' /\ ResultsMatchQuery'
      BY <1>0, <3>1, <3>2, <3>3, NoSearchFits DEF SearchInv, SearchTypeOK, ResultsMatchQuery
    <3> QED BY <1>0, <3>1, <3>2, <3>3, <3>4, NoRunKeeps
  <2>2. CASE ~NextGeneration
    <3>1. /\ UNCHANGED <<visible, input, class, searches, query, newest, results, loading>>
          /\ debounce' \in {NoSearch, debounce}
      BY <1>2, <2>2 DEF Scheduled
    <3>2. SearchTypeOK' /\ ResultsMatchQuery'
      BY <3>1, NoSearchFits DEF SearchInv, SearchTypeOK, ResultsMatchQuery
    <3> QED BY <1>0, <3>1, <3>2, NoRunKeeps
  <2> QED BY <2>1, <2>2
<1>3. CASE DebounceFires
  <2>1. UNCHANGED field /\ UNCHANGED results /\ debounce' = NoSearch /\ debounce # NoSearch
    BY <1>3 DEF DebounceFires
  <2>2. CASE visible /\ debounce.generation = newest
    <3>1. newest' = newest /\ Runs(debounce.query, class)
      BY <1>3, <2>2 DEF DebounceFires
    <3>2. \A search \in searches : search.generation < newest'
      BY <1>0, <2>1, <2>2, <3>1 DEF SearchInv, TimerIsFirst
    <3> QED BY <1>0, <2>1, <3>1, <3>2, RunsKeep DEF field
  <2>3. CASE ~(visible /\ debounce.generation = newest)
    <3>1. UNCHANGED <<query, searches, newest, loading>>
      BY <1>3, <2>3 DEF DebounceFires
    <3>2. SearchTypeOK' /\ ResultsMatchQuery'
      BY <2>1, <3>1, NoSearchFits DEF field, SearchInv, SearchTypeOK, ResultsMatchQuery
    <3> QED BY <1>0, <2>1, <3>1, <3>2, NoRunKeeps DEF field
  <2> QED BY <2>2, <2>3
<1>4. CASE Submitted
  <2>1. CASE input = NoText /\ Resets /\ UNCHANGED <<searches, newest, debounce>>
    <3>1. SearchTypeOK' /\ ResultsMatchQuery'
      BY <1>0, <1>4, <2>1 DEF Submitted, Resets, field, SearchInv, SearchTypeOK, ResultsMatchQuery
    <3> QED BY <1>0, <2>1, <3>1, NoRunKeeps DEF Resets
  <2>2. CASE NextGeneration /\ debounce' = NoSearch /\ Runs(input, class)
    <3>1. /\ newest' \in Nat /\ newest <= newest'
          /\ \A search \in searches : search.generation < newest'
      BY <1>0, <2>2, TuiSearchAssumption DEF TuiSearchAssumption, NextGeneration
    <3> QED BY <1>0, <1>4, <2>2, <3>1, RunsKeep DEF Submitted, field
  <2> QED BY <1>4, <2>1, <2>2 DEF Submitted
<1>5. ASSUME NEW chosen \in Classes, ClassChosen(chosen) PROVE SearchInv'
  <2>1. /\ newest' = newest + 1 /\ newest' \in Nat /\ newest <= newest' /\ newest' # newest
        /\ \A search \in searches : search.generation < newest'
        /\ class' = chosen /\ debounce' = NoSearch /\ UNCHANGED <<visible, input>>
    BY <1>0, <1>5, TuiSearchAssumption DEF TuiSearchAssumption, ClassChosen, NextGeneration
  <2>2. CASE Resets /\ UNCHANGED searches
    <3>1. SearchTypeOK' /\ ResultsMatchQuery'
      BY <1>0, <2>1, <2>2, NoSearchFits DEF Resets, SearchInv, SearchTypeOK, ResultsMatchQuery
    <3> QED BY <2>1, <2>2, <3>1, NoRunKeeps
  <2>3. CASE Runs(input, chosen)
    BY <1>0, <2>1, <2>3, RunsKeep
  <2> QED BY <1>5, <2>2, <2>3 DEF ClassChosen
<1>6. ASSUME NEW search \in searches, NEW found,
             found = [query |-> search.query, class |-> search.class] \/ found = NoResults,
             SearchEnds(search, found)
      PROVE  SearchInv'
  <2>1. /\ searches' = searches \ {search} /\ UNCHANGED <<visible, input, class, query, newest, debounce>>
        /\ IF visible /\ search.generation = newest THEN results' = found
           ELSE UNCHANGED <<loading, results>>
    BY <1>6 DEF SearchEnds, CurrentSearch, field
  <2>2. search.generation = newest /\ query # NoText => search.query = query /\ search.class = class
    BY DEF SearchInv, NewestIsShown
  <2>3. SearchTypeOK' /\ ResultsMatchQuery'
    BY <1>6, <2>1, <2>2 DEF SearchInv, SearchTypeOK, ResultsMatchQuery
  <2> QED BY <1>0, <2>1, <2>3, NoRunKeeps
<1>7. CASE SearchOpens
  <2>1. SearchTypeOK' /\ ResultsMatchQuery'
    BY <1>0, <1>7 DEF SearchOpens, Resets, SearchInv, SearchTypeOK, ResultsMatchQuery
  <2> QED BY <1>0, <1>7, <2>1, NoRunKeeps DEF SearchOpens, Resets
<1>8. CASE SearchCloses
  <2>1. newest' = newest + 1 /\ newest' \in Nat /\ newest <= newest' /\ newest' # newest
    BY <1>0, <1>8, TuiSearchAssumption DEF TuiSearchAssumption, SearchCloses, NextGeneration
  <2>2. SearchTypeOK' /\ ResultsMatchQuery'
    BY <1>0, <1>8, <2>1, NoSearchFits DEF SearchCloses, SearchInv, SearchTypeOK, ResultsMatchQuery
  <2> QED BY <1>8, <2>1, <2>2, NoRunKeeps DEF SearchCloses
<1>9. CASE UNCHANGED tuiSearchVars
  BY <1>9 DEF tuiSearchVars, SearchInv, SearchTypeOK, NewestIsShown, TimerIsFirst, ResultsMatchQuery
<1> QED BY <1>1, <1>2, <1>3, <1>4, <1>5, <1>6, <1>7, <1>8, <1>9 DEF TuiSearchNext

\* The results under a query are its own, whatever was typed, submitted,
\* chosen or closed while other searches were under way (requestGeneration).
THEOREM ResultsMatchQueryAlways == TuiSearchSpec => []ResultsMatchQuery
<1>1. SearchInv => ResultsMatchQuery
  BY DEF SearchInv
<1> QED BY <1>1, SearchInitially, SearchKeeps, PTL DEF TuiSearchSpec

-----------------------------------------------------------------------------
(***************************************************************************)
(* The session.                                                            *)
(***************************************************************************)
LoginSteps == {"none", "polling", "resolving", "saving", "loading", "done"}

TuiSessionTypeOK ==
  /\ serial \in 0..MaxAttempts /\ retry \in 0..MaxAttempts
  /\ attempts \in [Attempts -> LoginSteps]
  /\ phase \in {"booting", "login", "dashboard", "error"}
  /\ boot \in {"restoring", "validating", "browser", "done"}
  /\ recovery \in {"none", "refreshing", "relogin"} /\ relog \in 0..Discarding

\* Nothing but boot() runs before the first login or dashboard, and what it
\* validates is a session it has restored.
BootAlone ==
  /\ boot # "done" => /\ phase = "booting" /\ relog = 0 /\ recovery = "none"
                      /\ \A a \in Attempts : attempts[a] = "none"
  /\ boot = "validating" => signedIn

LoginPhaseHasLogin == phase = "login" => serial \in Attempts

\* A QR login that may still open the dashboard has its session, unless the
\* session is about to be discarded and the phase to change.
NewestHasSession ==
  \A a \in Attempts :
    ~pin /\ attempts[a] = "saving" /\ a = serial /\ phase = "login" =>
      signedIn \/ relog = Discarding

TuiSessionInv ==
  /\ TuiSessionTypeOK /\ BootAlone /\ LoginPhaseHasLogin /\ NewestHasSession
  /\ QrNeverStuck /\ DashboardHasSession

LEMMA MaxAttemptsIsNat == MaxAttempts \in Nat /\ Discarding \in Nat /\ Discarding = MaxAttempts + 1
BY TuiSessionAssumption DEF TuiSessionAssumption, Discarding

LEMMA TuiSessionInitially ==
  ASSUME serial = 0, retry = 0, attempts = NoLogins, phase = "booting", boot = "restoring",
         recovery = "none", relog = 0
  PROVE  TuiSessionInv
<1>1. TuiSessionTypeOK
  BY MaxAttemptsIsNat DEF TuiSessionTypeOK, NoLogins, LoginSteps
<1> QED BY <1>1 DEF TuiSessionInv, BootAlone, LoginPhaseHasLogin, NewestHasSession, QrNeverStuck,
         DashboardHasSession, NoLogins

\* A login that starts is the newest one, and under way.
LEMMA StartsLoginFacts ==
  ASSUME TuiSessionInv, StartsLogin
  PROVE  /\ serial' \in Attempts /\ serial' \in 0..MaxAttempts /\ serial' # 0
         /\ attempts' \in [Attempts -> LoginSteps]
         /\ Underway(serial)' /\ attempts'[serial'] # "saving"
<1>1. serial \in Nat /\ serial < MaxAttempts /\ serial' = serial + 1
  BY MaxAttemptsIsNat DEF StartsLogin, TuiSessionInv, TuiSessionTypeOK
<1>2. serial' \in Attempts /\ serial' \in 0..MaxAttempts /\ serial' # 0
  BY <1>1, MaxAttemptsIsNat DEF Attempts
<1>3. attempts' \in [Attempts -> LoginSteps] /\ attempts'[serial'] = "polling"
  BY <1>2 DEF StartsLogin, TuiSessionInv, TuiSessionTypeOK, LoginSteps
<1> QED BY <1>2, <1>3 DEF Underway

LEMMA BootKeeps ==
  ASSUME TuiSessionInv,
         BootRestores \/ BootValidates \/ BootDiscards \/ BootLogin \/ BootFails
  PROVE  TuiSessionInv'
<1>1. CASE BootRestores \/ BootDiscards \/ BootFails
  BY <1>1 DEF BootRestores, BootDiscards, BootFails, logins, sessions, TuiSessionInv, TuiSessionTypeOK,
     BootAlone, LoginPhaseHasLogin, NewestHasSession, QrNeverStuck, DashboardHasSession
<1>2. CASE BootValidates
  BY <1>2, MaxAttemptsIsNat DEF BootValidates, Enters, sessions, TuiSessionInv, TuiSessionTypeOK,
     BootAlone, LoginPhaseHasLogin, NewestHasSession, QrNeverStuck, DashboardHasSession
<1>3. CASE BootLogin
  <2>1. /\ StartsLogin /\ boot' = "done" /\ phase' = "login" /\ retry' \in {0, retry}
        /\ UNCHANGED <<pin, signedIn, recovery, relog>>
    BY <1>3 DEF BootLogin, Login, sessions
  <2> QED BY <2>1, StartsLoginFacts, MaxAttemptsIsNat DEF TuiSessionInv, TuiSessionTypeOK,
           BootAlone, LoginPhaseHasLogin, NewestHasSession, QrNeverStuck, DashboardHasSession
<1> QED BY <1>1, <1>2, <1>3

LEMMA LoginsKeep ==
  ASSUME TuiSessionInv, Key \/ RetryFires \/ Discarded
  PROVE  TuiSessionInv'
<1>1. ASSUME StartsLogin, phase' = "login", boot = "done", retry' \in {0, retry}, relog' \in 0..Discarding,
             UNCHANGED <<pin, signedIn, boot, recovery>>
      PROVE  TuiSessionInv'
  BY <1>1, StartsLoginFacts, MaxAttemptsIsNat DEF TuiSessionInv, TuiSessionTypeOK, BootAlone,
     LoginPhaseHasLogin, NewestHasSession, QrNeverStuck, DashboardHasSession
<1>2. phase = "login" => boot = "done"
  BY DEF TuiSessionInv, BootAlone
<1>3. CASE Key
  BY <1>1, <1>2, <1>3 DEF Key, Login, sessions, TuiSessionInv, TuiSessionTypeOK
<1>4. CASE RetryFires
  <2>1. CASE phase = "login" /\ retry = serial
    BY <1>1, <1>2, <1>4, <2>1 DEF RetryFires, Login, sessions, TuiSessionInv, TuiSessionTypeOK
  <2>2. CASE ~(phase = "login" /\ retry = serial)
    <3>1. /\ retry' = 0
          /\ UNCHANGED <<serial, attempts, pin, signedIn, phase, boot, recovery, relog>>
      BY <1>4, <2>2 DEF RetryFires, sessions
    <3> QED BY <2>2, <3>1, MaxAttemptsIsNat DEF TuiSessionInv, TuiSessionTypeOK, BootAlone,
             LoginPhaseHasLogin, NewestHasSession, QrNeverStuck, DashboardHasSession, Underway
  <2> QED BY <2>1, <2>2
<1>5. CASE Discarded
  <2>1. StartsLogin /\ relog' = serial' /\ relog = Discarding /\ retry' = 0 /\ phase' = "login"
        /\ UNCHANGED <<pin, signedIn, boot, recovery>>
    BY <1>5 DEF Discarded
  <2>2. boot = "done"
    BY <2>1, MaxAttemptsIsNat DEF TuiSessionInv, BootAlone
  <2>3. relog' \in 0..Discarding
    BY <2>1, StartsLoginFacts, MaxAttemptsIsNat
  <2> QED BY <1>1, <2>1, <2>2, <2>3
<1> QED BY <1>3, <1>4, <1>5

\* A login that returns to relogin() leaves no discard under way.
LEMMA ReturnsFacts ==
  ASSUME TuiSessionInv, NEW a \in Attempts, Returns(a)
  PROVE  /\ relog' \in 0..Discarding /\ (relog = Discarding => relog' = Discarding)
         /\ relog = 0 => relog' = 0 /\ recovery' = recovery
         /\ recovery' \in {"none", "refreshing", "relogin"}
         /\ attempts' \in [Attempts -> LoginSteps]
         /\ \A b \in Attempts : attempts'[b] = IF b = a THEN "done" ELSE attempts[b]
<1>1. a # Discarding /\ a # 0 /\ 0 \in 0..Discarding
  BY MaxAttemptsIsNat DEF Attempts
<1>2. relog' \in 0..Discarding /\ (relog = Discarding => relog' = Discarding)
  BY <1>1 DEF Returns, TuiSessionInv, TuiSessionTypeOK
<1>3. relog = 0 => relog' = 0 /\ recovery' = recovery
  BY <1>1 DEF Returns
<1>4. recovery' \in {"none", "refreshing", "relogin"}
  BY DEF Returns, TuiSessionInv, TuiSessionTypeOK
<1>5. /\ attempts' \in [Attempts -> LoginSteps]
      /\ \A b \in Attempts : attempts'[b] = IF b = a THEN "done" ELSE attempts[b]
  BY DEF Returns, TuiSessionInv, TuiSessionTypeOK, LoginSteps
<1> QED BY <1>2, <1>3, <1>4, <1>5

LEMMA AttemptKeeps ==
  ASSUME TuiSessionInv, NEW a \in Attempts, Attempt(a)
  PROVE  TuiSessionInv'
<1>1. attempts \in [Attempts -> LoginSteps] /\ (phase = "login" => boot = "done")
  BY DEF TuiSessionInv, TuiSessionTypeOK, BootAlone
<1>2. CASE UpdateArrives(a) \/ UpdateShown(a) \/ Approved(a)
  <2>1. PICK step \in {"polling", "resolving", "saving"} :
          attempts' = [attempts EXCEPT ![a] = step] /\ (step = "saving" => signedIn' = TRUE)
    BY <1>2 DEF UpdateArrives, UpdateShown, Approved
  <2>2. /\ UNCHANGED <<pin, phase, boot, serial, retry, recovery, relog>> /\ Underway(a)
        /\ signedIn' = TRUE \/ signedIn' = signedIn
    BY <1>2 DEF UpdateArrives, UpdateShown, Approved, sessions, Underway
  <2>3. /\ attempts' \in [Attempts -> LoginSteps]
        /\ \A b \in Attempts : attempts'[b] = IF b = a THEN step ELSE attempts[b]
    BY <1>1, <2>1 DEF LoginSteps
  <2>0. boot = "done"
    BY <2>2 DEF TuiSessionInv, BootAlone, Underway
  <2>4. TuiSessionTypeOK' /\ BootAlone' /\ LoginPhaseHasLogin' /\ DashboardHasSession'
    BY <2>0, <2>2, <2>3 DEF TuiSessionInv, TuiSessionTypeOK, BootAlone, LoginPhaseHasLogin, DashboardHasSession
  <2>5. NewestHasSession'
    BY <2>1, <2>2, <2>3 DEF TuiSessionInv, NewestHasSession
  <2>6. QrNeverStuck'
    BY <2>2, <2>3 DEF TuiSessionInv, LoginPhaseHasLogin, QrNeverStuck, Underway
  <2> QED BY <2>4, <2>5, <2>6 DEF TuiSessionInv
<1>3. CASE Saved(a)
  <2>1. /\ attempts[a] = "saving" /\ UNCHANGED <<pin, signedIn, boot, serial>> /\ boot = "done"
    BY <1>3 DEF Saved, TuiSessionInv, BootAlone
  <2>2. CASE Current(a)
    <3>1. /\ phase' = "dashboard" /\ retry' = 0 /\ UNCHANGED <<recovery, relog>>
          /\ attempts' = [attempts EXCEPT ![a] = "loading"]
      BY <1>3, <2>2 DEF Saved, Enters
    <3>2. attempts' \in [Attempts -> LoginSteps]
      BY <1>1, <3>1 DEF LoginSteps
    <3>3. DashboardHasSession'
      BY <2>1, <2>2, <3>1 DEF Current, TuiSessionInv, NewestHasSession, DashboardHasSession
    <3> QED BY <2>1, <3>1, <3>2, <3>3, MaxAttemptsIsNat DEF TuiSessionInv, TuiSessionTypeOK, BootAlone,
             LoginPhaseHasLogin, NewestHasSession, QrNeverStuck
  <2>3. CASE ~Current(a)
    <3>1. Returns(a) /\ UNCHANGED <<phase, retry>>
      BY <1>3, <2>3 DEF Saved
    <3>2. ~pin /\ phase = "login" => a # serial
      BY <2>3 DEF Current
    <3> QED BY <2>1, <3>1, <3>2, ReturnsFacts DEF TuiSessionInv, TuiSessionTypeOK, BootAlone,
             LoginPhaseHasLogin, NewestHasSession, QrNeverStuck, DashboardHasSession, Underway
  <2> QED BY <2>2, <2>3
<1>4. CASE Loaded(a)
  <2>1. /\ attempts[a] = "loading" /\ Returns(a)
        /\ UNCHANGED <<pin, signedIn, phase, boot, serial, retry>>
    BY <1>4 DEF Loaded, sessions
  <2>2. boot = "done"
    BY <2>1 DEF TuiSessionInv, BootAlone
  <2> QED BY <2>1, <2>2, ReturnsFacts DEF TuiSessionInv, TuiSessionTypeOK, BootAlone,
           LoginPhaseHasLogin, NewestHasSession, QrNeverStuck, DashboardHasSession, Underway
<1>5. CASE LoginFails(a)
  <2>1. /\ Underway(a) /\ Returns(a) /\ Retries(a)
        /\ UNCHANGED <<pin, signedIn, phase, boot, serial>>
    BY <1>5 DEF LoginFails, sessions
  <2>2. boot = "done"
    BY <2>1 DEF TuiSessionInv, BootAlone, Underway
  <2>3. retry' \in 0..MaxAttempts
    BY <2>1, MaxAttemptsIsNat DEF Retries, Attempts, TuiSessionInv, TuiSessionTypeOK
  <2>4. ~pin /\ phase = "login" => IF a = serial THEN retry' = a ELSE retry' = retry
    BY <2>1 DEF Retries, Current
  <2>5. QrNeverStuck'
    BY <2>1, <2>4, ReturnsFacts DEF TuiSessionInv, LoginPhaseHasLogin, QrNeverStuck, Underway
  <2> QED BY <2>1, <2>2, <2>3, <2>5, ReturnsFacts DEF TuiSessionInv, TuiSessionTypeOK, BootAlone,
           LoginPhaseHasLogin, NewestHasSession, DashboardHasSession
<1> QED BY <1>2, <1>3, <1>4, <1>5 DEF Attempt

\* The recovery and the first half of relogin() start no login.
LEMMA RecoveryKeeps ==
  ASSUME TuiSessionInv, Unauthorized \/ RecoveryAnswers \/ RecoveryFails \/ KeyL
  PROVE  TuiSessionInv'
<1>1. UNCHANGED <<pin, phase, boot, serial, attempts, retry>>
  BY DEF Unauthorized, RecoveryAnswers, RecoveryFails, KeyL, logins
<1>2. boot = "done"
  BY DEF Unauthorized, RecoveryAnswers, RecoveryFails, KeyL, TuiSessionInv, BootAlone
<1>3. /\ recovery' \in {"none", "refreshing", "relogin"} /\ relog' \in 0..Discarding
      /\ \/ signedIn' = signedIn /\ relog' = relog
         \/ signedIn' = TRUE
         \/ relog' = Discarding
  BY MaxAttemptsIsNat DEF Unauthorized, RecoveryAnswers, RecoveryFails, KeyL, ReloginStarts, sessions,
     TuiSessionInv, TuiSessionTypeOK
<1> QED BY <1>1, <1>2, <1>3 DEF TuiSessionInv, TuiSessionTypeOK, BootAlone, LoginPhaseHasLogin,
         NewestHasSession, QrNeverStuck, DashboardHasSession, Underway

LEMMA TuiSessionKeeps == TuiSessionInv /\ [TuiSessionNext]_tuiSessionVars => TuiSessionInv'
<1> SUFFICES ASSUME TuiSessionInv, [TuiSessionNext]_tuiSessionVars PROVE TuiSessionInv'
  OBVIOUS
<1>1. CASE BootRestores \/ BootValidates \/ BootDiscards \/ BootLogin \/ BootFails
  BY <1>1, BootKeeps
<1>2. CASE Key \/ RetryFires \/ Discarded
  BY <1>2, LoginsKeep
<1>3. ASSUME NEW a \in Attempts, Attempt(a) PROVE TuiSessionInv'
  BY <1>3, AttemptKeeps
<1>4. CASE Unauthorized \/ RecoveryAnswers \/ RecoveryFails \/ KeyL
  BY <1>4, RecoveryKeeps
<1>5. CASE Shutdown
  <2>1. TuiSessionTypeOK'
    BY <1>5, MaxAttemptsIsNat DEF Shutdown, TuiSessionTypeOK, NoLogins, LoginSteps
  <2> QED BY <1>5, <2>1 DEF Shutdown, TuiSessionInv, BootAlone, LoginPhaseHasLogin, NewestHasSession,
           QrNeverStuck, DashboardHasSession, NoLogins
<1>6. CASE UNCHANGED tuiSessionVars
  BY <1>6 DEF tuiSessionVars, TuiSessionInv, TuiSessionTypeOK, BootAlone, LoginPhaseHasLogin,
     NewestHasSession, QrNeverStuck, DashboardHasSession, Underway
<1> QED BY <1>1, <1>2, <1>3, <1>4, <1>5, <1>6 DEF TuiSessionNext

LEMMA TuiSessionInvAlways == TuiSessionSpec => []TuiSessionInv
<1>1. TuiSessionInit => TuiSessionInv
  BY TuiSessionInitially DEF TuiSessionInit
<1> QED BY <1>1, TuiSessionKeeps, PTL DEF TuiSessionSpec

\* A failed QR login is followed by another, whatever keys and timers do
\* (scheduleQrRetry).
THEOREM QrNeverStuckAlways == TuiSessionSpec => []QrNeverStuck
<1>1. TuiSessionInv => QrNeverStuck
  BY DEF TuiSessionInv
<1> QED BY <1>1, TuiSessionInvAlways, PTL

\* With QR logins the dashboard is open without a session only while relogin()
\* discards it (the serial and the phase are looked at again after a login).
THEOREM DashboardHasSessionAlways == TuiSessionSpec => []DashboardHasSession
<1>1. TuiSessionInv => DashboardHasSession
  BY DEF TuiSessionInv
<1> QED BY <1>1, TuiSessionInvAlways, PTL

-----------------------------------------------------------------------------
(***************************************************************************)
(* The dashboard.                                                          *)
(***************************************************************************)
Tasks == details \union quotes \union probes \union streams

ProbeRecord == [asset : Assets, generation : Nat, pc : {"venues", "book"}]

DashboardTypeOK ==
  /\ instrument \in Assets \union {NoAsset} /\ generation \in Nat
  /\ \A d \in details : d.asset \in Assets
  /\ probes \subseteq ProbeRecord

\* What is under way for the current selection is for its instrument, and
\* nothing is while there is none.
TasksOfSelection ==
  /\ \A task \in Tasks : task.generation \in Nat /\ task.generation <= generation
  /\ \A task \in Tasks : Now(task) /\ ~mixed => task.asset = instrument /\ instrument # NoAsset

NothingWithoutInstrument ==
  instrument = NoAsset => /\ quote = NoAsset \/ mixed
                          /\ book = NoAsset \/ mixed \/ late

DashboardInv == DashboardTypeOK /\ TasksOfSelection /\ NothingWithoutInstrument /\ ShownIsSelected

LEMMA DashboardInitially == TuiDashboardInit => DashboardInv
BY DEF TuiDashboardInit, DashboardInv, DashboardTypeOK, TasksOfSelection, NothingWithoutInstrument,
   ShownIsSelected, Tasks

\* A step after which the selection is the same, what is new under way is for
\* its instrument, and what is shown anew is too.
LEMMA SameSelectionKeeps ==
  ASSUME DashboardInv, DashboardTypeOK', generation' = generation, mixed => mixed', late => late',
         mixed' \/ instrument' = instrument \/ (instrument = NoAsset /\ instrument' = DefaultAsset),
         \A task \in Tasks' : \/ task \in Tasks
                             \/ /\ task.generation \in Nat /\ task.generation <= generation
                                /\ mixed' \/ task.generation # generation
                                   \/ (task.asset = instrument' /\ instrument' # NoAsset),
         quote' \in {NoAsset, quote} \/ mixed' \/ (quote' = instrument' /\ instrument' # NoAsset),
         book' \in {NoAsset, book} \/ mixed' \/ late' \/ (book' = instrument' /\ instrument' # NoAsset)
  PROVE  DashboardInv'
<1>1. generation \in Nat
  BY DEF DashboardInv, DashboardTypeOK
<1>2. TasksOfSelection'
  <2>1. \A task \in Tasks' : task.generation \in Nat /\ task.generation <= generation'
    BY DEF DashboardInv, TasksOfSelection
  <2>2. ASSUME NEW task \in Tasks', Now(task)', ~mixed'
        PROVE  task.asset = instrument' /\ instrument' # NoAsset
    BY <2>2 DEF Now, DashboardInv, TasksOfSelection
  <2> QED BY <1>1, <2>1, <2>2 DEF TasksOfSelection
<1>3. NothingWithoutInstrument'
  BY DEF DashboardInv, NothingWithoutInstrument, ShownIsSelected
<1>4. ShownIsSelected'
  BY DEF DashboardInv, NothingWithoutInstrument, ShownIsSelected
<1> QED BY <1>2, <1>3, <1>4 DEF DashboardInv

\* A step after which nothing new is under way or shown.
LEMMA LessUnderwayKeeps ==
  ASSUME DashboardInv, UNCHANGED <<selection, quote, mixed, late>>,
         details' \subseteq details, quotes' \subseteq quotes, probes' \subseteq probes,
         streams' \subseteq streams, book' \in {NoAsset, book}
  PROVE  DashboardInv'
<1>1. DashboardTypeOK'
  BY DEF selection, DashboardInv, DashboardTypeOK
<1>2. \A task \in Tasks' : task \in Tasks
  BY DEF Tasks
<1>3. (mixed => mixed') /\ (late => late')
  OBVIOUS
<1>4. generation' = generation /\ instrument' = instrument /\ quote' = quote
  BY DEF selection
<1> QED BY <1>1, <1>2, <1>3, <1>4, SameSelectionKeeps

\* refreshQuote and refreshDom fetch for the instrument that is selected.
LEMMA FetchesKeep ==
  ASSUME DashboardInv, generation' = generation, mixed' = mixed, late' = late, quote' = quote,
         instrument' \in Assets, mixed \/ instrument' = instrument,
         details' \subseteq details,
         quotes' \in {quotes, quotes \union {For(instrument')}},
         probes' \in {probes, probes \union {Probe(instrument', "venues")}},
         streams' \subseteq streams, book' \in {NoAsset, book}
  PROVE  DashboardInv'
<1> DEFINE fetch == For(instrument')
           probe == Probe(instrument', "venues")
<1>1. generation \in Nat /\ instrument' # NoAsset
  BY TuiDashboardAssumption DEF TuiDashboardAssumption, DashboardInv, DashboardTypeOK
<1>2. /\ fetch.asset = instrument' /\ fetch.generation = generation
      /\ probe.asset = instrument' /\ probe.generation = generation /\ probe \in ProbeRecord
  BY <1>1 DEF For, Probe, ProbeRecord
<1>3. quotes' \subseteq quotes \union {fetch} /\ probes' \subseteq probes \union {probe}
  OBVIOUS
<1> HIDE DEF fetch, probe
<1>4. DashboardTypeOK'
  BY <1>1, <1>2, <1>3 DEF DashboardInv, DashboardTypeOK
<1>5. \A task \in Tasks' : task \in Tasks \/ task = fetch \/ task = probe
  BY <1>3 DEF Tasks
<1>6. \A task \in Tasks' : \/ task \in Tasks
                           \/ /\ task.generation \in Nat /\ task.generation <= generation
                              /\ mixed' \/ task.generation # generation
                                 \/ (task.asset = instrument' /\ instrument' # NoAsset)
  BY <1>1, <1>2, <1>5
<1>7. (mixed => mixed') /\ (late => late')
  OBVIOUS
<1>8. mixed' \/ instrument' = instrument
  OBVIOUS
<1> QED BY <1>4, <1>6, <1>7, <1>8, SameSelectionKeeps

LEMMA DetailsKeep ==
  ASSUME DashboardInv, NEW d \in details, DetailArrives(d) \/ DetailFails(d)
  PROVE  DashboardInv'
<1>1. instrument' = instrument \/ (instrument' = d.asset /\ Now(d))
  <2>1. CASE DetailArrives(d)
    BY <2>1 DEF DetailArrives, selection
  <2>2. CASE DetailFails(d)
    BY <2>2 DEF DetailFails
  <2> QED BY <2>1, <2>2
<1>2. d \in Tasks /\ d.asset \in Assets
  BY DEF Tasks, DashboardInv, DashboardTypeOK
<1>3. mixed \/ instrument' = instrument
  BY <1>1, <1>2 DEF DashboardInv, TasksOfSelection
<1>4. CASE Refreshes(d)
  <2>1. /\ details' \subseteq details /\ UNCHANGED <<generation, quote, mixed, late>>
    BY <1>4 DEF Refreshes
  <2>2. CASE open /\ instrument' # NoAsset
    <3>1. /\ quotes' = quotes \union {For(instrument')} /\ streams' \subseteq streams
          /\ probes' = probes \union {Probe(instrument', "venues")} /\ book' = NoAsset
      BY <1>4, <2>2 DEF Refreshes, FetchesQuote, ProbesVenues, Closes
    <3>2. instrument' \in Assets
      BY <1>1, <1>2, <2>2 DEF DashboardInv, DashboardTypeOK
    <3> QED BY <1>3, <2>1, <3>1, <3>2, FetchesKeep
  <2>3. CASE ~(open /\ instrument' # NoAsset)
    <3>1. UNCHANGED <<quotes, probes, streams, book>>
      BY <1>4, <2>3 DEF Refreshes
    <3>2. CASE instrument' = instrument
      BY <2>1, <3>1, <3>2, LessUnderwayKeeps DEF selection
    <3>3. CASE instrument' = d.asset /\ Now(d)
      BY <1>2, <1>3, <2>1, <3>1, <3>3, FetchesKeep
    <3> QED BY <1>1, <3>2, <3>3
  <2> QED BY <2>2, <2>3
<1>5. CASE ~Refreshes(d)
  <2>1. /\ details' \subseteq details
        /\ UNCHANGED <<selection, quote, book, quotes, probes, streams, mixed, late>>
    BY <1>5 DEF DetailArrives, DetailFails
  <2> QED BY <2>1, LessUnderwayKeeps
<1> QED BY <1>4, <1>5

\* The answers of a fetch, a probe and a stream: an old quote is not shown, and
\* an old book is known to be late.
LEMMA QuotesKeep ==
  ASSUME DashboardInv, NEW q \in quotes, QuoteArrives(q) \/ QuoteFails(q)
  PROVE  DashboardInv'
<1>1. /\ quotes' \subseteq quotes /\ UNCHANGED <<instrument, generation, book, details, probes, streams, mixed, late>>
      /\ quote' = quote \/ (Now(q) /\ quote' = q.asset)
  BY DEF QuoteArrives, QuoteFails, QuoteCurrent, selection
<1>2. q \in Tasks
  BY DEF Tasks
<1>3. quote' = quote \/ mixed' \/ (quote' = instrument' /\ instrument' # NoAsset)
  BY <1>1, <1>2 DEF DashboardInv, TasksOfSelection
<1>4. DashboardTypeOK'
  BY <1>1 DEF DashboardInv, DashboardTypeOK
<1>5. \A task \in Tasks' : task \in Tasks
  BY <1>1 DEF Tasks
<1>6. (mixed => mixed') /\ (late => late')
  BY <1>1
<1> QED BY <1>1, <1>3, <1>4, <1>5, <1>6, SameSelectionKeeps

LEMMA ProbesKeep ==
  ASSUME DashboardInv, NEW p \in probes, ProbeAdvances(p) \/ ProbeGivesUp(p) \/ ProbeConnects(p)
  PROVE  DashboardInv'
<1>1. /\ p \in Tasks /\ p \in ProbeRecord /\ p.generation \in Nat /\ p.generation <= generation
      /\ Now(p) /\ ~mixed => p.asset = instrument /\ instrument # NoAsset
  BY DEF Tasks, DashboardInv, DashboardTypeOK, TasksOfSelection
<1>2. CASE ProbeAdvances(p) \/ ProbeGivesUp(p)
  <2> DEFINE next == [p EXCEPT !.pc = "book"]
  <2>0. mixed \/ p.generation # generation \/ (p.asset = instrument /\ instrument # NoAsset)
    BY <1>1 DEF Now
  <2>1. next \in ProbeRecord /\ next.asset = p.asset /\ next.generation = p.generation
    BY <1>1 DEF ProbeRecord
  <2>2. /\ probes' \subseteq probes \union {next}
        /\ UNCHANGED <<instrument, generation, quote, book, details, quotes, streams, mixed, late>>
    BY <1>2 DEF ProbeAdvances, ProbeGivesUp, ProbeGoes, selection
  <2> HIDE DEF next
  <2>3. DashboardTypeOK'
    BY <2>1, <2>2 DEF DashboardInv, DashboardTypeOK
  <2>4. \A task \in Tasks' : task \in Tasks \/ task = next
    BY <2>2 DEF Tasks
  <2>5. \A task \in Tasks' : \/ task \in Tasks
                             \/ /\ task.generation \in Nat /\ task.generation <= generation
                                /\ mixed' \/ task.generation # generation
                                   \/ (task.asset = instrument' /\ instrument' # NoAsset)
    BY <1>1, <2>0, <2>1, <2>2, <2>4
  <2>6. (mixed => mixed') /\ (late => late')
    BY <2>2
  <2> QED BY <2>2, <2>3, <2>5, <2>6, SameSelectionKeeps
<1>3. CASE ProbeConnects(p)
  <2> DEFINE stream == [asset |-> p.asset, generation |-> p.generation]
  <2>0. mixed \/ p.generation # generation \/ (p.asset = instrument /\ instrument # NoAsset)
    BY <1>1 DEF Now
  <2>1. stream.asset = p.asset /\ stream.generation = p.generation
    OBVIOUS
  <2>2. /\ probes' \subseteq probes /\ streams' = streams \union {stream}
        /\ book' = p.asset /\ late' = (late \/ ~Now(p))
        /\ UNCHANGED <<instrument, generation, quote, details, quotes, mixed>>
    BY <1>3 DEF ProbeConnects, selection
  <2> HIDE DEF stream
  <2>3. DashboardTypeOK'
    BY <2>2 DEF DashboardInv, DashboardTypeOK
  <2>4. \A task \in Tasks' : task \in Tasks \/ task = stream
    BY <2>2 DEF Tasks
  <2>5. \A task \in Tasks' : \/ task \in Tasks
                             \/ /\ task.generation \in Nat /\ task.generation <= generation
                                /\ mixed' \/ task.generation # generation
                                   \/ (task.asset = instrument' /\ instrument' # NoAsset)
    BY <1>1, <2>0, <2>1, <2>2, <2>4
  <2>6. mixed' \/ late' \/ (book' = instrument' /\ instrument' # NoAsset)
    BY <1>1, <2>2
  <2>7. (mixed => mixed') /\ (late => late')
    BY <2>2
  <2> QED BY <2>2, <2>3, <2>5, <2>6, <2>7, SameSelectionKeeps
<1> QED BY <1>2, <1>3

LEMMA StreamsKeep ==
  ASSUME DashboardInv, NEW s \in streams, StreamShows(s) \/ StreamEnds(s)
  PROVE  DashboardInv'
<1>1. s \in Tasks /\ (Now(s) /\ ~mixed => s.asset = instrument /\ instrument # NoAsset)
  BY DEF Tasks, DashboardInv, TasksOfSelection
<1>2. CASE StreamEnds(s)
  BY <1>2, LessUnderwayKeeps DEF StreamEnds
<1>3. CASE StreamShows(s)
  <2>1. /\ streams' \subseteq streams /\ book' = s.asset /\ late' = (late \/ ~Now(s))
        /\ UNCHANGED <<instrument, generation, quote, details, quotes, probes, mixed>>
    BY <1>3 DEF StreamShows, selection
  <2>2. DashboardTypeOK'
    BY <2>1 DEF DashboardInv, DashboardTypeOK
  <2>3. \A task \in Tasks' : task \in Tasks
    BY <2>1 DEF Tasks
  <2>4. mixed' \/ late' \/ (book' = instrument' /\ instrument' # NoAsset)
    BY <1>1, <2>1
  <2>5. (mixed => mixed') /\ (late => late')
    BY <2>1
  <2> QED BY <2>1, <2>2, <2>3, <2>4, <2>5, SameSelectionKeeps
<1> QED BY <1>2, <1>3

\* refreshInstrument, whose fetch is for an instrument that replaces none or
\* one that was selected meanwhile.
LEMMA FallbackKeeps ==
  ASSUME DashboardInv, FallbackSearches \/ FallbackArrives \/ FallbackQuoted \/ FallbackFails
  PROVE  DashboardInv'
<1>1. CASE FallbackSearches \/ FallbackFails
  BY <1>1, LessUnderwayKeeps DEF FallbackSearches, FallbackFails
<1>2. CASE FallbackArrives
  <2> DEFINE fetch == For(DefaultAsset)
  <2>1. /\ instrument' = DefaultAsset /\ mixed' = (mixed \/ instrument # NoAsset)
        /\ quotes' \subseteq quotes \union {fetch}
        /\ UNCHANGED <<generation, quote, book, details, probes, streams, late>>
    BY <1>2 DEF FallbackArrives, FetchesQuote
  <2>2. /\ fetch.asset = DefaultAsset /\ fetch.generation = generation /\ generation \in Nat
        /\ DefaultAsset # NoAsset /\ DefaultAsset \in Assets
    BY TuiDashboardAssumption DEF TuiDashboardAssumption, For, DashboardInv, DashboardTypeOK
  <2> HIDE DEF fetch
  <2>3. DashboardTypeOK'
    BY <2>1, <2>2 DEF DashboardInv, DashboardTypeOK
  <2>4. \A task \in Tasks' : task \in Tasks \/ task = fetch
    BY <2>1 DEF Tasks
  <2>5. \A task \in Tasks' : \/ task \in Tasks
                             \/ /\ task.generation \in Nat /\ task.generation <= generation
                                /\ mixed' \/ task.generation # generation
                                   \/ (task.asset = instrument' /\ instrument' # NoAsset)
    BY <2>1, <2>2, <2>4
  <2> QED BY <2>1, <2>2, <2>3, <2>5, SameSelectionKeeps
<1>3. CASE FallbackQuoted
  <2>1. UNCHANGED <<instrument, generation, quote, details, quotes, mixed, late>>
    BY <1>3 DEF FallbackQuoted, selection
  <2>2. CASE open /\ instrument # NoAsset
    <3>1. /\ probes' = probes \union {Probe(instrument', "venues")} /\ book' = NoAsset
          /\ streams' \subseteq streams
      BY <1>3, <2>1, <2>2 DEF FallbackQuoted, ProbesVenues, Closes
    <3>2. instrument' \in Assets
      BY <2>1, <2>2 DEF DashboardInv, DashboardTypeOK
    <3> QED BY <2>1, <3>1, <3>2, FetchesKeep
  <2>3. CASE ~(open /\ instrument # NoAsset)
    BY <1>3, <2>1, <2>3, LessUnderwayKeeps DEF FallbackQuoted, selection
  <2> QED BY <2>2, <2>3
<1> QED BY <1>1, <1>2, <1>3

\* A new selection: whatever is under way was for an older one.
LEMMA SelectionKeeps ==
  ASSUME DashboardInv, ReloginResets \/ \E asset \in Assets : Select(asset)
  PROVE  DashboardInv'
<1>1. generation \in Nat /\ generation' = generation + 1 /\ quote' = NoAsset /\ book' = NoAsset
  BY TuiDashboardAssumption DEF TuiDashboardAssumption, ReloginResets, Select, DashboardInv, DashboardTypeOK
<1>2. \A task \in Tasks : task.generation \in Nat /\ task.generation < generation'
  BY <1>1 DEF DashboardInv, TasksOfSelection
<1>3. CASE ReloginResets
  <2>1. instrument' = NoAsset /\ UNCHANGED underway
    BY <1>3 DEF ReloginResets
  <2>2. DashboardTypeOK'
    BY <1>1, <2>1 DEF underway, DashboardInv, DashboardTypeOK
  <2>3. Tasks' = Tasks
    BY <2>1 DEF underway, Tasks
  <2>4. TasksOfSelection'
    BY <1>1, <1>2, <2>3 DEF TasksOfSelection, Now
  <2> QED BY <1>1, <2>2, <2>4 DEF DashboardInv, NothingWithoutInstrument, ShownIsSelected
<1>4. ASSUME NEW asset \in Assets, Select(asset) PROVE DashboardInv'
  <2> DEFINE detail == [asset |-> asset, generation |-> generation']
  <2>1. /\ instrument' = asset /\ details' = details \union {detail}
        /\ UNCHANGED <<quotes, probes>> /\ streams' \subseteq streams
    BY <1>4 DEF Select, Closes
  <2>2. detail.asset = asset /\ detail.generation = generation' /\ asset # NoAsset
    BY TuiDashboardAssumption DEF TuiDashboardAssumption
  <2> HIDE DEF detail
  <2>3. DashboardTypeOK'
    BY <1>1, <2>1, <2>2 DEF DashboardInv, DashboardTypeOK
  <2>4. \A task \in Tasks' : task \in Tasks \/ task = detail
    BY <2>1 DEF Tasks
  <2>5. TasksOfSelection'
    <3>1. generation' \in Nat
      BY <1>1
    <3> QED BY <1>2, <2>1, <2>2, <2>4, <3>1 DEF TasksOfSelection, Now
  <2> QED BY <1>1, <2>3, <2>5 DEF DashboardInv, NothingWithoutInstrument, ShownIsSelected
<1> QED BY <1>3, <1>4

LEMMA DashboardKeeps == DashboardInv /\ [TuiDashboardNext]_tuiDashboardVars => DashboardInv'
<1> SUFFICES ASSUME DashboardInv, [TuiDashboardNext]_tuiDashboardVars PROVE DashboardInv'
  OBVIOUS
<1>1. CASE ReloginResets \/ \E asset \in Assets : Select(asset)
  BY <1>1, SelectionKeeps
<1>2. CASE QuoteTimer
  <2>1. /\ instrument # NoAsset /\ quotes' = quotes \union {For(instrument')}
        /\ UNCHANGED <<instrument, generation, quote, book, details, probes, streams, mixed, late>>
    BY <1>2 DEF QuoteTimer, FetchesQuote, selection
  <2>2. instrument' \in Assets
    BY <2>1 DEF DashboardInv, DashboardTypeOK
  <2> QED BY <2>1, <2>2, FetchesKeep
<1>3. CASE Answers
  BY <1>3, DetailsKeep, QuotesKeep, ProbesKeep, StreamsKeep DEF Answers
<1>4. CASE FallbackSearches \/ FallbackArrives \/ FallbackQuoted \/ FallbackFails
  BY <1>4, FallbackKeeps
<1>5. CASE ReloginBegins \/ LoggedIn
  BY <1>5, LessUnderwayKeeps DEF ReloginBegins, LoggedIn, Closes
<1>6. CASE UNCHANGED tuiDashboardVars
  BY <1>6, LessUnderwayKeeps DEF tuiDashboardVars, underway
<1> QED BY <1>1, <1>2, <1>3, <1>4, <1>5, <1>6 DEF TuiDashboardNext

\* What is shown is of the selected instrument, for any number of instruments,
\* selections and answers that come late (selectionGeneration).
THEOREM ShownIsSelectedAlways == TuiDashboardSpec => []ShownIsSelected
<1>1. DashboardInv => ShownIsSelected
  BY DEF DashboardInv
<1> QED BY <1>1, DashboardInitially, DashboardKeeps, PTL DEF TuiDashboardSpec

=============================================================================
