# A TLA+ model of handelsrepublik

`handelsrepublik` is a TypeScript library for the private Trade Republic API. It
logs an account in, keeps its session, multiplexes subscriptions over one mapper
websocket and places orders through it. The library runs on one JavaScript
thread: no two statements ever run at the same time, and every hard behaviour
comes from what happens *between* two statements separated by an `await`, a
callback, a timer or a socket event. That is the grain of these modules: code
that runs to completion is one action, and whatever may run in between is a
choice of the next-state relation.

## 1. Inventory

Paths are relative to the repository. "Hard" names the behaviour a unit test
hardly reaches; "correct" names what the component owes its callers.

| Component | Code | State | Operations | Hard | Correct |
| --- | --- | --- | --- | --- | --- |
| Mapper connection | `src/mapper-connection.ts` | socket, handshake and reconnect timers, map of subscriptions, next number, outage; per subscription: number, sent, error, buffered payloads, waiting `next()`s | `subscribe`, `close` of a subscription, `next`, `refreshHeaders`, `close`; handlers of `open`, `message`, `error`, `close`; two timers | a disconnect, a refresh or a close between any two events; send failures half way through a handshake; numbers reused after an idle close; events of old sockets | a mutation is sent at most once; the delivery state is the truth; nothing waits without a socket or timer; outage callbacks alternate; no socket leaks |
| Raw API | `src/raw.ts` | the shared connection or the set of isolated ones | `subscribe…`, `query…`, `refreshSession`, `close` | a timeout racing an answer; a set changed by callbacks while it is walked | a query leaves no subscription; every live isolated connection is in the set |
| Order mutations | `src/traderepublic-client.ts` 541-1141 | a mutation, its deadline and updates per call | `submit`, `cancel`, `replace`, `prepare`, `preview`, reads | a lost connection after the bytes left; late executions; a cancel followed by a submit | a result is what the broker did; what may be repeated may be repeated safely |
| Account session and store | `src/auth.ts` 253-372, `src/session.ts`, `src/traderepublic-client.ts` 190-351 | the client's session, the stored file, account number | `refreshSession`, `saveSession`, `restoreSession`, `clearSession`, ends of the logins | suspension at every await; two saves at once; a crash half way through a write; failures after cookies were set | only confirmed sessions are stored; client and store agree |
| Logins | `src/auth.ts` 43-251 | challenge, token, process, deadline | `loginWithQr`, `createQrChallenge`, `pollQrChallenge`, PIN variants | rotating tokens, expiry while a callback runs, rejections that mention expiry | the user sees the newest token; only expired challenges are replaced; the login ends |
| Candle download | `src/candles.ts`, `src/candle-resolutions.ts`, `src/market-specs.ts` | a cursor, the candles so far | `fetch`, `pages`, `download` over three sources | page borders, a candle that grows while pages are fetched | a bounded range is covered once, without gaps, with the newest values |
| Browser context | `src/waf.ts` | captured headers and cookies, deadline | `collectTradeRepublicWebContext`, its normalisation and merging | captures arriving between reads, slow pages, older tokens | a token and cookies or an error, and an end |
| Account number | `src/client-runtime.ts` | cached number | `resolveSecuritiesAccountNumber` | a query overtaken by a session change | the number is the account's |
| HTTP client | `src/http.ts` | none | `request`, `requestDetailed`, `headers` | precedence of cookies and tokens | the token set last is the one sent |
| Order preparation | `src/traderepublic-client.ts` 638-700, 849-1060 | none | `prepare`, `preview`, amounts, sizes and steps | doubles, rounding, missing prices | an amount is never exceeded; a preview tells its order |
| Order records | `src/normalizers.ts` 209-300, `src/traderepublic-client.ts` 554-570, 1142-1160 | none | `normalizeOrder`, `open`, `closed`, `executed` | missing statuses, partial fills | the lists and prices tell what happened |
| Protobuf codec | `src/mapper-protobuf.ts` | none | encode and decode of frames, decimals, times | signs, lengths, scales | decimals keep their value |
| Normalizers, schemas, domain reads | `src/normalizers.ts`, `src/schemas`, `src/domains`, `src/*-specs.ts`, … | none | one request, one validation, one reshaping each | | |
| REPL | `demo/repl.mjs` | pending confirmation, code and its timer; the refresh timer; the line under evaluation | `buy`, `sell`, `cancelOrder`, `confirm…`, `discardOrder`; `loginQr`, `restore`, `refresh`, `clear`, the scheduled refresh | helpers a line did not await, a line evaluated twice, timers whose handle was overwritten | what is sent was confirmed, once; the session is kept alive |
| Terminal UI | `demo/tui.mjs` | phase, QR serial and retry timer; selected instrument and its generation; order dialog; search and its generation | boot, logins, recovery, relogin; selecting, quotes, order books; the order flow; the search | answers of older logins, selections and searches; keys between them | the dashboard has a session; a failed login is followed by another; what is shown belongs together; the user is told the truth about an order |
| Live-test session | `scripts/reauth-ci.ts` with `refresh-live-session.yml` and `merge-queue.yml` | the secret, a file per job | check, PIN login, enrolment | jobs and a maintainer that write one secret | nobody's phone is asked outside the window; the secret goes forward |
| CI badge worker | `workers/ci-badges` | three records of a key-value store | ingestion of reports, `GET`s of badges and links | late, repeated and overlapping reports, a store that fails between two writes | badges never go back and tell the truth |
| Other scripts and demos, `dist` | `scripts`, `demo`, `dist` | none that outlives an `await` | | | |

How they interact: the order workflow opens subscriptions on the mapper
connection through the raw API and hears of losses through the delivery state of
an error; the login and refresh workflows set the client's session, and every
`setSession` refreshes the connection's headers, which closes its socket and
fails mutations that were already sent. `clearSession` does the same. The
account number is itself queried over the connection. REPL and terminal UI are
programs over one client each and hear of it through the results of its methods.
The script, the workflows and the badge worker are separate processes: the
workflows share the secret, the badge worker hears of them through reports.

### Hazards

`PROJECT.json` lists under "hazards" what is hard to test in this code, each at
its line, with the properties that would catch it. These further ones were met
while reading and no property covers them; most are outcomes the models contain and
no document speaks of:

- `session.ts:44`: the process dies between emptying and writing the session file.
  `Restarts` of ClientSession does so; no document promises an atomic save.
- `auth.ts:277`, `auth.ts:267`: `clearSession` while a login or refresh waits is undone
  by its continuation; a refresh that found no session replaces the one a login set
  meanwhile by the stored one.
- `auth.ts:94`: challenges the broker creates expired are replaced at once,
  without a delay, until the deadline.
- `auth.ts:174`, `traderepublic-client.ts:1355`: a poll that is never answered and
  `snapshotL2OrderBook()` against a silent broker have no time limit.
- `auth.ts:239`: a status answer whose `id` is the challenge's is taken for a process.
- `auth.ts:345`: a login that fails after some polls set cookies keeps them in the
  client's session, while the store keeps the previous one.
- `candles.ts:15`, `candles.ts:29`: a limit of 0 asks for the same page for ever;
  one failed page loses all the pages before it.
- `market-specs.ts:76`, `:153`: a bond request names the length of the page and not its
  dates; two pages that share a week of a bond replace each other's candle of it
  instead of adding to it.
- `client-runtime.ts:47`: a lookup of the account number that ends after the client
  went to another account. README.md:627 asks for one client per account.
- `waf.ts:162`: merging keeps an older context's token header beside a newer
  token that came from a cookie or the storage.
- `mapper-connection.ts:217`: a subscription the peer ends is dropped without
  `closeSubscription()`, so that a socket it was the last of stays open, unused.
- `mapper-connection.ts:230`: a second `connected` frame runs the loop over the requests again.
- `raw.ts:67`: a request carries the token of the session it was made in, also when it
  is replayed in a later one.
- `raw.ts:77`, `:90`: `operation: "mutation"` is ignored for protobuf requests, which
  are all reads today; the timer of an answered query is not cancelled.
- `traderepublic-client.ts:1052`: a step such as 2.5e-7 is counted with fewer
  decimals than it has, and `toFixed()` may round the size up.
- `traderepublic-client.ts:1143`: a live order whose status `isOpenOrder()` does not
  list is returned by `closed()`.
- `mapper-protobuf.ts:317`, `:156`: a negative scale is ignored;
  `DataResponse.completed` is never read.
- `demo/tui.mjs:507`: a key that changes nothing stops the timer of the search and
  starts none. `:420`: an empty submit does not make a new generation.
- `demo/tui.mjs:895`: the end of a PIN login does not look at the serial, so that two of
  them around the key `l` open the dashboard without a session (`DashboardHasSession` is
  stated of QR logins).
- `demo/tui.mjs:1071`: the selection of the watchlist is restored after an `await`. The
  watchlist is not modelled.
- `workers/ci-badges/src/index.mjs:451`, `:452`: two overlapping reports read and write
  the records without a lock, and the older one may stay (`overlapped` of CiBadges);
  a record that is no valid report fails every later ingestion of its category.
- `scripts/reauth-ci.ts:214`: an enrolment from a maintainer's machine is in no
  concurrency group, and a job may overwrite its session (`contested` of LiveSession).

## 2. Modules

| Module | Stands for | Builds on |
| --- | --- | --- |
| `MutationDelivery` | what the transport promises about a mutation | |
| `MapperConnection` | one `MapperConnection` | implements `MutationDelivery` |
| `OrderMutations` | `submit`, `cancel`, `replace` of `OrdersApi` | relies on `MutationDelivery`, and is shown to keep it |
| `RawApi` | `RawApi` and the queries, alarms and streams made through it | a connection as `MapperConnection` looks from outside |
| `ClientSession` | the session of a client and `FileSessionStore` | |
| `LoginPolling` | `loginWithQr` and `pollQrChallenge` | `ClientSession` has its result as one call |
| `ClientContext` | browser context, WAF token, account number, headers | |
| `CandleDownload` | `downloadCandles` with its three sources | |
| `Numerals` | sums, powers and digits, as recursive functions | |
| `OrderSizing`, `OrderRecords` | pure functions: amounts, sizes and previews; order records and decimals | `Numerals` |
| `OrderLife` | one order from its options to its end | extends the two above |
| `ReplOrders`, `ReplSession` | the order helpers and the session of the REPL | the client's methods as calls that end in any of their ways |
| `TuiSession`, `TuiDashboard`, `TuiOrder`, `TuiSearch` | logins, the selected instrument, the order dialogs and the search of the terminal UI | the same |
| `LiveSession` | the secret of the live tests, two workflows and `reauth-ci.ts` | a login and a check of a session as one call each |
| `CiBadges` | the badge worker for one workflow | its store and GitHub |
| `…Proofs` | theorems about the module of that name; `ClientProofs` about `ClientContext`, `CandleDownload`, `Numerals` and `OrderLife`, `ToolsProofs` about `LiveSession`, `ReplOrders`, `ReplSession` and `CiBadges`, `TuiProofs` about the four `Tui…` | |
| `MC…` | the instances checked by TLC; `MCApis` has `RawApi` and `LoginPolling` side by side, `MCClient` `ClientContext`, `CandleDownload` and `OrderLife`, `MCTools` the eight modules of the programs around the client | |

`MutationDelivery` is the hinge of the two central modules. `MapperConnection`
maps its fields to a stage of every mutation (`StageOf`) and is shown to
implement the promise by TLC (`ImplementsDelivery`) and for every instance by a
proof (`ConnectionImplementsDelivery`). `OrderMutations` has those stages as a
variable that its actions move as the promise allows, so that everything proved
of orders holds over the real connection, whatever made it lose a mutation.

### MapperConnection

The variables `socket`, `connected`, `nextSubscriptionId`, `subscriptions`,
`reconnectTimer`, `handshakeTimer`, `outage` and `reconnectAttempts` are the
fields of the class; `id`, `sent`, `failure`, `backlog` and `waiting` those of a
`SubscriptionState`, the last two as lengths. `live`, `wire`, `transmissions` and
`announced` are what the sockets, the peer and the callbacks have seen.

| Action | Code (`mapper-connection.ts`) |
| --- | --- |
| `Subscribe` | `subscribe()`: sent at once, left to the handshake or the reconnect, or opening a socket, with the `catch` for each |
| `CloseSubscription`, `NextValue` | `closeSubscription()`, `next()` |
| `RefreshHeaders`, `Close` | the methods of these names |
| `SocketCloses`, `ConnectMessageFails`, `HandshakeTimesOut` | the ways into `handleSocketEnd()` |
| `HandshakeCompletes`, `HandshakeSendFails` | the `connected` frame: the loop over the requests, to its end or to the `send()` that throws |
| `FramePushes`, `FrameEnds` | `message` with data, and without, with an error or undecodable |
| `ReconnectTimerFires` | the timer of `scheduleReconnect()` |

A handler that opens a socket, sends, fails subscriptions and closes an idle
connection is one action that does all of it. Late events of an old socket are
guarded in the code by identity; they change nothing and are stutters here.

### OrderMutations

`pc` and `outcome` are the calls, `stage`, `sent` and `inbox` the mutations as the
library sees them, `wire` and `broker` what happens beyond it. `StartSubmit`,
`StartCancel`, `StartReplace` and `PrepareFails` are the calls; `TakeUpdate`,
`StreamFails` and `TimesOut` the loops of `submit()` and `cancel()` that await updates, up to
their `finally`, after which `replace()` goes on to its second mutation. `Hands`,
`Refuses`, `Loses` and `PeerEnds` are the transport, `BrokerReceives`,
`BrokerReports` and `BrokerDecides` the broker. The application (`MayCreate`)
repeats an order only after a result that allows it.

### RawApi

`mode`, `isolatedConnections` and `session` are fields; `socket` and `outage`
describe each connection, `stage`, `sent` and `outcome` each call.
`Ask`/`AskDisconnects` are `openSubscription()`, `TimerFires`, `Answered`,
`EndedByPeer` and `PayloadFails` the ends of `query()` and `mapAsync()`,
`RefreshSession` and `Close` the methods, and the rest what a connection does.
`mode` is chosen once, as the option of the client is.

### ClientSession

One `pc` per call names the `await` it is suspended at. `StartRefresh`,
`RefreshLoads`, `StartLogin`, `LoginProgresses`, `LoginCompletes`, `CheckSucceeds`
and `NumberFound` are the login and refresh up to the save; `SaveOpens` and
`SaveWrites` are the two steps of a `writeFile`, which empties a file before it
writes; `RestoreLoads` and `ClearRemoves` finish the others. `FlowFails` and
`SaveFails` reject any of these awaits, and `Restarts` is a crash. A session is
known by the call that filled it and by whether `auth.session` confirmed it.

### LoginPolling

`challenges`, `token`, `expired` and `shown` are `latestChallenge` and the delivered
key; `polled`, `process` and `confirmed` the state of `pollQrChallenge`; `late`
whether the deadline passed. `Create` and `CreateRejected` answer the creation,
`CallbackReturns` and `CallbackThrows` the callback, `PollAnswered` with the
`Challenge…` actions a status, the `Process…` actions a process poll, and
`Completes` the completion. The `catch` that retries is `Retry`: taken when the
error is an expiry, before the deadline. A challenge's tokens are numbered in the
order the broker made them; an answer carries the next one, the same, or none.

### ClientContext

`collector` and `site` are a collection and the browser it drives, `session`, `waf`
and `number` fields of the client, `lookup` the query for the account number.
`Collects` is each step of the loop of `collectTradeRepublicWebContext`, suspended
where it awaits cookies, storage and the poll interval; `UseSession`,
`ClearSession`, `UseWebContext`, `SetWafToken` are the methods, which merge
contexts, and `PairsAnswered` to `RestFails` the lookup with its fallback.

### CandleDownload

`cursor`, `page` and `candles` are the loop of `CandleQuery`, `options` and `now` its
input. `SourceResolved`, `PageAnswered` and `QueryFails` are its awaits. A candle is
known by its time and by the days whose trades are in it, so that two versions of
one candle differ; `DayPasses` lets candles grow while a page is awaited. Standard
and light requests carry dates, a bond request a duration only.

### OrderLife, OrderSizing, OrderRecords

`Prepare` takes one set of options through `OrderSizing` (refused, or an order);
`Fill` and `End` let the broker trade and end it, writing the JSON record and the
bytes that `OrderRecords` reads. Prices are whole cents and budgets tenths of a
cent; a size or step `[n, k]` is n · 10⁻ᵏ. What `floorToStep()` rounds down is the exact
quotient of amount, price and step with the error of two divisions, which grows with the
quotient: one `Grain`-th of a step, and one more for every `Exact` steps, in either
direction. The 1e-10 it adds is two `Grain`-ths at every magnitude. So it covers the error
of a small quotient, and not that of a large one, of which `StepsLost` says whether
`floor()` may take a step too few. `StepsSeparate` says that error and epsilon together
do not reach the next quotient there is, `StepsWritten` that `decimalPlaces()` counts the
decimals of every step asked for, which it does not below 1e-6 when the step has more than one
digit (see the hazards). `MCClient` assumes both of its requests, and the theorems about
sizes have them as their hypotheses.

### ReplOrders

`orderPending` and `codes` are `pendingOrderConfirmation` and the codes made so far, a
random code being its number; `calls` are the helper calls under way, each at the
`await` it is suspended at, `evaluating` the one the line under evaluation waits for.
`agreed` and `sent` are history: which codes the user entered while they were the
last offer, and how often each was sent. `Starts`, `Stage` and the steps of a `Helper`
are `buy()` and `sell()` from the lookup of what the order lacks to the preview, and
`confirmOrder()` from `consumeConfirmation()` on; `CancelOrder`, `DiscardOrder`,
`PendingOrder`, `CodeExpires` are the others. A line whose helper fails with a
`SyntaxError` is evaluated again (`RunsAgain`).

### ReplSession

`handle` is `sessionRefreshTimer`, `strays` counts timers whose handle was
overwritten, `scheduled` is where `runScheduledSessionRefresh()` is suspended, `helpers`
where each of `loginQr()`, `refresh()` and `clear()` is. `kept` is whether the REPL has
announced a refresh.

### TuiSession

`phase`, `serial` and `retry` are `state.phase`, the QR serial and the retry timer, the
attempts are the logins that were started and not yet ended, `recovery` is
`handleUnauthorized()` and `relog` `relogin()`. The `Boot…` actions are `boot()`,
`UpdateArrives` to `LoginFails` a login, and `Unauthorized`, `Recovery…`, `Discarding`,
`KeyL` and `Discarded` what replaces a session.

### TuiDashboard

`instrument`, `generation`, `quote` and `book` are fields of the dashboard; `details`,
`quotes`, `probes` and `streams` what is awaited for an instrument and a generation.
Fetches of the same thing are one, since nothing tells them apart. `Fallback…` is the
search for the default instrument. `late` and `mixed` record the two ways round
`ShownIsSelected` that the code leaves (see the hazards): a book that was waited for
while another instrument was selected, and the default instrument that replaces one.

### TuiOrder

`flow` is the dialog or request `openOrderFlow()` awaits with what was chosen,
`submitting` the field, `portfolio` the position a sell order is compared with, `told` the
message on the screen; `accepted` and `before` are the orders the broker has accepted,
now and when the flow began. `Dialog` is each step of the dialogs, and
`SubmitAnswers`, `SubmitThrows` the end of `submit()`, after or before `BrokerAccepts`.

### TuiSearch

`input` is the text of the field, `unhandled` a keypress whose `setImmediate` has not run,
`searches` the requests under way with the generation each was made in. `Scheduled` is
`scheduleSearchFromInput()`, `DebounceFires`, `Submitted` and `ClassChosen` start a search,
and `SearchEnds` is its answer or failure.

### LiveSession

A session is known by its login and by the confirmation that made it. `jobs` are the
jobs of both workflows with the file each has made of the secret, `hour` is Berlin
time before, in or after the window, and `accountLogins`, `checks` and `expired` are the broker's.
`JobStarts` copies the secret; `CheckConfirms`, `CheckUnavailable`, `PinStarts`, `BrowserReady`
and `PinApproved` are `checkCiSession()` and the PIN login, `JobStores` the command that
writes the secret, and `Enrolment…` the enrolment of a maintainer. The concurrency
group of the workflow is a guard of `JobStarts`. `contested` records that an enrolment
overlapped a refresh job.

### CiBadges

`store` has the three records, `ingest` the invocations that ingest a report, suspended at
each access to the store, and `request` one `GET` of a badge or a link, answered from the
store or from GitHub. `runs` and `filed` are GitHub: run attempts and their reports,
which are posted at any later time and any number of times. A report's text is its cases
and their outcomes; a badge is its state and the names it shows.

## 3. Runs

| Run | Question | Instance | Distinct states |
| --- | --- | --- | --- |
| `mapper_safety` | Do interleavings of calls, socket events, timers, send failures and frames keep the delivery promise, the requests and the socket in order? | two reads, one mutation, two sockets, one payload and one `next()` buffered; symmetric in reads and in sockets | 391,471 |
| `mapper_fair` | Do waiting requests settle and outages end? | one read, one mutation, two sockets | 3,014 |
| `mapper_notsent` | Does `notSent` prove that nothing was accepted (README.md:1520-1522)? | one read, one mutation | violated |
| `orders` | Are results true, orders never doubled, replacements never early, calls never endless? | a submission and a replacement of the same order, a cancellation, one update buffered | 278,208 |
| `orders_throw` | Are exceptions thrown only before sending (ADR 0001:82-83)? | one submission | violated |
| `session` | Are only confirmed sessions stored, and do client and store agree? | a login, refresh, restore, save and clear, one crash | 525,108 |
| `session_stored` | Is the session of a login that returned there to load (README.md:630-631)? | a login and a refresh | violated |
| `apis` | Is the newest token shown, the right challenge polled and replaced, and does a login end? Is an alarm asked for once, is every connection owned and on the current session, do queries end? | three challenges of three tokens; a query, a stream, two calls for one alarm, one session change, both modes | 126,579 |
| `client` | Does every request carry the right token and cookies and the account's number? Is a bounded download complete? Do sizes, previews, lists and prices tell what happened? | two accounts, two tokens; six days, pages of one or two candles, weeks of two days, durations of 1, 3 and 5 days; every combination of the options of `MCClient`, fills at 0, 7 or 12 cents, up to three trades | 774,164 |
| `client_large_quotient` | Is an order by amount rounded down, and no further, to the `sizeStep` (README.md:921-922)? | an order for 4.02 at a limit of 1 by steps of 1e-6 | violated |
| `tools` | Do the programs around the client send what was confirmed, keep their session, show what belongs together and tell the truth? | see the bounds | 847,296 |
| `tui_not_accepted` | Is an order shown as not accepted only when it was not (README.md:1028)? | two quantities, two orders | violated |

`apis`, `client` and `tools` each hold several components that share no variable. A behaviour
of such a run is one of one component, chosen at the start, while the others stay as
they begin: their interleavings would add states and no behaviour.

Five runs expect a violation: each shows that the code does not do what a
document says.

- `mapper_notsent`: a read is sent; `refreshHeaders()` drops the socket, and the new
  one cannot be opened: `failInitialSubscriptions()` (`mapper-connection.ts:404`)
  fails every request of the map with `notSent`, this one included. Mutations do
  not meet it, since a refresh fails the sent ones first; for them the promise is
  proved (`MutationOutcomeTruthful`).
- `orders_throw`: an update that fails its schema, carries errors or has no known
  status is thrown after the mutation was sent (`traderepublic-client.ts:716`), so
  the caller is not told `outcomeUnknown`.
- `session_stored`: a login and a refresh save at the same time, `writeFile` of the
  one over the other; both return and `load()` finds no session (`session.ts:44`).
- `client_large_quotient`: `4.02 / 1 / 1e-6` is 4019999.9999999995 in doubles, where
  neighbours are 4.7e-10 apart, so that the 1e-10 of `floorToStep()`
  (`traderepublic-client.ts:1046`) adds nothing: the order is for 4.019999, one step less
  than the amount pays for, with the step of a millionth that `resolveAmountSizeStep()`
  gives to funds and cryptocurrencies. `SizeRoundedDown` says what remains true: an order
  never costs more than its amount, and lacks at most the one step.
- `tui_not_accepted`: the broker accepts an order, the connection is lost, and `submit()`
  returns `outcomeUnknown`, which the terminal UI shows like every result but a success:
  "Trade Republic did not accept the order." (`demo/tui.mjs:1587`).

### Bounds

Every bound is a CONSTANT or a guard named here.

- *Mapper.* A mutation's fate depends on no other mutation, so one is enough beside
  two reads, which are needed for a disconnect that meets a sent and an unsent
  read, for a `send()` that fails between two requests, and for a number reused
  after an idle close. Two sockets are the current one and its predecessor, which
  is what it takes to lose one; a socket may be reused when it is closed. `MaxBacklog` and `MaxWaiting` of one reach a `next()` both before and
  after its payload, and the queue itself is first in, first out. `transmissions`
  and `reconnectAttempts` saturate at 2: the properties ask for more than one, and
  more than none.
- *Orders.* The submission and the replacement mean the same order, so one may
  be the repetition of the other in either order; the cancellation shares no state
  with them and shows its own results. `MaxInbox` of one is a full and an empty
  buffer.
- *Session.* One call of each method: two calls of one method differ only in names,
  except two saves over each other, which a login and a refresh show. One crash
  leaves whatever the file was and starts from it.
- *Login.* A third token and a third challenge are a replacement of what was itself a
  replacement.
- *Raw API.* A second alarm call repeats the first; the query and the stream share its
  connection or have their own. One session change may fall into any state of all
  of them.
- *Context.* Two tokens are an old and a new one, two accounts the last and the next.
- *Candles.* `LastDay` 5 with weeks of 2 days gives ranges of up to three pages that start
  and end on and off the border of a candle and in the future. Two days stand for
  seven because only divisibility matters.
- *Order sizes.* `Exact` is that of doubles: amount, price, step, two divisions and the sum
  with 1e-10 are each rounded, by at most 2⁻⁵³ of their value, so that 75,000 steps add
  5·10⁻¹¹, half the 1e-10. `Grain` would be 2·10¹⁰; TLC has it as 20,000, since its integers
  have 32 bits, which enlarges errors and epsilon alike and keeps what is compared of them. The
  requests of `client` reach quotients from none to 3·10⁷ steps, with and without a rest, so that
  steps are lost and not; `StepsSeparate` is evaluated for them.
- *Order life.* Amounts below a cent's tie, on a tie and above it; steps of a whole
  share, half a share and 1e-7; a price that divides the budget and one that does
  not. Three trades are one with a price between two with and without.
- *REPL orders.* Two calls under way are what it takes to overtake or repeat; three
  codes (`MaxCodes`) are a confirmation, the one that replaced it and one after a line
  was evaluated again. `MaxSends` bounds the history only: the second sending would
  violate the property. The two orders lack a venue or a price, so that both lookups
  are awaited.
- *REPL session.* Two helpers beside the scheduled refresh; two timers whose handle
  was lost (`MaxStrays`), of which one fires while the other stays.
- *TUI session.* Three logins (`MaxAttempts`): the current one, the one it replaced, and
  the one before, whose answer comes last.
- *TUI dashboard.* Two instruments, two selections after the first (`MaxGeneration`), so
  that an instrument is selected, left and selected again; three requests under way at once
  (`MaxUnderway`), of an old, a newer and the current selection.
- *TUI order.* Two quantities (a position that is large enough, and one that is not)
  and two orders the broker accepts: that of the flow before and that of the present one.
- *TUI search.* Four generations, three texts with the empty one, two classes: a search,
  its successor in text, its successor in class, and one after the field was closed.
- *Live tests.* Two jobs, one of them in the merge queue or both refreshing; three
  logins, which are the stored session, that of a job and that of an enrolment; two
  confirmations (`MaxChecks`), one by each job.
- *Badges.* Two ingestions at once (`Posts`); two attempts (`MaxRunAttempts`), of one run or
  of two; one or more failed cases with one name shown (`MAX_FAILURES`), so that names are
  cut. One kind of `GET` is asked for each of: the latest badge from the store, a link of
  the scheduled one from the store, a scheduled badge from GitHub. The third category differs
  from the second only in its event.

### Fairness

Only what the code arranges itself is fair: timers, and answers where a property is
about a broker that answers.

- *Mapper* (`FairSpec`): the reconnect timer and each socket's handshake timer are
  weakly fair, since `setTimeout` fires. `RequestSettles` is stated for behaviours in
  which `refreshHeaders()` stops, as each refresh starts the ten seconds again.
  `OutageEnds` is stated under `Reachable`: strong fairness of a reconnect that gets a
  socket and of a handshake that completes is what "the broker becomes reachable"
  means; without it an outage may rightly last for ever.
- *Orders*: the deadline timer of each call. Neither transport nor broker is fair.
- *Raw API*: the timer of each query, nothing else.
- *Login*: every request is answered in some way, every callback returns or throws, and
  the clock goes on. The code has no timeout for a single request (see the hazards).
- *Context*: the browser answers, and the clock goes on.
- `ClientSession`, `CandleDownload`, `OrderLife` and the programs around the client have
  no liveness property and no fairness: their calls end when what they await answers. That
  the REPL keeps its session alive and the UI retries a login is stated as safety, as the timer
  or the call that must exist (`KeptAlive`, `QrNeverStuck`). The deadlock check is off
  for modules whose programs end, or may be left waiting for a silent peer.

## 4. Proofs

The theorems hold for every value of the constants that satisfies the module's
ASSUMEs, which say no more than that the kinds of calls are disjoint, bounds are
natural numbers (`Grain` and `Exact` positive ones), `None` is not a value, and that requests and reports have the fields
of `CreateOrderOptions` and `validateCaseResult()` (`RequestsAssumption`, `BadgeAssumption`).
Two theorems have two more hypotheses, `StepsWritten` and `StepsSeparate`, stated with them. A proof has one
lemma per action, or per step the actions share.

Every invariant that a passing run checks is a theorem, and so is every action property and
the refinement; TLC alone checks liveness.

- **MapperConnectionProofs** (1,448 obligations). `StateOK` is the types with the conjuncts of
  `ConnInv` about socket, timers and outage (`NeverStranded`, `NoSocketLeaked`,
  `OutageAnnounced`, `IdleHoldsNothing`, `HandshakeGuarded`): few of them are inductive
  alone, because a step that drops a socket has to know that timer and outage fit
  it. `DeliveryInv` relates `sent`, `transmissions` and `failure`: what is sent has
  been transmitted and the reverse, a sent mutation is in the map only while its
  socket is connected, and what failed has left the map, which is what "sent at most
  once" needs to survive a refresh. From both follow `MutationSentAtMostOnce`,
  `MutationOutcomeTruthful`, `EndedStaysEnded` and, mapping each action to a step or a
  stutter of `MutationDelivery`, `ConnectionImplementsDelivery`. `ReachInv` adds that every
  number in the map and on the wire is below `nextSubscriptionId`, which starts again
  only when map and wire are empty; with it a frame reaches the request it answers or
  none (`FrameReachesSender`), and what leaves the map leaves nobody waiting
  (`NoConsumerHangs`). `ReadsSurviveOutage` is shown step by step: of the ways a request
  fails only those that end the outage, or are the caller's, meet a read.
- **OrderMutationsProofs** (934). The invariant adds to the types that a mutation's
  stage tells whether it was sent (`StageTellsSent`), that the broker gets it once
  (`BrokerHearsOnce`), that the buffered updates are what the broker decided
  (`UpdatesTrue`), that a replacement's mutations come one after the other
  (`CallsInOrder`), what each outcome implies for both (`OutcomesHold`), and that of the
  calls for one order only one may still lead to an order (`OneUnspent`). The last one is
  the reason `AtMostOneOrder` holds, and fails as soon as an outcome that may be
  repeated is reported for a mutation the broker may still see.
- **RawApiProofs** (834). `ConnectionInv` is inductive alone: `SocketsUseSession` holds after a
  session change because the connections it goes through are, by `ConnectionsOwned`,
  all that have a socket. `RequestInv` with `HandedIsConnected` (an alarm that was handed
  over is on a connected socket, every loss having ended it) gives `AlarmAskedOnce`: what
  is reported `notSent` was never handed over (`DeliveryTrue`), and of the calls for one
  alarm all but one may be repeated (`OneUnspent`). `StepKeeps` proves this once for
  whatever a step may do to one call: nothing, begin it, hand it over, end it.
- **ClientSessionProofs** (550). `CarriesConfirmed`: a call that goes on to the account
  number or to the save carries a session `auth.session` confirmed, whatever the
  client's session is by then. `OneAtATime`: until calls overlap, all but one are at
  rest; with it `SerialAgreement` is shown for the one that moves.
- **LoginPollingProofs** (181). `DeliveredIsShown` and `TokenIsOffered` tie the delivered key
  to the merged challenge and that to the last token the broker made;
  `GivenUpExpired` says why the login is at a creation.
- **ClientProofs** (3,126) has four parts.
  - *What identifies a client.* `OwnNumber` and `AsksForOwn` say that the cached number and the
    lookup under way are the account's; `Suffices` that a context has a token and cookies,
    through the merges. `SharedTokenUsed` follows from how `headers()` ranks its sources, for
    any context.
  - *Candle downloads.* `CandlesInv`: the request under way is for the page at the cursor
    (`PageAhead`), what was collected are candles of the resource in versions that only grow
    along the list (`Genuine`), and before the cursor none is missing while behind it there is
    none (`Covers`). A page keeps `Covers` because the candles of a request reach from the first
    at or after its start to the last before its end, and its end is the next start: this is
    where the border of a candle between two pages matters (`AnswerHolds`, `AnswerAppended`).
    `DedupeKeepsNewest` turns the growing versions into the newest one. Bond candles are not in
    the claim (section 5).
  - *Numerals.* Recursive functions exist and satisfy their equations (`AlongExists`,
    `HornerIs`, `PowerType`, `DigitCountBounds`), and what is written in digits reads as itself
    or as its complement (`DigitsRead`). The library's induction rules are out of the provers'
    reach, but its well-foundedness of `<` is not: each of these takes the least number at
    which the claim fails (`LeastNumber`) and contradicts it there.
  - *Orders.* `Prepared` says that the order is what `normalizeCreateOrderOptions()` made of what
    was asked. `WholeStepsBound` shows what the 1e-10 of `floorToStep()` does with an error that
    grows with the quotient: the number of steps is that of the exact quotient where the error is
    within it, else that or one less, and never more, for any price, amount and step, while
    error and epsilon do not reach the next quotient. From it follow `SizeRoundedDown` and
    the bounds of `PreviewTellsOrder`, under `StepsSeparate` and `StepsWritten`, without which
    they are false: a step of 2.5e-7 and a quotient of three are
    7.5e-7, and `toFixed(7)` makes 8e-7 of it; and an error beyond the distance of two quotients
    may round up, past the amount. `LifeInv` adds that the record has at most the one
    time of how the order ended and no other status (`TimesTell`), that a live order has something
    left to fill and that its trades add up to what was paid (`TradesTell`), and that the order
    updates carry what the broker writes (`NoticesWritten`). With it a record is open while its
    order lives, its price is between those of its trades (`Extremes`, `SumMonotone`), and
    `decimal()` reads back what was written, of any width, sign and scale (`DecimalReads`).
- **ToolsProofs** (1,705). Live tests: `LiveInv` says what a job may be at
  (`JobsWithinRights`: only a refresh job gets to a login or to the secret, and to the
  login only the first daily attempt without a usable session), that one refresh runs
  at a time (`OneRefresh`), that no session is of the future, and that whoever is about
  to write the secret, until an enrolment overlapped a refresh, holds none older than it
  (`WritersForward`, which is `SecretMovesForward` one step early). REPL: `ReplOrdersInv` says
  that a confirmation under way was taken and is offered no more (`TakenOnce`,
  `PendingsRight`) and that codes to come were never sent, which is what makes "once"
  survive a line evaluated twice; `KeptAlive` is inductive as it stands. Badge worker:
  `BadgesInv` says which records an ingestion has still to write (`KeysLeft`), that what it
  found older is still older when it writes, while it is alone (`WritesNewer`, `OneIngestion`), and
  that `latest` is written before the record of the event (`LatestFirst`): a failed write
  in between leaves `LatestCovers` true because of that order. `TruthInv` adds for
  `BadgeTruthful` that every report on its way or stored is that of an attempt and of its key
  (`RecordsFiled`: a report under the wrong conclusion is refused, `MisfiledIsRefused`), and that
  a request at the store finds what was there when it came or something newer (`KnownIsThere`).
- **TuiProofs** (874). `OrderInv` says that nothing is accepted before `submitting` is set.
  `SearchInv` ties what is shown to the newest generation (`NewestIsShown`) and the debounce
  timer to a search that has not begun (`TimerIsFirst`). `TuiSessionInv` says that a boot is
  alone and that the newest login has its session by the time it opens the dashboard.
  `DashboardInv` says that a request whose generation is the current one asks for the
  selected instrument (`TasksOfSelection`), all that the guards of the callbacks compare.

Assumed about the application, as guards of the models: an order is repeated only
after a result that allows it (`MayCreate`), an alarm only after `notSent` or a refusal
(`MayAsk`), and a client serves one account at a time (`MayUse`, README.md:627).

Model-checked only: the six liveness properties (`RequestSettles`, `OutageEnds`, `CallReturns`,
`LoginEnds`, `QueriesEnd`, `CollectionEnds`), because liveness under fairness and ENABLED are
beyond the prover, and the five runs that expect a violation. Of three of them the half that
needs no fairness is proved, with a number that falls: after its deadline a login takes at
most eight more answers (`LoginWindsUp`) and a collection six (`CollectionWindsUp`), and an order
call goes forward through at most two mutations, each with its deadline (`CallsGoForward`).
What stays with TLC is that the next answer or timer comes, and finds a step to take. RECURSIVE operators and the
folds of the library, which the prover cannot look into, are not used: what is summed,
raised or counted is a recursive function of `Numerals`.

## 5. Not modelled

- Response normalizers other than for orders, schemas and the domain read APIs: one
  request, one validation, one reshaping. That a validation may fail is a choice of
  the modules above.
- The HTTP request itself: its failures are choices; what it carries is in `ClientContext`.
- The protobuf codec but for decimals: a frame is its request number and its kind.
- Order fees, validity dates and texts, which are passed through.
- Bond candles in `DownloadComplete`: their requests name a duration, and what the
  endpoint answers for a page of the past is not in the repository
  (`market-specs.ts:76`). They are steps of the model all the same.
- A change of account while a lookup of its number runs (`client-runtime.ts:47`), which
  README.md:627 excludes.
- The Redis session demo and the scripts that only print, build or copy; build output.
- Of the REPL and the terminal UI: formatting, drawing and scrolling, the helpers that
  read and print, the watchlist and the lists of orders and positions. What they do that
  others can overtake (sessions, orders, searches, selections) is modelled.
- Of the badge worker: HTML, SVG and the checks of a report's shape; a report that is
  filed under another run is one of the model's reports (`Misfiled`).

## 6. Plan

Done: the transport and its promise (`MapperConnection`, `MutationDelivery`); orders over the
promise; raw API, session and store, login, client context; candles; the arithmetic and the
records of orders; the REPL, the terminal UI, the session of the live tests and the badge
worker. All safety properties of the runs are proved.

Next, models:

1. `RawApi` as a refinement: a connection of it as an abstraction of `MapperConnection`
   with several instances, so that its socket and outage steps are derived.
2. Two logins or two refreshes at once in `ClientSession`, with the cookies of both.
3. Order validity dates and the fields of protobuf order updates in `OrderLife`.
4. The watchlist of the terminal UI, whose quotes share the connection of the dashboard.

Next, proofs:

1. Of `RequestSettles` and `OutageEnds` the half that needs no fairness, as for the other loops.
2. `SizeRoundedDown` without its two hypotheses: how far the size may exceed the amount for
   steps that `decimalPlaces()` counts wrong, and for quotients too large to be told apart.
