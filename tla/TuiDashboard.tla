---------------------------- MODULE TuiDashboard ----------------------------
(***************************************************************************)
(* What the dashboard of the terminal UI (demo/tui.mjs) shows of one       *)
(* instrument: its quote and its order book.  Quotes are fetched every few *)
(* seconds, books come from the first venue that has one, and the answers  *)
(* for an instrument arrive while another one is selected, or after        *)
(* relogin().  selectionGeneration tells old answers from new ones, where  *)
(* it is looked at.  Fetches of the same thing at the same time are one.   *)
(***************************************************************************)
EXTENDS Naturals, FiniteSets

CONSTANTS
  Assets,          \* instruments of the watchlist and of the search results
  DefaultAsset,    \* what defaultInstrumentQuery finds, one of Assets
  NoAsset,
  MaxGeneration,   \* bound on the selections
  MaxUnderway      \* bound on what is awaited at the same time

ASSUME TuiDashboardAssumption ==
  DefaultAsset \in Assets /\ NoAsset \notin Assets /\ MaxGeneration \in Nat /\ MaxUnderway \in Nat

VARIABLES
  open,        \* state.phase: whether it is "dashboard"
  instrument,  \* dashboard.instrument
  generation,  \* dashboard.selectionGeneration
  quote,       \* the instrument of dashboard.quote
  book,        \* the instrument of dashboard.orderBook
  domStream,   \* dashboard.domSubscription
  details,     \* assets.get() calls of selectInstrument, with their generation
  quotes,      \* fetches of refreshQuote
  probes,      \* refreshDom: looking for venues, or waiting for a book of one
  streams,     \* open subscriptions that consumeOrderBookStream reads
  fallback,    \* what refreshInstrument awaits
  reset,       \* whether relogin() waits for the session to be discarded
  mixed,       \* history: refreshInstrument replaced a selected instrument
  late         \* history: a book of an older selection was shown since the last

selection == <<instrument, generation>>
underway == <<details, quotes, probes, streams, fallback>>
tuiDashboardVars ==
  <<open, selection, quote, book, domStream, underway, reset, mixed, late>>

For(asset) == [asset |-> asset, generation |-> generation]
Probe(asset, pc) == [asset |-> asset, generation |-> generation, pc |-> pc]
Now(task) == task.generation = generation
Room == Cardinality(details) + Cardinality(quotes) + Cardinality(probes) < MaxUnderway

(***************************************************************************)
(* refreshQuote and refreshDom, up to what they await.                     *)
(***************************************************************************)
FetchesQuote(asset) == quotes' = quotes \union {For(asset)}

\* The stream that is known is closed.
Closes == domStream' = NoAsset /\ streams' = streams \ {domStream}

ProbesVenues(asset) ==
  /\ Closes /\ book' = NoAsset
  /\ probes' = probes \union {Probe(asset, "venues")}

(***************************************************************************)
(* selectInstrument: by a key, from the search, or by refreshWatchlists    *)
(* when there is no instrument.                                            *)
(***************************************************************************)
Select(asset) ==
  /\ open /\ Room /\ generation < MaxGeneration
  /\ generation' = generation + 1 /\ instrument' = asset
  /\ Closes /\ quote' = NoAsset /\ book' = NoAsset
  /\ mixed' = FALSE /\ late' = FALSE
  /\ details' = details \union {[asset |-> asset, generation |-> generation']}
  /\ UNCHANGED <<open, quotes, probes, fallback, reset>>

\* The answer of an older selection is dropped; its failure is not, and both
\* refreshes run for whatever is selected by now.
Refreshes(d) ==
  /\ details' = details \ {d}
  /\ IF open /\ instrument' # NoAsset
     THEN FetchesQuote(instrument') /\ ProbesVenues(instrument')
     ELSE UNCHANGED <<quotes, probes, streams, domStream, book>>
  /\ UNCHANGED <<open, generation, quote, fallback, reset, mixed, late>>

\* The detailed record is that of the same instrument.
DetailArrives(d) ==
  \/ Now(d) /\ instrument' = d.asset /\ Refreshes(d)
  \/ /\ ~Now(d) /\ details' = details \ {d}
     /\ UNCHANGED <<open, selection, quote, book, domStream, quotes, probes, streams,
                    fallback, reset, mixed, late>>

DetailFails(d) == instrument' = instrument /\ Refreshes(d)

(***************************************************************************)
(* refreshQuote: every five seconds, and for those above.                  *)
(***************************************************************************)
QuoteTimer ==
  /\ open /\ instrument # NoAsset /\ Room
  /\ FetchesQuote(instrument)
  /\ UNCHANGED <<open, selection, quote, book, domStream, details, probes, streams,
                 fallback, reset, mixed, late>>

MutantQuoteCurrent(q) == TRUE
QuoteCurrent(q) == Now(q)

QuoteArrives(q) ==
  /\ quotes' = quotes \ {q}
  /\ quote' = IF QuoteCurrent(q) THEN q.asset ELSE quote
  /\ UNCHANGED <<open, selection, book, domStream, details, probes, streams, fallback,
                 reset, mixed, late>>

QuoteFails(q) ==
  /\ quotes' = quotes \ {q}
  /\ UNCHANGED <<open, selection, quote, book, domStream, details, probes, streams,
                 fallback, reset, mixed, late>>

(***************************************************************************)
(* refreshDom and probeOrderBookVenue.  The generation is looked at before *)
(* each venue and before each wait for a book, not after it.               *)
(***************************************************************************)
ProbeGoes(p, pcs) ==
  /\ probes' = (probes \ {p}) \union {[p EXCEPT !.pc = pc] : pc \in pcs}
  /\ UNCHANGED <<open, selection, quote, book, domStream, details, quotes, streams,
                 fallback, reset, mixed, late>>

\* A venue is left to try, or there is none; nothing is, and an order book
\* without levels is waited for again, in an older selection's name.
ProbeAdvances(p) == ProbeGoes(p, IF Now(p) THEN {"book"} ELSE {})
ProbeGivesUp(p) == ProbeGoes(p, {})

ProbeConnects(p) ==
  /\ p.pc = "book"
  /\ probes' = probes \ {p}
  /\ domStream' = [asset |-> p.asset, generation |-> p.generation]
  /\ streams' = streams \union {domStream'}
  /\ book' = p.asset /\ late' = (late \/ ~Now(p))
  /\ UNCHANGED <<open, selection, quote, details, quotes, fallback, reset, mixed>>

\* consumeOrderBookStream shows what it waited for and then looks at the phase
\* and the generation; a stream it leaves so is not closed, but read no more.
StreamShows(s) ==
  /\ book' = s.asset /\ late' = (late \/ ~Now(s))
  /\ streams' = IF open /\ Now(s) THEN streams ELSE streams \ {s}
  /\ UNCHANGED <<open, selection, quote, domStream, details, quotes, probes, fallback,
                 reset, mixed>>

StreamEnds(s) ==
  /\ streams' = streams \ {s}
  /\ UNCHANGED <<open, selection, quote, book, domStream, details, quotes, probes,
                 fallback, reset, mixed, late>>

(***************************************************************************)
(* refreshInstrument, when refreshDashboard finds no instrument.           *)
(***************************************************************************)
FallbackSearches ==
  /\ open /\ instrument = NoAsset /\ fallback = "none" /\ fallback' = "search"
  /\ UNCHANGED <<open, selection, quote, book, domStream, details, quotes, probes,
                 streams, reset, mixed, late>>

\* It does not look again whether there is an instrument by now, and the
\* selection stays the one it was.
FallbackArrives ==
  /\ fallback = "search"
  /\ instrument' = DefaultAsset /\ mixed' = (mixed \/ instrument # NoAsset)
  /\ IF open THEN fallback' = "quote" /\ FetchesQuote(DefaultAsset)
     ELSE fallback' = "none" /\ quotes' = quotes
  /\ UNCHANGED <<open, generation, quote, book, domStream, details, probes, streams,
                 reset, late>>

\* Its fetch is one of quotes and may be one with a later one.
FallbackQuoted ==
  /\ fallback = "quote" /\ fallback' = "none"
  /\ IF open /\ instrument # NoAsset THEN ProbesVenues(instrument)
     ELSE UNCHANGED <<probes, streams, domStream, book>>
  /\ UNCHANGED <<open, selection, quote, details, quotes, reset, mixed, late>>

FallbackFails ==
  /\ fallback = "search" /\ fallback' = "none"
  /\ UNCHANGED <<open, selection, quote, book, domStream, details, quotes, probes,
                 streams, reset, mixed, late>>

(***************************************************************************)
(* relogin: the stream is closed before the session is discarded, what is  *)
(* shown is reset after it, and the next login opens the dashboard again.  *)
(***************************************************************************)
ReloginBegins ==
  /\ open /\ ~reset /\ reset' = TRUE /\ Closes
  /\ UNCHANGED <<open, selection, quote, book, details, quotes, probes, fallback, mixed, late>>

ReloginResets ==
  /\ reset /\ reset' = FALSE /\ open' = FALSE
  /\ generation < MaxGeneration /\ generation' = generation + 1
  /\ instrument' = NoAsset /\ quote' = NoAsset /\ book' = NoAsset
  /\ mixed' = FALSE /\ late' = FALSE
  /\ UNCHANGED <<domStream, underway>>

\* enterDashboard: startDashboardLoops stops older loops first.
LoggedIn ==
  /\ ~open /\ open' = TRUE /\ Closes
  /\ UNCHANGED <<selection, quote, book, details, quotes, probes, fallback, reset, mixed, late>>

(***************************************************************************)
(* The specification.                                                      *)
(***************************************************************************)
TuiDashboardInit ==
  /\ open = TRUE /\ instrument = NoAsset /\ generation = 0 /\ quote = NoAsset /\ book = NoAsset
  /\ domStream = NoAsset /\ details = {} /\ quotes = {} /\ probes = {} /\ streams = {}
  /\ fallback = "none" /\ reset = FALSE /\ mixed = FALSE /\ late = FALSE

Answers ==
  \/ \E d \in details : DetailArrives(d) \/ DetailFails(d)
  \/ \E q \in quotes : QuoteArrives(q) \/ QuoteFails(q)
  \/ \E p \in probes : ProbeAdvances(p) \/ ProbeGivesUp(p) \/ ProbeConnects(p)
  \/ \E s \in streams : StreamShows(s) \/ StreamEnds(s)

TuiDashboardNext ==
  \/ \E asset \in Assets : Select(asset)
  \/ QuoteTimer \/ Answers
  \/ FallbackSearches \/ FallbackArrives \/ FallbackQuoted \/ FallbackFails
  \/ ReloginBegins \/ ReloginResets \/ LoggedIn

TuiDashboardSpec == TuiDashboardInit /\ [][TuiDashboardNext]_tuiDashboardVars

(***************************************************************************)
(* Properties.                                                             *)
(***************************************************************************)
\* The quote and the order book that are shown are those of the instrument
\* that is selected, whatever fetches, probes and streams of earlier
\* selections are still under way (refreshQuote, refreshDom).  Two ways round
\* it are known: the default instrument that replaces one selected meanwhile,
\* and a book that is waited for while another instrument is selected.
ShownIsSelected ==
  /\ quote # NoAsset /\ instrument # NoAsset /\ ~mixed => quote = instrument
  /\ book # NoAsset /\ instrument # NoAsset /\ ~mixed /\ ~late => book = instrument
=============================================================================
