--------------------------- MODULE CandleDownload ---------------------------
(***************************************************************************)
(* MarketApi.downloadCandles (traderepublic-client.ts): the pages of       *)
(* CandleQuery (candles.ts), the request each of the three candle sources  *)
(* makes of a page and what it makes of the answer (market-specs.ts), and  *)
(* the mapper query with its timer behind the first two (raw.ts).          *)
(*                                                                         *)
(* The unit of time is a day.  A candle is known by its time and by the    *)
(* days whose trades it has in it; days pass while a download runs.        *)
(***************************************************************************)
EXTENDS Integers, Sequences, FiniteSetsExt

CONSTANTS
  LastDay,    \* bound on the clock and on the dates asked for
  MaxLimit,   \* bound on maxCandlesPerRequest
  Week,       \* days in a week
  Durations,  \* the periods rangeForDates can name, in days
  Undefined        \* the JavaScript undefined

ASSUME DateAssumption == LastDay \in Nat /\ MaxLimit \in Nat \ {0} /\ Week \in Nat \ {0}
ASSUME DurationAssumption == IsFiniteSet(Durations) /\ Durations # {} /\ Durations \subseteq Nat
ASSUME UndefinedAssumption == Undefined \notin Nat

VARIABLES
  options,  \* of the download; fixed
  now,      \* the day
  pc, cursor, page, candles, result,
  firstDay  \* history: the day the download began

candlesVars == <<options, now, pc, cursor, page, candles, result, firstDay>>

Day == 0 .. LastDay

\* candleResolutionMs; "1M" stands for every resolution that light and bond
\* candles do not have.
Resolution(timeframe) ==
  CASE timeframe = "1d" -> 1
    [] timeframe = "1w" -> Week
    [] timeframe = "1M" -> 2 * Week

Supported(source, timeframe) == source = "standard" \/ timeframe \in {"1d", "1w"}

Options ==
  [from : Day \cup {Undefined}, to : Day \cup {Undefined}, limit : 1..MaxLimit,
   timeframe : {"1d", "1w", "1M"}, source : {"standard", "light", "bond"},
   typed : BOOLEAN]   \* whether the caller gave the instrument's type

CandlesInit ==
  /\ options \in Options /\ now \in Day /\ firstDay = now
  /\ pc = "starting" /\ cursor = 0 /\ page = Undefined
  /\ candles = <<>> /\ result = Undefined

(***************************************************************************)
(* Candles.                                                                *)
(***************************************************************************)

\* External: the broker has a candle from the first day of its period on, and
\* adds each day's trades to it.
CandleAt(t, length) == [time |-> t, days |-> t .. Min({t + length - 1, now})]
Exists(t, day) == t \in 0 .. day /\ (t % Resolution(options.timeframe)) = 0

\* The candles of an answer, the earliest first.
Ascending(S) ==
  [i \in 1 .. Cardinality(S) |-> CHOOSE c \in S : Cardinality({d \in S : d.time <= c.time}) = i]

\* Both mapper resources: the candles between two times, the last included or not.
Between(from, until) ==
  {{CandleAt(t, Resolution(options.timeframe)) : t \in {u \in from .. last : Exists(u, now)}} :
     last \in {until, until - 1}}

\* The bond endpoint is given a period, never the dates of the page.
RangeForDates(span) ==
  LET length == IF span.from = Undefined THEN Max(Durations)
                ELSE IF span.to = Undefined THEN now - span.from
                ELSE span.to - span.from
      longer == {d \in Durations : length <= d}
  IN IF longer = {} THEN Max(Durations) ELSE Min(longer)

LastDays(length) == {CandleAt(t, 1) : t \in {u \in 0 .. now : u + length >= now}}

WeekOf(t) == t - (t % Week)

ByWeek(daily) ==
  {[time |-> w, days |-> UNION {c.days : c \in {d \in daily : WeekOf(d.time) = w}}] :
     w \in {WeekOf(d.time) : d \in daily}}

NormalizeBondCandles(daily) == IF options.timeframe = "1w" THEN ByWeek(daily) ELSE daily

\* What one answered request of a page can hold.
StandardFrom(span) ==
  IF span.from # Undefined THEN span.from
  ELSE LET until == IF span.to = Undefined THEN now ELSE span.to
       IN IF until > Max(Durations) THEN until - Max(Durations) ELSE 0

Answers(span) ==
  IF options.source = "bond"
  THEN {NormalizeBondCandles(LastDays(RangeForDates(span)))}
  ELSE Between(StandardFrom(span), IF span.to = Undefined THEN now ELSE span.to)

\* dedupeCandles: of the candles of a time the last one of the pages is kept.
Dedupe(list) ==
  [t \in {list[i].time : i \in DOMAIN list} |->
     list[Max({i \in DOMAIN list : list[i].time = t})].days]

(***************************************************************************)
(* The download.                                                           *)
(***************************************************************************)

\* The request of a page; light candles refuse some resolutions before it.
Request(span) ==
  IF options.source = "light" /\ ~Supported("light", options.timeframe)
  THEN pc' = "failed" /\ page' = Undefined
  ELSE pc' = "asking" /\ page' = span

\* MarketApi.candles of a page: without the instrument's type it asks for the
\* instrument first, of every page again.
FetchPage(span) ==
  /\ IF options.typed THEN Request(span) ELSE pc' = "resolving" /\ page' = span
  /\ UNCHANGED result

Returns(list) == pc' = "returned" /\ result' = Dedupe(list) /\ page' = Undefined

PageEnd(at) == Min({at + options.limit * Resolution(options.timeframe), options.to})

\* The head of the loop, with what the pages so far have brought.
MutantNextPage(at, list) ==
  /\ cursor' = at
  /\ IF at < options.to
     THEN FetchPage([from |-> at + 1, to |-> PageEnd(at)])
     ELSE Returns(list)

NextPage(at, list) ==
  /\ cursor' = at
  /\ IF at < options.to
     THEN FetchPage([from |-> at, to |-> PageEnd(at)])
     ELSE Returns(list)

Fails == pc' = "failed" /\ page' = Undefined /\ UNCHANGED <<cursor, result>>

Start ==
  /\ pc = "starting"
  /\ CASE options.to = Undefined  -> FetchPage([from |-> options.from, to |-> Undefined]) /\ UNCHANGED cursor
       [] options.to # Undefined /\ options.from = Undefined -> Fails
       [] OTHER              -> NextPage(options.from, <<>>)
  /\ UNCHANGED <<options, now, candles, firstDay>>

SourceResolved ==
  /\ pc = "resolving"
  /\ Request(page)
  /\ UNCHANGED <<options, now, cursor, candles, result, firstDay>>

PageAnswered ==
  /\ pc = "asking"
  /\ IF ~Supported(options.source, options.timeframe)
     THEN Fails /\ UNCHANGED candles
     ELSE \E answer \in Answers(page) :
            /\ candles' = candles \o Ascending(answer)
            /\ IF options.to = Undefined
               THEN Returns(candles') /\ UNCHANGED cursor
               ELSE NextPage(page.to, candles')
  /\ UNCHANGED <<options, now, firstDay>>

\* The timer of a mapper query, an error of the transport or of the broker, an
\* answer that fails its schema: the pages so far are lost.
QueryFails ==
  /\ pc \in {"resolving", "asking"}
  /\ Fails
  /\ UNCHANGED <<options, now, candles, firstDay>>

DayPasses ==
  /\ now < LastDay
  /\ now' = now + 1
  /\ UNCHANGED <<options, pc, cursor, page, candles, result, firstDay>>

CandlesNext == Start \/ SourceResolved \/ PageAnswered \/ QueryFails \/ DayPasses

CandlesSpec == CandlesInit /\ [][CandlesNext]_candlesVars

(***************************************************************************)
(* Properties.                                                             *)
(***************************************************************************)
\* Every candle of the range that existed when the download began, wherever
\* the pages cut it, and none outside the range.
Complete ==
  \A t \in Day :
    /\ t \in options.from .. (options.to - 1) /\ Exists(t, firstDay) => t \in DOMAIN result
    /\ t \in DOMAIN result => t \in options.from .. options.to /\ Exists(t, now)

\* A candle at the border of two pages that was still growing is the newer
\* one: no trade of it a page has brought is missing.
NewestKept == \A i \in DOMAIN candles : candles[i].days \subseteq result[candles[i].time]

\* README.md:1384-1386, for the sources whose requests carry the dates: a
\* download between two dates returns the candles between them, each once and
\* as the last page that brought it has it.
DownloadComplete ==
  pc = "returned" /\ options.source # "bond" =>
    NewestKept /\ (options.to # Undefined => Complete)
=============================================================================
