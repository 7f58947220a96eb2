---------------------------- MODULE ClientProofs ----------------------------
(***************************************************************************)
(* Safety of one client, for all constants: of what identifies it to the   *)
(* broker, of a candle download, and of an order from its preparation to   *)
(* its last record; before the orders, the laws of the sums, powers and    *)
(* digits they are made of.                                                *)
(***************************************************************************)
EXTENDS ClientContext, CandleDownload, OrderLife,
        FiniteSetTheorems, WellFoundedInduction, TLAPS

-----------------------------------------------------------------------------
(***************************************************************************)
(* The inductive invariant, in named parts.                                *)
(***************************************************************************)

\* A number the client has anywhere is that of its session's account.
OwnNumber ==
  /\ number # None => number = Of(session)
  /\ session # None /\ session.number # None => session.number = session.account

\* A lookup under way was asked for the account the session still has.
AsksForOwn == lookup.pc # "idle" /\ lookup.asked # None => lookup.asked = Of(session)

\* A context with a token and cookies.
Suffices(web) == web # None => web.token # 0 /\ web.cookies

IInv ==
  /\ ClientTypeOK /\ CollectionTypeOK /\ OwnNumber /\ AsksForOwn
  /\ Suffices(collected) /\ Suffices(Web)

-----------------------------------------------------------------------------
LEMMA Facts ==
  /\ None \notin Account \cup WebContext \cup Session /\ MaxToken \in Nat /\ 0 \in Token
  /\ Empty \in Session /\ Closed.pc = "closed"
  /\ Closed \in [pc : {"closed", "loading", "cookies", "storage", "waiting"},
                 settle : BOOLEAN, late : BOOLEAN, cookie : Token, cookies : BOOLEAN]
  /\ NewSite \in [captured : Token, cookie : Token, cookies : BOOLEAN, storage : Token]
<1>1. None \notin Account \cup WebContext \cup Session /\ MaxToken \in Nat /\ 0 \in Token
  BY AccountAssumption, TokenAssumption, NoneAssumption
     DEF AccountAssumption, TokenAssumption, NoneAssumption, Token
<1>2. Empty \in Session
  BY DEF Empty, Session
<1>3. Closed.pc = "closed"
  BY DEF Closed
<1>4. /\ Closed \in [pc : {"closed", "loading", "cookies", "storage", "waiting"},
                     settle : BOOLEAN, late : BOOLEAN, cookie : Token, cookies : BOOLEAN]
      /\ NewSite \in [captured : Token, cookie : Token, cookies : BOOLEAN, storage : Token]
  BY <1>1, Zenon DEF Closed, NewSite
<1> QED BY <1>1, <1>2, <1>3, <1>4

LEMMA Initial == Init => IInv
  BY Facts DEF Init, IInv, ClientTypeOK, CollectionTypeOK, Open, OwnNumber, AsksForOwn, Suffices, Web, Of

-----------------------------------------------------------------------------
\* The steps of a collection leave the client alone, and what they collect has a
\* token and cookies.
LEMMA CollectionKeeps ==
  ASSUME IInv, CollectionTypeOK', UNCHANGED client,
         \/ UNCHANGED collected
         \/ collected' \in WebContext /\ HasWafToken(collected')
  PROVE  IInv'
  BY DEF IInv, ClientTypeOK, OwnNumber, AsksForOwn, Suffices, HasWafToken, Web, Of, client

LEMMA CollectionInductive ==
  ASSUME IInv,
         \/ SiteSetsCookies \/ SiteIssues \/ CaptureRequest \/ StartCollection \/ Collects
         \/ CollectionFails \/ DeadlinePasses
  PROVE  IInv'
<1> USE Facts DEF IInv, CollectionTypeOK, Open
<1>1. CASE SiteSetsCookies
  BY <1>1, CollectionKeeps DEF SiteSetsCookies, client
<1>2. CASE SiteIssues
  <2>1. issued' \in Token
    BY <1>2 DEF SiteIssues, Token
  <2>2. UNCHANGED <<collector, collected, client>> /\ collector.pc # "closed"
    BY <1>2 DEF SiteIssues
  <2>3. site' \in [captured : Token, cookie : Token, cookies : BOOLEAN, storage : Token]
    BY <1>2, <2>1 DEF SiteIssues
  <2>4. CollectionTypeOK'
    BY <2>1, <2>2, <2>3 DEF client
  <2> QED BY <2>2, <2>4, CollectionKeeps
<1>3. CASE CaptureRequest
  <2>1. PICK header \in {site.cookie, site.storage} :
          site' = [site EXCEPT !.captured = First(header, site.captured)]
    BY <1>3 DEF CaptureRequest
  <2>2. UNCHANGED <<collector, issued, collected, client>> /\ collector.pc # "closed"
    BY <1>3 DEF CaptureRequest
  <2>3. First(header, site.captured) \in Token
    BY DEF First
  <2>4. CollectionTypeOK'
    BY <2>1, <2>2, <2>3 DEF client
  <2> QED BY <2>2, <2>4, CollectionKeeps
<1>4. CASE StartCollection
  BY <1>4, CollectionKeeps DEF StartCollection, client
<1>5. CASE PageLoads
  BY <1>5, CollectionKeeps DEF PageLoads, client
<1>6. CASE ReadCookies
  BY <1>6, CollectionKeeps DEF ReadCookies, client
<1>7. CASE ReadStorage
  <2>1. PICK storage \in {0, site.storage} :
          IF HasWafToken(Built(storage))
          THEN Closes /\ collected' = Built(storage)
          ELSE /\ \/ collector' = [collector EXCEPT !.pc = "waiting", !.settle = FALSE] /\ UNCHANGED site
                  \/ Closes
               /\ UNCHANGED collected
    BY <1>7 DEF ReadStorage
  <2>2. UNCHANGED <<issued, client>>
    BY <1>7 DEF ReadStorage
  <2>3. Built(storage) \in WebContext
    BY DEF Built, First, WebContext
  <2>4. CollectionTypeOK'
    BY <2>1, <2>2 DEF Closes, client
  <2> QED BY <2>1, <2>2, <2>3, <2>4, CollectionKeeps
<1>8. CASE WaitEnds
  BY <1>8, CollectionKeeps DEF WaitEnds, client
<1>9. CASE CollectionFails
  BY <1>9, CollectionKeeps DEF CollectionFails, Closes, client
<1>10. CASE DeadlinePasses
  BY <1>10, CollectionKeeps DEF DeadlinePasses, client
<1> QED BY <1>1, <1>2, <1>3, <1>4, <1>5, <1>6, <1>7, <1>8, <1>9, <1>10 DEF Collects

-----------------------------------------------------------------------------
\* What setSession makes of a session whose own number is its account's, for
\* the account there was or with no lookup under way.
LEMMA SetSessionKeeps ==
  ASSUME IInv, UNCHANGED <<collection, waf, lookup>>,
         NEW s \in Session, SetSession(s), Suffices(s.web),
         s.number # None => s.number = s.account,
         \/ s.account = Of(session)
         \/ lookup.pc = "idle" /\ (s.number # None \/ s = Empty \/ number = None)
  PROVE  IInv'
<1>1. Preserves(s) \in Session /\ Preserves(s).account = s.account /\ Preserves(s).number = s.number
  BY DEF Preserves, Session, IInv, ClientTypeOK, Web
<1>2. Suffices(Preserves(s).web)
  BY DEF Preserves, Session, IInv
<1>3. ClientTypeOK' /\ CollectionTypeOK'
  BY <1>1 DEF IInv, ClientTypeOK, CollectionTypeOK, Open, SetSession, collection, Session
<1>4. OwnNumber'
  BY <1>1, Facts DEF IInv, ClientTypeOK, OwnNumber, SetSession, Of, Empty
<1>5. AsksForOwn'
  BY <1>1, Facts DEF IInv, ClientTypeOK, AsksForOwn, SetSession, Of
<1>6. Suffices(collected)' /\ Suffices(Web)'
  BY <1>1, <1>2 DEF IInv, Suffices, Web, SetSession, collection
<1> QED BY <1>3, <1>4, <1>5, <1>6 DEF IInv

\* The lookup sets the number of the session's account, or none.
LEMMA SetNumberKeeps ==
  ASSUME IInv, UNCHANGED <<collection, waf>>, NEW n, n = Of(session), n # None, SetNumber(n), Ends
  PROVE  IInv'
<1>1. session \in Session /\ session.account = n /\ n \in Account
  BY Facts DEF IInv, ClientTypeOK, Of, Session
<1>2. /\ session' \in Session /\ session'.account = n /\ session'.number = n
      /\ session'.web = session.web /\ number' = n
  BY <1>1, Facts DEF SetNumber, Session
<1>3. lookup' \in [pc : {"idle", "pairs", "rest"}, cached : Account \cup {None}, asked : Account \cup {None}]
      /\ lookup'.pc = "idle"
  BY DEF IInv, ClientTypeOK, Ends
<1>4. ClientTypeOK' /\ CollectionTypeOK'
  BY <1>1, <1>2, <1>3 DEF IInv, ClientTypeOK, CollectionTypeOK, Open, collection
<1>5. OwnNumber' /\ AsksForOwn'
  BY <1>2, <1>3, Facts DEF OwnNumber, AsksForOwn, Of
<1>6. Suffices(collected)' /\ Suffices(Web)'
  BY <1>1, <1>2, Facts DEF IInv, Suffices, Web, collection
<1> QED BY <1>4, <1>5, <1>6 DEF IInv

\* The other steps of a lookup change nothing but itself.
LEMMA LookupKeeps ==
  ASSUME IInv, UNCHANGED <<collection, session, waf, number>>,
         lookup' \in [pc : {"idle", "pairs", "rest"}, cached : Account \cup {None}, asked : Account \cup {None}],
         lookup'.pc = "rest" => lookup'.cached = None,
         lookup'.pc # "idle" => lookup'.asked \in {None, lookup.asked, Of(session)},
         lookup'.pc # "idle" /\ lookup.pc = "idle" => lookup'.asked = Of(session)
  PROVE  IInv'
  BY DEF IInv, ClientTypeOK, CollectionTypeOK, Open, OwnNumber, AsksForOwn, Suffices, Web, Of, collection

LEMMA ClientInductive ==
  ASSUME IInv,
         \/ UseSession \/ ClearSession \/ UseWebContext \/ SetWafToken
         \/ StartLookup \/ PairsAnswered \/ PairsUnanswered \/ RestAnswered \/ RestFails
  PROVE  IInv'
<1>1. CASE UseSession
  <2>1. PICK account \in Account, web \in {None, collected}, own \in Account \cup {None} :
          /\ own \in {None, account}
          /\ MayUse(account, own)
          /\ SetSession([account |-> account, number |-> own, web |-> web])
    BY <1>1 DEF UseSession
  <2> DEFINE s == [account |-> account, number |-> own, web |-> web]
  <2>2. s \in Session /\ Suffices(s.web) /\ s.account = account /\ s.number = own
    BY <2>1 DEF IInv, ClientTypeOK, Session, Suffices
  <2>3. s.number # None => s.number = s.account
    BY <2>1, <2>2
  <2>4. \/ s.account = Of(session)
        \/ lookup.pc = "idle" /\ (s.number # None \/ number = None)
    BY <2>1, <2>2 DEF MayUse, IInv, OwnNumber, Of, Empty
  <2>5. UNCHANGED <<collection, waf, lookup>>
    BY <1>1 DEF UseSession
  <2> HIDE DEF s
  <2> QED BY <2>1, <2>2, <2>3, <2>4, <2>5, SetSessionKeeps DEF s
<1>2. CASE ClearSession
  <2>1. Empty.number = None /\ Suffices(Empty.web) /\ Empty \in Session
    BY Facts DEF Empty, Suffices
  <2> QED BY <1>2, <2>1, SetSessionKeeps DEF ClearSession
<1>3. CASE UseWebContext
  <2> DEFINE old == IF session = None THEN Empty ELSE session
             s == [old EXCEPT !.web = Merge(old.web, collected)]
  <2>1. old \in Session /\ old.account = Of(session) /\ Suffices(old.web)
        /\ (old.number # None => old.number = old.account)
    BY Facts DEF Empty, Suffices, IInv, ClientTypeOK, OwnNumber, Of, Web
  <2>2. Merge(old.web, collected) \in WebContext /\ Suffices(Merge(old.web, collected))
    <3>1. collected \in WebContext /\ collected.token # 0 /\ collected.cookies
      BY <1>3 DEF UseWebContext, IInv, ClientTypeOK, Suffices
    <3>2. old.web # None => old.web \in WebContext
      BY <2>1 DEF Session
    <3> QED BY <3>1, <3>2 DEF Merge, Suffices, First, WebContext
  <2>3. s \in Session /\ s.account = old.account /\ s.number = old.number /\ s.web = Merge(old.web, collected)
    BY <2>1, <2>2 DEF Session
  <2>4. SetSession(s) /\ UNCHANGED <<collection, waf, lookup>>
    BY <1>3 DEF UseWebContext
  <2> HIDE DEF s, old
  <2> QED BY <2>1, <2>2, <2>3, <2>4, SetSessionKeeps
<1>4. CASE SetWafToken
  <2>1. waf' \in Token
    BY <1>4 DEF SetWafToken, WafTokens, IInv, ClientTypeOK, WebContext
  <2> QED BY <1>4, <2>1 DEF SetWafToken, IInv, ClientTypeOK, CollectionTypeOK, Open, OwnNumber, AsksForOwn,
             Suffices, Web, Of, collection
<1>5. CASE StartLookup \/ PairsUnanswered \/ RestFails
  <2>1. Known \in Account \cup {None} /\ Of(session) \in Account \cup {None}
    BY Facts DEF Known, Of, IInv, ClientTypeOK, Session
  <2>2. UNCHANGED <<collection, session, waf, number>>
    BY <1>5 DEF StartLookup, PairsUnanswered, RestFails
  <2>3. CASE StartLookup
    BY <2>1, <2>2, <2>3, LookupKeeps DEF StartLookup, IInv, ClientTypeOK
  <2>4. CASE PairsUnanswered \/ RestFails
    BY <2>1, <2>2, <2>4, LookupKeeps DEF PairsUnanswered, RestFails, Ends, IInv, ClientTypeOK
  <2> QED BY <1>5, <2>3, <2>4
<1>6. CASE PairsAnswered
  <2>1. PICK n \in {lookup.asked, Of(session)} \ {None} : SetNumber(n)
    BY <1>6 DEF PairsAnswered
  <2>2. n = Of(session)
    BY <1>6 DEF PairsAnswered, IInv, AsksForOwn
  <2> QED BY <1>6, <2>1, <2>2, SetNumberKeeps DEF PairsAnswered
<1>7. CASE RestAnswered
  BY <1>7, SetNumberKeeps DEF RestAnswered, IInv, AsksForOwn
<1> QED BY <1>1, <1>2, <1>3, <1>4, <1>5, <1>6, <1>7

LEMMA Invariant == Spec => []IInv
<1>1. IInv /\ [Next]_vars => IInv'
  <2> SUFFICES ASSUME IInv, [Next]_vars PROVE IInv'
    OBVIOUS
  <2>1. CASE Next
    BY <2>1, CollectionInductive, ClientInductive DEF Next
  <2>2. CASE UNCHANGED vars
    BY <2>2 DEF vars, collection, client, IInv, ClientTypeOK, CollectionTypeOK, Open, OwnNumber, AsksForOwn,
       Suffices, Web, Of
  <2> QED BY <2>1, <2>2
<1> QED BY <1>1, Initial, PTL DEF Spec

-----------------------------------------------------------------------------
(***************************************************************************)
(* The theorems of what identifies a client.                               *)
(***************************************************************************)

\* What is collected for a client, its session, its token and its lookup keep
\* their types; a collection that ends leaves its browser context closed.
THEOREM ContextTypeCorrect == Spec => []TypeOK
<1>1. IInv => TypeOK
  BY DEF IInv, TypeOK
<1> QED BY <1>1, Invariant, PTL

\* The account number is that of the session's account: setSession drops the one
\* of an account that was cleared, and resolveSecuritiesAccountNumber brings back
\* no other.
THEOREM NumberOfAccountAlways == Spec => []NumberOfAccount
<1>1. IInv => NumberOfAccount
  BY DEF IInv, OwnNumber, NumberOfAccount, Known, Of
<1> QED BY <1>1, Invariant, PTL

\* A client that was ever given a collected context sends a token and cookies,
\* through every merge of contexts and every setSession.
THEOREM ContextSufficesAlways == Spec => []ContextSuffices
<1>1. IInv => ContextSuffices
  BY DEF IInv, Suffices, ContextSuffices, SentHeader, SendsCookies, ContextHeader, First
<1> QED BY <1>1, Invariant, PTL

\* README.md:464-473: the token that waf.setToken() was given is the one that
\* the header and the cookie of every request carry, whatever contexts the
\* session was merged from: HttpClient.headers() prefers it to both.
THEOREM SharedTokenUsedAlways == Spec => []SharedTokenUsed
<1>1. IInv => SharedTokenUsed
  BY DEF SharedTokenUsed, SentHeader, SentCookie, ContextHeader, First
<1> QED BY <1>1, Invariant, PTL

-----------------------------------------------------------------------------
\* How many awaits a collection can take once its deadline passed: a settling
\* time not yet waited for is one more round.
AwaitsAhead ==
  [loading |-> 3, waiting |-> 3, cookies |-> 2, storage |-> 1, closed |-> 0][collector.pc]
    + (IF collector.settle THEN 3 ELSE 0)

\* After its deadline every await of collectTradeRepublicWebContext that returns
\* brings its end nearer, which six of them reach, whatever the page requests,
\* sets and stores meanwhile.
THEOREM CollectionWindsUp ==
  Spec => [][Open /\ collector.late
               => /\ Open' => collector'.late
                  /\ AwaitsAhead' <= AwaitsAhead
                  /\ Collects => AwaitsAhead' < AwaitsAhead]_vars
<1> DEFINE WindsUp == /\ Open' => collector'.late
                      /\ AwaitsAhead' <= AwaitsAhead
                      /\ Collects => AwaitsAhead' < AwaitsAhead
<1>1. IInv /\ [Next]_vars => [Open /\ collector.late => WindsUp]_vars
  <2> SUFFICES ASSUME IInv, Next, Open, collector.late PROVE WindsUp
    BY DEF vars
  <2>1. /\ collector \in [pc : {"closed", "loading", "cookies", "storage", "waiting"},
                          settle : BOOLEAN, late : BOOLEAN, cookie : Token, cookies : BOOLEAN]
        /\ AwaitsAhead \in Nat /\ AwaitsAhead > 0
    BY DEF IInv, CollectionTypeOK, Open, AwaitsAhead
  <2>2. CASE UNCHANGED collector /\ ~Collects
    BY <2>1, <2>2 DEF AwaitsAhead
  <2>3. CASE collector' = Closed
    BY <2>1, <2>3 DEF Closed, Open, AwaitsAhead
  <2>4. CASE PageLoads \/ WaitEnds \/ ReadCookies
    <3>1. /\ collector'.late /\ collector'.settle = collector.settle
          /\ \/ collector.pc \in {"loading", "waiting"} /\ collector'.pc = "cookies"
             \/ collector.pc = "cookies" /\ collector'.pc = "storage"
      BY <2>1, <2>4 DEF PageLoads, WaitEnds, ReadCookies
    <3> QED BY <3>1 DEF AwaitsAhead
  <2>5. CASE ReadStorage
    <3>1. collector' = Closed \/ (collector.settle /\ collector' = [collector EXCEPT !.pc = "waiting", !.settle = FALSE])
      BY <2>5 DEF ReadStorage, KeepsWaiting, Closes
    <3>2. collector.pc = "storage"
      BY <2>5 DEF ReadStorage
    <3>3. CASE collector.settle /\ collector' = [collector EXCEPT !.pc = "waiting", !.settle = FALSE]
      BY <2>1, <3>2, <3>3 DEF AwaitsAhead
    <3> QED BY <2>3, <3>1, <3>3
  <2>6. UNCHANGED collector \/ collector' = Closed \/ Collects
    BY DEF Next, SiteSetsCookies, SiteIssues, CaptureRequest, StartCollection, CollectionFails,
       DeadlinePasses, UseSession, ClearSession, UseWebContext, SetWafToken, StartLookup,
       PairsAnswered, PairsUnanswered, RestAnswered, RestFails, Closes, collection
  <2> QED BY <2>2, <2>3, <2>4, <2>5, <2>6 DEF Collects
<1> QED BY <1>1, Invariant, PTL DEF Spec

-----------------------------------------------------------------------------
(***************************************************************************)
(* Candle downloads.                                                       *)
(***************************************************************************)
\* Every set of naturals has a least element: what takes the place of
\* induction in this module.
LEMMA LeastNumber ==
  ASSUME NEW T \in SUBSET Nat, T # {}
  PROVE  \E n \in T : \A m \in T : n <= m
<1>1. PICK n \in T : \A m \in T : ~ (<<m, n>> \in OpToRel(<, Nat))
  BY WFMin, NatLessThanWellFounded
<1>2. \A m \in T : ~ m < n
  BY <1>1 DEF OpToRel
<1> QED BY <1>2

LEMMA GreatestIndex ==
  ASSUME NEW n \in Nat, NEW S \in SUBSET (1..n), S # {}
  PROVE  Max(S) \in S /\ \A i \in S : i <= Max(S)
<1> DEFINE T == {n - i : i \in S}
<1>1. T \in SUBSET Nat /\ T # {}
  <2>1. \A i \in S : n - i \in Nat
    OBVIOUS
  <2> QED BY <2>1
<1>2. PICK m \in T : \A k \in T : m <= k
  BY <1>1, LeastNumber
<1>3. PICK x \in S : m = n - x
  OBVIOUS
<1>4. ASSUME NEW i \in S PROVE x >= i
  <2>1. n - i \in T
    OBVIOUS
  <2>2. n - x <= n - i
    BY <1>2, <1>3, <2>1
  <2> QED BY <2>2
<1> QED BY <1>4 DEF Max

LEMMA LesserOfTwo ==
  ASSUME NEW a \in Int, NEW b \in Int
  PROVE  Min({a, b}) = IF a <= b THEN a ELSE b
<1> DEFINE m == IF a <= b THEN a ELSE b
<1>1. m \in {a, b} /\ \A y \in {a, b} : m <= y
  OBVIOUS
<1>2. \A x \in {a, b} : (\A y \in {a, b} : x <= y) => x = m
  OBVIOUS
<1> QED BY <1>1, <1>2 DEF Min

\* An answer in order: every candle of it, and nothing else.
LEMMA AscendingLists ==
  ASSUME NEW S, IsFiniteSet(S), \A c \in S : c.time \in Int,
         \A c, d \in S : c.time = d.time => c = d
  PROVE  /\ Ascending(S) \in Seq(S)
         /\ \A c \in S : \E i \in DOMAIN Ascending(S) : Ascending(S)[i] = c
<1> DEFINE n == Cardinality(S)
           Upto(c) == {d \in S : d.time <= c.time}
           rank == [c \in S |-> Cardinality(Upto(c))]
<1>1. n \in Nat
  BY FS_CardinalityType
<1>2. \A c \in S : IsFiniteSet(Upto(c)) /\ rank[c] \in 1..n
  <2> TAKE c \in S
  <2>1. Upto(c) \in SUBSET S /\ Upto(c) # {}
    OBVIOUS
  <2>2. IsFiniteSet(Upto(c)) /\ Cardinality(Upto(c)) <= n
    BY <2>1, FS_Subset
  <2>3. Cardinality(Upto(c)) \in Nat /\ Cardinality(Upto(c)) # 0
    BY <2>1, <2>2, FS_CardinalityType, FS_EmptySet
  <2> HIDE DEF Upto
  <2> QED BY <1>1, <2>2, <2>3
<1>3. \A c, d \in S : rank[c] = rank[d] => c = d
  <2> SUFFICES ASSUME NEW c \in S, NEW d \in S, c.time < d.time PROVE rank[c] # rank[d]
    OBVIOUS
  <2>1. Upto(c) \in SUBSET Upto(d) /\ Upto(c) # Upto(d)
    OBVIOUS
  <2>2. Cardinality(Upto(c)) # Cardinality(Upto(d))
    BY <1>2, <2>1, FS_Subset
  <2> QED BY <2>2
<1>4. rank \in Injection(S, 1..n)
  BY <1>2, <1>3 DEF Injection, IsInjective
<1>5. IsFiniteSet(1..n) /\ Cardinality(1..n) = n
  BY <1>1, FS_Interval
<1>6. rank \in Surjection(S, 1..n)
  BY <1>4, <1>5, FS_Injection
<1>7. \A i \in 1..n : \E c \in S : rank[c] = i
  BY <1>6 DEF Surjection
<1>8. \A i \in 1..n : Ascending(S)[i] \in S /\ rank[Ascending(S)[i]] = i
  BY <1>7 DEF Ascending
<1>9. Ascending(S) \in [1..n -> S]
  BY <1>8 DEF Ascending
<1>10. Ascending(S) \in Seq(S)
  BY <1>1, <1>9
<1>11. ASSUME NEW c \in S PROVE \E i \in DOMAIN Ascending(S) : Ascending(S)[i] = c
  <2>1. rank[c] \in 1..n
    BY <1>2
  <2>2. Ascending(S)[rank[c]] = c
    BY <1>3, <1>8, <2>1
  <2> QED BY <1>9, <2>1, <2>2
<1> QED BY <1>10, <1>11

Candle == [time : Nat, days : SUBSET Nat]
Times(list) == {list[i].time : i \in DOMAIN list}

\* What is known of a growing list: a later candle of a time has the days of
\* the earlier ones.
Grows(list) ==
  \A i, j \in DOMAIN list : i <= j /\ list[i].time = list[j].time => list[i].days \subseteq list[j].days

LEMMA DedupeKeepsNewest ==
  ASSUME NEW list \in Seq(Candle), Grows(list)
  PROVE  /\ DOMAIN Dedupe(list) = Times(list)
         /\ \A i \in DOMAIN list : list[i].days \subseteq Dedupe(list)[list[i].time]
<1> DEFINE Same(t) == {i \in DOMAIN list : list[i].time = t}
<1>1. Len(list) \in Nat /\ DOMAIN list = 1..Len(list)
  OBVIOUS
<1>2. ASSUME NEW i \in DOMAIN list
      PROVE  list[i].days \subseteq Dedupe(list)[list[i].time]
  <2> DEFINE t == list[i].time
             last == Max(Same(t))
  <2>1. Same(t) \in SUBSET (1..Len(list)) /\ Same(t) # {} /\ i \in Same(t)
    BY <1>1
  <2>2. last \in Same(t) /\ i <= last
    BY <1>1, <2>1, GreatestIndex
  <2>3. list[i].days \subseteq list[last].days
    BY <2>2 DEF Grows
  <2>4. Dedupe(list)[t] = list[last].days
    BY DEF Dedupe
  <2> QED BY <2>3, <2>4
<1>3. DOMAIN Dedupe(list) = Times(list)
  BY DEF Dedupe, Times
<1> QED BY <1>2, <1>3

-----------------------------------------------------------------------------
Length == Resolution(options.timeframe)

LEMMA LengthType == ASSUME options \in Options PROVE Length \in Nat \ {0}
BY DateAssumption DEF Length, Resolution, Options

LEMMA ExistsLater ==
  ASSUME NEW d \in Nat, NEW e \in Nat, d <= e, NEW t, Exists(t, d)
  PROVE  Exists(t, e)
BY DEF Exists

LEMMA CandleDays ==
  ASSUME options \in Options, now \in Nat, NEW t \in Nat
  PROVE  /\ CandleAt(t, Length) \in Candle /\ CandleAt(t, Length).time = t
         /\ CandleAt(t, Length).days = {d \in t .. t + Length - 1 : d <= now}
<1>1. Length \in Nat \ {0}
  BY LengthType
<1>2. Min({t + Length - 1, now}) = IF t + Length - 1 <= now THEN t + Length - 1 ELSE now
  BY <1>1, LesserOfTwo
<1>3. t .. Min({t + Length - 1, now}) = {d \in t .. t + Length - 1 : d <= now}
  BY <1>1, <1>2
<1>4. CandleAt(t, Length) = [time |-> t, days |-> {d \in t .. t + Length - 1 : d <= now}]
  BY <1>3 DEF CandleAt
<1>5. {d \in t .. t + Length - 1 : d <= now} \in SUBSET Nat
  BY <1>1
<1> HIDE DEF Length
<1> QED BY <1>4, <1>5 DEF Candle

\* What one answered request of a mapper resource holds, whatever the last
\* candle of it is.
LEMMA AnswerHolds ==
  ASSUME options \in Options, options.source # "bond", now \in Nat,
         NEW span, NEW answer \in Answers(span)
  PROVE  /\ IsFiniteSet(answer) /\ answer \subseteq Candle
         /\ \A c \in answer : Exists(c.time, now) /\ c = CandleAt(c.time, Length)
         /\ span.from \in Nat /\ span.to \in Nat =>
              /\ \A c \in answer : c.time \in span.from .. span.to
              /\ \A t \in span.from .. span.to - 1 :
                   Exists(t, now) => \E c \in answer : c.time = t
<1> DEFINE from == StandardFrom(span)
           until == IF span.to = Undefined THEN now ELSE span.to
<1>1. PICK last \in {until, until - 1} :
        answer = {CandleAt(t, Length) : t \in {u \in from .. last : Exists(u, now)}}
  BY DEF Answers, Between, Length
<1> DEFINE listed == {u \in from .. last : Exists(u, now)}
<1>2. listed \in SUBSET (0..now)
  BY DEF Exists
<1>3. IsFiniteSet(listed)
  <2>1. IsFiniteSet(0..now)
    BY FS_Interval
  <2> QED BY <1>2, <2>1, FS_Subset
<1>4. IsFiniteSet(answer)
  <2> DEFINE f == [t \in listed |-> CandleAt(t, Length)]
  <2>1. f \in Surjection(listed, answer)
    BY <1>1 DEF Surjection
  <2> QED BY <1>3, <2>1, FS_Surjection
<1>5. \A t \in listed : CandleAt(t, Length) \in Candle /\ CandleAt(t, Length).time = t
  BY <1>2, CandleDays
<1>6. ASSUME span.from \in Nat, span.to \in Nat
      PROVE  /\ \A c \in answer : c.time \in span.from .. span.to
             /\ \A t \in span.from .. span.to - 1 :
                   Exists(t, now) => \E c \in answer : c.time = t
  <2>1. from = span.from /\ until = span.to
    BY <1>6, UndefinedAssumption DEF StandardFrom
  <2>2. span.from .. span.to - 1 \subseteq from .. last /\ from .. last \subseteq span.from .. span.to
    BY <1>6, <2>1
  <2> QED BY <1>1, <1>5, <2>2
<1> QED BY <1>1, <1>4, <1>5, <1>6

-----------------------------------------------------------------------------
CandlesTypeOK ==
  /\ options \in Options /\ now \in Day /\ firstDay \in 0..now /\ cursor \in Nat
  /\ pc \in {"starting", "resolving", "asking", "returned", "failed"}

Dated == options.from # Undefined /\ options.to # Undefined
FromMapper == options.source # "bond"

\* What a download asks for next.
PageAhead ==
  /\ pc = "starting" => candles = <<>>
  /\ pc \in {"resolving", "asking"} =>
       IF options.to = Undefined THEN candles = <<>>
       ELSE /\ Dated /\ cursor < options.to
            /\ page = [from |-> cursor, to |-> PageEnd(cursor)]
  /\ pc = "returned" =>
       /\ result = Dedupe(candles)
       /\ options.to # Undefined => Dated /\ options.to <= cursor

Genuine(list) ==
  /\ list \in Seq(Candle) /\ Grows(list)
  /\ \A i \in DOMAIN list :
       Exists(list[i].time, now) /\ list[i].days \subseteq CandleAt(list[i].time, Length).days

\* The candles up to a day, and none behind it.
Covers(list, day) ==
  /\ options.from <= day
  /\ \A t \in Times(list) : t \in options.from .. day /\ t <= options.to
  /\ \A t \in options.from .. day - 1 : Exists(t, firstDay) => t \in Times(list)

CandlesInv ==
  /\ CandlesTypeOK /\ PageAhead
  /\ FromMapper => Genuine(candles)
  /\ FromMapper /\ Dated /\ pc # "starting" => Covers(candles, cursor)

LEMMA NothingYet == Genuine(<<>>) /\ (Dated /\ options \in Options => Covers(<<>>, options.from))
<1>1. <<>> \in Seq(Candle) /\ DOMAIN <<>> = {} /\ Times(<<>>) = {}
  BY DEF Times
<1>2. Genuine(<<>>)
  BY <1>1 DEF Genuine, Grows
<1>3. ASSUME Dated, options \in Options PROVE Covers(<<>>, options.from)
  BY <1>1, <1>3, UndefinedAssumption, DateAssumption DEF Covers, Dated, Options, Day
<1> QED BY <1>2, <1>3

\* An answer of now behind the candles so far.
LEMMA AnswerAppended ==
  ASSUME options \in Options, FromMapper, now \in Nat, Genuine(candles),
         NEW span, NEW answer \in Answers(span)
  PROVE  LET list == candles \o Ascending(answer)
         IN  Genuine(list) /\ Times(list) = Times(candles) \union {c.time : c \in answer}
<1> DEFINE new == Ascending(answer)
           list == candles \o new
<1>1. /\ IsFiniteSet(answer) /\ answer \subseteq Candle
      /\ \A c \in answer : Exists(c.time, now) /\ c = CandleAt(c.time, Length)
  BY AnswerHolds DEF FromMapper
<1>2. /\ new \in Seq(answer)
      /\ \A c \in answer : \E i \in DOMAIN new : new[i] = c
  <2>1. \A c \in answer : c.time \in Int
    BY <1>1 DEF Candle
  <2>2. \A c, d \in answer : c.time = d.time => c = d
    BY <1>1
  <2> QED BY <1>1, <2>1, <2>2, AscendingLists
<1>3. candles \in Seq(Candle) /\ new \in Seq(Candle)
  BY <1>1, <1>2 DEF Genuine
<1> HIDE DEF new
<1>4. /\ list \in Seq(Candle) /\ DOMAIN list = 1 .. Len(candles) + Len(new)
      /\ Len(candles) \in Nat /\ Len(new) \in Nat
      /\ DOMAIN candles = 1 .. Len(candles) /\ DOMAIN new = 1 .. Len(new)
  BY <1>3
<1>5. \A i \in DOMAIN list :
        \/ i \in DOMAIN candles /\ list[i] = candles[i]
        \/ i - Len(candles) \in DOMAIN new /\ list[i] = new[i - Len(candles)]
           /\ i > Len(candles) /\ list[i] \in answer
  BY <1>2, <1>3, <1>4
<1>6. \A i \in DOMAIN list :
        /\ Exists(list[i].time, now)
        /\ list[i].days \subseteq CandleAt(list[i].time, Length).days
  <2> TAKE i \in DOMAIN list
  <2>1. CASE i \in DOMAIN candles /\ list[i] = candles[i]
    BY <2>1 DEF Genuine
  <2>2. CASE list[i] \in answer
    BY <2>2, <1>1
  <2> QED BY <1>5, <2>1, <2>2
<1>7. Grows(list)
  <2> SUFFICES ASSUME NEW i \in DOMAIN list, NEW j \in DOMAIN list, i <= j,
                      list[i].time = list[j].time
               PROVE  list[i].days \subseteq list[j].days
    BY DEF Grows
  <2>1. CASE list[j] \in answer
    <3>1. list[j].days = CandleAt(list[i].time, Length).days
      BY <1>1, <2>1
    <3> QED BY <1>6, <3>1
  <2>2. CASE j \in DOMAIN candles /\ list[j] = candles[j]
    <3>1. i \in DOMAIN candles /\ list[i] = candles[i]
      BY <1>3, <1>4, <2>2
    <3> QED BY <2>2, <3>1 DEF Genuine, Grows
  <2> QED BY <1>5, <2>1, <2>2
<1>8. Times(list) = Times(candles) \union {c.time : c \in answer}
  <2>1. Times(list) \subseteq Times(candles) \union {c.time : c \in answer}
    BY <1>5 DEF Times
  <2>2. Times(candles) \subseteq Times(list)
    <3>1. \A i \in DOMAIN candles : i \in DOMAIN list /\ list[i] = candles[i]
      BY <1>3, <1>4
    <3> QED BY <3>1 DEF Times
  <2>3. {c.time : c \in answer} \subseteq Times(list)
    <3>1. \A i \in DOMAIN new : i + Len(candles) \in DOMAIN list /\ list[i + Len(candles)] = new[i]
      BY <1>3, <1>4
    <3> SUFFICES ASSUME NEW c \in answer PROVE c.time \in Times(list)
      OBVIOUS
    <3>2. PICK i \in DOMAIN new : new[i] = c
      BY <1>2
    <3> QED BY <3>1, <3>2 DEF Times
  <2> QED BY <2>1, <2>2, <2>3
<1> QED BY <1>4, <1>6, <1>7, <1>8 DEF Genuine, new

\* What is genuine remains so when days pass.
LEMMA GenuineLater ==
  ASSUME options \in Options, options' = options, now \in Nat, now' \in Nat, now <= now',
         NEW list, Genuine(list), candles' = list
  PROVE  Genuine(candles)'
<1>1. \A t \in Nat : /\ Exists(t, now) => Exists(t, now)'
                     /\ CandleAt(t, Length).days \subseteq (CandleAt(t, Length).days)'
  <2> TAKE t \in Nat
  <2>1. Exists(t, now) => Exists(t, now)'
    BY DEF Exists
  <2>2. CandleAt(t, Length).days = {d \in t .. t + Length - 1 : d <= now}
    BY CandleDays
  <2>3. Length' = Length /\ Length \in Nat
    BY LengthType DEF Length
  <2>4. Min({t + Length - 1, now'}) = IF t + Length - 1 <= now' THEN t + Length - 1 ELSE now'
    BY <2>3, LesserOfTwo
  <2>5. (CandleAt(t, Length).days)' = t .. Min({t + Length - 1, now'})
    BY <2>3 DEF CandleAt
  <2>6. CandleAt(t, Length).days \subseteq (CandleAt(t, Length).days)'
    <3> HIDE DEF Length
    <3> QED BY <2>2, <2>3, <2>4, <2>5
  <2> QED BY <2>1, <2>6
<1>2. \A i \in DOMAIN list : list[i].time \in Nat
  <2>1. list \in [1..Len(list) -> Candle]
    BY DEF Genuine
  <2> QED BY <2>1 DEF Candle
<1>3. \A i \in DOMAIN list :
        /\ Exists(list[i].time, now)'
        /\ list[i].days \subseteq (CandleAt(list[i].time, Length).days)'
  BY <1>1, <1>2 DEF Genuine
<1> QED BY <1>3 DEF Genuine

LEMMA PageEndIsDate ==
  ASSUME options \in Options, Dated, NEW at \in Nat, at < options.to
  PROVE  PageEnd(at) \in Nat /\ at < PageEnd(at) /\ PageEnd(at) <= options.to
<1>1. Length \in Nat \ {0} /\ options.limit \in Nat \ {0} /\ options.to \in Nat
  BY LengthType, DateAssumption DEF Options, Dated, Day
<1>2. options.limit * Length \in Nat \ {0}
  BY <1>1
<1>3. PageEnd(at) = Min({at + options.limit * Length, options.to})
  BY DEF PageEnd, Length
<1> HIDE DEF Length
<1> QED BY <1>1, <1>2, <1>3, LesserOfTwo

\* The head of the loop keeps what the pages so far have shown.
LEMMA NextPageKeeps ==
  ASSUME CandlesTypeOK, Dated, NEW at \in Nat, NEW list, NextPage(at, list), candles' = list,
         FromMapper => Genuine(list) /\ Covers(list, at),
         UNCHANGED <<options, now, firstDay>>
  PROVE  CandlesInv'
<1>1. options \in Options /\ options' = options /\ now \in Nat /\ now' = now /\ firstDay' = firstDay
  BY DateAssumption DEF CandlesTypeOK, Day
<1>2. cursor' = at
  BY DEF NextPage
<1>3. FromMapper' => Genuine(candles)'
  BY <1>1, GenuineLater DEF FromMapper
<1>4. FromMapper' => Covers(candles, cursor)'
  BY <1>1, <1>2 DEF FromMapper, Covers, Exists, Times
<1>5. CASE at < options.to
  <2>1. FetchPage([from |-> at, to |-> PageEnd(at)])
    BY <1>5 DEF NextPage
  <2>2. /\ pc' \in {"resolving", "asking", "failed"}
        /\ pc' # "failed" => page' = [from |-> at, to |-> PageEnd(at)]
    BY <2>1 DEF FetchPage, Request
  <2>3. PageEnd(at) = PageEnd(cursor)'
    BY <1>1, <1>2 DEF PageEnd
  <2>4. PageAhead'
    BY <1>1, <1>2, <1>5, <2>2, <2>3 DEF PageAhead, Dated
  <2>5. CandlesTypeOK'
    BY <1>1, <1>2, <2>2 DEF CandlesTypeOK
  <2> QED BY <1>3, <1>4, <2>4, <2>5 DEF CandlesInv
<1>6. CASE ~(at < options.to)
  <2>1. pc' = "returned" /\ result' = Dedupe(list)
    BY <1>6 DEF NextPage, Returns
  <2>2. options.to <= at
    BY <1>1, <1>6 DEF Dated, Options, Day
  <2>3. Dedupe(list) = Dedupe(candles)'
    BY DEF Dedupe
  <2>4. PageAhead'
    BY <1>1, <1>2, <2>1, <2>2, <2>3 DEF PageAhead, Dated
  <2>5. CandlesTypeOK'
    BY <1>1, <1>2, <2>1 DEF CandlesTypeOK
  <2> QED BY <1>3, <1>4, <2>4, <2>5 DEF CandlesInv
<1> QED BY <1>5, <1>6

LEMMA CandlesInitially == CandlesInit => CandlesInv
<1> SUFFICES ASSUME CandlesInit PROVE CandlesInv
  OBVIOUS
<1>1. CandlesTypeOK /\ PageAhead /\ pc = "starting" /\ candles = <<>>
  BY DateAssumption DEF CandlesInit, CandlesTypeOK, PageAhead, Day
<1> QED BY <1>1, NothingYet DEF CandlesInv

LEMMA StartKeeps == CandlesInv /\ Start => CandlesInv'
<1> SUFFICES ASSUME CandlesInv, Start PROVE CandlesInv'
  OBVIOUS
<1>1. /\ pc = "starting" /\ candles = <<>> /\ candles' = <<>>
      /\ options \in Options /\ now \in Nat /\ UNCHANGED <<options, now, firstDay>>
  BY DateAssumption DEF CandlesInv, CandlesTypeOK, PageAhead, Start, Day
<1>2. Genuine(candles)'
  BY <1>1, NothingYet, GenuineLater
<1>3. CASE options.to = Undefined
  <2>1. FetchPage([from |-> options.from, to |-> Undefined]) /\ cursor' = cursor
    BY <1>3 DEF Start
  <2>2. pc' \in {"resolving", "asking", "failed"}
    BY <2>1 DEF FetchPage, Request
  <2> QED BY <1>1, <1>2, <1>3, <2>1, <2>2 DEF CandlesInv, CandlesTypeOK, PageAhead, Dated
<1>4. CASE options.to # Undefined /\ options.from = Undefined
  <2>1. Fails
    BY <1>4 DEF Start
  <2> QED BY <1>1, <1>2, <1>4, <2>1 DEF CandlesInv, CandlesTypeOK, PageAhead, Dated, Fails
<1>5. CASE Dated
  <2>1. NextPage(options.from, <<>>)
    BY <1>5 DEF Start, Dated
  <2>2. options.from \in Nat
    BY <1>1, <1>5 DEF Dated, Options, Day
  <2> QED BY <1>1, <1>5, <2>1, <2>2, NothingYet, NextPageKeeps DEF CandlesInv
<1> QED BY <1>3, <1>4, <1>5 DEF Dated

LEMMA AnsweredKeeps == CandlesInv /\ PageAnswered => CandlesInv'
<1> SUFFICES ASSUME CandlesInv, PageAnswered PROVE CandlesInv'
  OBVIOUS
<1>1. /\ pc = "asking" /\ options \in Options /\ now \in Nat /\ cursor \in Nat
      /\ UNCHANGED <<options, now, firstDay>> /\ CandlesTypeOK
  BY DateAssumption DEF CandlesInv, CandlesTypeOK, PageAnswered, Day
<1>2. CASE ~Supported(options.source, options.timeframe)
  <2>1. Fails /\ candles' = candles
    BY <1>2 DEF PageAnswered
  <2>2. FromMapper => Genuine(candles)'
    BY <1>1, <2>1, GenuineLater DEF CandlesInv
  <2>3. FromMapper' /\ Dated' => Covers(candles, cursor)'
    BY <1>1, <2>1 DEF CandlesInv, Covers, Times, Exists, Dated, FromMapper, Fails
  <2> QED BY <1>1, <2>1, <2>2, <2>3 DEF CandlesInv, CandlesTypeOK, PageAhead, Fails, FromMapper
<1>3. CASE Supported(options.source, options.timeframe)
  <2>1. PICK answer \in Answers(page) :
          /\ candles' = candles \o Ascending(answer)
          /\ IF options.to = Undefined THEN Returns(candles') /\ UNCHANGED cursor
             ELSE NextPage(page.to, candles')
    BY <1>3 DEF PageAnswered
  <2>2. FromMapper => /\ Genuine(candles')
                      /\ Times(candles') = Times(candles) \union {c.time : c \in answer}
    BY <1>1, <2>1, AnswerAppended DEF CandlesInv
  <2>3. CASE options.to = Undefined
    <3>1. pc' = "returned" /\ result' = Dedupe(candles') /\ cursor' = cursor
      BY <2>1, <2>3 DEF Returns
    <3>2. FromMapper => Genuine(candles)'
      BY <1>1, <2>2, GenuineLater
    <3>3. PageAhead'
      BY <1>1, <2>3, <3>1 DEF PageAhead, Dedupe
    <3> QED BY <1>1, <2>3, <3>1, <3>2, <3>3 DEF CandlesInv, CandlesTypeOK, FromMapper, Dated
  <2>4. CASE options.to # Undefined
    <3>1. Dated /\ cursor < options.to /\ page = [from |-> cursor, to |-> PageEnd(cursor)]
      BY <1>1, <2>4 DEF CandlesInv, PageAhead
    <3>2. page.to \in Nat /\ cursor < page.to /\ page.to <= options.to /\ page.from = cursor
      BY <1>1, <3>1, PageEndIsDate
    <3>3. ASSUME FromMapper PROVE Covers(candles', page.to)
      <4>1. Covers(candles, cursor)
        BY <1>1, <3>1, <3>3 DEF CandlesInv
      <4>2. /\ \A c \in answer : c.time \in cursor .. page.to
            /\ \A t \in cursor .. page.to - 1 :
                 Exists(t, now) => t \in {c.time : c \in answer}
        BY <1>1, <2>1, <3>2, <3>3, AnswerHolds DEF FromMapper
      <4>3. options.from \in Nat /\ options.to \in Nat
        BY <1>1, <3>1 DEF Dated, Options, Day
      <4>4. \A t : Exists(t, firstDay) => Exists(t, now)
        BY <1>1, DateAssumption, ExistsLater DEF CandlesTypeOK, Day
      <4>5. \A t \in Times(candles') : t \in options.from .. page.to /\ t <= options.to
        BY <1>1, <2>2, <3>2, <3>3, <4>1, <4>2, <4>3 DEF Covers
      <4>6. \A t \in options.from .. page.to - 1 : Exists(t, firstDay) => t \in Times(candles')
        <5> TAKE t \in options.from .. page.to - 1
        <5>1. t \in options.from .. cursor - 1 \/ t \in cursor .. page.to - 1
          BY <1>1, <3>2, <4>3
        <5> QED BY <2>2, <3>3, <4>1, <4>2, <4>4, <5>1 DEF Covers
      <4> QED BY <1>1, <3>2, <4>1, <4>3, <4>5, <4>6 DEF Covers
    <3>4. NextPage(page.to, candles')
      BY <2>1, <2>4
    <3> QED BY <1>1, <2>2, <3>1, <3>2, <3>3, <3>4, NextPageKeeps
  <2> QED BY <2>3, <2>4
<1> QED BY <1>2, <1>3

\* The steps that bring no candles.
LEMMA QuietKeeps ==
  CandlesInv /\ (SourceResolved \/ QueryFails \/ DayPasses \/ UNCHANGED candlesVars) => CandlesInv'
<1> SUFFICES ASSUME CandlesInv,
                    SourceResolved \/ QueryFails \/ DayPasses \/ UNCHANGED candlesVars
             PROVE  CandlesInv'
  OBVIOUS
<1>1. /\ options \in Options /\ now \in Nat /\ now' \in Nat /\ now <= now' /\ cursor \in Nat
      /\ UNCHANGED <<options, firstDay, candles, cursor>> /\ now' \in Day
      /\ FromMapper' = FromMapper /\ Dated' = Dated
  BY DateAssumption
     DEF CandlesInv, CandlesTypeOK, SourceResolved, QueryFails, DayPasses, Fails, candlesVars, Day,
         FromMapper, Dated
<1>2. FromMapper' => Genuine(candles)'
  BY <1>1, GenuineLater DEF CandlesInv
<1>3. FromMapper' /\ Dated' /\ pc # "starting" => Covers(candles, cursor)'
  BY <1>1 DEF CandlesInv, Covers, Times, Exists
<1>4. /\ pc' \in {"starting", "resolving", "asking", "returned", "failed"}
      /\ pc' = "starting" => pc = "starting"
      /\ pc' \in {"resolving", "asking"} => pc \in {"resolving", "asking"} /\ page' = page
      /\ pc' = "returned" => pc = "returned" /\ result' = result
  BY DEF CandlesInv, CandlesTypeOK, SourceResolved, Request, QueryFails, DayPasses, Fails, candlesVars
<1>5. CandlesTypeOK'
  BY <1>1, <1>4, DateAssumption DEF CandlesInv, CandlesTypeOK, Day
<1>6. PageAhead'
  <2>1. PageEnd(cursor)' = PageEnd(cursor) /\ Dedupe(candles)' = Dedupe(candles)
    BY <1>1 DEF PageEnd, Dedupe
  <2> QED BY <1>1, <1>4, <2>1 DEF CandlesInv, PageAhead
<1>7. pc' # "starting" => pc # "starting"
  BY DEF SourceResolved, QueryFails, DayPasses, candlesVars
<1> QED BY <1>2, <1>3, <1>5, <1>6, <1>7 DEF CandlesInv

LEMMA CandlesInvariant == CandlesSpec => []CandlesInv
<1>1. CandlesInv /\ [CandlesNext]_candlesVars => CandlesInv'
  BY StartKeeps, AnsweredKeeps, QuietKeeps DEF CandlesNext
<1> QED BY <1>1, CandlesInitially, PTL DEF CandlesSpec

\* README.md:1384-1386: a download between two dates returns every candle of a
\* mapper resource between them that existed when it began, and each as the
\* last page that brought it has it, however many pages there are, whatever
\* the dates, the size of a page and the days that pass.
THEOREM DownloadCompleteAlways == CandlesSpec => []DownloadComplete
<1>1. CandlesInv => DownloadComplete
  <2> SUFFICES ASSUME CandlesInv, pc = "returned", FromMapper
               PROVE  NewestKept /\ (options.to # Undefined => Complete)
    BY DEF DownloadComplete, FromMapper
  <2>1. result = Dedupe(candles) /\ Genuine(candles) /\ CandlesTypeOK
    BY DEF CandlesInv, PageAhead
  <2>2. /\ DOMAIN result = Times(candles)
        /\ \A i \in DOMAIN candles : candles[i].days \subseteq result[candles[i].time]
    BY <2>1, DedupeKeepsNewest DEF Genuine
  <2>3. ASSUME options.to # Undefined PROVE Complete
    <3>1. Dated /\ options.to <= cursor /\ Covers(candles, cursor)
      BY <2>3 DEF CandlesInv, PageAhead
    <3>2. options.from \in Nat /\ options.to \in Nat /\ cursor \in Nat
      BY <2>1, <3>1 DEF CandlesTypeOK, Options, Dated, Day
    <3>3. \A t \in Times(candles) : Exists(t, now)
      BY <2>1 DEF Genuine, Times
    <3>4. ASSUME NEW t \in Day, t \in options.from .. (options.to - 1), Exists(t, firstDay)
          PROVE  t \in Times(candles)
      BY <3>1, <3>2, <3>4 DEF Covers
    <3>5. ASSUME NEW t \in Times(candles) PROVE t \in options.from .. options.to /\ Exists(t, now)
      BY <3>1, <3>2, <3>3 DEF Covers
    <3> QED BY <2>2, <3>4, <3>5 DEF Complete
  <2> QED BY <2>2, <2>3 DEF NewestKept
<1> QED BY <1>1, CandlesInvariant, PTL

-----------------------------------------------------------------------------
(***************************************************************************)
(* The laws of Numerals.                                                   *)
(***************************************************************************)
(***************************************************************************)
(* Recursive functions of an index exist, and are what their equations say.*)
(***************************************************************************)
\* The values of Horner() along a sequence of n numbers.
Along(base, numbers, n, value) ==
  /\ value \in [0 .. n -> Int] /\ value[0] = 0
  /\ \A i \in 1 .. n : value[i] = base * value[i - 1] + numbers[i]

LEMMA AlongExists ==
  ASSUME NEW base \in Int, NEW n \in Nat, NEW numbers \in [1 .. n -> Int]
  PROVE  \E value : Along(base, numbers, n, value)
<1> DEFINE Good(m) == \E value : Along(base, numbers, m, value)
           T == {m \in 0 .. n : ~Good(m)}
<1>1. CASE T = {}
  <2>1. n \in 0 .. n
    OBVIOUS
  <2> QED BY <1>1, <2>1
<1>2. CASE T # {}
  <2> T \in SUBSET Nat
    OBVIOUS
  <2>1. PICK m \in T : \A k \in T : m <= k
    <3> HIDE DEF T
    <3> QED BY <1>2, LeastNumber
  <2>2. m # 0
    <3>1. Along(base, numbers, 0, [i \in 0 .. 0 |-> 0])
      BY DEF Along
    <3> QED BY <2>1, <3>1
  <2>3. m - 1 \in 0 .. n /\ m - 1 \notin T
    BY <2>1, <2>2
  <2>4. PICK value : Along(base, numbers, m - 1, value)
    BY <2>3
  <2> DEFINE next == base * value[m - 1] + numbers[m]
             longer == [i \in 0 .. m |-> IF i = m THEN next ELSE value[i]]
  <2>5. next \in Int
    BY <2>1, <2>2, <2>4 DEF Along
  <2> HIDE DEF next
  <2>6. longer \in [0 .. m -> Int] /\ longer[0] = 0
    BY <2>1, <2>2, <2>4, <2>5 DEF Along
  <2>7. \A i \in 1 .. m : longer[i] = base * longer[i - 1] + numbers[i]
    <3> TAKE i \in 1 .. m
    <3>1. CASE i = m
      BY <2>1, <2>2, <3>1 DEF next
    <3>2. CASE i # m
      <4>1. i \in 1 .. m - 1 /\ i - 1 # m /\ i \in 0 .. m /\ i - 1 \in 0 .. m
        BY <2>1, <3>2
      <4> QED BY <4>1, <2>4, <3>2 DEF Along
    <3> QED BY <3>1, <3>2
  <2>8. Along(base, numbers, m, longer)
    BY <2>6, <2>7 DEF Along
  <2> QED BY <2>1, <2>8
<1> QED BY <1>1, <1>2

LEMMA HornerIs ==
  ASSUME NEW base \in Int, NEW n \in Nat, NEW numbers \in [1 .. n -> Int],
         NEW value, Along(base, numbers, n, value)
  PROVE  Horner(base, numbers) = value[n]
<1> DEFINE Eq(v) == v = [i \in 0 .. n |-> IF i = 0 THEN 0 ELSE base * v[i - 1] + numbers[i]]
           chosen == CHOOSE v : Eq(v)
<1>1. Len(numbers) = n
  OBVIOUS
<1>2. Horner(base, numbers) = chosen[n]
  BY <1>1 DEF Horner
<1>3. Eq(value)
  BY DEF Along
<1>4. Eq(chosen)
  BY <1>3
<1> HIDE DEF chosen
<1>5. \A i \in 1 .. n : chosen[i] = base * chosen[i - 1] + numbers[i]
  BY <1>4
<1>6. chosen[0] = 0
  BY <1>4
<1> HIDE DEF Eq
<1> DEFINE T == {i \in 0 .. n : chosen[i] # value[i]}
<1>7. CASE T # {}
  <2> T \in SUBSET Nat
    OBVIOUS
  <2>1. PICK i \in T : \A k \in T : i <= k
    <3> HIDE DEF T
    <3> QED BY <1>7, LeastNumber
  <2>2. i \in 1 .. n
    BY <2>1, <1>6 DEF Along
  <2>3. chosen[i - 1] = value[i - 1]
    BY <2>1, <2>2
  <2> QED BY <2>1, <2>2, <2>3, <1>5 DEF Along
<1>8. CASE T = {}
  BY <1>2, <1>8
<1> QED BY <1>7, <1>8

LEMMA SumType ==
  ASSUME NEW n \in Nat, NEW numbers \in [1 .. n -> Int]
  PROVE  Sum(numbers) \in Int
<1>1. PICK value : Along(1, numbers, n, value)
  BY AlongExists
<1>2. Sum(numbers) = value[n]
  BY <1>1, HornerIs DEF Sum
<1> QED BY <1>1, <1>2 DEF Along

LEMMA SumAppend ==
  ASSUME NEW n \in Nat, NEW numbers \in [1 .. n + 1 -> Int]
  PROVE  Sum(numbers) = Sum([i \in 1 .. n |-> numbers[i]]) + numbers[n + 1]
<1> DEFINE shorter == [i \in 1 .. n |-> numbers[i]]
<1>1. PICK value : Along(1, numbers, n + 1, value)
  BY AlongExists
<1> DEFINE begun == [i \in 0 .. n |-> value[i]]
<1>2. shorter \in [1 .. n -> Int] /\ begun \in [0 .. n -> Int]
  BY <1>1 DEF Along
<1>3. Along(1, shorter, n, begun)
  <2>1. begun[0] = 0
    BY <1>1 DEF Along
  <2>2. \A i \in 1 .. n : begun[i] = 1 * begun[i - 1] + shorter[i]
    BY <1>1 DEF Along
  <2> QED BY <1>2, <2>1, <2>2 DEF Along
<1>4. Sum(numbers) = value[n + 1]
  BY <1>1, HornerIs DEF Sum
<1>5. Sum(shorter) = begun[n]
  <2> HIDE DEF shorter, begun
  <2> QED BY <1>2, <1>3, HornerIs DEF Sum
<1>6. value[n + 1] = value[n] + numbers[n + 1] /\ begun[n] = value[n]
  BY <1>1 DEF Along
<1> QED BY <1>4, <1>5, <1>6

LEMMA Distributes ==
  ASSUME NEW a \in Int, NEW b \in Int, NEW c \in Int
  PROVE  a * (b + c) = a * b + a * c /\ a * b \in Int /\ a * c \in Int
OBVIOUS

\* What bounds the terms bounds the sums.
LEMMA SumMonotone ==
  ASSUME NEW n \in Nat, NEW f \in [1 .. n -> Int], NEW g \in [1 .. n -> Int],
         NEW c \in Int, NEW d \in Int, \A i \in 1 .. n : c * f[i] <= d * g[i]
  PROVE  c * Sum(f) <= d * Sum(g)
<1>1. PICK u : Along(1, f, n, u)
  BY AlongExists
<1>2. PICK v : Along(1, g, n, v)
  BY AlongExists
<1>3. Sum(f) = u[n] /\ Sum(g) = v[n]
  <2>1. Sum(f) = u[n]
    BY <1>1, HornerIs DEF Sum
  <2>2. Sum(g) = v[n]
    BY <1>2, HornerIs DEF Sum
  <2> QED BY <2>1, <2>2
<1> DEFINE T == {i \in 0 .. n : ~(c * u[i] <= d * v[i])}
<1>4. CASE T # {}
  <2> T \in SUBSET Nat
    OBVIOUS
  <2>1. PICK i \in T : \A k \in T : i <= k
    <3> HIDE DEF T
    <3> QED BY <1>4, LeastNumber
  <2>2. i \in 1 .. n
    BY <2>1, <1>1, <1>2 DEF Along
  <2>3. c * u[i - 1] <= d * v[i - 1]
    BY <2>1, <2>2
  <2>4. u[i - 1] \in Int /\ v[i - 1] \in Int /\ f[i] \in Int /\ g[i] \in Int
    BY <2>2, <1>1, <1>2 DEF Along
  <2>5. u[i] = u[i - 1] + f[i] /\ v[i] = v[i - 1] + g[i]
    BY <2>2, <2>4, <1>1, <1>2 DEF Along
  <2> DEFINE cu == c * u[i - 1]
             cf == c * f[i]
             dv == d * v[i - 1]
             dg == d * g[i]
  <2>6. c * u[i] = cu + cf
    <3> DEFINE x == u[i - 1]
               y == f[i]
    <3> HIDE DEF x, y
    <3>1. c * (x + y) = c * x + c * y
      BY <2>4, Distributes DEF x, y
    <3> QED BY <2>5, <3>1, Zenon DEF x, y
  <2>7. d * v[i] = dv + dg
    <3> DEFINE x == v[i - 1]
               y == g[i]
    <3> HIDE DEF x, y
    <3>1. d * (x + y) = d * x + d * y
      BY <2>4, Distributes DEF x, y
    <3> QED BY <2>5, <3>1, Zenon DEF x, y
  <2>8. cu \in Int /\ cf \in Int /\ dv \in Int /\ dg \in Int
    BY <2>4, Distributes, Zenon
  <2>9. cu <= dv /\ cf <= dg
    BY <2>2, <2>3
  <2> HIDE DEF cu, cf, dv, dg
  <2>10. c * u[i] <= d * v[i]
    BY <2>6, <2>7, <2>8, <2>9
  <2> QED BY <2>1, <2>10
<1>5. CASE T = {}
  <2>1. n \in 0 .. n
    OBVIOUS
  <2>2. c * u[n] <= d * v[n]
    BY <1>5, <2>1
  <2> QED BY <1>3, <2>2
<1> QED BY <1>4, <1>5

LEMMA SumAlong ==
  ASSUME NEW n \in Nat, NEW numbers \in [1 .. n -> Int]
  PROVE  \E value : Along(1, numbers, n, value) /\ Sum(numbers) = value[n]
<1>1. PICK value : Along(1, numbers, n, value)
  BY AlongExists
<1>2. Sum(numbers) = value[n]
  BY <1>1, HornerIs DEF Sum
<1> QED BY <1>1, <1>2

LEMMA SumOfNothing ==
  ASSUME NEW n \in Nat, NEW numbers \in [1 .. n -> Int]
  PROVE  n = 0 => Sum(numbers) = 0
<1>1. PICK value : Along(1, numbers, n, value) /\ Sum(numbers) = value[n]
  BY SumAlong
<1> QED BY <1>1 DEF Along

-----------------------------------------------------------------------------
LEMMA PowerType ==
  ASSUME NEW base \in Nat \ {0}, NEW k \in Nat
  PROVE  Power(base, k) \in Nat \ {0} /\ Power(base, k + 1) = base * Power(base, k) /\ Power(base, 0) = 1
<1> DEFINE Eq(n, v) == v = [i \in 0 .. n |-> IF i = 0 THEN 1 ELSE base * v[i - 1]]
           Good(n) == \E v \in [0 .. n -> Nat \ {0}] : Eq(n, v)
<1>1. ASSUME NEW m \in Nat PROVE Good(m)
  <2> DEFINE T == {n \in Nat : ~Good(n)}
  <2>1. CASE T # {}
    <3>1. PICK n \in T : \A j \in T : n <= j
      BY <2>1, LeastNumber
    <3>2. n # 0
      <4> DEFINE v == [i \in 0 .. 0 |-> 1]
      <4>1. v \in [0 .. 0 -> Nat \ {0}] /\ Eq(0, v)
        OBVIOUS
      <4> QED BY <3>1, <4>1
    <3>3. PICK v \in [0 .. n - 1 -> Nat \ {0}] : Eq(n - 1, v)
      <4>1. n \in Nat /\ n - 1 \in Nat
        BY <3>1, <3>2
      <4>2. n - 1 \notin T
        <5> HIDE DEF T
        <5> QED BY <3>1, <4>1
      <4> QED BY <4>1, <4>2
    <3> DEFINE w == [i \in 0 .. n |-> IF i = n THEN base * v[n - 1] ELSE v[i]]
    <3>4. base * v[n - 1] \in Nat \ {0}
      <4>1. n - 1 \in 0 .. n - 1
        BY <3>1, <3>2
      <4>2. v[n - 1] \in Nat \ {0}
        BY <4>1
      <4> QED BY <4>2
    <3>5. w \in [0 .. n -> Nat \ {0}]
      BY <3>1, <3>3, <3>4
    <3>6. \A i \in 0 .. n : w[i] = IF i = 0 THEN 1 ELSE base * w[i - 1]
      <4> TAKE i \in 0 .. n
      <4>1. CASE i = n
        BY <3>1, <3>2, <4>1
      <4>2. CASE i # n
        <5>1. i \in 0 .. n - 1 /\ (i # 0 => i - 1 \in 0 .. n /\ i - 1 # n)
          BY <3>1, <4>2
        <5>2. v[i] = IF i = 0 THEN 1 ELSE base * v[i - 1]
          BY <3>3, <5>1
        <5> QED BY <4>2, <5>1, <5>2
      <4> QED BY <4>1, <4>2
    <3>7. Eq(n, w)
      BY <3>6
    <3> QED BY <3>1, <3>5, <3>7
  <2>2. CASE T = {}
    BY <2>2
  <2> QED BY <2>1, <2>2
<1> DEFINE chosen(n) == CHOOSE v : Eq(n, v)
<1>2. \A n \in Nat : Power(base, n) = chosen(n)[n]
  BY DEF Power
<1>3. ASSUME NEW n \in Nat, NEW v, NEW w, Eq(n, v), NEW m \in 0 .. n, Eq(m, w), NEW i \in 0 .. m
      PROVE  v[i] = w[i]
  <2> DEFINE T == {j \in 0 .. m : v[j] # w[j]}
  <2>1. v[0] = 1 /\ \A j \in 1 .. m : v[j] = base * v[j - 1]
    BY <1>3
  <2>2. w[0] = 1 /\ \A j \in 1 .. m : w[j] = base * w[j - 1]
    BY <1>3
  <2>3. CASE T # {}
    <3> T \in SUBSET Nat
      OBVIOUS
    <3>1. PICK j \in T : \A l \in T : j <= l
      <4> HIDE DEF T
      <4> QED BY <2>3, LeastNumber
    <3>2. j \in 1 .. m
      BY <3>1, <2>1, <2>2
    <3>3. v[j - 1] = w[j - 1]
      BY <3>1, <3>2
    <3> QED BY <3>1, <3>2, <3>3, <2>1, <2>2
  <2>4. CASE T = {}
    BY <2>4
  <2> QED BY <2>3, <2>4
<1> HIDE DEF Eq
<1>4. PICK v \in [0 .. k -> Nat \ {0}] : Eq(k, v)
  BY <1>1
<1>5. PICK w \in [0 .. k + 1 -> Nat \ {0}] : Eq(k + 1, w)
  <2>1. k + 1 \in Nat
    OBVIOUS
  <2> QED BY <2>1, <1>1
<1>6. PICK z \in [0 .. 0 -> Nat \ {0}] : Eq(0, z)
  BY <1>1
<1>7. Eq(k, chosen(k)) /\ Eq(k + 1, chosen(k + 1)) /\ Eq(0, chosen(0))
  BY <1>4, <1>5, <1>6
<1> HIDE DEF chosen
<1>8. chosen(k)[k] = v[k] /\ chosen(k + 1)[k + 1] = w[k + 1] /\ chosen(0)[0] = z[0] /\ w[k] = v[k]
  BY <1>3, <1>4, <1>5, <1>6, <1>7
<1>9. w[k + 1] = base * w[k] /\ z[0] = 1
  BY <1>5, <1>6 DEF Eq
<1>10. v[k] \in Nat \ {0}
  BY <1>4
<1> QED BY <1>2, <1>8, <1>9, <1>10

LEMMA PowerStep ==
  ASSUME NEW base \in Nat, base > 1, NEW k \in Nat \ {0}
  PROVE  /\ Power(base, k - 1) \in Nat \ {0} /\ Power(base, k) \in Nat \ {0}
         /\ Power(base, k) = base * Power(base, k - 1)
<1>1. k - 1 \in Nat /\ k - 1 + 1 = k /\ base \in Nat \ {0} /\ k \in Nat
  OBVIOUS
<1> QED BY <1>1, PowerType

LEMMA PowerMonotone ==
  ASSUME NEW base \in Nat \ {0}, NEW j \in Nat, NEW k \in Nat, j <= k
  PROVE  Power(base, j) <= Power(base, k)
<1> DEFINE T == {i \in Nat : i >= j /\ ~(Power(base, j) <= Power(base, i))}
<1>1. CASE T # {}
  <2> T \in SUBSET Nat
    OBVIOUS
  <2>1. PICK i \in T : \A l \in T : i <= l
    <3> HIDE DEF T
    <3> QED BY <1>1, LeastNumber
  <2>2. i # j
    BY <2>1, PowerType
  <2>3. i - 1 \in Nat /\ i - 1 >= j /\ i - 1 \notin T
    BY <2>1, <2>2
  <2>4. Power(base, j) <= Power(base, i - 1)
    BY <2>3
  <2>5. Power(base, i) = base * Power(base, i - 1) /\ Power(base, i - 1) \in Nat \ {0}
    BY <2>1, <2>3, PowerType
  <2>6. Power(base, i - 1) <= Power(base, i)
    BY <2>5
  <2> QED BY <2>1, <2>4, <2>5, <2>6, PowerType
<1>2. CASE T = {}
  BY <1>2
<1> QED BY <1>1, <1>2

LEMMA DigitCountBounds ==
  ASSUME NEW base \in Nat, base > 1, NEW limit \in Nat \ {0}, NEW n \in Nat
  PROVE  LET c == DigitCount(base, limit, n)
         IN  /\ c \in Nat \ {0}
             /\ n < limit * Power(base, c - 1)
             /\ c > 1 => n >= limit * Power(base, c - 2)
<1> DEFINE next(v, m) == IF m < limit THEN 1 ELSE 1 + v[m \div base]
           Eq(k, v) == v = [m \in 0 .. k |-> next(v, m)]
           Good(k) == \E v \in [0 .. k -> Nat \ {0}] : Eq(k, v)
<1>0. base \in Nat \ {0}
  OBVIOUS
<1>1. ASSUME NEW m \in Nat, m >= limit PROVE m \div base \in 0 .. m - 1
  <2> DEFINE q == m \div base
  <2>1. q \in Int /\ q * base <= m /\ m < q * base + base
    OBVIOUS
  <2> HIDE DEF q
  <2>2. q >= 0
    <3> SUFFICES ASSUME q <= -1 PROVE FALSE
      BY <2>1
    <3>1. q * base + base <= 0
      BY <2>1
    <3> QED BY <2>1, <3>1
  <2>3. q < m
    <3>1. CASE q = 0
      BY <3>1, <1>1
    <3>2. CASE q > 0
      <4>1. q * base >= q + q
        BY <2>1, <3>2
      <4> QED BY <2>1, <3>2, <4>1
    <3> QED BY <2>1, <2>2, <3>1, <3>2
  <2> QED BY <2>1, <2>2, <2>3 DEF q
<1>2. ASSUME NEW j \in Nat PROVE Good(j)
  <2> DEFINE T == {k \in Nat : ~Good(k)}
  <2>1. CASE T # {}
    <3> T \in SUBSET Nat
      OBVIOUS
    <3>1. PICK k \in T : \A l \in T : k <= l
      <4> HIDE DEF T
      <4> QED BY <2>1, LeastNumber
    <3>2. PICK v : /\ \A m \in 0 .. k - 1 : v[m] \in Nat \ {0} /\ v[m] = next(v, m)
      <4>1. CASE k = 0
        BY <4>1
      <4>2. CASE k # 0
        <5>1. k - 1 \in Nat /\ k - 1 \notin T
          <6>1. k \in Nat /\ k - 1 \in Nat
            BY <3>1, <4>2
          <6> HIDE DEF T
          <6> QED BY <3>1, <6>1
        <5>2. PICK v \in [0 .. k - 1 -> Nat \ {0}] : Eq(k - 1, v)
          BY <5>1
        <5>3. \A m \in 0 .. k - 1 : v[m] \in Nat \ {0} /\ v[m] = next(v, m)
          BY <5>2
        <5> QED BY <5>3
      <4> QED BY <4>1, <4>2
    <3> DEFINE w == [m \in 0 .. k |-> IF m = k THEN next(v, k) ELSE v[m]]
    <3>3. k \in Nat /\ next(v, k) \in Nat \ {0}
      <4>1. k \in Nat
        BY <3>1
      <4>2. CASE k < limit
        BY <4>1, <4>2
      <4>3. CASE ~ k < limit
        <5>0. k >= limit
          BY <4>1, <4>3
        <5>1. k \div base \in 0 .. k - 1
          BY <4>1, <5>0, <1>1
        <5>2. v[k \div base] \in Nat \ {0}
          BY <3>2, <5>1
        <5> QED BY <4>1, <4>3, <5>2
      <4> QED BY <4>1, <4>2, <4>3
    <3> DEFINE top == next(v, k)
    <3> HIDE DEF next
    <3>4. w \in [0 .. k -> Nat \ {0}]
      BY <3>2, <3>3
    <3>5. \A m \in 0 .. k : w[m] = next(v, m)
      BY <3>2, <3>3
    <3>6. \A m \in 0 .. k : next(w, m) = next(v, m)
      <4> TAKE m \in 0 .. k
      <4>1. CASE m < limit
        BY <4>1 DEF next
      <4>2. CASE ~ m < limit
        <5>0. m \in Nat /\ m >= limit
          BY <3>3, <4>2
        <5>1. m \div base \in 0 .. m - 1
          BY <5>0, <1>1
        <5>2. m \div base \in 0 .. k /\ m \div base # k
          BY <3>3, <5>1
        <5>3. w[m \div base] = v[m \div base]
          BY <5>2
        <5> QED BY <5>3 DEF next
      <4> QED BY <4>1, <4>2
    <3>7. Eq(k, w)
      BY <3>5, <3>6
    <3> QED BY <3>1, <3>4, <3>7
  <2>2. CASE T = {}
    BY <2>2
  <2> QED BY <2>1, <2>2
<1> DEFINE chosen == CHOOSE v : Eq(n, v)
<1>3. DigitCount(base, limit, n) = chosen[n]
  BY DEF DigitCount
<1>4. Eq(n, chosen)
  BY <1>2
<1> HIDE DEF chosen
<1>5. \A m \in 0 .. n : chosen[m] = next(chosen, m)
  BY <1>4
<1> DEFINE Bounded(m) ==
             /\ chosen[m] \in Nat \ {0}
             /\ m < limit * Power(base, chosen[m] - 1)
             /\ chosen[m] > 1 => m >= limit * Power(base, chosen[m] - 2)
           T == {m \in 0 .. n : ~Bounded(m)}
<1>6. CASE T # {}
  <2> T \in SUBSET Nat
    OBVIOUS
  <2>1. PICK m \in T : \A l \in T : m <= l
    <3> HIDE DEF T
    <3> QED BY <1>6, LeastNumber
  <2>2. m \in 0 .. n /\ chosen[m] = next(chosen, m)
    BY <2>1, <1>5
  <2>3. CASE m < limit
    <3>1. chosen[m] = 1
      BY <2>2, <2>3
    <3>2. Power(base, 0) = 1
      BY PowerType
    <3> QED BY <2>1, <2>2, <2>3, <3>1, <3>2
  <2>4. CASE ~ m < limit
    <3> DEFINE q == m \div base
               c == chosen[q]
    <3>1. q \in 0 .. m - 1 /\ q \in 0 .. n /\ q \notin T
      <4>1. q \in 0 .. m - 1
        BY <2>2, <2>4, <1>1
      <4> HIDE DEF q
      <4>2. q \notin T
        BY <2>1, <2>2, <4>1
      <4> QED BY <2>2, <4>1, <4>2
    <3>2. q * base <= m /\ m < q * base + base
      BY <2>2
    <3>3. chosen[m] = c + 1
      BY <2>2, <2>4, <3>1
    <3> HIDE DEF q
    <3>4. Bounded(q)
      BY <3>1
    <3>5. c \in Nat \ {0}
      BY <3>4
    <3> DEFINE P == Power(base, c - 1)
    <3>6. P \in Nat \ {0} /\ Power(base, c) = base * P /\ q < limit * P
      <4>1. c - 1 \in Nat /\ c - 1 + 1 = c
        BY <3>5
      <4>2. P \in Nat \ {0} /\ Power(base, c - 1 + 1) = base * P
        BY <1>0, <4>1, PowerType
      <4>3. q < limit * P
        BY <3>4
      <4> QED BY <4>1, <4>2, <4>3
    <3>7. m < limit * Power(base, c)
      <4> HIDE DEF P
      <4>1. limit * P \in Nat /\ q + 1 <= limit * P
        BY <3>1, <3>6
      <4> DEFINE L == limit * P
      <4> HIDE DEF L
      <4>2. (q + 1) * base <= L * base
        BY <3>1, <4>1 DEF L
      <4>3. L * base = limit * (base * P)
        BY <3>6 DEF L
      <4>4. (q + 1) * base = q * base + base
        BY <3>1
      <4> QED BY <2>2, <3>1, <3>2, <3>6, <4>2, <4>3, <4>4
    <3>8. m >= limit * P
      <4>1. CASE c = 1
        <5>1. P = 1
          BY <4>1, PowerType
        <5> QED BY <5>1, <2>2, <2>4
      <4>2. CASE c # 1
        <5> DEFINE R == Power(base, c - 2)
        <5>1. c - 2 \in Nat /\ c > 1
          BY <3>5, <4>2
        <5>2. R \in Nat \ {0} /\ P = base * R /\ q >= limit * R
          <6>1. c - 2 + 1 = c - 1
            BY <3>5
          <6>2. R \in Nat \ {0} /\ Power(base, c - 2 + 1) = base * R
            BY <1>0, <5>1, PowerType
          <6>3. q >= limit * R
            BY <3>4, <5>1
          <6> QED BY <6>1, <6>2, <6>3
        <5> HIDE DEF P, R
        <5>3. q * base >= limit * R * base
          BY <3>1, <5>2
        <5>4. limit * R * base = limit * P
          BY <5>2
        <5>5. q * base \in Int /\ limit * P \in Int /\ m \in Int
          BY <3>1, <3>6, <2>2
        <5> QED BY <3>2, <5>3, <5>4, <5>5
      <4> QED BY <4>1, <4>2
    <3>9. chosen[m] - 1 = c /\ chosen[m] - 2 = c - 1 /\ chosen[m] \in Nat \ {0}
      BY <3>3, <3>5
    <3> QED BY <2>1, <3>7, <3>8, <3>9
  <2> QED BY <2>3, <2>4
<1>7. CASE T = {}
  <2>1. n \in 0 .. n /\ Bounded(n)
    BY <1>7
  <2> QED BY <1>3, <2>1
<1> QED BY <1>6, <1>7

-----------------------------------------------------------------------------
LEMMA QuotientIs ==
  ASSUME NEW a \in Int, NEW b \in Nat \ {0}, NEW q \in Int, q * b <= a, a < q * b + b
  PROVE  a \div b = q
<1> DEFINE d == a \div b
<1>1. d \in Int /\ d * b <= a /\ a < d * b + b
  OBVIOUS
<1> HIDE DEF d
<1>2. ASSUME NEW x \in Int, NEW y \in Int, x < y PROVE x * b + b <= y * b
  <2>1. (x + 1) * b <= y * b
    BY <1>2
  <2> QED BY <2>1
<1>3. ~ d < q
  BY <1>1, <1>2
<1>4. ~ q < d
  BY <1>1, <1>2
<1> QED BY <1>1, <1>3, <1>4 DEF d

LEMMA QuotientOfQuotient ==
  ASSUME NEW n \in Int, NEW b \in Nat \ {0}, NEW base \in Nat \ {0}
  PROVE  n \div (base * b) = (n \div b) \div base
<1> DEFINE m == n \div b
           q == m \div base
<1>1. m \in Int /\ m * b <= n /\ n < m * b + b
  OBVIOUS
<1> HIDE DEF m
<1>2. q \in Int /\ q * base <= m /\ m < q * base + base
  BY <1>1
<1> HIDE DEF q
<1>3. q * (base * b) <= n
  <2>1. q * base * b <= m * b
    BY <1>1, <1>2
  <2> QED BY <1>1, <1>2, <2>1
<1>4. n < q * (base * b) + base * b
  <2>1. m + 1 <= q * base + base
    BY <1>1, <1>2
  <2>2. (m + 1) * b <= (q * base + base) * b
    BY <1>1, <1>2, <2>1
  <2>3. (m + 1) * b = m * b + b
    BY <1>1
  <2>4. (q * base + base) * b = q * (base * b) + base * b
    BY <1>2
  <2>5. (m + 1) * b \in Int /\ q * (base * b) + base * b \in Int
    BY <1>1, <1>2
  <2> QED BY <1>1, <2>2, <2>3, <2>4, <2>5
<1>5. base * b \in Nat \ {0}
  OBVIOUS
<1>6. n \div (base * b) = q
  BY <1>2, <1>3, <1>4, <1>5, QuotientIs
<1> QED BY <1>6 DEF m, q

LEMMA QuotientAndRest ==
  ASSUME NEW a \in Int, NEW b \in Nat \ {0}
  PROVE  a \div b \in Int /\ a % b \in Int /\ a = b * (a \div b) + (a % b)
OBVIOUS

\* What is written in digits reads as itself, or as its complement.
LEMMA DigitsRead ==
  ASSUME NEW base \in Nat, base > 1, NEW n \in Int, NEW count \in Nat,
         -Power(base, count) <= n, n < Power(base, count)
  PROVE  Horner(base, Digits(base, n, count)) = IF n < 0 THEN n + Power(base, count) ELSE n
<1> DEFINE digits == Digits(base, n, count)
           lost(i) == IF n < 0 THEN Power(base, i) ELSE 0
           value == [i \in 0 .. count |-> n \div Power(base, count - i) + lost(i)]
<1>0. base \in Nat \ {0}
  OBVIOUS
<1>1. ASSUME NEW i \in 0 .. count
      PROVE  /\ Power(base, count - i) \in Nat \ {0} /\ n \div Power(base, count - i) \in Int
             /\ lost(i) \in Int /\ Power(base, i) \in Nat \ {0}
  <2>1. count - i \in Nat /\ i \in Nat
    OBVIOUS
  <2>2. Power(base, count - i) \in Nat \ {0} /\ Power(base, i) \in Nat \ {0}
    BY <1>0, <2>1, PowerType
  <2>3. n \div Power(base, count - i) \in Int
    BY <2>2
  <2> QED BY <2>2, <2>3
<1>2. digits \in [1 .. count -> Int]
  <2>1. \A i \in 1 .. count : (n \div Power(base, count - i)) % base \in Int
    BY <1>1
  <2> QED BY <2>1 DEF Digits
<1>3. value \in [0 .. count -> Int]
  BY <1>1
<1>4. value[0] = 0
  <2>1. Power(base, count) \in Nat \ {0} /\ Power(base, 0) = 1 /\ count - 0 = count /\ 0 \in 0 .. count
    BY PowerType
  <2> DEFINE P == Power(base, count)
  <2>2. n \div P = IF n < 0 THEN -1 ELSE 0
    <3> HIDE DEF P
    <3>1. P \in Nat \ {0} /\ -P <= n /\ n < P
      BY <2>1 DEF P
    <3>2. CASE n < 0
      <4>1. (-1) * P <= n /\ n < (-1) * P + P
        BY <3>1, <3>2
      <4> QED BY <3>1, <3>2, <4>1, QuotientIs
    <3>3. CASE ~ n < 0
      <4>1. 0 * P <= n /\ n < 0 * P + P
        BY <3>1, <3>3
      <4> QED BY <3>1, <3>3, <4>1, QuotientIs
    <3> QED BY <3>2, <3>3
  <2>3. value[0] = n \div P + lost(0)
    BY <2>1
  <2> QED BY <2>1, <2>2, <2>3
<1>5. ASSUME NEW i \in 1 .. count PROVE value[i] = base * value[i - 1] + digits[i]
  <2> DEFINE B == Power(base, count - i)
             m == n \div B
  <2>1. i \in 0 .. count /\ i - 1 \in 0 .. count /\ count - i \in Nat /\ i - 1 \in Nat
    OBVIOUS
  <2>2. Power(base, count - (i - 1)) = base * B
    <3>1. count - (i - 1) = count - i + 1
      OBVIOUS
    <3> QED BY <2>1, <3>1, PowerType
  <2>3. lost(i) = base * lost(i - 1)
    <3>1. Power(base, i - 1 + 1) = base * Power(base, i - 1) /\ i - 1 + 1 = i
      BY <2>1, PowerType
    <3> QED BY <3>1
  <2>4. B \in Nat \ {0} /\ m \in Int /\ lost(i - 1) \in Int
    BY <1>1, <2>1
  <2>5. n \div (base * B) = m \div base
    BY <2>4, QuotientOfQuotient
  <2>6. value[i - 1] = m \div base + lost(i - 1) /\ value[i] = m + lost(i) /\ digits[i] = m % base
    BY <2>1, <2>2, <2>5 DEF Digits
  <2> HIDE DEF value, digits, m, lost
  <2>7. m = base * (m \div base) + (m % base) /\ m \div base \in Int /\ m % base \in Int
    BY <1>0, <2>4, QuotientAndRest
  <2> DEFINE q == m \div base
             l == lost(i - 1)
  <2>8. base * (q + l) = base * q + base * l
    <3>1. q \in Int /\ l \in Int
      BY <2>4, <2>7
    <3> HIDE DEF q, l
    <3> QED BY <3>1
  <2>9. base * (m \div base) \in Int /\ base * lost(i - 1) \in Int
    BY <2>4, <2>7
  <2>10. value[i] = m + base * l /\ base * value[i - 1] = base * q + base * l
    BY <2>3, <2>6, <2>8
  <2>11. digits[i] = m % base
    BY <2>6
  <2> DEFINE r == m % base
             bq == base * q
             bl == base * l
  <2>12. m = bq + r /\ bq \in Int /\ bl \in Int /\ r \in Int
    BY <2>7, <2>9
  <2>13. value[i] = m + bl /\ base * value[i - 1] = bq + bl /\ digits[i] = r
    BY <2>10, <2>11
  <2> HIDE DEF r, bq, bl
  <2>14. value[i] = (bq + bl) + r
    BY <2>12, <2>13
  <2> QED BY <2>13, <2>14
<1>6. Along(base, digits, count, value)
  BY <1>3, <1>4, <1>5 DEF Along
<1>7. Horner(base, digits) = value[count]
  <2> HIDE DEF value, digits
  <2> QED BY <1>2, <1>6, HornerIs
<1>8. value[count] = n + lost(count)
  <2>1. Power(base, count - count) = 1 /\ count \in 0 .. count
    <3>1. count - count = 0
      OBVIOUS
    <3> QED BY <3>1, PowerType
  <2>2. n \div 1 = n
    OBVIOUS
  <2> QED BY <2>1, <2>2
<1> QED BY <1>7, <1>8, PowerType

-----------------------------------------------------------------------------
(***************************************************************************)
(* Orders.                                                                 *)
(***************************************************************************)
\* The order is one that may come of the request.
Prepared == asked \in Requests /\ (order # {} => order \in Normalized(asked))

LEMMA PreparedAlways == LifeSpec => []Prepared
<1>1. LifeInit => Prepared
  BY DEF LifeInit, Prepared
<1>2. Prepared /\ [LifeNext]_lifeVars => Prepared'
  BY DEF Prepared, Prepare, Fill, End, LifeNext, lifeVars
<1> QED BY <1>1, <1>2, PTL DEF LifeSpec

LEMMA NormalizedOrder ==
  ASSUME NEW req, NEW orders \in Normalized(req), NEW o \in orders
  PROVE  \E amount \in RoundedAmounts(req) : \E size \in Sizes(req, amount) :
           Accepted(req, amount) /\ size.n > 0 /\ o = Parameters(req, amount, size) /\ orders = {o}
<1>1. PICK amount \in RoundedAmounts(req) :
        orders \in IF Accepted(req, amount)
                   THEN {IF size.n > 0 THEN {Parameters(req, amount, size)} ELSE {} : size \in Sizes(req, amount)}
                   ELSE {{}}
  BY Zenon DEF Normalized
<1>2. CASE Accepted(req, amount)
  <2>1. PICK size \in Sizes(req, amount) :
          orders = IF size.n > 0 THEN {Parameters(req, amount, size)} ELSE {}
    BY <1>1, <1>2, Zenon
  <2>2. CASE size.n > 0
    <3>1. orders = {Parameters(req, amount, size)}
      BY <2>1, <2>2
    <3>2. o = Parameters(req, amount, size) /\ orders = {o}
      BY <3>1
    <3> QED BY <1>2, <2>2, <3>2
  <2>3. CASE ~(size.n > 0)
    BY <2>1, <2>3
  <2> QED BY <2>2, <2>3
<1>3. CASE ~Accepted(req, amount)
  BY <1>1, <1>3
<1> QED BY <1>2, <1>3

LEMMA OrderNormalized ==
  ASSUME Prepared, NEW o \in order
  PROVE  \E amount \in RoundedAmounts(asked) : \E size \in Sizes(asked, amount) :
           Accepted(asked, amount) /\ size.n > 0 /\ o = Parameters(asked, amount, size)
<1>1. order \in Normalized(asked)
  BY DEF Prepared
<1>2. PICK amount \in RoundedAmounts(asked) : \E size \in Sizes(asked, amount) :
        Accepted(asked, amount) /\ size.n > 0 /\ o = Parameters(asked, amount, size) /\ order = {o}
  BY <1>1, NormalizedOrder
<1>3. PICK size \in Sizes(asked, amount) :
        Accepted(asked, amount) /\ size.n > 0 /\ o = Parameters(asked, amount, size)
  BY <1>2
<1> QED BY <1>3

-----------------------------------------------------------------------------
LEMMA PowerOfTen ==
  ASSUME NEW k \in Nat
  PROVE  Power(10, k) \in Nat \ {0} /\ Power(10, k + 1) = 10 * Power(10, k) /\ Power(10, 0) = 1
<1>1. 10 \in Nat \ {0}
  OBVIOUS
<1> QED BY <1>1, PowerType, Zenon

LEMMA Quotient ==
  ASSUME NEW a \in Int, NEW b \in Nat \ {0}
  PROVE  /\ a \div b \in Int
         /\ (a \div b) * b <= a
         /\ a < (a \div b) * b + b
OBVIOUS

LEMMA TheOption ==
  ASSUME NEW option, NEW values, Optional(option, values), option # {}
  PROVE  option = {Value(option)} /\ Value(option) \in values
BY DEF Optional, Value

\* The step of a budget is positive.
LEMMA StepType ==
  ASSUME NEW o, IsRequest(o), Usable(o), Given(o.amount), Given(SizeStep(o))
  PROVE  /\ SizeStep(o) = {Value(SizeStep(o))}
         /\ Value(SizeStep(o)) \in Decimal /\ Value(SizeStep(o)).n > 0
<1>1. CASE Given(o.step)
  BY <1>1, TheOption DEF SizeStep, IsRequest, Usable, Given
<1>2. CASE ~Given(o.step) /\ \E s \in o.instrument.stepSize : s.n > 0
  <2>1. SizeStep(o) = o.instrument.stepSize /\ Optional(o.instrument.stepSize, Decimal)
    BY <1>2 DEF SizeStep, ResolvedStep, IsRequest
  <2> QED BY <1>2, <2>1, TheOption DEF Optional
<1>3. CASE ~Given(o.step) /\ ~ \E s \in o.instrument.stepSize : s.n > 0
  <2>1. SizeStep(o) = {[n |-> 1, k |-> 6]}
    BY <1>3 DEF SizeStep, ResolvedStep, Given
  <2>2. Value(SizeStep(o)) = [n |-> 1, k |-> 6]
    BY <2>1 DEF Value
  <2> QED BY <2>1, <2>2 DEF Decimal
<1> QED BY <1>1, <1>2, <1>3

LEMMA PriceType ==
  ASSUME NEW o, IsRequest(o), Usable(o), Given(UnitPrice(o))
  PROVE  UnitPrice(o) = {Value(UnitPrice(o))} /\ Value(UnitPrice(o)) \in Nat \ {0}
<1>1. Optional(UnitPrice(o), Int) /\ Positive(UnitPrice(o))
  BY DEF UnitPrice, IsRequest, Usable
<1> QED BY <1>1, TheOption DEF Positive, Given

LEMMA RoundedAmount ==
  ASSUME NEW a \in Int, NEW below \in {0, 1}
  PROVE  /\ RoundCurrency(a, below) \in Int
         /\ 10 * RoundCurrency(a, below) - a <= 5
         /\ a - 10 * RoundCurrency(a, below) <= 5
BY DEF RoundCurrency

\* The amount an accepted request carries, in whole cents.
LEMMA CentsType ==
  ASSUME NEW o, IsRequest(o), NEW amount \in RoundedAmounts(o), Accepted(o, amount), Given(o.amount)
  PROVE  /\ amount = {Value(amount)} /\ Value(amount) \in Nat \ {0}
         /\ o.amount = {Value(o.amount)} /\ Value(o.amount) \in Int
         /\ 10 * Value(amount) - Value(o.amount) <= 5 /\ Value(o.amount) - 10 * Value(amount) <= 5
<1> DEFINE a == Value(o.amount)
<1>1. o.amount = {a} /\ a \in Int
  BY TheOption DEF IsRequest, Given
<1>2. PICK below \in {0, 1} : amount = {RoundCurrency(b, below) : b \in o.amount}
  BY DEF RoundedAmounts
<1> HIDE DEF a
<1>3. amount = {RoundCurrency(a, below)}
  BY <1>1, <1>2
<1>4. Value(amount) = RoundCurrency(a, below)
  BY <1>3 DEF Value
<1>5. Value(amount) \in Int /\ 10 * Value(amount) - a <= 5 /\ a - 10 * Value(amount) <= 5
  BY <1>1, <1>4, RoundedAmount
<1>6. Value(amount) > 0
  BY <1>3, <1>4 DEF Accepted, Positive
<1> QED BY <1>1, <1>3, <1>4, <1>5, <1>6 DEF a

\* The terms of the division in floorToStep().
LEMMA StepTerms ==
  ASSUME NEW cents \in Nat, NEW price \in Nat \ {0}, NEW step \in Decimal, step.n > 0
  PROVE  /\ step.k \in Nat /\ step.n \in Nat \ {0}
         /\ cents * Power(10, step.k) \in Nat /\ price * step.n \in Nat \ {0}
         /\ StepsPaid(cents, price, step) \in Nat
         /\ Noise(StepsPaid(cents, price, step)) \in Nat \ {0}
         /\ Errors(cents, price, step) \subseteq Int
<1>1. step.k \in Nat /\ step.n \in Nat \ {0}
  BY DEF Decimal
<1>2. Power(10, step.k) \in Nat \ {0}
  BY <1>1, PowerOfTen
<1> DEFINE b == cents * Power(10, step.k)
           p == price * step.n
<1>3. b \in Nat /\ p \in Nat \ {0}
  BY <1>1, <1>2
<1> HIDE DEF b, p
<1>4. b \div p \in Nat
  BY <1>3
<1>5. StepsPaid(cents, price, step) \in Nat
  BY <1>4 DEF StepsPaid, b, p
<1> DEFINE q == StepsPaid(cents, price, step)
<1> HIDE DEF q
<1>6. q \div Exact \in Nat
  BY <1>5, DoublesAssumption DEF DoublesAssumption, q
<1>7. Noise(q) \in Nat \ {0}
  BY <1>6 DEF Noise
<1>8. Errors(cents, price, step) \subseteq Int
  BY <1>7 DEF Errors, q
<1> QED BY <1>1, <1>3, <1>5, <1>7, <1>8 DEF b, p, q

\* A quotient by how its terms compare.
LEMMA QuotientBounds ==
  ASSUME NEW a \in Int, NEW b \in Nat \ {0}
  PROVE  /\ a \div b \in Int
         /\ a < b => a \div b <= 0
         /\ a >= 0 => a \div b >= 0
         /\ a >= -b => a \div b >= -1
<1> DEFINE d == a \div b
<1>1. d \in Int /\ d * b <= a /\ a < d * b + b
  BY Quotient
<1> HIDE DEF d
<1>2. ASSUME a < b, d > 0 PROVE FALSE
  <2>1. d * b >= b
    BY <1>1, <1>2
  <2> QED BY <1>1, <1>2, <2>1
<1>3. ASSUME a >= 0, d < 0 PROVE FALSE
  <2>1. d * b + b <= 0
    BY <1>1, <1>3
  <2> QED BY <1>1, <1>3, <2>1
<1>4. ASSUME a >= -b, d < -1 PROVE FALSE
  <2>1. (d + 1) * b <= -b
    BY <1>1, <1>4
  <2>2. (d + 1) * b = d * b + b
    BY <1>1
  <2> QED BY <1>1, <1>4, <2>1, <2>2
<1>5. (a < b => d <= 0) /\ (a >= 0 => d >= 0) /\ (a >= -b => d >= -1)
  BY <1>1, <1>2, <1>3, <1>4
<1> QED BY <1>1, <1>5 DEF d

\* The steps floorToStep() counts, next to those the budget pays for: none too
\* many while the quotients stay apart, and at most one too few.
LEMMA StepsCounted ==
  ASSUME NEW cents \in Nat, NEW price \in Nat \ {0}, NEW step \in Decimal, step.n > 0,
         NEW error \in Errors(cents, price, step)
  PROVE  LET w     == WholeSteps(cents, price, step, error)
             counted == StepsPaid(cents, price, step)
             noise == Noise(counted)
         IN  /\ w \in Int
             /\ (noise + Epsilon) * (price * step.n) < Grain => w <= counted
             /\ noise <= Epsilon => w >= counted
             /\ noise <= Grain + Epsilon => w >= counted - 1
<1> DEFINE b == cents * Power(10, step.k)
           p == price * step.n
           q == StepsPaid(cents, price, step)
           n == Noise(q)
           e == error + Epsilon
           x == (b % p) * Grain + e * p
           y == p * Grain
           d == x \div y
<1>1. b \in Nat /\ p \in Nat \ {0} /\ q \in Nat /\ n \in Nat \ {0}
  BY StepTerms
<1>2. Grain \in Nat \ {0}
  BY DoublesAssumption DEF DoublesAssumption
<1>3. e \in Int /\ e <= n + Epsilon /\ e >= Epsilon - n
  BY <1>1 DEF Errors, Epsilon
<1>4. WholeSteps(cents, price, step, error) = q + d
  BY DEF WholeSteps
<1> HIDE DEF b, p, q, n, e
<1>5. (b % p) \in 0 .. p - 1
  BY <1>1
<1> DEFINE r == (b % p)
           rG == r * Grain
           ep == e * p
<1>6. rG \in Nat /\ rG <= y - Grain /\ ep \in Int /\ y \in Nat \ {0}
  <2>1. r \in Nat /\ p - 1 \in Nat /\ r <= p - 1
    BY <1>1, <1>5
  <2> HIDE DEF r
  <2>2. rG \in Nat /\ rG <= (p - 1) * Grain
    BY <1>2, <2>1
  <2>3. (p - 1) * Grain = p * Grain - Grain /\ p * Grain \in Nat \ {0}
    BY <1>1, <1>2
  <2>4. ep \in Int
    BY <1>1, <1>3
  <2> QED BY <1>2, <2>2, <2>3, <2>4
<1>7. x = rG + ep
  OBVIOUS
<1> HIDE DEF x, y, r, rG
<1>8. x \in Int
  BY <1>6, <1>7
<1>9. d \in Int /\ (x < y => d <= 0) /\ (x >= 0 => d >= 0) /\ (x >= -y => d >= -1)
  BY <1>6, <1>8, QuotientBounds
<1> HIDE DEF d
<1>10. (n + Epsilon) * p < Grain => x < y
  <2> DEFINE np == (n + Epsilon) * p
  <2>1. ep <= np /\ np \in Int
    BY <1>1, <1>3 DEF Epsilon
  <2> HIDE DEF np, ep
  <2>2. np < Grain => x < y
    BY <1>2, <1>6, <1>7, <2>1
  <2> QED BY <2>2 DEF np
<1>11. n <= Epsilon => x >= 0
  <2> SUFFICES ASSUME n <= Epsilon PROVE x >= 0
    OBVIOUS
  <2>1. e >= 0
    BY <1>1, <1>3 DEF Epsilon
  <2>2. ep >= 0
    BY <1>1, <1>3, <2>1
  <2> HIDE DEF ep
  <2> QED BY <1>6, <1>7, <2>2
<1>12. n <= Grain + Epsilon => x >= -y
  <2> SUFFICES ASSUME n <= Grain + Epsilon PROVE x >= -y
    OBVIOUS
  <2>1. e >= -Grain
    BY <1>1, <1>2, <1>3 DEF Epsilon
  <2>2. e * p >= (-Grain) * p
    BY <1>1, <1>2, <1>3, <2>1
  <2>3. (-Grain) * p = -(p * Grain)
    BY <1>1, <1>2
  <2>4. ep >= -y
    BY <2>2, <2>3 DEF y
  <2> HIDE DEF ep
  <2> QED BY <1>6, <1>7, <2>4
<1>13. /\ q + d \in Int
       /\ (n + Epsilon) * p < Grain => q + d <= q
       /\ n <= Epsilon => q + d >= q
       /\ n <= Grain + Epsilon => q + d >= q - 1
  BY <1>1, <1>9, <1>10, <1>11, <1>12
<1> QED BY <1>4, <1>13 DEF q, n, p

\* floorToStep() never counts more steps than a budget pays for, as long as the
\* quotients stay apart, and exactly as many where the error of a quotient is
\* within the 1e-10 added to it; for the larger quotients, whose doubles are
\* off by more, it counts these or one less.
THEOREM WholeStepsBound ==
  ASSUME NEW cents \in Nat, NEW price \in Nat \ {0}, NEW step \in Decimal, step.n > 0,
         NEW error \in Errors(cents, price, step),
         (Noise(StepsPaid(cents, price, step)) + Epsilon) * (price * step.n) < Grain
  PROVE  LET w    == WholeSteps(cents, price, step, error)
             lost == StepsLost(cents, price, step)
         IN  /\ w \in Int /\ lost \in {0, 1}
             /\ w * step.n * price <= cents * Power(10, step.k)
             /\ (w + (1 + lost)) * step.n * price > cents * Power(10, step.k)
<1> DEFINE b == cents * Power(10, step.k)
           p == price * step.n
           q == StepsPaid(cents, price, step)
           n == Noise(q)
           w == WholeSteps(cents, price, step, error)
           lost == StepsLost(cents, price, step)
<1>1. /\ step.n \in Nat \ {0} /\ b \in Nat /\ p \in Nat \ {0}
      /\ q \in Nat /\ n \in Nat \ {0} /\ Grain \in Nat \ {0}
  BY StepTerms, DoublesAssumption DEF DoublesAssumption
<1>2. w \in Int /\ w <= q /\ (n <= Epsilon => w >= q) /\ (n <= Grain + Epsilon => w >= q - 1)
  BY StepsCounted
<1>3. (n + Epsilon) * p < Grain
  OBVIOUS
<1>4. lost = IF n > Epsilon THEN 1 ELSE 0
  BY DEF StepsLost
<1>5. q * p <= b /\ b < q * p + p
  <2>1. q = b \div p
    BY DEF StepsPaid
  <2> HIDE DEF b, p, q
  <2> QED BY <1>1, <2>1, Quotient
<1> HIDE DEF b, p, q, n, w, lost
<1>6. n < Grain
  <2> DEFINE m == n + Epsilon
  <2>1. m \in Nat
    BY <1>1 DEF Epsilon
  <2>2. m <= m * p
    <3> HIDE DEF m
    <3> QED BY <1>1, <2>1
  <2>3. m * p \in Int /\ m * p < Grain
    BY <1>1, <1>3, <2>1
  <2>4. m < Grain
    <3> HIDE DEF m
    <3> QED BY <1>1, <2>1, <2>2, <2>3
  <2> QED BY <1>1, <2>4 DEF Epsilon
<1>7. lost \in {0, 1} /\ w + lost >= q
  BY <1>1, <1>2, <1>4, <1>6 DEF Epsilon
<1>8. w * p <= b
  <2>1. w * p <= q * p
    BY <1>1, <1>2
  <2> QED BY <1>1, <1>2, <1>5, <2>1
<1>9. (w + (1 + lost)) * p > b
  <2> DEFINE v == w + (1 + lost)
  <2>1. v \in Int /\ v >= q + 1
    BY <1>1, <1>2, <1>7
  <2> HIDE DEF v
  <2>2. v * p >= (q + 1) * p
    BY <1>1, <2>1
  <2>3. (q + 1) * p = q * p + p
    BY <1>1
  <2>4. v * p > b
    BY <1>1, <1>5, <2>1, <2>2, <2>3
  <2> QED BY <2>4 DEF v
<1>10. \A v \in Int : v * step.n * price = v * p
  BY <1>1 DEF p
<1>11. w * step.n * price = w * p /\ (w + (1 + lost)) * step.n * price = (w + (1 + lost)) * p
  BY <1>2, <1>7, <1>10
<1>12. w * step.n * price <= b /\ (w + (1 + lost)) * step.n * price > b
  BY <1>8, <1>9, <1>11
<1> QED BY <1>2, <1>7, <1>12 DEF b, w, lost

LEMMA FloorExact ==
  ASSUME NEW cents \in Int, NEW price \in Nat \ {0}, NEW step \in Decimal, step.n > 0,
         DecimalPlaces(step) = step.k, step.k <= 12, NEW error
  PROVE  FloorToStep(cents, price, step, error)
           = [n |-> WholeSteps(cents, price, step, error) * step.n, k |-> step.k]
<1>1. step.k \in Nat /\ (IF step.k < 12 THEN step.k ELSE 12) = step.k
  BY DEF Decimal
<1> QED BY <1>1 DEF FloorToStep, ToFixed

-----------------------------------------------------------------------------
\* What an order by amount costs.
LEMMA OrderByAmount ==
  ASSUME StepsWritten, StepsSeparate, Prepared, NEW o \in order, Given(asked.amount)
  PROVE  LET step  == Value(SizeStep(asked))
             price == Value(UnitPrice(asked))
             cents == Value(o.amount)
             lost  == StepsLost(cents, price, step)
         IN  /\ step \in Decimal /\ step.n > 0 /\ price \in Nat \ {0} /\ cents \in Int
             /\ ~Given(asked.size) /\ lost \in {0, 1}
             /\ 10 * cents - Value(asked.amount) <= 5 /\ Value(asked.amount) - 10 * cents <= 5
             /\ \E w \in Int : /\ o.size = [n |-> w * step.n, k |-> step.k]
                               /\ w * step.n * price <= cents * Power(10, step.k)
                               /\ (w + (1 + lost)) * step.n * price > cents * Power(10, step.k)
<1> DEFINE step  == Value(SizeStep(asked))
           price == Value(UnitPrice(asked))
           a     == Value(asked.amount)
<1>p1. PICK amount \in RoundedAmounts(asked) : \E size \in Sizes(asked, amount) :
        Accepted(asked, amount) /\ o = Parameters(asked, amount, size)
  BY OrderNormalized
<1>1. PICK size \in Sizes(asked, amount) :
        Accepted(asked, amount) /\ o = Parameters(asked, amount, size)
  BY <1>p1
<1> DEFINE cents == Value(amount)
           lost == StepsLost(cents, price, step)
<1>2. IsRequest(asked) /\ Usable(asked) /\ Given(UnitPrice(asked)) /\ Given(SizeStep(asked))
      /\ ~Given(asked.size) /\ asked \in Requests
  BY <1>1, RequestsAssumption DEF Accepted, Prepared, RequestsAssumption
<1>3. SizeStep(asked) = {step} /\ step \in Decimal /\ step.n > 0
  BY <1>2, StepType
<1>4. price \in Nat \ {0}
  BY <1>2, PriceType
<1>5. cents \in Nat /\ 10 * cents - a <= 5 /\ a - 10 * cents <= 5
  BY <1>1, <1>2, CentsType
<1>6. o.amount = amount /\ o.size = size
  BY <1>1 DEF Parameters
<1>7. PICK error \in Errors(cents, price, step) : size = FloorToStep(cents, price, step, error)
  BY <1>1, <1>2 DEF Sizes
<1> DEFINE w == WholeSteps(cents, price, step, error)
<1>8. o.size = [n |-> w * step.n, k |-> step.k]
  <2>1. DecimalPlaces(step) = step.k /\ step.k <= 12
    BY <1>2, <1>3 DEF StepsWritten
  <2>2. FloorToStep(cents, price, step, error) = [n |-> w * step.n, k |-> step.k]
    <3> HIDE DEF cents, price, step
    <3> QED BY <2>1, <1>3, <1>4, <1>5, FloorExact
  <2> QED BY <2>2, <1>6, <1>7
<1>9. (Noise(StepsPaid(cents, price, step)) + Epsilon) * (price * step.n) < Grain
  BY <1>1, <1>2 DEF StepsSeparate
<1> HIDE DEF cents, price, step, a
<1>10. /\ w \in Int /\ lost \in {0, 1} /\ w * step.n * price <= cents * Power(10, step.k)
       /\ (w + (1 + lost)) * step.n * price > cents * Power(10, step.k)
  BY <1>3, <1>4, <1>5, <1>9, WholeStepsBound
<1> HIDE DEF w, lost
<1>11. \E v \in Int : /\ o.size = [n |-> v * step.n, k |-> step.k]
                      /\ v * step.n * price <= cents * Power(10, step.k)
                      /\ (v + (1 + lost)) * step.n * price > cents * Power(10, step.k)
  BY <1>8, <1>10
<1>12. Value(o.amount) = cents
  BY <1>6 DEF cents
<1> QED BY <1>2, <1>3, <1>4, <1>5, <1>10, <1>11, <1>12 DEF step, price, a, lost

LEMMA RoundedDown == StepsWritten /\ StepsSeparate /\ Prepared => SizeRoundedDown
<1> SUFFICES ASSUME StepsWritten, StepsSeparate, Prepared, NEW o \in order, Given(asked.amount)
             PROVE  LET step   == Value(SizeStep(asked))
                        price  == Value(UnitPrice(asked))
                        cents  == Value(o.amount)
                        budget == cents * Power(10, step.k)
                    IN  /\ o.size.k = step.k /\ o.size.n % step.n = 0
                        /\ o.size.n * price <= budget
                        /\ (o.size.n + (1 + StepsLost(cents, price, step)) * step.n) * price > budget
  BY DEF SizeRoundedDown
<1> DEFINE step  == Value(SizeStep(asked))
           price == Value(UnitPrice(asked))
           cents == Value(o.amount)
           lost  == StepsLost(cents, price, step)
<1>1. step \in Decimal /\ step.n > 0 /\ price \in Nat \ {0} /\ cents \in Int /\ lost \in {0, 1}
  BY OrderByAmount
<1>2. PICK w \in Int : /\ o.size = [n |-> w * step.n, k |-> step.k]
                       /\ w * step.n * price <= cents * Power(10, step.k)
                       /\ (w + (1 + lost)) * step.n * price > cents * Power(10, step.k)
  BY OrderByAmount
<1> HIDE DEF step, price, cents, lost
<1>3. step.n \in Nat \ {0} /\ o.size.n = w * step.n /\ o.size.k = step.k
  BY <1>1, <1>2 DEF Decimal
<1>4. (w * step.n) % step.n = 0
  BY <1>3
<1>5. (w + (1 + lost)) * step.n = w * step.n + (1 + lost) * step.n
  BY <1>1, <1>3
<1>6. (o.size.n + (1 + lost) * step.n) * price > cents * Power(10, step.k)
  BY <1>2, <1>3, <1>5
<1> QED BY <1>2, <1>3, <1>4, <1>6 DEF step, price, cents, lost

\* README.md:920-922: whatever an application asks for by amount, the size of
\* the prepared order is a number of whole size steps that the amount pays for,
\* and short of what it pays for by one step at most, and only where the double
\* of the quotient is off by more than the 1e-10 of floorToStep(): for every
\* price, amount and step, as toFixed() rounds nothing up where decimalPlaces()
\* tells the decimals of the step.
THEOREM SizeRoundedDownAlways ==
  ASSUME StepsWritten, StepsSeparate PROVE LifeSpec => []SizeRoundedDown
<1>1. Prepared => SizeRoundedDown
  BY RoundedDown
<1>2. LifeSpec => []Prepared
  BY PreparedAlways
<1> QED BY <1>1, <1>2, PTL

-----------------------------------------------------------------------------
LEMMA OrderBySize ==
  ASSUME Prepared, NEW o \in order, ~Given(asked.amount)
  PROVE  /\ Given(asked.size) /\ o.size = Value(asked.size) /\ o.size \in Decimal /\ o.size.n > 0
         /\ o.limit = asked.limit /\ o.stop = asked.stop
         /\ IsRequest(asked) /\ Usable(asked)
<1>p1. PICK amount \in RoundedAmounts(asked) : \E size \in Sizes(asked, amount) :
        Accepted(asked, amount) /\ size.n > 0 /\ o = Parameters(asked, amount, size)
  BY OrderNormalized
<1>1. PICK size \in Sizes(asked, amount) :
        Accepted(asked, amount) /\ size.n > 0 /\ o = Parameters(asked, amount, size)
  BY <1>p1
<1>2. IsRequest(asked) /\ Usable(asked) /\ Given(asked.size)
  BY <1>1, RequestsAssumption DEF Accepted, Prepared, RequestsAssumption, Given
<1>3. asked.size = {Value(asked.size)} /\ Value(asked.size) \in Decimal
  BY <1>2, TheOption DEF IsRequest, Given
<1>4. size \in asked.size
  BY <1>1, <1>2 DEF Sizes
<1>5. size = Value(asked.size)
  BY <1>3, <1>4
<1> QED BY <1>1, <1>2, <1>3, <1>5 DEF Parameters

LEMMA PreviewTells == StepsWritten /\ StepsSeparate /\ Prepared => PreviewTellsOrder
<1> DEFINE price(o) == Value(IF asked.mode = "limit" THEN o.limit
                             ELSE IF asked.mode = "stopMarket" THEN o.stop ELSE asked.last)
           cost(o) == 10 * o.size.n * price(o)
<1> SUFFICES ASSUME StepsWritten, StepsSeparate, Prepared, NEW o \in order, NEW gross \in EstimatedGross(asked, o)
             PROVE  IF Given(asked.size) THEN gross = cost(o)
                    ELSE LET step == Value(SizeStep(asked))
                             lost == StepsLost(Value(o.amount), price(o), step)
                         IN  /\ cost(o) - gross <= 5 * Power(10, o.size.k)
                             /\ gross - cost(o) <= 10 * ((1 + lost) * step.n * price(o)) + 5 * Power(10, o.size.k)
  BY DEF PreviewTellsOrder
<1>1. asked \in Requests /\ IsRequest(asked) /\ o.limit = asked.limit /\ o.stop = asked.stop
      /\ Usable(asked)
  <2>p1. PICK amount \in RoundedAmounts(asked) : \E size \in Sizes(asked, amount) :
          Accepted(asked, amount) /\ o = Parameters(asked, amount, size)
    BY OrderNormalized
  <2>1. PICK size \in Sizes(asked, amount) :
          Accepted(asked, amount) /\ o = Parameters(asked, amount, size)
    BY <2>p1
  <2> QED BY <2>1, RequestsAssumption DEF Prepared, RequestsAssumption, Parameters, Accepted
<1>2. price(o) = Value(UnitPrice(asked))
  BY <1>1 DEF UnitPrice, IsRequest
<1> HIDE DEF price
<1>3. CASE ~Given(asked.amount)
  <2>1. Given(asked.size) /\ o.size.n \in Int
    BY <1>3, OrderBySize DEF Decimal
  <2>2. PICK p \in UnitPrice(asked) : gross = 10 * p * o.size.n
    BY <1>3 DEF EstimatedGross, PreviewPrice
  <2>3. p = price(o) /\ p \in Int
    BY <1>1, <1>2, <2>2, PriceType DEF Given
  <2>4. 10 * p * o.size.n = 10 * o.size.n * p
    BY <2>1, <2>3
  <2> QED BY <2>1, <2>2, <2>3, <2>4
<1>4. CASE Given(asked.amount)
  <2> DEFINE step  == Value(SizeStep(asked))
             unit  == Value(UnitPrice(asked))
             cents == Value(o.amount)
             a == Value(asked.amount)
             lost == StepsLost(cents, unit, step)
             P == Power(10, step.k)
  <2>1. /\ step \in Decimal /\ step.n > 0 /\ unit \in Nat \ {0} /\ cents \in Int
        /\ ~Given(asked.size) /\ 10 * cents - a <= 5 /\ a - 10 * cents <= 5 /\ lost \in {0, 1}
    BY <1>4, OrderByAmount
  <2>2. PICK w \in Int : /\ o.size = [n |-> w * step.n, k |-> step.k]
                         /\ w * step.n * unit <= cents * P
                         /\ (w + (1 + lost)) * step.n * unit > cents * P
    BY <1>4, OrderByAmount
  <2>3. asked.amount = {a} /\ a \in Int
    BY <1>1, <1>4, TheOption DEF IsRequest, Given
  <2>4. gross = a * P
    BY <1>4, <2>2, <2>3 DEF EstimatedGross
  <2> HIDE DEF step, unit, cents, a, lost
  <2>5. step.n \in Nat \ {0} /\ step.k \in Nat
    BY <2>1 DEF Decimal
  <2>6. P \in Nat \ {0}
    BY <2>5, PowerOfTen
  <2> HIDE DEF P
  <2> DEFINE c == w * step.n * unit
             s == (1 + lost) * step.n * unit
  <2>7. c \in Int /\ s \in Int /\ cost(o) = 10 * c /\ (w + (1 + lost)) * step.n * unit = c + s
    <3>1. o.size.n = w * step.n
      BY <2>2
    <3>2. 10 * (w * step.n) * unit = 10 * (w * step.n * unit)
      BY <2>1, <2>5
    <3>3. (w + (1 + lost)) * step.n * unit = w * step.n * unit + (1 + lost) * step.n * unit
      <4> DEFINE x == w * step.n
                 y == (1 + lost) * step.n
      <4>1. x \in Int /\ y \in Int /\ (w + (1 + lost)) * step.n = x + y
        BY <2>1, <2>5
      <4> HIDE DEF x, y
      <4>2. (x + y) * unit = x * unit + y * unit
        BY <2>1, <4>1
      <4> QED BY <4>1, <4>2 DEF x, y
    <3> QED BY <2>1, <2>5, <1>2, <3>1, <3>2, <3>3 DEF unit
  <2> HIDE DEF c, s
  <2>8. 10 * cents * P <= (a + 5) * P /\ a * P <= (10 * cents + 5) * P
    BY <2>1, <2>3, <2>6
  <2>9. 10 * cents * P = 10 * (cents * P) /\ (a + 5) * P = a * P + 5 * P
        /\ (10 * cents + 5) * P = 10 * (cents * P) + 5 * P
    BY <2>1, <2>3, <2>6
  <2>10. cents * P \in Int /\ a * P \in Int
    BY <2>1, <2>3, <2>6
  <2>11. 10 * c - a * P <= 5 * P /\ a * P - 10 * c <= 10 * s + 5 * P
    <3>1. c <= cents * P /\ cents * P < c + s
      BY <2>2, <2>7 DEF c
    <3> DEFINE cP == cents * P
               aP == a * P
    <3>2. cP \in Int /\ aP \in Int /\ 10 * cP <= aP + 5 * P /\ aP <= 10 * cP + 5 * P
      BY <2>8, <2>9, <2>10
    <3>3. c <= cP /\ cP < c + s
      BY <3>1
    <3> HIDE DEF cP, aP
    <3>4. 10 * c - aP <= 5 * P /\ aP - 10 * c <= 10 * s + 5 * P
      BY <2>6, <2>7, <3>2, <3>3
    <3> QED BY <3>4 DEF aP
  <2>12. o.size.k = step.k /\ price(o) = unit
    BY <1>2, <2>2 DEF unit
  <2>13. cost(o) - gross <= 5 * P /\ gross - cost(o) <= 10 * s + 5 * P
    <3> HIDE DEF cost
    <3> QED BY <2>4, <2>7, <2>11
  <2>14. s = (1 + StepsLost(Value(o.amount), price(o), Value(SizeStep(asked))))
               * Value(SizeStep(asked)).n * price(o)
    BY <2>12 DEF s, lost, cents, step
  <2>15. P = Power(10, o.size.k)
    BY <2>12 DEF P
  <2> HIDE DEF cost
  <2> QED BY <2>1, <2>13, <2>14, <2>15
<1> QED BY <1>3, <1>4

\* preview() and prepare() are two walks over the same options: the cost shown
\* is that of the order returned with it, exactly by size, and by amount within
\* the steps and the half cent that rounding takes, for every request.
THEOREM PreviewTellsOrderAlways ==
  ASSUME StepsWritten, StepsSeparate PROVE LifeSpec => []PreviewTellsOrder
<1>1. Prepared => PreviewTellsOrder
  BY PreviewTells
<1>2. LifeSpec => []Prepared
  BY PreparedAlways
<1> QED BY <1>1, <1>2, PTL

-----------------------------------------------------------------------------
(***************************************************************************)
(* Sizes.                                                                  *)
(***************************************************************************)
LEMMA PlacesType ==
  ASSUME NEW step \in Decimal, step.n > 0
  PROVE  DecimalPlaces(step) \in 0 .. step.k
<1>1. step.k \in Nat /\ step.n \in Nat \ {0}
  BY DEF Decimal
<1>2. CASE step.k > 6 /\ step.n < Power(10, step.k - 6)
  <2> DEFINE c == DigitCount(10, 10, step.n)
  <2>1. c \in Nat \ {0} /\ (c > 1 => step.n >= 10 * Power(10, c - 2))
    <3>1. 10 \in Nat /\ 10 > 1 /\ 10 \in Nat \ {0}
      OBVIOUS
    <3> QED BY <1>1, <3>1, DigitCountBounds, Zenon
  <2>2. c <= step.k
    <3> SUFFICES ASSUME c > step.k PROVE FALSE
      BY <1>1, <2>1
    <3> HIDE DEF c
    <3>1. c - 2 \in Nat /\ step.k - 6 \in Nat /\ step.k - 6 <= c - 2 /\ c > 1
      BY <1>1, <1>2, <2>1
    <3>2. Power(10, step.k - 6) <= Power(10, c - 2)
      <4>1. 10 \in Nat \ {0}
        OBVIOUS
      <4> QED BY <3>1, <4>1, PowerMonotone, Zenon
    <3>3. Power(10, c - 2) \in Nat \ {0} /\ Power(10, step.k - 6) \in Nat \ {0}
      BY <3>1, PowerOfTen
    <3> QED BY <1>1, <1>2, <2>1, <3>1, <3>2, <3>3
  <2>3. DecimalPlaces(step) = step.k - (c - 1)
    BY <1>2 DEF DecimalPlaces
  <2> HIDE DEF c
  <2> QED BY <1>1, <2>1, <2>2, <2>3
<1>3. CASE ~(step.k > 6 /\ step.n < Power(10, step.k - 6))
  BY <1>1, <1>3 DEF DecimalPlaces
<1> QED BY <1>2, <1>3

LEMMA FixedType ==
  ASSUME NEW n \in Int, NEW k \in Nat, NEW decimals \in Nat
  PROVE  ToFixed(n, k, decimals) \in Decimal
<1>1. CASE decimals >= k
  BY <1>1 DEF ToFixed, Decimal
<1>2. CASE ~(decimals >= k)
  <2> DEFINE P == Power(10, k - decimals)
  <2>1. P \in Nat \ {0}
    <3>1. k - decimals \in Nat
      BY <1>2
    <3> QED BY <3>1, PowerOfTen
  <2>2. ToFixed(n, k, decimals) = [n |-> (2 * n + P) \div (2 * P), k |-> decimals]
    BY <1>2 DEF ToFixed
  <2> HIDE DEF P
  <2>3. (2 * n + P) \div (2 * P) \in Int
    BY <2>1
  <2> QED BY <2>2, <2>3 DEF Decimal
<1> QED BY <1>1, <1>2

\* However it is derived, the size of an accepted request is a decimal.
LEMMA SizesType ==
  ASSUME NEW o \in Requests, NEW amount \in RoundedAmounts(o), Accepted(o, amount),
         NEW size \in Sizes(o, amount)
  PROVE  size \in Decimal
<1>1. IsRequest(o) /\ Usable(o)
  BY RequestsAssumption DEF Accepted, RequestsAssumption
<1>2. CASE Given(o.size)
  <2>1. o.size = {Value(o.size)} /\ Value(o.size) \in Decimal
    BY <1>1, <1>2, TheOption DEF IsRequest, Given
  <2> QED BY <1>2, <2>1 DEF Sizes
<1>3. CASE ~Given(o.size)
  <2> DEFINE step  == Value(SizeStep(o))
             price == Value(UnitPrice(o))
             cents == Value(amount)
             places == IF DecimalPlaces(step) < 12 THEN DecimalPlaces(step) ELSE 12
  <2>1. Given(o.amount) /\ Given(UnitPrice(o)) /\ Given(SizeStep(o))
    BY <1>3 DEF Accepted, Given
  <2>2. step \in Decimal /\ step.n > 0
    BY <1>1, <2>1, StepType
  <2>3. price \in Nat \ {0}
    BY <1>1, <2>1, PriceType
  <2>4. cents \in Nat
    BY <1>1, <2>1, CentsType
  <2>5. PICK error \in Errors(cents, price, step) : size = FloorToStep(cents, price, step, error)
    BY <1>3 DEF Sizes
  <2> DEFINE w == WholeSteps(cents, price, step, error)
  <2>6. w \in Int
    BY <2>2, <2>3, <2>4, StepsCounted
  <2>7. places \in Nat
    BY <2>2, PlacesType DEF Decimal
  <2>8. size = ToFixed(w * step.n, step.k, places)
    BY <2>5 DEF FloorToStep
  <2>9. w * step.n \in Int /\ step.k \in Nat
    BY <2>2, <2>6 DEF Decimal
  <2> HIDE DEF step, w, places
  <2> QED BY <2>7, <2>8, <2>9, FixedType
<1> QED BY <1>2, <1>3

LEMMA OrderSize ==
  ASSUME Prepared, NEW o \in order
  PROVE  o.size \in Decimal /\ o.size.n > 0
<1>p1. PICK amount \in RoundedAmounts(asked) : \E size \in Sizes(asked, amount) :
        Accepted(asked, amount) /\ size.n > 0 /\ o = Parameters(asked, amount, size)
  BY OrderNormalized
<1>1. PICK size \in Sizes(asked, amount) :
        Accepted(asked, amount) /\ size.n > 0 /\ o = Parameters(asked, amount, size)
  BY <1>p1
<1>2. size \in Decimal
  BY <1>1, SizesType DEF Prepared
<1> QED BY <1>1, <1>2 DEF Parameters

-----------------------------------------------------------------------------
(***************************************************************************)
(* Decimals.                                                               *)
(***************************************************************************)
LEMMA GreaterOfTwo ==
  ASSUME NEW a \in Int, NEW b \in Int
  PROVE  Max({a, b}) = IF a >= b THEN a ELSE b
<1> DEFINE m == IF a >= b THEN a ELSE b
<1>1. m \in {a, b} /\ \A y \in {a, b} : m >= y
  OBVIOUS
<1>2. \A x \in {a, b} : (\A y \in {a, b} : x >= y) => x = m
  OBVIOUS
<1> QED BY <1>1, <1>2 DEF Max

LEMMA UnscaledReads ==
  ASSUME NEW n \in Int
  PROVE  Unscaled(Digits(256, n, ByteCount(n))) = n
<1> DEFINE c == ByteCount(n)
           m == IF n < 0 THEN -n - 1 ELSE n
           P == Power(256, c - 1)
           bytes == Digits(256, n, c)
<1>0. 256 \in Nat /\ 256 > 1 /\ 256 \in Nat \ {0} /\ 128 \in Nat \ {0} /\ m \in Nat
  OBVIOUS
<1>a. c = DigitCount(256, 128, m)
  BY DEF ByteCount
<1> HIDE DEF m
<1>1. c \in Nat \ {0} /\ m < 128 * P
  BY <1>0, <1>a, DigitCountBounds
<1> HIDE DEF c
<1>2. P \in Nat \ {0} /\ Power(256, c) = 256 * P
  BY <1>0, <1>1, PowerStep
<1>3. bytes[1] = (n \div P) % 256 /\ Len(bytes) = c
  BY <1>1 DEF Digits
<1>4. -Power(256, c) <= n /\ n < Power(256, c)
  <2> HIDE DEF P
  <2> QED BY <1>1, <1>2 DEF m
<1>5. Unsigned(bytes) = IF n < 0 THEN n + Power(256, c) ELSE n
  <2>1. c \in Nat
    BY <1>1
  <2> QED BY <1>0, <1>4, <2>1, DigitsRead DEF Unsigned
<1> HIDE DEF bytes
<1> DEFINE q == n \div P
<1>6. q \in -128 .. 127 /\ (q < 0 <=> n < 0)
  <2> HIDE DEF P
  <2>1. q \in Int /\ q * P <= n /\ n < q * P + P
    BY <1>2
  <2> HIDE DEF q
  <2>2. ASSUME q < -128 PROVE FALSE
    <3>1. (q + 1) * P <= (-128) * P
      BY <1>2, <2>1, <2>2
    <3> QED BY <1>1, <1>2, <2>1, <3>1 DEF m
  <2>3. ASSUME q > 127 PROVE FALSE
    <3>1. q * P >= 128 * P
      BY <1>2, <2>1, <2>3
    <3> QED BY <1>1, <1>2, <2>1, <3>1 DEF m
  <2>4. ASSUME q < 0 PROVE n < 0
    <3>1. (q + 1) * P <= 0
      BY <1>2, <2>1, <2>4
    <3> QED BY <1>2, <2>1, <3>1
  <2>5. ASSUME n < 0 PROVE q < 0
    <3>1. q >= 0 => q * P >= 0
      BY <1>2, <2>1
    <3> QED BY <1>2, <2>1, <2>5, <3>1
  <2> QED BY <2>1, <2>2, <2>3, <2>4, <2>5
<1> HIDE DEF q
<1>7. bytes[1] = IF q < 0 THEN q + 256 ELSE q
  <2>1. q % 256 = IF q < 0 THEN q + 256 ELSE q
    BY <1>6
  <2> QED BY <1>3, <2>1 DEF q
<1>8. bytes[1] >= 128 <=> n < 0
  BY <1>6, <1>7
<1>9. Unscaled(bytes) = n
  BY <1>2, <1>3, <1>5, <1>8 DEF Unscaled
<1> QED BY <1>9 DEF bytes, c

\* decimal() reads every number as it was written, with as many decimals as its
\* scale: the sign bit of the first byte, the carry over all bytes and the
\* padding to one digit before the point.
THEOREM DecimalReads ==
  ASSUME NEW n \in Int, NEW scale \in Nat
  PROVE  LET text == DecimalText(Written(n, scale).wire)
         IN  /\ text.whole # <<>> /\ Len(text.fraction) = scale
             /\ Number(text.whole \o text.fraction) = IF n < 0 THEN -n ELSE n
             /\ text.negative = (n < 0)
<1> DEFINE absolute == IF n < 0 THEN -n ELSE n
           c      == DigitCount(10, 10, absolute)
           count  == Max({c, scale + 1})
           digits == Digits(10, absolute, count)
           whole  == SubSeq(digits, 1, count - scale)
           fraction == SubSeq(digits, count - scale + 1, count)
<1>0. 10 \in Nat /\ 10 > 1 /\ 10 \in Nat \ {0} /\ absolute \in Nat
  OBVIOUS
<1>1. DecimalText(Written(n, scale).wire) = [negative |-> n < 0, whole |-> whole, fraction |-> fraction]
  <2>1. Written(n, scale).wire.scale = scale
    BY DEF Written
  <2>2. Unscaled(Written(n, scale).wire.unscaled) = n
    BY UnscaledReads DEF Written
  <2> QED BY <2>1, <2>2 DEF DecimalText
<1> HIDE DEF absolute
<1>2. c \in Nat \ {0} /\ absolute < 10 * Power(10, c - 1)
  BY <1>0, DigitCountBounds, Zenon
<1> HIDE DEF c
<1>3. count \in Nat /\ c <= count /\ scale + 1 <= count
  BY <1>2, GreaterOfTwo
<1> HIDE DEF count
<1>4. absolute < Power(10, count) /\ -Power(10, count) <= absolute
  <2>1. Power(10, c) = 10 * Power(10, c - 1) /\ Power(10, c) \in Nat \ {0}
    BY <1>0, <1>2, PowerStep
  <2>2. Power(10, c) <= Power(10, count)
    BY <1>0, <1>2, <1>3, PowerMonotone
  <2>3. Power(10, count) \in Nat \ {0}
    BY <1>3, PowerOfTen
  <2> QED BY <1>0, <1>2, <2>1, <2>2, <2>3
<1>5. Horner(10, digits) = absolute
  <2>1. Horner(10, digits) = IF absolute < 0 THEN absolute + Power(10, count) ELSE absolute
    BY <1>0, <1>3, <1>4, DigitsRead
  <2> QED BY <1>0, <2>1
<1>6. digits \in [1 .. count -> Int]
  <2>1. \A i \in 1 .. count : (absolute \div Power(10, count - i)) % 10 \in Int
    <3> TAKE i \in 1 .. count
    <3>1. count - i \in Nat
      BY <1>3
    <3>2. Power(10, count - i) \in Nat \ {0}
      BY <3>1, PowerOfTen
    <3> QED BY <1>0, <3>2
  <2> QED BY <2>1 DEF Digits
<1> HIDE DEF digits
<1>7. Len(whole) = count - scale /\ Len(fraction) = scale /\ whole # <<>>
      /\ whole \in Seq(Int) /\ fraction \in Seq(Int)
  BY <1>3, <1>6
<1>8. whole \o fraction = digits
  <2>1. DOMAIN (whole \o fraction) = 1 .. count
    BY <1>3, <1>6, <1>7
  <2>2. \A i \in 1 .. count : (whole \o fraction)[i] = digits[i]
    BY <1>3, <1>6, <1>7
  <2>3. whole \o fraction \in Seq(Int)
    BY <1>7
  <2> DEFINE both == whole \o fraction
  <2>4. both \in Seq(Int) /\ DOMAIN both = 1 .. count /\ Len(both) = count /\ \A i \in 1 .. count : both[i] = digits[i]
    <3>1. Len(both) = Len(whole) + Len(fraction)
      BY <1>7
    <3>2. Len(both) = count
      BY <1>3, <1>7, <3>1
    <3> QED BY <2>1, <2>2, <2>3, <3>2
  <2> HIDE DEF both
  <2>5. both \in [1 .. count -> Int]
    BY <2>4
  <2>6. both = digits
    BY <1>6, <2>4, <2>5
  <2> QED BY <2>6 DEF both
<1> HIDE DEF whole, fraction
<1>9. Number(whole \o fraction) = absolute
  BY <1>5, <1>8 DEF Number
<1> QED BY <1>1, <1>7, <1>9 DEF absolute

-----------------------------------------------------------------------------
(***************************************************************************)
(* The inductive invariant of an order's life, in named parts.             *)
(***************************************************************************)
Ended == {"executed", "CANCELED", "EXPIRED", "REJECTED"}
Trade == [size : Nat \ {0}, price : Nat]

Records ==
  [status : {"", "OPEN", "PARTIALLY_FILLED", "EXECUTED", "CANCELED", "EXPIRED", "REJECTED"},
   trades : Seq(Trade), executedAt : BOOLEAN, cancelledAt : BOOLEAN, expiredAt : BOOLEAN,
   rejectedAt : BOOLEAN]

LifeTypeOK ==
  /\ phase \in {"none", "refused", "live"} \cup Ended /\ paid \in Int
  /\ record \in Records

\* Something is traded only for a prepared order, which has one size.
OrderPlaced ==
  /\ Placed => \E o : order = {o}
  /\ ~Placed => record.trades = <<>>

\* The record has the one time that tells how the order ended, and a status, if
\* it has any, that tells the same.
TimesTell ==
  Placed =>
    /\ record.executedAt = (phase = "executed") /\ record.cancelledAt = (phase = "CANCELED")
    /\ record.expiredAt = (phase = "EXPIRED") /\ record.rejectedAt = (phase = "REJECTED")
    /\ phase = "executed" => record.trades # <<>>
    /\ record.status # "" =>
         record.status = IF phase = "live"
                         THEN IF record.trades = <<>> THEN "OPEN" ELSE "PARTIALLY_FILLED"
                         ELSE IF phase = "executed" THEN "EXECUTED" ELSE phase

SizesOf(trades) == [i \in DOMAIN trades |-> trades[i].size]
PaidFor(trades) == [i \in DOMAIN trades |-> trades[i].price * trades[i].size]

\* A live order has something left to fill, and what was exchanged for it is
\* what its trades say.
TradesTell ==
  /\ phase = "live" => Sum(SizesOf(record.trades)) < Size.n
  /\ paid = Sum(PaidFor(record.trades))

\* What the order updates carry are numbers as the broker writes them.
NoticesWritten == \A d \in notice : \E n \in Int, scale \in Nat : d = Written(n, scale)

LifeInv ==
  Prepared /\ LifeTypeOK /\ OrderPlaced /\ TimesTell /\ TradesTell /\ NoticesWritten

LEMMA TradeTerms ==
  ASSUME NEW trades \in Seq(Trade)
  PROVE  /\ Len(trades) \in Nat /\ DOMAIN trades = 1 .. Len(trades)
         /\ SizesOf(trades) \in [1 .. Len(trades) -> Int]
         /\ PaidFor(trades) \in [1 .. Len(trades) -> Int]
         /\ Sum(SizesOf(trades)) \in Int /\ Sum(PaidFor(trades)) \in Int
         /\ \A i \in DOMAIN trades : trades[i] \in Trade
<1>1. /\ Len(trades) \in Nat /\ DOMAIN trades = 1 .. Len(trades)
      /\ \A i \in DOMAIN trades : trades[i] \in Trade
  OBVIOUS
<1>2. SizesOf(trades) \in [1 .. Len(trades) -> Int]
  BY <1>1 DEF SizesOf, Trade
<1>3. PaidFor(trades) \in [1 .. Len(trades) -> Int]
  <2>1. \A i \in DOMAIN trades : trades[i].price * trades[i].size \in Int
    BY <1>1 DEF Trade
  <2> QED BY <1>1, <2>1 DEF PaidFor
<1> QED BY <1>1, <1>2, <1>3, SumType

\* One more trade adds its size and its price.
LEMMA TradeAdds ==
  ASSUME NEW trades \in Seq(Trade), NEW t \in Trade
  PROVE  /\ Append(trades, t) \in Seq(Trade) /\ Append(trades, t) # <<>>
         /\ Sum(SizesOf(Append(trades, t))) = Sum(SizesOf(trades)) + t.size
         /\ Sum(PaidFor(Append(trades, t))) = Sum(PaidFor(trades)) + t.price * t.size
<1> DEFINE n == Len(trades)
           more == Append(trades, t)
<1>1. n \in Nat /\ more \in Seq(Trade) /\ Len(more) = n + 1 /\ more # <<>>
      /\ more[n + 1] = t /\ \A i \in 1 .. n : more[i] = trades[i]
  OBVIOUS
<1> HIDE DEF more
<1>2. /\ DOMAIN more = 1 .. n + 1 /\ DOMAIN trades = 1 .. n
      /\ SizesOf(more) \in [1 .. n + 1 -> Int] /\ PaidFor(more) \in [1 .. n + 1 -> Int]
  BY <1>1, TradeTerms
<1>3. [i \in 1 .. n |-> SizesOf(more)[i]] = SizesOf(trades) /\ SizesOf(more)[n + 1] = t.size
  BY <1>1, <1>2 DEF SizesOf
<1>4. [i \in 1 .. n |-> PaidFor(more)[i]] = PaidFor(trades) /\ PaidFor(more)[n + 1] = t.price * t.size
  BY <1>1, <1>2 DEF PaidFor
<1>5. Sum(SizesOf(more)) = Sum(SizesOf(trades)) + t.size
  BY <1>1, <1>2, <1>3, SumAppend
<1>6. Sum(PaidFor(more)) = Sum(PaidFor(trades)) + t.price * t.size
  BY <1>1, <1>2, <1>4, SumAppend
<1> QED BY <1>1, <1>5, <1>6 DEF more

LEMMA NoTrades == <<>> \in Seq(Trade) /\ Sum(SizesOf(<<>>)) = 0 /\ Sum(PaidFor(<<>>)) = 0
<1> DEFINE none == <<>>
<1>1. none \in Seq(Trade) /\ Len(none) = 0
  OBVIOUS
<1> HIDE DEF none
<1>2. Sum(SizesOf(none)) = 0 /\ Sum(PaidFor(none)) = 0
  BY <1>1, TradeTerms, SumOfNothing
<1> QED BY <1>1, <1>2 DEF none

LEMMA FreshType == ASSUME NEW status \in {"", "OPEN"} PROVE Fresh(status) \in Records
BY NoTrades DEF Fresh, Records

LEMMA SizeOfAll ==
  ASSUME NEW trades \in Seq(Trade)
  PROVE  SumOf(trades, DOMAIN trades, LAMBDA t : t.size) = Sum(SizesOf(trades))
BY DEF SumOf, SizesOf

-----------------------------------------------------------------------------
LEMMA LifeInitially == LifeInit => LifeInv
<1> SUFFICES ASSUME LifeInit PROVE LifeInv
  OBVIOUS
<1>1. Prepared /\ OrderPlaced /\ TimesTell /\ NoticesWritten
  BY DEF LifeInit, Prepared, OrderPlaced, TimesTell, NoticesWritten, Fresh, Placed
<1>2. LifeTypeOK
  <2>1. Fresh("") \in Records
    BY FreshType
  <2>2. phase = "none" /\ record = Fresh("")
    BY DEF LifeInit
  <2>6. 0 \in Int
    OBVIOUS
  <2>7. paid = 0
    BY DEF LifeInit
  <2>3. phase \in {"none", "refused", "live"} \cup Ended
    BY <2>2 DEF Ended
  <2>4. paid \in Int
    BY <2>6, <2>7, Zenon
  <2>5. record \in Records
    BY <2>1, <2>2
  <2> QED BY <2>3, <2>4, <2>5 DEF LifeTypeOK
<1>3. TradesTell
  BY NoTrades DEF LifeInit, TradesTell, Fresh
<1> QED BY <1>1, <1>2, <1>3 DEF LifeInv

LEMMA PrepareKeeps == ASSUME LifeInv, Prepare, Prepared' PROVE LifeInv'
<1>1. /\ phase = "none" /\ asked' = asked /\ notice' = notice /\ paid' = paid
      /\ record.trades = <<>> /\ paid = 0
  BY NoTrades DEF LifeInv, Prepare, OrderPlaced, TradesTell, Placed
<1>2. /\ order' \in Normalized(asked)
      /\ \/ order' = {} /\ phase' = "refused" /\ record' = record
         \/ /\ order' # {} /\ phase' = "live"
            /\ \E status \in {"", "OPEN"} : record' = Fresh(status)
  BY DEF Prepare
<1>3. NoticesWritten'
  BY <1>1 DEF LifeInv, NoticesWritten
<1>4. CASE order' # {}
  <2>0. PICK o \in order' : TRUE
    BY <1>4
  <2>pa. PICK amount \in RoundedAmounts(asked) : \E size \in Sizes(asked, amount) :
          /\ Accepted(asked, amount) /\ size.n > 0 /\ o = Parameters(asked, amount, size)
          /\ order' = {o}
    BY <1>2, NormalizedOrder
  <2>a. PICK size \in Sizes(asked, amount) :
          /\ Accepted(asked, amount) /\ size.n > 0 /\ o = Parameters(asked, amount, size)
          /\ order' = {o}
    BY <2>pa
  <2>1. PICK status \in {"", "OPEN"} : record' = Fresh(status)
    BY <1>2, <1>4
  <2>2. phase' = "live" /\ order' = {o}
    BY <1>2, <1>4, <2>a
  <2>3. /\ record'.trades = <<>> /\ record'.status = status /\ record'.executedAt = FALSE
        /\ record'.cancelledAt = FALSE /\ record'.expiredAt = FALSE /\ record'.rejectedAt = FALSE
    BY <2>1 DEF Fresh
  <2>4. o.size \in Decimal /\ o.size.n > 0
    BY <2>a, SizesType DEF LifeInv, Prepared, Parameters
  <2>5. LifeTypeOK'
    <3>1. record' \in Records
      BY <2>1, FreshType
    <3>2. phase' \in {"none", "refused", "live"} \cup Ended
      BY <2>2
    <3>3. paid' \in Int
      BY <1>1 DEF LifeInv, LifeTypeOK
    <3> QED BY <3>1, <3>2, <3>3 DEF LifeTypeOK
  <2>6. OrderPlaced'
    BY <2>2 DEF OrderPlaced, Placed
  <2>7. TimesTell'
    BY <2>2, <2>3 DEF TimesTell
  <2>8. TradesTell'
    <3>1. Size' = o.size
      BY <2>2 DEF Size, Value
    <3> QED BY <1>1, <2>3, <2>4, <3>1, NoTrades DEF TradesTell, Decimal
  <2> QED BY <1>3, <2>5, <2>6, <2>7, <2>8 DEF LifeInv
<1>5. CASE order' = {}
  <2>1. phase' = "refused" /\ record' = record
    BY <1>2, <1>5
  <2>2. LifeTypeOK' /\ OrderPlaced' /\ TimesTell' /\ TradesTell'
    BY <1>1, <2>1 DEF LifeInv, LifeTypeOK, OrderPlaced, TimesTell, TradesTell, Placed
  <2> QED BY <1>3, <2>2 DEF LifeInv
<1> QED BY <1>4, <1>5

LEMMA FillKeeps == ASSUME LifeInv, Fill, Prepared' PROVE LifeInv'
<1> DEFINE trades == record.trades
<1>1. phase = "live" /\ asked' = asked /\ order' = order
  BY DEF Fill
<1>2. PICK part \in {1, Unfilled \div 2, Unfilled} \ {0}, price \in FillPrice :
        LET whole == part = Unfilled
        IN  /\ phase' = IF whole THEN "executed" ELSE "live"
            /\ record' = [record EXCEPT
                 !.trades = Append(@, [size |-> part, price |-> price]),
                 !.executedAt = whole,
                 !.status = IF @ = "" THEN "" ELSE IF whole THEN "EXECUTED" ELSE "PARTIALLY_FILLED"]
            /\ paid' = paid + price * part
            /\ notice' = {Written(part, Size.k), Written(Profit(part, Size.k, price), 4)}
  BY DEF Fill
<1>3. PICK o : order = {o}
  BY <1>1 DEF LifeInv, OrderPlaced, Placed
<1>4. Size \in Decimal /\ Size = o.size
  <2>1. Value(order) = o
    BY <1>3 DEF Value
  <2> QED BY <1>3, <2>1, OrderSize DEF Size, LifeInv
<1>5. trades \in Seq(Trade) /\ LifeTypeOK
  BY DEF LifeInv, LifeTypeOK, Records
<1>6. Unfilled = Size.n - Sum(SizesOf(trades)) /\ Unfilled > 0 /\ Unfilled \in Int
  <2>1. Sum(SizesOf(trades)) \in Int /\ Size.n \in Int
    BY <1>4, <1>5, TradeTerms DEF Decimal
  <2>2. Unfilled = Size.n - Sum(SizesOf(trades))
    BY <1>5, SizeOfAll DEF Unfilled
  <2> QED BY <1>1, <2>1, <2>2 DEF LifeInv, TradesTell
<1>7. part \in 1 .. Unfilled /\ price \in Nat
  BY <1>6, PriceAssumption DEF PriceAssumption
<1> DEFINE t == [size |-> part, price |-> price]
           whole == part = Unfilled
<1>8. t \in Trade
  BY <1>7 DEF Trade
<1>9. /\ record'.trades = Append(trades, t) /\ record'.executedAt = whole
      /\ record'.cancelledAt = record.cancelledAt /\ record'.expiredAt = record.expiredAt
      /\ record'.rejectedAt = record.rejectedAt
      /\ record'.status = IF record.status = "" THEN "" ELSE IF whole THEN "EXECUTED" ELSE "PARTIALLY_FILLED"
  BY <1>2, <1>5 DEF LifeTypeOK, Records
<1>10. /\ record'.trades \in Seq(Trade) /\ record'.trades # <<>>
       /\ Sum(SizesOf(record'.trades)) = Sum(SizesOf(trades)) + part
       /\ Sum(PaidFor(record'.trades)) = Sum(PaidFor(trades)) + price * part
  BY <1>5, <1>8, <1>9, TradeAdds
<1>11. phase' = IF whole THEN "executed" ELSE "live"
  BY <1>2
<1>12. LifeTypeOK'
  <2>1. paid' \in Int
    <3> DEFINE p == price * part
    <3>1. p \in Int
      BY <1>6, <1>7
    <3>2. paid' = paid + p
      BY <1>2
    <3> HIDE DEF p
    <3> QED BY <1>5, <3>1, <3>2 DEF LifeTypeOK
  <2>2. record' \in Records
    BY <1>2, <1>5, <1>9, <1>10 DEF LifeTypeOK, Records
  <2> QED BY <1>11, <2>1, <2>2 DEF LifeTypeOK, Ended
<1>13. OrderPlaced'
  BY <1>1, <1>3, <1>11 DEF OrderPlaced, Placed
<1>14. TimesTell'
  BY <1>1, <1>9, <1>10, <1>11 DEF LifeInv, TimesTell, Placed
<1>15. TradesTell'
  <2>1. Size' = Size
    BY <1>1 DEF Size
  <2>2. paid' = Sum(PaidFor(record'.trades))
    BY <1>2, <1>10 DEF LifeInv, TradesTell
  <2>3. phase' = "live" => Sum(SizesOf(record'.trades)) < Size.n
    <3> DEFINE sum == Sum(SizesOf(trades))
    <3>1. sum \in Int /\ Size.n \in Int /\ Unfilled = Size.n - sum /\ part \in 1 .. Unfilled
      BY <1>4, <1>5, <1>6, <1>7, TradeTerms DEF Decimal
    <3>2. Sum(SizesOf(record'.trades)) = sum + part
      BY <1>10
    <3>3. phase' = "live" => part # Unfilled
      BY <1>11
    <3> HIDE DEF sum
    <3> QED BY <3>1, <3>2, <3>3
  <2> QED BY <2>1, <2>2, <2>3 DEF TradesTell
<1>16. NoticesWritten'
  <2>1. Size.k \in Nat
    BY <1>4 DEF Decimal
  <2>2. Profit(part, Size.k, price) \in Int
    <3> DEFINE k == Size.k
               gain == (price - CostPrice) * part
    <3>1. gain \in Int
      BY <1>6, <1>7, PriceAssumption DEF PriceAssumption
    <3>2. CASE k > 2
      <4> DEFINE P == Power(10, k - 2)
      <4>1. P \in Nat \ {0}
        <5>1. k - 2 \in Nat
          BY <2>1, <3>2
        <5> QED BY <5>1, PowerOfTen
      <4>2. Profit(part, Size.k, price) = gain \div P
        BY <3>2 DEF Profit
      <4> HIDE DEF P, gain
      <4> QED BY <3>1, <4>1, <4>2
    <3>3. CASE ~ k > 2
      <4> DEFINE P == Power(10, 2 - k)
      <4>1. P \in Nat \ {0}
        <5>1. 2 - k \in Nat
          BY <2>1, <3>3
        <5> QED BY <5>1, PowerOfTen
      <4>2. Profit(part, Size.k, price) = gain * P
        BY <3>3 DEF Profit
      <4> HIDE DEF P, gain
      <4> QED BY <3>1, <4>1, <4>2
    <3> QED BY <3>2, <3>3
  <2>3. notice' = {Written(part, Size.k), Written(Profit(part, Size.k, price), 4)}
    BY <1>2
  <2> QED BY <1>6, <1>7, <2>1, <2>2, <2>3 DEF NoticesWritten
<1> QED BY <1>12, <1>13, <1>14, <1>15, <1>16 DEF LifeInv

LEMMA EndKeeps == ASSUME LifeInv, End, Prepared' PROVE LifeInv'
<1>1. phase = "live" /\ asked' = asked /\ order' = order /\ notice' = notice /\ paid' = paid
  BY DEF End
<1>2. PICK how \in {"CANCELED", "EXPIRED", "REJECTED"} :
        /\ phase' = how
        /\ record' = [record EXCEPT
             !.cancelledAt = how = "CANCELED", !.expiredAt = how = "EXPIRED",
             !.rejectedAt = how = "REJECTED", !.status = IF @ = "" THEN "" ELSE how]
  BY DEF End
<1>3. LifeTypeOK
  BY DEF LifeInv
<1>4. /\ record'.trades = record.trades /\ record'.executedAt = record.executedAt
      /\ record'.cancelledAt = (how = "CANCELED") /\ record'.expiredAt = (how = "EXPIRED")
      /\ record'.rejectedAt = (how = "REJECTED")
      /\ record'.status = IF record.status = "" THEN "" ELSE how
  BY <1>2, <1>3 DEF LifeTypeOK, Records
<1>5. LifeTypeOK'
  BY <1>1, <1>2, <1>3 DEF LifeTypeOK, Records, Ended
<1>6. OrderPlaced' /\ TimesTell' /\ TradesTell' /\ NoticesWritten'
  BY <1>1, <1>2, <1>4
     DEF LifeInv, OrderPlaced, TimesTell, TradesTell, NoticesWritten, Placed, Size
<1> QED BY <1>5, <1>6 DEF LifeInv

LEMMA LifeInvariant == LifeSpec => []LifeInv
<1>1. LifeInit => LifeInv
  BY LifeInitially
<1>2. LifeInv /\ [LifeNext]_lifeVars /\ Prepared' => LifeInv'
  <2> SUFFICES ASSUME LifeInv, [LifeNext]_lifeVars, Prepared' PROVE LifeInv'
    OBVIOUS
  <2>1. CASE UNCHANGED lifeVars
    BY <2>1 DEF LifeInv, LifeTypeOK, OrderPlaced, TimesTell, TradesTell, NoticesWritten, Placed, Size, lifeVars
  <2> QED BY <2>1, PrepareKeeps, FillKeeps, EndKeeps DEF LifeNext
<1>3. LifeSpec => []Prepared
  BY PreparedAlways
<1> QED BY <1>1, <1>2, <1>3, PTL DEF LifeSpec

-----------------------------------------------------------------------------
LEMMA HowItEnded ==
  ASSUME LifeInv, Placed
  PROVE  /\ phase \in {"live", "executed", "CANCELED", "EXPIRED", "REJECTED"}
         /\ record.executedAt <=> phase = "executed"
         /\ record.cancelledAt <=> phase = "CANCELED"
         /\ record.expiredAt <=> phase = "EXPIRED"
         /\ record.rejectedAt <=> phase = "REJECTED"
<1>1. phase \in {"live", "executed", "CANCELED", "EXPIRED", "REJECTED"}
  BY DEF LifeInv, LifeTypeOK, Placed, Ended
<1>2. /\ record.executedAt = (phase = "executed") /\ record.cancelledAt = (phase = "CANCELED")
      /\ record.expiredAt = (phase = "EXPIRED") /\ record.rejectedAt = (phase = "REJECTED")
  BY DEF LifeInv, TimesTell
<1> QED BY <1>1, <1>2, Zenon

LEMMA LifeOpen == LifeInv => OpenWhileLive
<1> SUFFICES ASSUME LifeInv, Placed
             PROVE  (IsOpen(record) <=> phase = "live") /\ (HasClosedAt(record) <=> phase # "live")
  BY DEF OpenWhileLive
<1>1. /\ phase \in {"live", "executed", "CANCELED", "EXPIRED", "REJECTED"}
      /\ record.executedAt <=> phase = "executed"
      /\ record.cancelledAt <=> phase = "CANCELED"
      /\ record.expiredAt <=> phase = "EXPIRED"
      /\ record.rejectedAt <=> phase = "REJECTED"
  BY HowItEnded
<1>2. HasClosedAt(record) <=> phase # "live"
  BY <1>1 DEF HasClosedAt
<1>3. CASE record.status = ""
  <2>1. Status(record) = InferredStatus(record)
    BY <1>3 DEF Status
  <2>2. CASE phase = "live"
    <3>1. Ending(record) = ""
      BY <1>1, <2>2 DEF Ending
    <3>2. InferredStatus(record) \in {"open", "partiallyFilled"}
      BY <3>1 DEF InferredStatus
    <3> QED BY <1>2, <2>1, <2>2, <3>2 DEF IsOpen
  <2>3. CASE phase # "live"
    <3>1. Ending(record) \in {"executed", "canceled", "expired", "rejected"}
      BY <1>1, <2>3 DEF Ending
    <3>2. InferredStatus(record) = Ending(record)
      BY <3>1 DEF InferredStatus
    <3>3. ~IsOpen(record)
      BY <2>1, <3>1, <3>2 DEF IsOpen
    <3> QED BY <1>2, <2>3, <3>3
  <2> QED BY <2>2, <2>3
<1>4. CASE record.status # ""
  <2>1. Status(record) = record.status
    BY <1>4 DEF Status
  <2>2. record.status = IF phase = "live"
                        THEN IF record.trades = <<>> THEN "OPEN" ELSE "PARTIALLY_FILLED"
                        ELSE IF phase = "executed" THEN "EXECUTED" ELSE phase
    BY <1>4 DEF LifeInv, TimesTell
  <2> QED BY <1>1, <1>2, <2>1, <2>2 DEF IsOpen
<1> QED BY <1>3, <1>4

\* Every trade has a size.
LEMMA AllExecuted ==
  ASSUME LifeInv
  PROVE  /\ record.trades \in Seq(Trade) /\ Executions(record) = DOMAIN record.trades
         /\ Executions(record) = {} <=> record.trades = <<>>
<1>1. record.trades \in Seq(Trade)
  BY DEF LifeInv, LifeTypeOK, Records
<1>2. Executions(record) = DOMAIN record.trades
  BY <1>1, TradeTerms DEF Executions, Trade
<1>3. DOMAIN record.trades = {} <=> record.trades = <<>>
  <2>1. DOMAIN record.trades = 1 .. Len(record.trades) /\ Len(record.trades) \in Nat
    BY <1>1, TradeTerms
  <2>2. record.trades = <<>> <=> Len(record.trades) = 0
    BY <1>1
  <2> DEFINE n == Len(record.trades)
  <2>3. 1 .. n = {} <=> n = 0
    <3>1. n \in Nat
      BY <2>1
    <3> HIDE DEF n
    <3>2. CASE n = 0
      BY <3>2
    <3>3. CASE n # 0
      <4>1. 1 \in 1 .. n
        BY <3>1, <3>3
      <4> QED BY <3>3, <4>1
    <3> QED BY <3>2, <3>3
  <2> QED BY <2>1, <2>2, <2>3
<1> QED BY <1>1, <1>2, <1>3

LEMMA LifeExecuted == LifeInv => ExecutedWhenTraded
<1> SUFFICES ASSUME LifeInv, Placed
             PROVE  IsExecuted(record) <=> record.trades # <<>>
  BY DEF ExecutedWhenTraded
<1>1. TimesTell /\ phase \in {"live", "executed", "CANCELED", "EXPIRED", "REJECTED"}
  BY DEF LifeInv, LifeTypeOK, Placed, Ended
<1>2. CASE record.trades # <<>>
  BY <1>2, AllExecuted DEF IsExecuted, HasExecutedAt
<1>3. CASE record.trades = <<>>
  <2>1. ~HasExecutedAt(record) /\ ExecutedQuantity(record) = {} /\ ~record.executedAt
    BY <1>1, <1>3, AllExecuted DEF HasExecutedAt, ExecutedQuantity, TimesTell
  <2>2. ~HasFills(record)
    <3>1. SumOf(record.trades, DOMAIN record.trades, LAMBDA t : t.size) = Sum(SizesOf(record.trades))
      BY AllExecuted, SizeOfAll
    <3>2. Sum(SizesOf(record.trades)) = 0
      BY <1>3, NoTrades
    <3> QED BY <3>1, <3>2 DEF HasFills
  <2>3. Status(record) \notin {"EXECUTED", "executed", "PARTIALLY_FILLED", "partiallyFilled"}
    <3>1. CASE record.status = ""
      BY <2>1, <2>2, <3>1 DEF Status, InferredStatus, Ending
    <3>2. CASE record.status # ""
      BY <1>1, <1>3, <3>2 DEF Status, TimesTell
    <3> QED BY <3>1, <3>2
  <2> QED BY <1>3, <2>1, <2>3 DEF IsExecuted
<1> QED BY <1>2, <1>3

-----------------------------------------------------------------------------
LEMMA Extremes ==
  ASSUME NEW n \in Nat, NEW f \in [1 .. n -> Nat], NEW S, S \subseteq {f[i] : i \in 1 .. n}, S # {}
  PROVE  /\ Min(S) \in S /\ \A x \in S : Min(S) <= x
         /\ Max(S) \in S /\ \A x \in S : x <= Max(S)
<1>1. S \in SUBSET Nat
  OBVIOUS
<1>2. \E m \in S : \A x \in S : m <= x
  BY <1>1, LeastNumber
<1> DEFINE T == {k \in 0 .. n : ~ \E bound \in Nat : \A i \in 1 .. k : f[i] <= bound}
<1>3. T = {}
  <2> SUFFICES ASSUME T # {} PROVE FALSE
    OBVIOUS
  <2> T \in SUBSET Nat
    OBVIOUS
  <2>1. PICK k \in T : \A l \in T : k <= l
    <3> HIDE DEF T
    <3> QED BY LeastNumber
  <2>2. CASE k = 0
    BY <2>1, <2>2
  <2>3. CASE k # 0
    <3>0. k \in 1 .. n /\ k - 1 \in 0 .. n
      BY <2>1, <2>3
    <3>1. k - 1 \notin T
      <4> HIDE DEF T
      <4> QED BY <2>1, <3>0
    <3>2. PICK bound \in Nat : \A i \in 1 .. k - 1 : f[i] <= bound
      BY <3>0, <3>1
    <3> DEFINE higher == IF f[k] <= bound THEN bound ELSE f[k]
    <3>a. f[k] \in Nat
      BY <3>0
    <3>3. higher \in Nat /\ bound <= higher /\ f[k] <= higher
      <4> DEFINE v == f[k]
      <4> v \in Nat
        BY <3>a
      <4> HIDE DEF v
      <4>1. CASE v <= bound
        BY <4>1 DEF v
      <4>2. CASE ~ v <= bound
        <5>1. higher = v
          BY <4>2 DEF v
        <5>2. bound <= v /\ v <= v
          BY <4>2
        <5>3. f[k] = v
          BY DEF v
        <5> HIDE DEF higher
        <5> QED BY <5>1, <5>2, <5>3
      <4> QED BY <4>1, <4>2
    <3> HIDE DEF higher
    <3>4. \A i \in 1 .. k : f[i] <= higher
      <4> TAKE i \in 1 .. k
      <4>1. CASE i = k
        BY <3>3, <4>1
      <4>2. CASE i # k
        <5>1. i \in 1 .. k - 1 /\ i \in 1 .. n
          BY <3>0, <4>2
        <5>2. f[i] <= bound
          BY <3>2, <5>1
        <5>3. f[i] \in Nat
          BY <5>1
        <5> DEFINE v == f[i]
        <5>4. v \in Nat /\ v <= bound /\ bound <= higher /\ higher \in Nat
          BY <3>3, <5>2, <5>3
        <5> HIDE DEF v
        <5>5. v <= higher
          BY <5>4
        <5> QED BY <5>5 DEF v
      <4> QED BY <4>1, <4>2
    <3> QED BY <2>1, <3>3, <3>4
  <2> QED BY <2>2, <2>3
<1>4. PICK bound \in Nat : \A i \in 1 .. n : f[i] <= bound
  <2>1. n \in 0 .. n
    OBVIOUS
  <2> QED BY <1>3, <2>1
<1>5. \E m \in S : \A x \in S : x <= m
  <2> DEFINE U == {bound - x : x \in S}
  <2>1. U \in SUBSET Nat /\ U # {}
    <3>1. \A x \in S : x <= bound
      BY <1>4
    <3>2. \A x \in S : bound - x \in Nat
      <4> TAKE x \in S
      <4>1. x \in Nat /\ x <= bound
        BY <1>1, <3>1
      <4> QED BY <4>1
    <3> QED BY <3>2
  <2>2. PICK m \in U : \A u \in U : m <= u
    BY <2>1, LeastNumber
  <2>3. PICK y \in S : m = bound - y
    OBVIOUS
  <2>4. ASSUME NEW x \in S PROVE x <= y
    <3>1. bound - x \in U
      OBVIOUS
    <3>2. bound - y <= bound - x
      BY <2>2, <2>3, <3>1
    <3> QED BY <1>1, <3>2
  <2> QED BY <2>4
<1> QED BY <1>2, <1>5 DEF Min, Max

LEMMA LifePrice == LifeInv => PriceIsWhatWasPaid
<1> DEFINE trades == record.trades
           n == Len(trades)
           priced == {i \in Executions(record) : trades[i].price > 0}
           prices == {trades[i].price : i \in DOMAIN trades} \ {0}
           pay == [i \in DOMAIN trades |-> IF i \in priced THEN trades[i].price * trades[i].size ELSE 0]
           size == [i \in DOMAIN trades |-> IF i \in priced THEN trades[i].size ELSE 0]
<1> SUFFICES ASSUME LifeInv, NEW q \in ExecutionPrice(record)
             PROVE  /\ q.size * Min(prices) <= q.paid /\ q.paid <= q.size * Max(prices)
                    /\ q.paid = paid
                    /\ (\A i \in DOMAIN trades : trades[i].price > 0) =>
                         ExecutedQuantity(record) = {q.size}
  BY DEF PriceIsWhatWasPaid
<1>1. /\ trades \in Seq(Trade) /\ Executions(record) = 1 .. n /\ DOMAIN trades = 1 .. n /\ n \in Nat
      /\ \A i \in 1 .. n : trades[i].price \in Nat /\ trades[i].size \in Nat \ {0}
  BY AllExecuted, TradeTerms DEF Trade
<1>2. priced # {} /\ q = [paid |-> Sum(pay), size |-> Sum(size)]
  BY DEF ExecutionPrice, SumOf
<1> HIDE DEF n
<1>3. priced \in SUBSET (1 .. n) /\ \A i \in 1 .. n : i \in priced <=> trades[i].price > 0
  BY <1>1
<1>4. /\ Min(prices) \in Nat /\ \A x \in prices : Min(prices) <= x
      /\ Max(prices) \in Nat /\ \A x \in prices : x <= Max(prices)
      /\ \A i \in priced : trades[i].price \in prices
  <2> DEFINE f == [i \in 1 .. n |-> trades[i].price]
  <2>1. f \in [1 .. n -> Nat]
    BY <1>1
  <2>2. prices \subseteq {f[i] : i \in 1 .. n}
    BY <1>1
  <2>3. \A i \in priced : trades[i].price \in prices
    BY <1>1, <1>3
  <2>4. prices # {} /\ prices \subseteq Nat
    BY <1>1, <1>2, <2>3
  <2> HIDE DEF f, prices
  <2>5. /\ Min(prices) \in prices /\ \A x \in prices : Min(prices) <= x
        /\ Max(prices) \in prices /\ \A x \in prices : x <= Max(prices)
    BY <1>1, <2>1, <2>2, <2>4, Extremes
  <2> QED BY <2>3, <2>4, <2>5
<1>5. \A i \in 1 .. n : trades[i].price * trades[i].size \in Int
  BY <1>1
<1>6. pay \in [1 .. n -> Int] /\ size \in [1 .. n -> Int]
  BY <1>1, <1>5
<1> DEFINE low == Min(prices)
           high == Max(prices)
<1> HIDE DEF priced, prices, low, high
<1>7. \A i \in 1 .. n : low * size[i] <= 1 * pay[i] /\ 1 * pay[i] <= high * size[i]
  <2> SUFFICES ASSUME NEW i \in 1 .. n
               PROVE  low * size[i] <= 1 * pay[i] /\ 1 * pay[i] <= high * size[i]
    OBVIOUS
  <2> DEFINE p == trades[i].price
             s == trades[i].size
  <2>1. p \in Nat /\ s \in Nat \ {0} /\ low \in Nat /\ high \in Nat
    BY <1>1, <1>4 DEF low, high
  <2>2. CASE i \in priced
    <3>1. low <= p /\ p <= high
      BY <1>4, <2>2 DEF low, high
    <3>2. pay[i] = p * s /\ size[i] = s
      BY <1>1, <2>2
    <3> HIDE DEF p, s, pay, size
    <3>3. low * s <= p * s
      BY <2>1, <3>1
    <3>4. p * s <= high * s
      BY <2>1, <3>1
    <3>5. 1 * (p * s) = p * s
      BY <2>1
    <3> QED BY <3>2, <3>3, <3>4, <3>5
  <2>3. CASE i \notin priced
    <3>1. pay[i] = 0 /\ size[i] = 0
      BY <1>1, <2>3
    <3> HIDE DEF pay, size
    <3> QED BY <2>1, <3>1
  <2> QED BY <2>2, <2>3
<1>8. low * Sum(size) <= 1 * Sum(pay) /\ 1 * Sum(pay) <= high * Sum(size)
  <2> HIDE DEF pay, size
  <2>0. 1 \in Int
    OBVIOUS
  <2>1. low \in Int /\ high \in Int /\ n \in Nat
    BY <1>1, <1>4 DEF low, high
  <2>2. \A i \in 1 .. n : low * size[i] <= 1 * pay[i]
    BY <1>7
  <2>3. \A i \in 1 .. n : 1 * pay[i] <= high * size[i]
    BY <1>7
  <2>4. low * Sum(size) <= 1 * Sum(pay)
    BY <1>6, <2>0, <2>1, <2>2, SumMonotone, Zenon
  <2>5. 1 * Sum(pay) <= high * Sum(size)
    BY <1>6, <2>0, <2>1, <2>3, SumMonotone, Zenon
  <2> QED BY <2>4, <2>5
<1>9. Sum(pay) = paid
  <2>1. pay = PaidFor(trades)
    <3>1. \A i \in 1 .. n : pay[i] = trades[i].price * trades[i].size
      <4> TAKE i \in 1 .. n
      <4>1. CASE i \in priced
        BY <1>1, <4>1
      <4>2. CASE i \notin priced
        <5>1. trades[i].price = 0 /\ trades[i].size \in Nat
          BY <1>1, <1>3, <4>2
        <5>2. 0 * trades[i].size = 0
          BY <5>1
        <5> QED BY <1>1, <4>2, <5>1, <5>2
      <4> QED BY <4>1, <4>2
    <3> QED BY <1>1, <3>1 DEF PaidFor
  <2> QED BY <2>1 DEF LifeInv, TradesTell
<1>10. ASSUME \A i \in DOMAIN trades : trades[i].price > 0
       PROVE  ExecutedQuantity(record) = {Sum(size)}
  <2>1. priced = Executions(record)
    BY <1>1, <1>3, <1>10
  <2>2. Executions(record) # {}
    BY <1>2, <2>1
  <2> QED BY <2>1, <2>2 DEF ExecutedQuantity, SumOf
<1>11. Sum(size) \in Int /\ Sum(pay) \in Int /\ low \in Int /\ high \in Int
  <2>1. low \in Int /\ high \in Int
    BY <1>4 DEF low, high
  <2> HIDE DEF pay, size
  <2> QED BY <1>1, <1>6, <2>1, SumType
<1> DEFINE sumOfSize == Sum(size)
           sumOfPay == Sum(pay)
<1>12. sumOfSize * low <= sumOfPay /\ sumOfPay <= sumOfSize * high
  <2> HIDE DEF sumOfSize, sumOfPay
  <2>1. low * sumOfSize <= 1 * sumOfPay /\ 1 * sumOfPay <= high * sumOfSize
    BY <1>8 DEF sumOfSize, sumOfPay
  <2>2. sumOfSize \in Int /\ sumOfPay \in Int /\ low \in Int /\ high \in Int
    BY <1>11 DEF sumOfSize, sumOfPay
  <2>3. low * sumOfSize = sumOfSize * low /\ high * sumOfSize = sumOfSize * high /\ 1 * sumOfPay = sumOfPay
    BY <2>2
  <2> QED BY <2>1, <2>3
<1> QED BY <1>2, <1>9, <1>10, <1>12 DEF low, high

LEMMA LifeDecimals == LifeInv => DecimalsRead
<1> SUFFICES ASSUME LifeInv, NEW d \in notice
             PROVE  LET text == DecimalText(d.wire)
                    IN  /\ text.whole # <<>> /\ Len(text.fraction) = d.wire.scale
                        /\ Number(text.whole \o text.fraction) = IF d.n < 0 THEN -d.n ELSE d.n
                        /\ text.negative = (d.n < 0)
  BY DEF DecimalsRead
<1>1. PICK n \in Int, scale \in Nat : d = Written(n, scale)
  BY DEF LifeInv, NoticesWritten
<1>2. d.n = n /\ d.wire.scale = scale
  BY <1>1 DEF Written
<1> QED BY <1>1, <1>2, DecimalReads

\* normalizeOrder() and the decoder of order updates never lose an order: a live
\* one is listed as open and an ended one is not, one that traded is listed as
\* executed with a price between those of its trades, whatever order its trades
\* come in, and the decimals of every update read as the number the broker
\* wrote, of any width and sign.
THEOREM RecordsTellOrderAlways == LifeSpec => []RecordsTellOrder
<1>1. LifeInv => RecordsTellOrder
  BY LifeOpen, LifeExecuted, LifePrice, LifeDecimals DEF RecordsTellOrder
<1> QED BY <1>1, LifeInvariant, PTL
=============================================================================
