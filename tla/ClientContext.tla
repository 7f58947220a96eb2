---------------------------- MODULE ClientContext ----------------------------
(***************************************************************************)
(* What identifies one TradeRepublicClient to the broker: the browser      *)
(* context collected for it (waf.ts), the session and the WAF token set    *)
(* from it and the securities account number looked up for it              *)
(* (traderepublic-client.ts, client-runtime.ts), and the headers HttpClient *)
(* makes of them (http.ts).                                                *)
(*                                                                         *)
(* A WAF token is the number of its issue, 0 is none.  An account stands   *)
(* for its own account number and for the session tokens issued to it.     *)
(***************************************************************************)
EXTENDS Naturals, FiniteSets

CONSTANTS
  Account,
  None,     \* the JavaScript undefined
  MaxToken  \* bound on the tokens the site issues

ASSUME AccountAssumption == None \notin Account
ASSUME TokenAssumption == MaxToken \in Nat

VARIABLES
  collector,  \* the collection under way
  site,       \* the temporary browser context it drives
  issued,     \* tokens issued so far
  collected,  \* what the last collection that did not fail returned
  session, waf, number,  \* fields of the client
  lookup      \* the lookup of the account number under way

collection == <<collector, site, issued, collected>>
client == <<session, waf, number, lookup>>
vars == <<collection, client>>

Token == 0 .. MaxToken

\* headers['x-aws-waf-token'], awsWafToken, cookies['aws-waf-token'] and
\* whether there is any cookie.
WebContext == [header : Token, token : Token, cookie : Token, cookies : BOOLEAN]

\* {} is the session without an account.
Session == [account : Account \cup {None}, number : Account \cup {None}, web : WebContext \cup {None}]
Empty == [account |-> None, number |-> None, web |-> None]

\* undefined is no object.
ASSUME NoneAssumption == None \notin WebContext /\ None \notin Session

Closed == [pc |-> "closed", settle |-> FALSE, late |-> FALSE, cookie |-> 0, cookies |-> FALSE]
NewSite == [captured |-> 0, cookie |-> 0, cookies |-> FALSE, storage |-> 0]

Init ==
  /\ collector = Closed /\ site = NewSite
  /\ issued = 0 /\ collected = None
  /\ session = None /\ waf = 0 /\ number = None
  /\ lookup = [pc |-> "idle", cached |-> None, asked |-> None]

First(a, b) == IF a # 0 THEN a ELSE b

(***************************************************************************)
(* collectTradeRepublicWebContext.                                         *)
(***************************************************************************)
Open == collector.pc # "closed"

\* External: the page gets cookies, then tokens, each kept in a cookie, in the
\* page's storage or in both; its requests carry what it has.
SiteSetsCookies ==
  /\ Open /\ ~site.cookies
  /\ site' = [site EXCEPT !.cookies = TRUE]
  /\ UNCHANGED <<collector, issued, collected, client>>

SiteIssues ==
  /\ Open /\ issued < MaxToken /\ issued' = issued + 1
  /\ site' \in {[site EXCEPT !.cookie = issued', !.cookies = TRUE],
                [site EXCEPT !.storage = issued'],
                [site EXCEPT !.cookie = issued', !.cookies = TRUE, !.storage = issued']}
  /\ UNCHANGED <<collector, collected, client>>

\* captureRequest: a header not empty replaces the one seen before.  A
\* request's cookies are the context's own.
CaptureRequest ==
  /\ Open
  /\ \E header \in {site.cookie, site.storage} : site' = [site EXCEPT !.captured = First(header, @)]
  /\ UNCHANGED <<collector, issued, collected, client>>

\* The browser context is new: nothing of an earlier one is in it.
StartCollection ==
  /\ ~Open
  /\ \E settle \in BOOLEAN :
       collector' = [Closed EXCEPT !.pc = "loading", !.settle = settle]
  /\ UNCHANGED <<site, issued, collected, client>>

PageLoads ==
  /\ collector.pc = "loading"
  /\ collector' = [collector EXCEPT !.pc = "cookies"]
  /\ UNCHANGED <<site, issued, collected, client>>

\* buildWebContext awaits the cookies of the context, then the page's storage.
ReadCookies ==
  /\ collector.pc = "cookies"
  /\ collector' = [collector EXCEPT !.pc = "storage", !.cookie = site.cookie, !.cookies = site.cookies]
  /\ UNCHANGED <<site, issued, collected, client>>

Built(storage) ==
  [header  |-> site.captured,
   token   |-> First(site.captured, First(collector.cookie, storage)),
   cookie  |-> collector.cookie,
   cookies |-> collector.cookies]

HasWafToken(web) == web.token # 0 /\ web.cookies

MutantKeepsWaiting == TRUE

\* The finally block.
Closes == collector' = Closed /\ site' = NewSite

\* A settling time is waited for once, even after the deadline.
KeepsWaiting == collector.settle \/ ~collector.late

\* A page that cannot be evaluated has no storage.
ReadStorage ==
  /\ collector.pc = "storage"
  /\ \E storage \in {0, site.storage} :
       LET web == Built(storage)
       IN IF HasWafToken(web)
          THEN Closes /\ collected' = web
          ELSE /\ IF KeepsWaiting
                  THEN /\ collector' = [collector EXCEPT !.pc = "waiting", !.settle = FALSE]
                       /\ UNCHANGED site
                  ELSE Closes
               /\ UNCHANGED collected
  /\ UNCHANGED <<issued, client>>

WaitEnds ==
  /\ collector.pc = "waiting"
  /\ collector' = [collector EXCEPT !.pc = "cookies"]
  /\ UNCHANGED <<site, issued, collected, client>>

\* newPage, goto with its timeout, cookies or a wait rejects; the context is
\* closed on this path too.
CollectionFails ==
  /\ Open /\ Closes
  /\ UNCHANGED <<issued, collected, client>>

DeadlinePasses ==
  /\ Open /\ ~collector.late
  /\ collector' = [collector EXCEPT !.late = TRUE]
  /\ UNCHANGED <<site, issued, collected, client>>

Collects == PageLoads \/ ReadCookies \/ ReadStorage \/ WaitEnds

(***************************************************************************)
(* The client's fields.                                                    *)
(***************************************************************************)
Web == IF session = None THEN None ELSE session.web
Of(s) == IF s = None THEN None ELSE s.account

\* What setSession makes of session, waf and number.
Preserves(s) == IF s # Empty /\ s.web = None THEN [s EXCEPT !.web = Web] ELSE s

MutantSetSession(s) ==
  /\ session' = Preserves(s)
  /\ number' = IF s.number # None THEN s.number ELSE number

SetSession(s) ==
  /\ session' = Preserves(s)
  /\ number' = IF s.number # None THEN s.number ELSE IF s = Empty THEN None ELSE number

\* README.md:627: one client per account.  A client may go on to another one
\* with a session that has its number or after a clear, but never while a
\* lookup for the previous account runs.
MayUse(account, own) ==
  \/ Of(session) = account
  \/ lookup.pc = "idle" /\ (own # None \/ session \in {None, Empty})

\* A session of the application: one it saved, or that of a login.
UseSession ==
  /\ \E account \in Account, web \in {None, collected} :
     \E own \in {None, account} :
       /\ MayUse(account, own)
       /\ SetSession([account |-> account, number |-> own, web |-> web])
  /\ UNCHANGED <<collection, waf, lookup>>

\* The setSession({}) of clearSession.
ClearSession ==
  /\ lookup.pc = "idle"
  /\ SetSession(Empty)
  /\ UNCHANGED <<collection, waf, lookup>>

\* mergeTradeRepublicWebContexts: header by header and cookie by cookie.
Merge(left, right) ==
  IF left = None THEN right
  ELSE [header |-> First(right.header, left.header), token |-> First(right.token, left.token),
        cookie |-> First(right.cookie, left.cookie), cookies |-> left.cookies \/ right.cookies]

UseWebContext ==
  /\ collected # None
  /\ LET old == IF session = None THEN Empty ELSE session
     IN SetSession([old EXCEPT !.web = Merge(old.web, collected)])
  /\ UNCHANGED <<collection, waf, lookup>>

\* toTradeRepublicWafToken(), which refuses a context without a token.
WafTokens == IF collected = None THEN {} ELSE {collected.token} \ {0}

SetWafToken ==
  /\ waf' \in WafTokens
  /\ UNCHANGED <<collection, session, number, lookup>>

(***************************************************************************)
(* resolveSecuritiesAccountNumber.                                         *)
(***************************************************************************)
SetNumber(n) ==
  /\ number' = n
  /\ session' = IF session = None THEN None ELSE [session EXCEPT !.number = n]

Known == IF number # None THEN number ELSE IF session = None THEN None ELSE session.number

\* The query is sent with the token of the session there is now.
StartLookup ==
  /\ lookup.pc = "idle"
  /\ lookup' = [pc |-> "pairs", cached |-> Known, asked |-> Of(session)]
  /\ UNCHANGED <<collection, session, waf, number>>

Ends == lookup' = [lookup EXCEPT !.pc = "idle", !.cached = None, !.asked = None]

\* A replayed query has the old token in a connection of the new session: the
\* answer may be of either.
PairsAnswered ==
  /\ lookup.pc = "pairs"
  /\ \E n \in {lookup.asked, Of(session)} \ {None} : SetNumber(n)
  /\ Ends
  /\ UNCHANGED <<collection, waf>>

\* No number, an error or the timer: the number known at the start is taken,
\* or the account profile asked.
PairsUnanswered ==
  /\ lookup.pc = "pairs"
  /\ IF lookup.cached # None
     THEN Ends
     ELSE lookup' = [lookup EXCEPT !.pc = "rest", !.asked = Of(session)]
  /\ UNCHANGED <<collection, session, waf, number>>

RestAnswered ==
  /\ lookup.pc = "rest" /\ lookup.asked # None
  /\ SetNumber(lookup.asked) /\ Ends
  /\ UNCHANGED <<collection, waf>>

RestFails ==
  /\ lookup.pc = "rest"
  /\ Ends
  /\ UNCHANGED <<collection, session, waf, number>>

Next ==
  \/ SiteSetsCookies \/ SiteIssues \/ CaptureRequest
  \/ StartCollection \/ Collects \/ CollectionFails \/ DeadlinePasses
  \/ UseSession \/ ClearSession \/ UseWebContext \/ SetWafToken
  \/ StartLookup \/ PairsAnswered \/ PairsUnanswered \/ RestAnswered \/ RestFails

Spec == Init /\ [][Next]_vars

\* The browser answers what it is asked, and the clock runs.
FairSpec == Spec /\ WF_vars(Collects) /\ WF_vars(DeadlinePasses)

(***************************************************************************)
(* HttpClient.headers.                                                     *)
(***************************************************************************)
MutantContextHeader == IF Web = None THEN 0 ELSE Web.header

ContextHeader == IF waf # 0 \/ Web = None THEN 0 ELSE Web.header

\* The x-aws-waf-token header, the aws-waf-token cookie, and whether a request
\* has cookies.
SentHeader == First(ContextHeader, First(waf, IF Web = None THEN 0 ELSE Web.token))
SentCookie == First(waf, IF Web = None THEN 0 ELSE Web.cookie)
SendsCookies == waf # 0 \/ (Web # None /\ Web.cookies)

(***************************************************************************)
(* Properties.                                                             *)
(***************************************************************************)
\* The fields of the client, what a collection returned, and the collection.
ClientTypeOK ==
  /\ collected \in WebContext \cup {None}
  /\ session \in Session \cup {None} /\ number \in Account \cup {None}
  /\ lookup \in [pc : {"idle", "pairs", "rest"}, cached : Account \cup {None}, asked : Account \cup {None}]

CollectionTypeOK ==
  /\ collector \in [pc : {"closed", "loading", "cookies", "storage", "waiting"},
                    settle : BOOLEAN, late : BOOLEAN, cookie : Token, cookies : BOOLEAN]
  /\ site \in [captured : Token, cookie : Token, cookies : BOOLEAN, storage : Token]
  /\ ~Open => collector = Closed /\ site = NewSite
  /\ issued \in Token /\ waf \in Token

TypeOK == ClientTypeOK /\ CollectionTypeOK

\* README.md:464-473: a token set with setWafToken is the one every request
\* carries, in its header and in its cookie, whatever older contexts the
\* session was merged from.
SharedTokenUsed == waf # 0 => SentHeader = waf /\ SentCookie = waf

\* Requests made with a collected context have a token and cookies, through
\* every merge and every session set after it.
ContextSuffices == Web # None => SentHeader # 0 /\ SendsCookies

\* The account number the client knows is that of its session's account: the
\* number of an account that was cleared never serves the next one.
NumberOfAccount ==
  Of(session) # None => Known \in {None, Of(session)}

\* A collection ends, with or without a token.
CollectionEnds == Open ~> ~Open
=============================================================================
