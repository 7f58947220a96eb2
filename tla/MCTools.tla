------------------------------- MODULE MCTools -------------------------------
(***************************************************************************)
(* The programs around the client, each alone: the REPL's orders and its   *)
(* session; the terminal UI's session, dashboard, order dialogs and        *)
(* search; the session of the live tests; and the badge worker.  They      *)
(* share no state, so that nothing is gained from their interleavings: a   *)
(* behaviour is one of one of them, and the others stay as they begin.     *)
(***************************************************************************)
EXTENDS ReplOrders, ReplSession, TuiSession, TuiDashboard, TuiOrder, TuiSearch,
        LiveSession, CiBadges, TLC

VARIABLE part

all == <<part, replOrdersVars, replSessionVars, tuiSessionVars, tuiDashboardVars,
         tuiOrderVars, tuiSearchVars, liveVars, badgesVars>>

\* An order that lacks its venue, and one that lacks its price.
MCOrders == {[venue |-> TRUE, price |-> FALSE], [venue |-> FALSE, price |-> TRUE]}

Case(name, status) == [name |-> name, status |-> status]

\* Two cases and the table failed, or nothing did.
MCOutcomes ==
  { <<Case("a", "passed"), Case("b", "skipped")>>,
    <<Case("a", "failed"), Case("b", "failed"), Case(Publish, "failed")>> }

Wanted(category, inStore, link) == [category |-> category, stored |-> inStore, link |-> link]

MCRequested ==
  { Wanted("latest", TRUE, FALSE), Wanted("scheduled", TRUE, TRUE),
    Wanted("scheduled", FALSE, FALSE) }

Symmetric == Permutations(Posts) \union Permutations(Jobs)

Parts == {"repl orders", "repl session", "tui session", "tui dashboard", "tui order",
          "tui search", "live session", "badges"}

ToolsInit ==
  /\ part \in Parts
  /\ ReplOrdersInit /\ ReplSessionInit /\ TuiSessionInit /\ TuiDashboardInit
  /\ TuiOrderInit /\ TuiSearchInit /\ LiveInit /\ BadgesInit
  /\ part # "repl session" => ~stored /\ ~token
  /\ part # "tui session" => ~pin /\ ~saved
  /\ part # "live session" => secret = NoSession

\* What is not of the part that takes a step.
RestStays ==
  /\ UNCHANGED part
  /\ IF part = "repl orders" THEN TRUE ELSE UNCHANGED replOrdersVars
  /\ IF part = "repl session" THEN TRUE ELSE UNCHANGED replSessionVars
  /\ IF part = "tui session" THEN TRUE ELSE UNCHANGED tuiSessionVars
  /\ IF part = "tui dashboard" THEN TRUE ELSE UNCHANGED tuiDashboardVars
  /\ IF part = "tui order" THEN TRUE ELSE UNCHANGED tuiOrderVars
  /\ IF part = "tui search" THEN TRUE ELSE UNCHANGED tuiSearchVars
  /\ IF part = "live session" THEN TRUE ELSE UNCHANGED liveVars
  /\ IF part = "badges" THEN TRUE ELSE UNCHANGED badgesVars

ToolsNext ==
  \/ part = "repl orders" /\ ReplOrdersNext /\ RestStays
  \/ part = "repl session" /\ ReplSessionNext /\ RestStays
  \/ part = "tui session" /\ TuiSessionNext /\ RestStays
  \/ part = "tui dashboard" /\ TuiDashboardNext /\ RestStays
  \/ part = "tui order" /\ TuiOrderNext /\ RestStays
  \/ part = "tui search" /\ TuiSearchNext /\ RestStays
  \/ part = "live session" /\ LiveNext /\ RestStays
  \/ part = "badges" /\ BadgesNext /\ RestStays

ToolsSpec == ToolsInit /\ [][ToolsNext]_all
=============================================================================
