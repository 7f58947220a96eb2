---------------------------- MODULE ReplSession ----------------------------
(***************************************************************************)
(* The session of the REPL (demo/repl.mjs): it is restored when the REPL   *)
(* starts, made by loginQr(), refreshed by refresh() and by a timer that   *)
(* is set again after every refresh, and dropped by clear().  The timer's  *)
(* refresh and the helpers run at the same time; the timer is known by one *)
(* handle, and a timer whose handle is overwritten stays set.              *)
(***************************************************************************)
EXTENDS Naturals

CONSTANTS
  Helpers,   \* session helpers that may be under way at the same time
  MaxStrays  \* bound on the timers that are set and have no handle

ASSUME ReplSessionAssumption == MaxStrays \in Nat

VARIABLES
  replSession,  \* whether the client has a usable session
  stored,       \* whether the session file has one
  token,        \* whether a WAF token is configured or in the web context
  handle,       \* sessionRefreshTimer: whether it is that of a timer
  strays,       \* timers without a handle
  scheduled,    \* what runScheduledSessionRefresh awaits, "idle" for nothing
  helpers,      \* what the helpers await
  kept          \* history: the REPL has said when it will poll, and clear() was not called since

replSessionVars == <<replSession, stored, token, handle, strays, scheduled, helpers, kept>>
client == <<replSession, stored, token>>
timers == <<handle, strays>>

HelperAt(h, pc) == helpers' = [helpers EXCEPT ![h] = pc]

(***************************************************************************)
(* scheduleSessionRefresh of a usable session.                             *)
(***************************************************************************)
Schedules ==
  /\ handle' = TRUE /\ strays' = strays /\ kept' = TRUE

\* setTimeout without stopSessionRefresh: the timer of the handle goes astray.
MutantArms == UNCHANGED timers

Arms ==
  /\ handle' = TRUE
  /\ strays' = (IF handle THEN strays + 1 ELSE strays)
  /\ strays' <= MaxStrays

(***************************************************************************)
(* The timers, whichever fires: the handle becomes null.                   *)
(***************************************************************************)
Fires ==
  /\ handle' = FALSE
  /\ scheduled' = IF scheduled = "idle" THEN "restoring" ELSE scheduled
  /\ UNCHANGED <<client, helpers, kept>>

TimerFires == handle /\ strays' = strays /\ Fires

StrayFires ==
  /\ strays > 0 /\ strays' = (IF handle THEN strays ELSE strays - 1)
  /\ Fires

(***************************************************************************)
(* runScheduledSessionRefresh: restoreSession, refreshSession, cash().     *)
(***************************************************************************)
\* restoreSession replaces the session of the client if the file has one.
Restores == replSession' = (replSession \/ stored)

\* Without a session the refresh that follows cannot but fail.
ScheduledRestored ==
  /\ scheduled = "restoring" /\ scheduled' = "refreshing"
  /\ Restores /\ replSession'
  /\ UNCHANGED <<stored, token, timers, helpers, kept>>

\* The answer sets the session of the client again and saves it, whatever
\* became of it meanwhile.
Refreshed == replSession' = TRUE /\ stored' = TRUE /\ UNCHANGED token

ScheduledRefreshed ==
  /\ scheduled = "refreshing" /\ scheduled' = "cash"
  /\ Refreshed
  /\ UNCHANGED <<timers, helpers, kept>>

ScheduledEnds ==
  /\ scheduled = "cash" /\ scheduled' = "idle"
  /\ Schedules
  /\ UNCHANGED <<client, helpers>>

\* A retry after 30 seconds, announced like any other poll.
ScheduledFails ==
  /\ scheduled # "idle" /\ scheduled' = "idle"
  /\ Arms /\ kept' = TRUE
  /\ UNCHANGED <<client, helpers>>

(***************************************************************************)
(* loginQr: ensureLoginContext, the login, and loginProfile, which catches *)
(* its errors; the countdown is stopped however it ends.                   *)
(***************************************************************************)
LoginStarts(h) ==
  /\ helpers[h] = "none"
  /\ HelperAt(h, IF token THEN "approving" ELSE "context")
  /\ UNCHANGED <<client, timers, scheduled, kept>>

ContextCollects(h) ==
  /\ helpers[h] = "context" /\ HelperAt(h, "approving")
  /\ token' = TRUE
  /\ UNCHANGED <<replSession, stored, timers, scheduled, kept>>

LoginApproved(h) ==
  /\ helpers[h] = "approving" /\ HelperAt(h, "profile")
  /\ Refreshed
  /\ UNCHANGED <<timers, scheduled, kept>>

ProfileRead(h) ==
  /\ helpers[h] = "profile" /\ HelperAt(h, "none")
  /\ Schedules
  /\ UNCHANGED <<client, scheduled>>

(***************************************************************************)
(* refresh(), clear(), and restore(), which every other helper begins      *)
(* with (ensureSession) and which sets no timer.                           *)
(***************************************************************************)
RefreshStarts(h) ==
  /\ helpers[h] = "none" /\ replSession /\ HelperAt(h, "refreshing")
  /\ UNCHANGED <<client, timers, scheduled, kept>>

RefreshAnswers(h) ==
  /\ helpers[h] = "refreshing" /\ HelperAt(h, "none")
  /\ Refreshed
  /\ Schedules
  /\ UNCHANGED scheduled

\* stopSessionRefresh, and the session is emptied before the file is.
ClearStarts(h) ==
  /\ helpers[h] = "none" /\ HelperAt(h, "clearing")
  /\ handle' = FALSE /\ kept' = FALSE /\ replSession' = FALSE
  /\ UNCHANGED <<stored, token, strays, scheduled>>

FileCleared(h) ==
  /\ helpers[h] = "clearing" /\ HelperAt(h, "none")
  /\ stored' = FALSE
  /\ UNCHANGED <<replSession, token, timers, scheduled, kept>>

Restore ==
  /\ Restores
  /\ UNCHANGED <<stored, token, timers, scheduled, helpers, kept>>

HelperThrows(h) ==
  /\ helpers[h] \notin {"none", "profile"} /\ HelperAt(h, "none")
  /\ UNCHANGED <<client, timers, scheduled, kept>>

\* The REPL is left and started again.
Restarts ==
  /\ replSession' = stored /\ handle' = stored /\ kept' = stored
  /\ strays' = 0 /\ scheduled' = "idle" /\ helpers' = [h \in Helpers |-> "none"]
  /\ UNCHANGED <<stored, token>>

(***************************************************************************)
(* The specification.                                                      *)
(***************************************************************************)
ReplSessionInit ==
  /\ stored \in BOOLEAN /\ token \in BOOLEAN
  /\ replSession = stored /\ handle = stored /\ kept = stored
  /\ strays = 0 /\ scheduled = "idle" /\ helpers = [h \in Helpers |-> "none"]

SessionHelper(h) ==
  \/ LoginStarts(h) \/ ContextCollects(h) \/ LoginApproved(h) \/ ProfileRead(h)
  \/ RefreshStarts(h) \/ RefreshAnswers(h) \/ ClearStarts(h) \/ FileCleared(h)
  \/ HelperThrows(h)

ReplSessionNext ==
  \/ TimerFires \/ StrayFires
  \/ ScheduledRestored \/ ScheduledRefreshed \/ ScheduledEnds \/ ScheduledFails
  \/ \E h \in Helpers : SessionHelper(h)
  \/ Restore \/ Restarts

ReplSessionSpec == ReplSessionInit /\ [][ReplSessionNext]_replSessionVars

(***************************************************************************)
(* Properties.                                                             *)
(***************************************************************************)
\* What the REPL has promised to poll is polled: a timer is set or
\* a refresh that sets one is under way, whichever timers fired, were stopped
\* or lost their handle, and whatever failed (runScheduledSessionRefresh).
KeptAlive == kept => handle \/ strays > 0 \/ scheduled # "idle"
=============================================================================
