----------------------------- MODULE TuiSession -----------------------------
(***************************************************************************)
(* The session of the terminal UI (demo/tui.mjs): it is restored and       *)
(* validated at boot, made by a QR login or, if they are configured, by    *)
(* phone and PIN, refreshed when a request of the dashboard is answered    *)
(* with 401, and replaced by relogin().  Every await lets keys, timers and *)
(* the answers of older logins in.                                         *)
(***************************************************************************)
EXTENDS Naturals

CONSTANT MaxAttempts  \* bound on the logins of one process

ASSUME TuiSessionAssumption == MaxAttempts \in Nat \ {0}

VARIABLES
  pin,        \* hasPinLoginConfig()
  saved,      \* whether the session file has a usable session
  signedIn,   \* whether the client has one
  phase,      \* state.phase
  boot,       \* what boot() awaits
  serial,     \* logins started; login.serial counts those by QR code
  attempts,   \* what each login awaits
  qr,         \* the login whose code is shown, or 0
  retry,      \* the login retryTimer was set by, or 0
  recovery,   \* what handleUnauthorized awaits; sessionRecoveryInFlight unless "none"
  relog       \* what relogin() awaits, a login by its number; reloginInFlight unless "none"

tuiSessionVars ==
  <<pin, saved, signedIn, phase, boot, serial, attempts, qr, retry, recovery, relog>>
sessions == <<saved, signedIn>>
logins == <<serial, attempts, qr, retry>>

Attempts == 1..MaxAttempts
Underway(a) == attempts[a] \in {"polling", "resolving", "saving"}

\* enterDashboard, up to the refreshDashboard that is awaited.
Enters == phase' = "dashboard" /\ retry' = 0 /\ qr' = 0

(***************************************************************************)
(* startLogin.  requestFreshQr aborts the login before it and clears the   *)
(* retry timer; the code that is shown stays.  loginWithPin clears it.     *)
(***************************************************************************)
StartsLogin ==
  /\ serial < MaxAttempts /\ serial' = serial + 1
  /\ attempts' = [attempts EXCEPT ![serial'] = "polling"]

Login ==
  /\ StartsLogin
  /\ retry' = (IF pin THEN retry ELSE 0)
  /\ qr' = (IF pin THEN 0 ELSE qr)

(***************************************************************************)
(* boot.                                                                   *)
(***************************************************************************)
BootRestores ==
  /\ boot = "restoring" /\ signedIn' = saved
  /\ boot' = IF saved THEN "validating" ELSE "browser"
  /\ UNCHANGED <<pin, saved, phase, logins, recovery, relog>>

BootValidates ==
  /\ boot = "validating" /\ boot' = "done" /\ Enters
  /\ UNCHANGED <<pin, sessions, serial, attempts, recovery, relog>>

\* validateRestoredSession discards the session before the browser is used.
BootDiscards ==
  /\ boot = "validating" /\ boot' = "browser"
  /\ signedIn' = FALSE /\ saved' = FALSE
  /\ UNCHANGED <<pin, phase, logins, recovery, relog>>

BootLogin ==
  /\ boot = "browser" /\ boot' = "done" /\ phase' = "login" /\ Login
  /\ UNCHANGED <<pin, sessions, recovery, relog>>

BootFails ==
  /\ boot \in {"restoring", "browser"} /\ boot' = "done" /\ phase' = "error"
  /\ UNCHANGED <<pin, sessions, logins, recovery, relog>>

(***************************************************************************)
(* A login.                                                                *)
(***************************************************************************)
\* Enter, or Escape in the login box.
Key ==
  /\ phase = "login" /\ Login
  /\ UNCHANGED <<pin, sessions, phase, boot, recovery, relog>>

\* onChallengeUpdate looks at the serial and the phase, and awaits the details
\* of the challenge; it does not look again.
UpdateArrives(a) ==
  /\ ~pin /\ attempts[a] = "polling" /\ a = serial /\ phase = "login"
  /\ attempts' = [attempts EXCEPT ![a] = "resolving"]
  /\ UNCHANGED <<pin, sessions, phase, boot, serial, qr, retry, recovery, relog>>

UpdateShown(a) ==
  /\ attempts[a] = "resolving" /\ attempts' = [attempts EXCEPT ![a] = "polling"]
  /\ qr' = a
  /\ UNCHANGED <<pin, sessions, phase, boot, serial, retry, recovery, relog>>

\* The client has the session before it is saved, be the login the newest or
\* one that was aborted after its last look at the signal.
Approved(a) ==
  /\ attempts[a] = "polling" /\ attempts' = [attempts EXCEPT ![a] = "saving"]
  /\ signedIn' = TRUE
  /\ UNCHANGED <<pin, saved, phase, boot, serial, qr, retry, recovery, relog>>

\* The login returns to whoever awaits it: relogin, and through it a recovery.
Returns(a) ==
  /\ attempts' = [attempts EXCEPT ![a] = "done"]
  /\ relog' = (IF relog = a THEN 0 ELSE relog)
  /\ recovery' = IF relog = a /\ recovery = "relogin" THEN "none" ELSE recovery

MutantCurrent(a) == pin \/ phase = "login"

\* After a QR login the serial and the phase are looked at again.
Current(a) == pin \/ (a = serial /\ phase = "login")

Saved(a) ==
  /\ attempts[a] = "saving" /\ saved' = TRUE
  /\ IF Current(a)
     THEN Enters /\ attempts' = [attempts EXCEPT ![a] = "loading"] /\ UNCHANGED <<recovery, relog>>
     ELSE Returns(a) /\ UNCHANGED <<phase, qr, retry>>
  /\ UNCHANGED <<pin, signedIn, boot, serial>>

\* The first refreshDashboard ends; it catches what fails.
Loaded(a) ==
  /\ attempts[a] = "loading" /\ Returns(a)
  /\ UNCHANGED <<pin, sessions, phase, boot, serial, qr, retry>>

MutantRetries(a) == retry' = (IF ~pin /\ Current(a) /\ retry # 0 THEN a ELSE retry)

\* scheduleQrRetry, unless the login was aborted by a newer one.
Retries(a) == retry' = (IF ~pin /\ Current(a) THEN a ELSE retry)

LoginFails(a) ==
  /\ Underway(a) /\ Returns(a) /\ Retries(a)
  /\ UNCHANGED <<pin, sessions, phase, boot, serial, qr>>

RetryFires ==
  /\ retry # 0
  /\ IF phase = "login" /\ retry = serial THEN Login
     ELSE retry' = 0 /\ UNCHANGED <<serial, attempts, qr>>
  /\ UNCHANGED <<pin, sessions, phase, boot, recovery, relog>>

(***************************************************************************)
(* handleUnauthorized and relogin.                                         *)
(***************************************************************************)
\* Any request of the dashboard may be answered with 401, an old one too.
Unauthorized ==
  /\ phase = "dashboard" /\ recovery = "none" /\ relog = 0
  /\ recovery' = "refreshing"
  /\ UNCHANGED <<pin, sessions, phase, boot, logins, relog>>

\* refreshSession sets the session of the client again and saves it.
RecoveryAnswers ==
  /\ recovery = "refreshing" /\ recovery' = "none"
  /\ signedIn' = TRUE /\ saved' = TRUE
  /\ UNCHANGED <<pin, phase, boot, logins, relog>>

\* discardSavedSession: clearSession() empties the session at once.
Discarding == MaxAttempts + 1
ReloginStarts == relog' = Discarding /\ signedIn' = FALSE

RecoveryFails ==
  /\ recovery = "refreshing"
  /\ IF relog = 0 THEN ReloginStarts /\ recovery' = "relogin"
     ELSE recovery' = "none" /\ UNCHANGED <<relog, signedIn>>
  /\ UNCHANGED <<pin, saved, phase, boot, logins>>

KeyL ==
  /\ phase = "dashboard" /\ relog = 0 /\ ReloginStarts
  /\ UNCHANGED <<pin, saved, phase, boot, logins, recovery>>

\* clearSession() is done, with an error or without.  The login that starts
\* is awaited with both flags set.
Discarded ==
  /\ relog = Discarding /\ saved' \in {FALSE, saved}
  /\ phase' = "login" /\ StartsLogin /\ relog' = serial'
  /\ retry' = 0 /\ qr' = 0
  /\ UNCHANGED <<pin, signedIn, boot, recovery>>

(***************************************************************************)
(* The specification.                                                      *)
(***************************************************************************)
NoLogins == [a \in Attempts |-> "none"]

TuiSessionInit ==
  /\ pin \in BOOLEAN /\ saved \in BOOLEAN
  /\ phase = "booting" /\ boot = "restoring" /\ signedIn = FALSE
  /\ serial = 0 /\ attempts = NoLogins /\ qr = 0 /\ retry = 0
  /\ recovery = "none" /\ relog = 0

\* Control-C, and another start.
Shutdown ==
  /\ phase' = "booting" /\ boot' = "restoring" /\ signedIn' = FALSE
  /\ serial' = 0 /\ attempts' = NoLogins /\ qr' = 0 /\ retry' = 0
  /\ recovery' = "none" /\ relog' = 0
  /\ UNCHANGED <<pin, saved>>

Attempt(a) ==
  UpdateArrives(a) \/ UpdateShown(a) \/ Approved(a) \/ Saved(a) \/ Loaded(a) \/ LoginFails(a)

TuiSessionNext ==
  \/ BootRestores \/ BootValidates \/ BootDiscards \/ BootLogin \/ BootFails
  \/ Key \/ RetryFires \/ Shutdown
  \/ \E a \in Attempts : Attempt(a)
  \/ Unauthorized \/ RecoveryAnswers \/ RecoveryFails \/ KeyL \/ Discarded

TuiSessionSpec == TuiSessionInit /\ [][TuiSessionNext]_tuiSessionVars

(***************************************************************************)
(* Properties.                                                             *)
(***************************************************************************)
\* A QR login that fails is always followed by another: in the login phase
\* the newest login is under way or its retry timer is set, however keys,
\* timers, older logins and relogin() interleave ("QR login failed.
\* Retrying.").
QrNeverStuck ==
  ~pin /\ phase = "login" => Underway(serial) \/ retry = serial

\* The dashboard has a session, but for the moment in which relogin() waits
\* for the file to be cleared: no late login, refresh or discard leaves the
\* dashboard open without one (QR logins, whose serial is looked at again).
DashboardHasSession ==
  ~pin /\ phase = "dashboard" => signedIn \/ relog = Discarding
=============================================================================
