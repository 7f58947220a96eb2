---------------------------- MODULE ClientSession ----------------------------
(***************************************************************************)
(* The session of one TradeRepublicClient and the SessionStore behind it:  *)
(* the methods of AuthApi (auth.ts) that set, check, save and clear it,    *)
(* each suspended at every await, with setSession of the client and the    *)
(* file of FileSessionStore (session.ts), which a save empties before it   *)
(* writes.                                                                 *)
(***************************************************************************)
EXTENDS Naturals, FiniteSets

CONSTANTS
  Refresh, Login, Restore, Save, Clear,  \* the calls an application may make, by method
  None,         \* no call, or the JavaScript undefined
  MaxRestarts   \* bound on crashes of the process

Flow == Refresh \cup Login
Call == Flow \cup Restore \cup Save \cup Clear

ASSUME CallAssumption ==
  /\ Refresh \cap Login = {} /\ Flow \cap Restore = {} /\ Flow \cap Save = {}
  /\ Flow \cap Clear = {} /\ Restore \cap Save = {} /\ Restore \cap Clear = {}
  /\ Save \cap Clear = {} /\ None \notin Call
ASSUME RestartAssumption == MaxRestarts \in Nat

(***************************************************************************)
(* A session is known by the call whose answers filled it, and by whether  *)
(* auth.session has confirmed it.  The object {} of clearSession is the    *)
(* one nothing filled.                                                     *)
(***************************************************************************)
Session == [from : Call \cup {None}, checked : BOOLEAN]
Empty == [from |-> None, checked |-> FALSE]

\* The file: none, emptied by a save under way, two saves over each other, or
\* the session of the call that wrote it.
Absent == [kind |-> "absent"]
Emptied == [kind |-> "emptied"]
Mixed == [kind |-> "mixed"]
Written(s, c) == [kind |-> "written", session |-> s, by |-> c]
File == {Absent, Emptied, Mixed} \cup {Written(s, c) : s \in Session, c \in Call}

VARIABLES
  session,   \* the client's session, or None
  file,      \* the store's file
  pc,        \* of each call
  held,      \* the session each call carries across its awaits
  detached,  \* saves whose open file a clear has removed
  last,      \* the last call to end since the process started, if none ran then
  overlapped,  \* history: whether a call ever began before another had ended
  restarts

vars == <<session, file, pc, held, detached, last, overlapped, restarts>>

Ended == {"ok", "failed", "lost"}
Running(c) == pc[c] \notin Ended \cup {"idle"}
Quiet == \A c \in Call : ~Running(c)

Init ==
  /\ session = None /\ file = Absent
  /\ pc = [c \in Call |-> "idle"] /\ held = [c \in Call |-> Empty]
  /\ detached = {} /\ last = None
  /\ overlapped = FALSE /\ restarts = 0

\* The client's setSession; that the mapper connections reconnect is
\* RefreshHeaders of MapperConnection.
SetSession(s) == session' = s

Starts(c) ==
  /\ pc[c] = "idle"
  /\ overlapped' = (overlapped \/ ~Quiet)
  /\ UNCHANGED restarts

Goes(c, to) ==
  /\ pc' = [pc EXCEPT ![c] = to]
  /\ last' = IF to \in Ended THEN c ELSE last

Holds(c, s) == held' = [held EXCEPT ![c] = s]

\* A call throws: what it did to the session and the file so far stays.
Fails(c) ==
  /\ Goes(c, "failed")
  /\ UNCHANGED <<session, file, held, detached>>

\* load(): a file that does not parse is no session, nor is one without the
\* device information that every set session but {} has.
Loads == IF file.kind = "written" /\ file.session # Empty THEN file.session ELSE None

(***************************************************************************)
(* refreshSession, and the login methods up to their finished process.     *)
(***************************************************************************)

\* completeWebSession sets the session and asks auth.session about it.
Checks(c, s) ==
  /\ Goes(c, "checking") /\ Holds(c, s) /\ SetSession(s)
  /\ UNCHANGED <<file, detached>>

StartRefresh(c) ==
  /\ c \in Refresh /\ Starts(c)
  /\ IF session # None
     THEN Checks(c, session)
     ELSE Goes(c, "loading") /\ UNCHANGED <<session, file, held, detached>>

\* The store answers, with the session of the client by then another, perhaps.
RefreshLoads(c) ==
  /\ c \in Refresh /\ pc[c] = "loading"
  /\ IF Loads = None THEN Fails(c) ELSE Checks(c, Loads)
  /\ UNCHANGED <<overlapped, restarts>>

StartLogin(c) ==
  /\ c \in Login /\ Starts(c)
  /\ Goes(c, "polling")
  /\ Holds(c, IF session = None THEN Empty ELSE session)
  /\ UNCHANGED <<session, file, detached>>

\* rememberProgressSession: a poll's cookies are merged into what the login
\* has accumulated, and set as the client's session there and then.
LoginProgresses(c) ==
  /\ c \in Login /\ pc[c] = "polling"
  /\ LET s == [from |-> c, checked |-> FALSE]
     IN Holds(c, s) /\ SetSession(s)
  /\ UNCHANGED <<file, pc, detached, last, overlapped, restarts>>

\* The process is done: its answer carries a session, or the accumulated one
\* is taken.
LoginCompletes(c) ==
  /\ c \in Login /\ pc[c] = "polling"
  /\ \E s \in {[from |-> c, checked |-> FALSE], held[c]} : Checks(c, s)
  /\ UNCHANGED <<overlapped, restarts>>

\* auth.session confirms the session; finalizeSession sets it and waits for
\* the securities account number, which may not be found.
CheckSucceeds(c) ==
  /\ pc[c] = "checking"
  /\ LET s == [from |-> c, checked |-> TRUE]
     IN Holds(c, s) /\ SetSession(s)
  /\ Goes(c, "numbering")
  /\ UNCHANGED <<file, detached, overlapped, restarts>>

\* The lookup ended, one way or the other: the session is set again and saved.
NumberFound(c) ==
  /\ pc[c] = "numbering"
  /\ SetSession(held[c])
  /\ Goes(c, "saving")
  /\ UNCHANGED <<file, held, detached, overlapped, restarts>>

\* An HTTP error, an abort, a rejected login, a deadline.
FlowFails(c) ==
  /\ pc[c] \in {"loading", "polling", "checking"}
  /\ Fails(c) /\ UNCHANGED <<overlapped, restarts>>

(***************************************************************************)
(* saveSession, restoreSession, clearSession.                              *)
(***************************************************************************)
StartSave(c) ==
  /\ c \in Save /\ Starts(c)
  /\ IF session = None
     THEN Fails(c)
     ELSE Holds(c, session) /\ Goes(c, "saving") /\ UNCHANGED <<session, file, detached>>

\* writeFile opens and empties the file, then writes at its own position.
SaveOpens(c) ==
  /\ pc[c] = "saving"
  /\ file' = Emptied /\ Goes(c, "writing")
  /\ UNCHANGED <<session, held, detached, overlapped, restarts>>

MutantSaveWrites(c) ==
  /\ pc[c] = "writing"
  /\ IF file = Emptied
     THEN file' = Written(IF session = None THEN Empty ELSE session, c)
     ELSE file' \in {Written(held[c], c), Mixed}
  /\ Goes(c, "ok")
  /\ UNCHANGED <<session, held, detached, overlapped, restarts>>

\* Over a longer text written meanwhile, the end of that text remains.
SaveWrites(c) ==
  /\ pc[c] = "writing"
  /\ CASE c \in detached  -> UNCHANGED file
       [] file = Emptied  -> file' = Written(held[c], c)
       [] OTHER           -> file' \in {Written(held[c], c), Mixed}
  /\ Goes(c, "ok")
  /\ UNCHANGED <<session, held, detached, overlapped, restarts>>

SaveFails(c) ==
  /\ pc[c] \in {"saving", "writing"}
  /\ Fails(c) /\ UNCHANGED <<overlapped, restarts>>

StartRestore(c) ==
  /\ c \in Restore /\ Starts(c)
  /\ Goes(c, "restoring")
  /\ UNCHANGED <<session, file, held, detached>>

RestoreLoads(c) ==
  /\ pc[c] = "restoring"
  /\ session' = IF Loads = None THEN session ELSE Loads
  /\ Goes(c, IF Loads = None THEN "failed" ELSE "ok")
  /\ UNCHANGED <<file, held, detached, overlapped, restarts>>

StartClear(c) ==
  /\ c \in Clear /\ Starts(c)
  /\ SetSession(Empty) /\ Goes(c, "clearing")
  /\ UNCHANGED <<file, held, detached>>

MutantClearRemoves(c) ==
  /\ pc[c] = "clearing"
  /\ Goes(c, "ok")
  /\ UNCHANGED <<session, file, held, detached, overlapped, restarts>>

ClearRemoves(c) ==
  /\ pc[c] = "clearing"
  /\ file' = Absent /\ Goes(c, "ok")
  /\ detached' = detached \cup {w \in Call : pc[w] = "writing"}
  /\ UNCHANGED <<session, held, overlapped, restarts>>

\* The process dies and starts again, without a session; the file stays.
Restarts ==
  /\ restarts < MaxRestarts /\ restarts' = restarts + 1
  /\ session' = None /\ last' = None
  /\ pc' = [c \in Call |-> IF Running(c) THEN "lost" ELSE pc[c]]
  /\ UNCHANGED <<file, held, detached, overlapped>>

Next ==
  \/ \E c \in Call :
       \/ StartRefresh(c) \/ RefreshLoads(c) \/ StartLogin(c) \/ LoginProgresses(c)
       \/ LoginCompletes(c) \/ CheckSucceeds(c) \/ NumberFound(c) \/ FlowFails(c)
       \/ StartSave(c) \/ SaveOpens(c) \/ SaveWrites(c) \/ SaveFails(c)
       \/ StartRestore(c) \/ RestoreLoads(c) \/ StartClear(c) \/ ClearRemoves(c)
  \/ Restarts

Spec == Init /\ [][Next]_vars

(***************************************************************************)
(* Properties.                                                             *)
(***************************************************************************)
TypeOK ==
  /\ session \in Session \cup {None}
  /\ file \in File
  /\ pc \in [Call -> Ended \cup {"idle", "loading", "polling", "checking", "numbering",
                                 "saving", "writing", "restoring", "clearing"}]
  /\ held \in [Call -> Session]
  /\ detached \subseteq Call
  /\ last \in Call \cup {None}
  /\ overlapped \in BOOLEAN /\ restarts \in 0..MaxRestarts

\* Login and refresh store only sessions that auth.session has confirmed,
\* whatever else sets the client's session while they wait: no half finished
\* login reaches the store, unless the application saves it itself.
StoredIsChecked ==
  file.kind = "written" => file.session.checked \/ file.by \in Save

\* While calls have come one at a time, a login or refresh that returned leaves its own
\* session in the client and in the store, and a clearSession leaves none in
\* either, whatever failed or crashed before.
SerialAgreement ==
  ~overlapped /\ Quiet /\ last # None /\ pc[last] = "ok" =>
    /\ last \in Flow => /\ session = held[last] /\ session.checked
                        /\ Loads = session
    /\ last \in Clear => session = Empty /\ Loads = None
    /\ last \in Restore => session = Loads
    /\ last \in Save => file = Written(session, last)

\* README.md:630-631: login and refresh save finalized account sessions
\* automatically.  Once one has returned and nothing is under way, there is a
\* session to load.
ReturnedIsStored ==
  Quiet /\ (\E c \in Flow : pc[c] = "ok") => Loads # None
=============================================================================
