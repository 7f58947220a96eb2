------------------------------- MODULE MCApis -------------------------------
(***************************************************************************)
(* Two parts of one client: a login with a QR code, and calls of the raw   *)
(* API.  They share no state: a behaviour is one of one of them.           *)
(***************************************************************************)
EXTENDS RawApi, LoginPolling, TLC

CONSTANTS q1, a1, a2, s1, alarm1

MCQuery == {q1}
MCAlarm == {a1, a2}
MCStream == {s1}
MCAlarmOf == (a1 :> alarm1) @@ (a2 :> alarm1)

VARIABLE part

all == <<part, vars, loginVars>>

ApisInit == part \in {"calls", "login"} /\ Init /\ LoginInit

ApisNext ==
  \/ part = "calls" /\ Next /\ UNCHANGED <<part, loginVars>>
  \/ part = "login" /\ LoginNext /\ UNCHANGED <<part, vars>>

\* The fairness of RawApi and of LoginPolling.
ApisSpec ==
  /\ ApisInit /\ [][ApisNext]_all
  /\ \A c \in Call : WF_all(part = "calls" /\ TimerFires(c) /\ UNCHANGED <<part, loginVars>>)
  /\ WF_all(part = "login" /\ Answers /\ UNCHANGED <<part, vars>>)
  /\ WF_all(part = "login" /\ DeadlinePasses /\ UNCHANGED <<part, vars>>)
=============================================================================
