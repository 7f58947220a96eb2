------------------------ MODULE ClientSessionProofs ------------------------
(***************************************************************************)
(* Safety of sessions and their store for any calls of an application and  *)
(* any number of restarts.                                                 *)
(***************************************************************************)
EXTENDS ClientSession, TLAPS

-----------------------------------------------------------------------------
(***************************************************************************)
(* The inductive invariant, in named parts.                                *)
(***************************************************************************)

\* Which calls can be where.
CallsInTheirMethods ==
  \A c \in Call :
    /\ pc[c] \in {"loading", "polling", "checking", "numbering"} => c \in Flow
    /\ pc[c] \in {"saving", "writing"} => c \in Flow \cup Save
    /\ pc[c] = "restoring" => c \in Restore
    /\ pc[c] = "clearing" => c \in Clear

\* From its confirmation on a login or refresh carries the session confirmed.
CarriesConfirmed ==
  \A c \in Flow :
    pc[c] \in {"numbering", "saving", "writing", "ok"} => held[c] = [from |-> c, checked |-> TRUE]

\* While calls have come one at a time, at most one runs, and nothing but its
\* own steps changes the session it carries and the file it writes.
OneAtATime ==
  ~overlapped =>
    /\ detached = {}
    /\ \A c, d \in Call : Running(c) /\ Running(d) => c = d
    /\ \A c \in Call :
         /\ pc[c] \in {"numbering", "saving", "writing"} => session = held[c]
         /\ pc[c] = "writing" => file = Emptied
         /\ pc[c] = "clearing" => session = Empty

\* A call begins or goes on: what every step but a restart does.
Proceeds(c) ==
  /\ \/ pc[c] = "idle" /\ overlapped' = (overlapped \/ ~Quiet)
     \/ Running(c) /\ overlapped' = overlapped
  /\ UNCHANGED restarts

StepOfCall(c, to) ==
  /\ Proceeds(c)
  /\ pc' = [pc EXCEPT ![c] = to] /\ to # "idle"
  /\ to \in Ended => last' = c

\* The part a step of c has in OneAtATime.
SerialPart(c, to) ==
  ~overlapped' =>
    /\ detached' = {}
    /\ to \in {"numbering", "saving", "writing"} => session' = held'[c]
    /\ to = "writing" => file' = Emptied
    /\ to = "clearing" => session' = Empty

IInv ==
  /\ TypeOK /\ CallsInTheirMethods /\ CarriesConfirmed
  /\ StoredIsChecked /\ OneAtATime /\ SerialAgreement

-----------------------------------------------------------------------------
\* Sessions and files are told apart.
LEMMA Sessions ==
  /\ Empty \in Session
  /\ \A c \in Call :
       /\ [from |-> c, checked |-> FALSE] \in Session
       /\ [from |-> c, checked |-> TRUE] \in Session /\ [from |-> c, checked |-> TRUE] # Empty
  /\ \A c \in Call, s \in Session :
       /\ Written(s, c) \in File
       /\ Written(s, c).kind = "written" /\ Written(s, c).session = s /\ Written(s, c).by = c
  /\ \A f \in {Absent, Emptied, Mixed} : f \in File /\ f.kind # "written"
  /\ \A f \in File : f.kind = "written" => f.session \in Session /\ f.by \in Call
<1>1. Empty \in Session
  BY DEF Empty, Session
<1>2. ASSUME NEW c \in Call
      PROVE  /\ [from |-> c, checked |-> FALSE] \in Session
             /\ [from |-> c, checked |-> TRUE] \in Session /\ [from |-> c, checked |-> TRUE] # Empty
  <2>1. c # None
    BY CallAssumption DEF CallAssumption
  <2>2. [from |-> c, checked |-> TRUE].from # Empty.from
    BY <2>1 DEF Empty
  <2>3. \A b \in BOOLEAN : [from |-> c, checked |-> b] \in Session
    BY DEF Session
  <2> QED BY <2>2, <2>3, Zenon
<1>3. ASSUME NEW c \in Call, NEW s \in Session
      PROVE  /\ Written(s, c) \in File
             /\ Written(s, c).kind = "written" /\ Written(s, c).session = s /\ Written(s, c).by = c
  BY DEF Written, File
<1>4. \A f \in {Absent, Emptied, Mixed} : f \in File /\ f.kind # "written"
  BY DEF File, Absent, Emptied, Mixed
<1>5. ASSUME NEW f \in File, f.kind = "written" PROVE f.session \in Session /\ f.by \in Call
  <2>1. PICK s \in Session, c \in Call : f = Written(s, c)
    BY <1>4, <1>5 DEF File
  <2> QED BY <1>3, <2>1
<1> QED BY <1>1, <1>2, <1>3, <1>4, <1>5

\* A call is of one method.
LEMMA Methods ==
  /\ Flow \subseteq Call /\ Save \subseteq Call /\ Restore \subseteq Call /\ Clear \subseteq Call
  /\ \A c \in Call : /\ c \in Save => c \notin Flow \cup Restore \cup Clear
                     /\ c \in Restore => c \notin Flow \cup Clear
                     /\ c \in Clear => c \notin Flow
  /\ Refresh \subseteq Flow /\ Login \subseteq Flow
  BY CallAssumption DEF CallAssumption, Call, Flow

\* What load() returns is a session, or none.
LEMMA LoadsSession ==
  ASSUME TypeOK
  PROVE  Loads = None \/ Loads \in Session
  BY Sessions DEF TypeOK, Loads

LEMMA Initial == Init => IInv
<1> SUFFICES ASSUME Init PROVE IInv
  OBVIOUS
<1>1. TypeOK
  <2>1. overlapped \in BOOLEAN
    BY Zenon DEF Init
  <2>2. restarts \in 0..MaxRestarts /\ session \in Session \cup {None} /\ file \in File
    BY Sessions, RestartAssumption DEF RestartAssumption, Init
  <2> QED BY <2>1, <2>2, Sessions DEF Init, TypeOK
<1>2. CallsInTheirMethods /\ CarriesConfirmed
  BY DEF Init, CallsInTheirMethods, CarriesConfirmed, Flow, Call
<1>3. StoredIsChecked /\ SerialAgreement
  BY DEF Init, StoredIsChecked, SerialAgreement, Absent
<1>4. OneAtATime
  BY DEF Init, OneAtATime, Running
<1> QED BY <1>1, <1>2, <1>3, <1>4 DEF IInv

-----------------------------------------------------------------------------
\* A call that begins or goes on without ever overlapping another is alone.
LEMMA Alone ==
  ASSUME IInv, NEW c \in Call, NEW to, StepOfCall(c, to), ~overlapped'
  PROVE  /\ ~overlapped
         /\ pc'[c] = to
         /\ \A d \in Call : d # c => ~Running(d) /\ pc'[d] = pc[d]
<1>1. ~overlapped
  BY DEF StepOfCall, Proceeds
<1>2. \A d \in Call : d # c => ~Running(d)
  BY <1>1 DEF IInv, OneAtATime, Quiet, StepOfCall, Proceeds
<1>3. pc'[c] = to /\ \A d \in Call : d # c => pc'[d] = pc[d]
  BY DEF IInv, TypeOK, StepOfCall
<1> QED BY <1>1, <1>2, <1>3

\* Its step keeps the invariant of serial calls when its own part of it holds.
LEMMA SerialStep ==
  ASSUME IInv, NEW c \in Call, NEW to, StepOfCall(c, to), SerialPart(c, to)
  PROVE  /\ OneAtATime'
         /\ to # "ok" => SerialAgreement'
<1> USE DEF StepOfCall
<1>1. OneAtATime'
  <2> SUFFICES ASSUME ~overlapped' PROVE OneAtATime'
    BY DEF OneAtATime
  <2>1. pc'[c] = to /\ \A d \in Call : d # c => ~Running(d) /\ pc'[d] = pc[d]
    BY Alone
  <2>2. \A d \in Call : d # c => ~Running(d)'
    BY <2>1 DEF Running
  <2> QED BY <2>1, <2>2 DEF SerialPart, OneAtATime, Running, Ended
<1>2. ASSUME to # "ok" PROVE SerialAgreement'
  <2>1. pc'[c] = to
    BY DEF IInv, TypeOK
  <2>2. CASE to \in Ended
    BY <1>2, <2>1, <2>2 DEF SerialAgreement
  <2>3. CASE to \notin Ended
    BY <2>1, <2>3 DEF SerialAgreement, Quiet, Running
  <2> QED BY <2>2, <2>3
<1> QED BY <1>1, <1>2

LEMMA ProceedsTyped ==
  ASSUME IInv, NEW c, Proceeds(c)
  PROVE  overlapped' \in BOOLEAN /\ restarts' \in 0..MaxRestarts /\ (~overlapped' => ~overlapped)
<1>1. overlapped' \in BOOLEAN /\ (~overlapped' => ~overlapped)
  BY Zenon DEF IInv, TypeOK, Proceeds
<1> QED BY <1>1 DEF IInv, TypeOK, Proceeds

\* Two ways for a call to go on that several methods share.
LEMMA FailsKeeps ==
  ASSUME IInv, NEW c \in Call, Proceeds(c), Fails(c)
  PROVE  IInv'
<1> USE DEF Fails, Goes
<1>1. TypeOK'
  BY ProceedsTyped DEF IInv, TypeOK, Ended
<1>2. CallsInTheirMethods' /\ CarriesConfirmed' /\ StoredIsChecked'
  BY DEF IInv, TypeOK, CallsInTheirMethods, CarriesConfirmed, StoredIsChecked
<1>3. StepOfCall(c, "failed") /\ SerialPart(c, "failed")
  BY DEF StepOfCall, SerialPart, Proceeds, Ended, IInv, OneAtATime
<1> QED BY <1>1, <1>2, <1>3, SerialStep DEF IInv

LEMMA ChecksKeeps ==
  ASSUME IInv, NEW c \in Flow, NEW s \in Session, Proceeds(c), Checks(c, s)
  PROVE  IInv'
<1> USE DEF Checks, Goes, Holds, SetSession
<1>1. c \in Call
  BY DEF Call
<1>2. TypeOK'
  BY <1>1, ProceedsTyped DEF IInv, TypeOK, Ended
<1>3. CallsInTheirMethods' /\ CarriesConfirmed' /\ StoredIsChecked'
  BY <1>1 DEF IInv, TypeOK, CallsInTheirMethods, CarriesConfirmed, StoredIsChecked
<1>4. StepOfCall(c, "checking") /\ SerialPart(c, "checking")
  BY DEF StepOfCall, SerialPart, Proceeds, Ended, IInv, OneAtATime
<1> QED BY <1>1, <1>2, <1>3, <1>4, SerialStep DEF IInv

LEMMA Inductive == IInv /\ [Next]_vars => IInv'
<1> SUFFICES ASSUME IInv, [Next]_vars PROVE IInv'
  OBVIOUS
<1> USE Sessions, Methods, LoadsSession DEF IInv
<1>1. ASSUME NEW c \in Call, StartRefresh(c) PROVE IInv'
  <2>1. c \in Flow /\ Proceeds(c)
    BY <1>1 DEF StartRefresh, Starts, Proceeds
  <2>2. CASE session # None
    BY <1>1, <2>1, <2>2, ChecksKeeps DEF StartRefresh, TypeOK
  <2>3. CASE session = None
    <3> USE <1>1, <2>3 DEF StartRefresh, Goes
    <3>1. StepOfCall(c, "loading") /\ SerialPart(c, "loading")
      BY <2>1, ProceedsTyped DEF StepOfCall, SerialPart, OneAtATime, Ended
    <3>2. TypeOK'
      BY <2>1, <3>1, ProceedsTyped DEF StepOfCall, TypeOK, Ended
    <3>3. CallsInTheirMethods' 
      BY <2>1 DEF TypeOK, CallsInTheirMethods
    <3>4. CarriesConfirmed'
      BY <2>1 DEF TypeOK, CarriesConfirmed
    <3>5. StoredIsChecked'
      BY DEF StoredIsChecked
    <3> QED BY <3>1, <3>2, <3>3, <3>4, <3>5, SerialStep
  <2> QED BY <2>2, <2>3
<1>2. ASSUME NEW c \in Call, RefreshLoads(c) PROVE IInv'
  <2>1. c \in Flow /\ Proceeds(c)
    BY <1>2 DEF RefreshLoads, Proceeds, Running, Ended
  <2>2. CASE Loads = None
    BY <1>2, <2>1, <2>2, FailsKeeps DEF RefreshLoads
  <2>3. CASE Loads # None
    BY <1>2, <2>1, <2>3, ChecksKeeps DEF RefreshLoads
  <2> QED BY <2>2, <2>3
<1>3. ASSUME NEW c \in Call, StartLogin(c) PROVE IInv'
  <2> USE <1>3 DEF StartLogin, Starts, Goes, Holds, SetSession
  <2>0. Proceeds(c)
    BY DEF Proceeds, Running, Ended
  <2>1. StepOfCall(c, "polling")
    BY <2>0 DEF StepOfCall, TypeOK, Ended
  <2>2. TypeOK'
    BY <2>0, ProceedsTyped DEF TypeOK, Ended
  <2>3. CallsInTheirMethods' 
    BY DEF TypeOK, CallsInTheirMethods
  <2>5. CarriesConfirmed'
    BY DEF TypeOK, CallsInTheirMethods, CarriesConfirmed
  <2>6. StoredIsChecked'
    BY DEF TypeOK, CallsInTheirMethods, CarriesConfirmed, StoredIsChecked
  <2>4. SerialPart(c, "polling")
    BY <2>0, ProceedsTyped DEF SerialPart, OneAtATime, TypeOK
  <2> QED BY <2>1, <2>2, <2>3, <2>4, <2>5, <2>6, SerialStep
<1>4. ASSUME NEW c \in Call, LoginProgresses(c) PROVE IInv'
  <2> USE <1>4 DEF LoginProgresses, Starts, Goes, Holds, SetSession
  <2>0. Proceeds(c)
    BY DEF Proceeds, Running, Ended
  <2>1. StepOfCall(c, "polling")
    BY <2>0 DEF StepOfCall, TypeOK, Ended
  <2>2. TypeOK'
    BY <2>0, ProceedsTyped DEF TypeOK, Ended
  <2>3. CallsInTheirMethods' 
    BY DEF TypeOK, CallsInTheirMethods
  <2>5. CarriesConfirmed'
    BY DEF TypeOK, CallsInTheirMethods, CarriesConfirmed
  <2>6. StoredIsChecked'
    BY DEF TypeOK, CallsInTheirMethods, CarriesConfirmed, StoredIsChecked
  <2>4. SerialPart(c, "polling")
    BY <2>0, ProceedsTyped DEF SerialPart, OneAtATime, TypeOK
  <2> QED BY <2>1, <2>2, <2>3, <2>4, <2>5, <2>6, SerialStep
<1>5. ASSUME NEW c \in Call, LoginCompletes(c) PROVE IInv'
  <2>1. c \in Flow /\ Proceeds(c)
    BY <1>5 DEF LoginCompletes, Proceeds, Running, Ended
  <2>2. PICK s \in {[from |-> c, checked |-> FALSE], held[c]} : Checks(c, s)
    BY <1>5 DEF LoginCompletes
  <2>3. [from |-> c, checked |-> FALSE] \in Session /\ held[c] \in Session
    BY DEF TypeOK
  <2>4. s \in Session
    BY <2>2, <2>3, Zenon
  <2> QED BY <2>1, <2>2, <2>4, ChecksKeeps
<1>6. ASSUME NEW c \in Call, CheckSucceeds(c) PROVE IInv'
  <2> USE <1>6 DEF CheckSucceeds, Starts, Goes, Holds, SetSession
  <2>0. Proceeds(c)
    BY DEF Proceeds, Running, Ended
  <2>1. StepOfCall(c, "numbering")
    BY <2>0 DEF StepOfCall, TypeOK, Ended
  <2>2. TypeOK'
    BY <2>0, ProceedsTyped DEF TypeOK, Ended
  <2>3. CallsInTheirMethods' 
    BY DEF TypeOK, CallsInTheirMethods
  <2>5. CarriesConfirmed'
    <3>1. held'[c] = [from |-> c, checked |-> TRUE]
      BY DEF TypeOK
    <3>2. \A d \in Flow : d # c => pc'[d] = pc[d] /\ held'[d] = held[d]
      BY DEF TypeOK
    <3> QED BY <3>1, <3>2 DEF CarriesConfirmed
  <2>6. StoredIsChecked'
    BY DEF TypeOK, CallsInTheirMethods, CarriesConfirmed, StoredIsChecked
  <2>4. SerialPart(c, "numbering")
    BY <2>0, ProceedsTyped DEF SerialPart, OneAtATime, TypeOK
  <2> QED BY <2>1, <2>2, <2>3, <2>4, <2>5, <2>6, SerialStep
<1>7. ASSUME NEW c \in Call, NumberFound(c) PROVE IInv'
  <2> USE <1>7 DEF NumberFound, Starts, Goes, Holds, SetSession
  <2>0. Proceeds(c)
    BY DEF Proceeds, Running, Ended
  <2>1. StepOfCall(c, "saving")
    BY <2>0 DEF StepOfCall, TypeOK, Ended
  <2>2. TypeOK'
    BY <2>0, ProceedsTyped DEF TypeOK, Ended
  <2>3. CallsInTheirMethods' 
    BY DEF TypeOK, CallsInTheirMethods
  <2>5. CarriesConfirmed'
    BY DEF TypeOK, CallsInTheirMethods, CarriesConfirmed
  <2>6. StoredIsChecked'
    BY DEF TypeOK, CallsInTheirMethods, CarriesConfirmed, StoredIsChecked
  <2>4. SerialPart(c, "saving")
    BY <2>0, ProceedsTyped DEF SerialPart, OneAtATime, TypeOK
  <2> QED BY <2>1, <2>2, <2>3, <2>4, <2>5, <2>6, SerialStep
<1>8. ASSUME NEW c \in Call, FlowFails(c) \/ SaveFails(c) PROVE IInv'
  <2>1. Proceeds(c) /\ Fails(c)
    BY <1>8 DEF FlowFails, SaveFails, Proceeds, Running, Ended
  <2> QED BY <2>1, FailsKeeps
<1>9. ASSUME NEW c \in Call, StartSave(c) PROVE IInv'
  <2>1. c \in Save /\ Proceeds(c)
    BY <1>9 DEF StartSave, Starts, Proceeds
  <2>2. CASE session = None
    BY <1>9, <2>1, <2>2, FailsKeeps DEF StartSave
  <2>3. CASE session # None
    <3> USE <1>9, <2>3 DEF StartSave, Goes, Holds
    <3>1. StepOfCall(c, "saving") /\ SerialPart(c, "saving")
      BY <2>1, ProceedsTyped DEF StepOfCall, SerialPart, OneAtATime, Ended, TypeOK
    <3>2. TypeOK'
      BY <2>1, ProceedsTyped DEF TypeOK, Ended
    <3>3. CallsInTheirMethods' 
      BY <2>1 DEF TypeOK, CallsInTheirMethods
    <3>4. CarriesConfirmed'
      BY <2>1 DEF TypeOK, CarriesConfirmed
    <3>5. StoredIsChecked'
      BY DEF StoredIsChecked
    <3> QED BY <3>1, <3>2, <3>3, <3>4, <3>5, SerialStep
  <2> QED BY <2>2, <2>3
<1>10. ASSUME NEW c \in Call, SaveOpens(c) PROVE IInv'
  <2> USE <1>10 DEF SaveOpens, Starts, Goes, Holds, SetSession
  <2>0. Proceeds(c)
    BY DEF Proceeds, Running, Ended
  <2>1. StepOfCall(c, "writing")
    BY <2>0 DEF StepOfCall, TypeOK, Ended
  <2>2. TypeOK'
    BY <2>0, ProceedsTyped DEF TypeOK, Ended
  <2>3. CallsInTheirMethods' 
    BY DEF TypeOK, CallsInTheirMethods
  <2>5. CarriesConfirmed'
    BY DEF TypeOK, CallsInTheirMethods, CarriesConfirmed
  <2>6. StoredIsChecked'
    BY DEF TypeOK, CallsInTheirMethods, CarriesConfirmed, StoredIsChecked
  <2>4. SerialPart(c, "writing")
    BY <2>0, ProceedsTyped DEF SerialPart, OneAtATime, TypeOK
  <2> QED BY <2>1, <2>2, <2>3, <2>4, <2>5, <2>6, SerialStep
<1>11. ASSUME NEW c \in Call, SaveWrites(c) PROVE IInv'
  <2>1. Proceeds(c) /\ pc[c] = "writing"
    BY <1>11 DEF SaveWrites, Proceeds, Running, Ended
  <2>2. /\ file' \in {file, Written(held[c], c), Mixed}
        /\ c \notin detached /\ file = Emptied => file' = Written(held[c], c)
    BY <1>11 DEF SaveWrites
  <2>3. StepOfCall(c, "ok")
    BY <1>11, <2>1 DEF SaveWrites, Goes, StepOfCall, Ended
  <2>4. UNCHANGED <<session, held, detached, overlapped, restarts>>
    BY <1>11 DEF SaveWrites
  <2>5. c \in Flow \cup Save /\ (c \in Flow => held[c] = [from |-> c, checked |-> TRUE])
    BY <2>1 DEF CallsInTheirMethods, CarriesConfirmed
  <2>6. held[c] \in Session
    BY DEF TypeOK
  <2>7. TypeOK'
    <3>1. file' \in File
      BY <2>2, <2>6 DEF TypeOK
    <3> QED BY <2>1, <2>3, <2>4, <3>1, ProceedsTyped DEF StepOfCall, TypeOK, Ended
  <2>8. CallsInTheirMethods' /\ CarriesConfirmed'
    BY <2>1, <2>3, <2>4, <2>5 DEF StepOfCall, TypeOK, CallsInTheirMethods, CarriesConfirmed
  <2>9. StoredIsChecked'
    <3>1. Written(held[c], c).session = held[c] /\ Written(held[c], c).by = c
      BY <2>6
    <3>2. held[c].checked \/ c \in Save
      BY <2>5
    <3>3. Mixed.kind # "written"
      OBVIOUS
    <3> QED BY <2>2, <3>1, <3>2, <3>3 DEF StoredIsChecked
  <2>10. SerialPart(c, "ok")
    BY <2>4 DEF SerialPart, OneAtATime
  <2>11. SerialAgreement'
    <3> SUFFICES ASSUME ~overlapped' PROVE SerialAgreement'
      BY DEF SerialAgreement
    <3>1. last' = c /\ ~overlapped
      BY <2>3, Alone DEF StepOfCall, Ended
    <3>2. file' = Written(held[c], c) /\ session' = held[c] /\ held'[c] = held[c]
      BY <2>1, <2>2, <2>4, <3>1 DEF OneAtATime
    <3>3. ASSUME c \in Flow PROVE Loads' = held[c] /\ held[c].checked
      <4>1. held[c] # Empty /\ held[c].checked
        <5>1. held[c] = [from |-> c, checked |-> TRUE]
          BY <2>5, <3>3
        <5>2. held[c].checked
          BY <5>1
        <5> QED BY <5>1, <5>2, Zenon
      <4>2. file'.kind = "written" /\ file'.session = held[c]
        BY <2>6, <3>2
      <4> QED BY <4>1, <4>2 DEF Loads
    <3> QED BY <2>5, <3>1, <3>2, <3>3 DEF SerialAgreement
  <2> QED BY <2>3, <2>7, <2>8, <2>9, <2>10, <2>11, SerialStep
<1>12. ASSUME NEW c \in Call, StartRestore(c) PROVE IInv'
  <2> USE <1>12 DEF StartRestore, Starts, Goes, Holds, SetSession
  <2>0. Proceeds(c)
    BY DEF Proceeds, Running, Ended
  <2>1. StepOfCall(c, "restoring")
    BY <2>0 DEF StepOfCall, TypeOK, Ended
  <2>2. TypeOK'
    BY <2>0, ProceedsTyped DEF TypeOK, Ended
  <2>3. CallsInTheirMethods' 
    BY DEF TypeOK, CallsInTheirMethods
  <2>5. CarriesConfirmed'
    BY DEF TypeOK, CallsInTheirMethods, CarriesConfirmed
  <2>6. StoredIsChecked'
    BY DEF TypeOK, CallsInTheirMethods, CarriesConfirmed, StoredIsChecked
  <2>4. SerialPart(c, "restoring")
    BY <2>0, ProceedsTyped DEF SerialPart, OneAtATime, TypeOK
  <2> QED BY <2>1, <2>2, <2>3, <2>4, <2>5, <2>6, SerialStep
<1>13. ASSUME NEW c \in Call, RestoreLoads(c) PROVE IInv'
  <2>1. Proceeds(c)
    BY <1>13 DEF RestoreLoads, Proceeds, Running, Ended
  <2>2. CASE Loads = None
    BY <1>13, <2>1, <2>2, FailsKeeps DEF RestoreLoads, Fails
  <2>3. CASE Loads # None
    <3> USE <1>13, <2>3 DEF RestoreLoads, Goes
    <3>1. StepOfCall(c, "ok")
      BY <2>1 DEF StepOfCall, Ended
    <3>2. SerialPart(c, "ok")
      BY <2>1, ProceedsTyped DEF SerialPart, OneAtATime
    <3>3. TypeOK'
      BY <2>1, ProceedsTyped DEF TypeOK, Ended
    <3>4. c \in Restore /\ CallsInTheirMethods'
      BY DEF TypeOK, CallsInTheirMethods
    <3>5. CarriesConfirmed'
      BY <3>4 DEF TypeOK, CarriesConfirmed
    <3>6. StoredIsChecked'
      BY DEF StoredIsChecked
    <3>7. SerialAgreement'
      <4>1. session' = Loads /\ Loads' = Loads /\ last' = c
        BY DEF Loads, Ended
      <4> QED BY <3>4, <4>1 DEF SerialAgreement
    <3> QED BY <3>1, <3>2, <3>3, <3>4, <3>5, <3>6, <3>7, SerialStep
  <2> QED BY <2>2, <2>3
<1>14. ASSUME NEW c \in Call, StartClear(c) PROVE IInv'
  <2> USE <1>14 DEF StartClear, Starts, Goes, Holds, SetSession
  <2>0. Proceeds(c)
    BY DEF Proceeds, Running, Ended
  <2>1. StepOfCall(c, "clearing")
    BY <2>0 DEF StepOfCall, TypeOK, Ended
  <2>2. TypeOK'
    BY <2>0, ProceedsTyped DEF TypeOK, Ended
  <2>3. CallsInTheirMethods' 
    BY DEF TypeOK, CallsInTheirMethods
  <2>5. CarriesConfirmed'
    BY DEF TypeOK, CallsInTheirMethods, CarriesConfirmed
  <2>6. StoredIsChecked'
    BY DEF TypeOK, CallsInTheirMethods, CarriesConfirmed, StoredIsChecked
  <2>4. SerialPart(c, "clearing")
    BY <2>0, ProceedsTyped DEF SerialPart, OneAtATime, TypeOK
  <2> QED BY <2>1, <2>2, <2>3, <2>4, <2>5, <2>6, SerialStep
<1>15. ASSUME NEW c \in Call, ClearRemoves(c) PROVE IInv'
  <2> USE <1>15 DEF ClearRemoves, Starts, Goes, Holds, SetSession
  <2>0. Proceeds(c)
    BY DEF Proceeds, Running, Ended
  <2>1. StepOfCall(c, "ok")
    BY <2>0 DEF StepOfCall, TypeOK, Ended
  <2>2. TypeOK'
    BY <2>0, ProceedsTyped DEF TypeOK, Ended
  <2>3. CallsInTheirMethods' 
    BY DEF TypeOK, CallsInTheirMethods
  <2>5. CarriesConfirmed'
    BY DEF TypeOK, CallsInTheirMethods, CarriesConfirmed
  <2>6. StoredIsChecked'
    BY DEF TypeOK, CallsInTheirMethods, CarriesConfirmed, StoredIsChecked
  <2>4. SerialPart(c, "ok")
    <3> SUFFICES ASSUME ~overlapped' PROVE detached' = {}
      BY DEF SerialPart
    <3>1. ~overlapped /\ \A w \in Call : w # c => ~Running(w)
      BY <2>1, Alone
    <3>2. {w \in Call : pc[w] = "writing"} = {}
      BY <3>1 DEF Running, Ended
    <3> QED BY <3>1, <3>2 DEF OneAtATime
  <2>7. SerialAgreement'
    <3> SUFFICES ASSUME ~overlapped' PROVE SerialAgreement'
      BY DEF SerialAgreement
    <3>1. last' = c /\ ~overlapped
      BY <2>1, Alone DEF StepOfCall, Ended
    <3> QED BY <3>1 DEF SerialAgreement, OneAtATime, CallsInTheirMethods, CarriesConfirmed, TypeOK, Loads
  <2> QED BY <2>1, <2>2, <2>3, <2>4, <2>5, <2>6, <2>7, SerialStep
<1>16. CASE Restarts
  <2> USE <1>16 DEF Restarts
  <2>1. TypeOK'
    <3>1. restarts' \in 0..MaxRestarts
      BY RestartAssumption DEF RestartAssumption, TypeOK
    <3>2. pc' \in [Call -> Ended \cup {"idle", "loading", "polling", "checking", "numbering",
                                      "saving", "writing", "restoring", "clearing"}]
      BY DEF TypeOK, Ended
    <3> QED BY <3>1, <3>2 DEF TypeOK
  <2>2. CallsInTheirMethods' /\ CarriesConfirmed' /\ StoredIsChecked'
    BY DEF TypeOK, CallsInTheirMethods, CarriesConfirmed, StoredIsChecked, Running, Ended
  <2>3. OneAtATime' /\ SerialAgreement'
    BY DEF TypeOK, OneAtATime, SerialAgreement, Running, Ended
  <2> QED BY <2>1, <2>2, <2>3
<1>17. CASE UNCHANGED vars
  BY <1>17 DEF vars, TypeOK, CallsInTheirMethods, CarriesConfirmed, StoredIsChecked, OneAtATime,
     SerialAgreement, Running, Quiet, Loads
<1> QED BY <1>1, <1>2, <1>3, <1>4, <1>5, <1>6, <1>7, <1>8, <1>9, <1>10, <1>11, <1>12, <1>13,
           <1>14, <1>15, <1>16, <1>17 DEF Next

LEMMA Invariant == Spec => []IInv
  BY Initial, Inductive, PTL DEF Spec

-----------------------------------------------------------------------------
(***************************************************************************)
(* The theorems.                                                           *)
(***************************************************************************)

\* The client's session, the file and what each call of AuthApi carries across
\* its awaits keep their types.
THEOREM SessionTypeCorrect == Spec => []TypeOK
<1>1. IInv => TypeOK
  BY DEF IInv
<1> QED BY <1>1, Invariant, PTL

\* finalizeSession stores only what auth.session confirmed, whatever other
\* calls of the application do to the client while it waits.
THEOREM StoredIsCheckedAlways == Spec => []StoredIsChecked
<1>1. IInv => StoredIsChecked
  BY DEF IInv
<1> QED BY <1>1, Invariant, PTL

\* Calls that do not overlap leave the client and FileSessionStore agreeing,
\* after any failures and restarts.
THEOREM SerialAgreementAlways == Spec => []SerialAgreement
<1>1. IInv => SerialAgreement
  BY DEF IInv
<1> QED BY <1>1, Invariant, PTL
=============================================================================
