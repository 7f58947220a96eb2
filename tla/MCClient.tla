------------------------------- MODULE MCClient ------------------------------
(***************************************************************************)
(* Three parts of one client: what identifies it to the broker, a candle   *)
(* download, and an order from its preparation to its last record.  They   *)
(* share no state, so that nothing is gained from their interleavings: a   *)
(* behaviour is one of one of them.                                        *)
(***************************************************************************)
EXTENDS ClientContext, CandleDownload, OrderLife

VARIABLE part

all == <<part, vars, candlesVars, lifeVars>>

Steps == {[n |-> 1, k |-> 0], [n |-> 5, k |-> 1], [n |-> 1, k |-> 7]}

Instruments ==
  [type : {"stock", "fund"}, stepSize : {{}, {[n |-> 0, k |-> 0]}, {[n |-> 2, k |-> 2]}}]

MCRequests ==
  {o \in [mode : {"market", "limit", "stopMarket"},
          limit : {{}, {12}}, stop : {{}, {7}, {0}}, last : {{}, {10}},
          size : {{}, {[n |-> 3, k |-> 0]}}, amount : {{}, {4}, {107}, {205}},
          step : {{}} \cup {{s} : s \in Steps}, instrument : Instruments] :
     \* the instrument is asked for only without a step
     Given(o.step) => o.instrument = [type |-> "stock", stepSize |-> {}]}

\* 4.02 at a limit of 1, by a fund's default step of a millionth.
MCLargeQuotient ==
  {[mode |-> "limit", limit |-> {100}, stop |-> {}, last |-> {}, size |-> {}, amount |-> {4020},
    step |-> {}, instrument |-> [type |-> "fund", stepSize |-> {}]]}

\* The hypotheses under which sizes and previews are proved.
ASSUME RequestsWritten == StepsWritten /\ StepsSeparate

\* The initial states of a part, with one of each of the others.
ClientInit ==
  /\ part \in {"context", "candles", "order"}
  /\ \/ part = "candles"
     \/ part # "candles" /\ now = 0 /\ options = CHOOSE o \in Options : TRUE
  /\ \/ part = "order"
     \/ part # "order" /\ asked = CHOOSE o \in Requests : TRUE
  /\ Init /\ CandlesInit /\ LifeInit

Ended == part # "context" /\ UNCHANGED all

ClientNext ==
  \/ part = "context" /\ Next /\ UNCHANGED <<part, candlesVars, lifeVars>>
  \/ part = "candles" /\ CandlesNext /\ UNCHANGED <<part, vars, lifeVars>>
  \/ part = "order" /\ LifeNext /\ UNCHANGED <<part, vars, candlesVars>>
  \/ Ended

\* The fairness of ClientContext.
ClientSpec ==
  /\ ClientInit /\ [][ClientNext]_all
  /\ WF_all(part = "context" /\ Collects /\ UNCHANGED <<part, candlesVars, lifeVars>>)
  /\ WF_all(part = "context" /\ DeadlinePasses /\ UNCHANGED <<part, candlesVars, lifeVars>>)
=============================================================================
