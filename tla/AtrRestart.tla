---------------------------- MODULE AtrRestart ----------------------------
(***************************************************************************)
(* Two runs of the ATR two-stage strategy over the same candles: one       *)
(* evaluates them in several calls, storing and loading the runtime        *)
(* snapshot in between, the other ("whole") in a single call.              *)
(***************************************************************************)
EXTENDS AtrTwoStage

VARIABLES wholeRt, wholeEvent, wholeSignal, wholeFired, wholeEvals,
          forgot  \* history: a call loaded a snapshot stored right after an event

wholeVars == <<wholeRt, wholeEvent, wholeSignal, wholeFired, wholeEvals, forgot>>

Whole == INSTANCE AtrTwoStage
             WITH rt <- wholeRt, event <- wholeEvent, signal <- wholeSignal,
                  fired <- wholeFired, evals <- wholeEvals, MaxEvaluations <- 1

BothInit == Init /\ Whole!Init /\ forgot = FALSE

BothNext ==
    \E c \in Candles :
        /\ \/ FirstCandle(c) /\ forgot' = (forgot \/ rt.since = 0)
           \/ NextCandle(c) /\ UNCHANGED forgot
        /\ Whole!FirstCandle(c) \/ (wholeEvals = 1 /\ Whole!NextCandle(c))

BothSpec == BothInit /\ [][BothNext]_<<vars, wholeVars>>

\* Storing and loading the snapshot between candles changes nothing, unless it
\* was stored right after an event: the operational state, the events and the
\* signals are those of a single call.
RestartChangesNothing ==
    ~forgot => event = wholeEvent /\ signal = wholeSignal /\ rt = wholeRt

\* The signals are those of a single call, wherever the calls are split.
SignalsSurviveRestart == signal = wholeSignal
=============================================================================
