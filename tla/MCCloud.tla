------------------------------ MODULE MCCloud ------------------------------
(***************************************************************************)
(* What stands between a text and the world, for TLC: which model may see  *)
(* it, the budget and the gate a call passes, and the answer said aloud.   *)
(* The parts share no variable (each takes a yes or no, or a lane, of the  *)
(* one before), so a behaviour is one of any part: part says which, and    *)
(* the others rest.                                                        *)
(***************************************************************************)
EXTENDS CostGovernor, EgressGate, SecretLane, Speech, TLC

CONSTANTS c1, c2, k1, e1, e2, s1, api, box, other, t1, w1, w2, r1, v1, v2

MCCallTask == [c \in {c1, c2} |-> k1]
MCEstimate == [c \in {c1, c2} |-> 2]
MCConnSession == [c \in {e1, e2} |-> s1]
MCSpellings == {"api", "Api.", "box", "other", "invalid"}
MCCanonical == [x \in MCSpellings |->
    CASE x \in {"api", "Api."} -> api [] x = "box" -> box [] x = "other" -> other
      [] x = "invalid" -> NoHost]

VARIABLE part

CloudInit ==
    /\ part \in {"governor", "gate", "lane", "reader", "speech"}
    /\ GovInit /\ EgressInit /\ LaneInit /\ SpeechInit
    /\ part # "lane" => \A t \in LaneTasks : prompt[t] = "plain"
    /\ part # "reader" => \A r \in Reads : prompt[r] = "plain"
    /\ part # "speech" => \A t \in Speakers : answer[t] = [lane |-> "normal", force |-> FALSE]

CloudNext ==
    \/ part = "governor" /\ GovNext /\ UNCHANGED <<part, egVars, laneVars, spVars>>
    \/ part = "gate" /\ EgressNext /\ UNCHANGED <<part, govVars, laneVars, spVars>>
    \/ part = "lane" /\ LaneNext /\ UNCHANGED <<part, govVars, egVars, spVars>>
    \/ part = "reader" /\ ReaderNext /\ UNCHANGED <<part, govVars, egVars, spVars>>
    \/ part = "speech" /\ SpeechNext /\ UNCHANGED <<part, govVars, egVars, laneVars>>

CloudSpec ==
    /\ CloudInit /\ [][CloudNext]_<<part, govVars, egVars, laneVars, spVars>>
    /\ \A c \in Calls : WF_govVars(part = "governor" /\ CallStep(c))
    /\ \A t \in Speakers : WF_spVars(part = "speech" /\ SpeakStep(t))
=============================================================================
