-------------------------------- MODULE Memo --------------------------------
(***************************************************************************)
(* What loading promises, whatever the goroutines: every source has one    *)
(* result, settled once and for all importers; it is a success only if all *)
(* that the source loads succeeded, and a failure is its own or comes from *)
(* a source it loads.  Each shac.star is answered with its result, and the *)
(* verdict of the phase is a failure among the answers, if there is one,   *)
(* when all are there.  Loader implements it.                              *)
(***************************************************************************)
CONSTANTS
  File,    \* the sources
  Thread,  \* the goroutines
  Entry,   \* the shac.star of each
  Error    \* the errors

VARIABLES
  loads,   \* the sources that each source loads
  own,     \* the errors that a source may raise itself
  fails,   \* the sources that cannot succeed
  result,  \* "pending", "ok" or an error
  answer,  \* what each goroutine returned: "pending", "ok" or an error
  verdict  \* what the phase returned: "running", "ok" or an error

tree == <<loads, own, fails>>
vars == <<tree, result, answer, verdict>>

Init ==
  /\ result = [f \in File |-> "pending"]
  /\ answer = [t \in Thread |-> "pending"]
  /\ verdict = "running"

MaySucceed(f) == f \notin fails /\ \A g \in loads[f] : result[g] = "ok"

MayFail(f, e) == e \in own[f] \/ \E g \in loads[f] : result[g] = e

\* The evaluation of a source is over.
Settle(f) ==
  /\ verdict = "running"
  /\ result[f] = "pending"
  /\ \/ MaySucceed(f) /\ result' = [result EXCEPT ![f] = "ok"]
     \/ \E e \in Error : MayFail(f, e) /\ result' = [result EXCEPT ![f] = e]
  /\ UNCHANGED <<tree, answer, verdict>>

\* A goroutine returns; a shac.star that succeeds may have forgotten to
\* register a check.
Answer(t) ==
  /\ answer[t] = "pending"
  /\ result[Entry[t]] # "pending"
  /\ \/ answer' = [answer EXCEPT ![t] = result[Entry[t]]]
     \/ result[Entry[t]] = "ok" /\ answer' = [answer EXCEPT ![t] = "forgot"]
  /\ UNCHANGED <<tree, result, verdict>>

Conclude ==
  /\ verdict = "running"
  /\ \A t \in Thread : answer[t] # "pending"
  /\ verdict' \in IF \A t \in Thread : answer[t] = "ok" THEN {"ok"}
                  ELSE {answer[t] : t \in Thread} \ {"ok"}
  /\ UNCHANGED <<tree, result, answer>>

Next == (\E f \in File : Settle(f)) \/ (\E t \in Thread : Answer(t)) \/ Conclude

Spec == Init /\ [][Next]_vars
=============================================================================
