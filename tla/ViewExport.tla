----------------------------- MODULE ViewExport -----------------------------
(***************************************************************************)
(* What the metrics layer promises the client-go code calling it: every    *)
(* call of a metric method through a source (an adapter, or the metrics a  *)
(* provider method returns) changes, in one step, what is exported for the *)
(* call's tag row by the meaning client-go gives the method.               *)
(*  - Inc on a counter counts, Inc/Dec on a gauge moves its value by 1;    *)
(*  - Observe on a summary adds the value to its observations;             *)
(*  - Set on a gauge makes the value its current one.                      *)
(* There is no queue, no goroutine and no tag validation here: those are   *)
(* what ClientGoAdapter adds, and what its refinement of this module shows *)
(* to be invisible in what is exported.                                    *)
(***************************************************************************)
EXTENDS Integers, Bags, BagsExt, TLC

CONSTANTS
    Sources,     \* adapters and provider methods whose metrics are exported
    Values,      \* the values a call may carry
    MethodsOf    \* MethodsOf[s]: the methods of the interface s is called through

VARIABLE exported  \* exported[s]: tag row -> meaning of the calls through s

\* The meaning of a call, given the meaning of the calls before it.
Meaning(method, old, x) ==
  CASE method = "Observe" -> BagAdd(old, x)
    [] method = "Set"     -> x
    [] method = "Inc"     -> old + 1
    [] method = "Dec"     -> old - 1

\* The meaning of no call yet.
Zero(method) == IF method = "Observe" THEN EmptyBag ELSE 0

Init == exported = [s \in Sources |-> << >>]

\* A call through s on tag row r takes the exported rows from now to next.
Call(now, next, s, r, method, x) ==
  LET old == IF r \in DOMAIN now[s] THEN now[s][r] ELSE Zero(method)
  IN next = [now EXCEPT ![s] = (r :> Meaning(method, old, x)) @@ @]

Next ==
  LET now == exported
      next == exported'
  IN \E s \in Sources : \E r \in DOMAIN next[s] :
       \E method \in MethodsOf[s], x \in Values : Call(now, next, s, r, method, x)

Spec == Init /\ [][Next]_exported

=============================================================================
