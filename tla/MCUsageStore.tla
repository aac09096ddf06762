---------------------------- MODULE MCUsageStore ----------------------------
(* UsageStore with signed integers up to 3.                                 *)
EXTENDS UsageStore

CONSTANTS u1, u2

Body(prompt, completion, total) ==
  [prompt |-> prompt, completion |-> completion, input |-> 0, output |-> 0, total |-> total]

Entry(client, status, body) ==
  [client |-> client, model |-> "coding", status |-> status, best |-> body]

(* Sums that fit, a body whose parts fit and whose total does not, one      *)
(* whose total wraps around to zero, and a failed request.                  *)
MCEntries ==
  {Entry("one", 200, Body(1, 1, 0)),
   Entry("two", 200, [Body(1, 0, 2) EXCEPT !.input = 2]),
   Entry("one", 200, Body(2, 3, 0)),
   Entry("two", 200, Body(7, 1, 0)),
   [Entry("one", 502, Body(0, 0, 0)) EXCEPT !.model = "other"]}

(* The first two days are in one month, the third in the next. *)
MCMonth(day) == day \div 2
=============================================================================
