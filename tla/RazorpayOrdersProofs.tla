------------------------ MODULE RazorpayOrdersProofs ------------------------
(***************************************************************************)
(* Theorems about RazorpayOrders, for every set of requests, keys, payloads *)
(* and orders.                                                             *)
(***************************************************************************)
EXTENDS RazorpayOrders, TLAPS

\* The request inserted the row of its key, or has sent a POST for it.
Holds(r) ==
    \/ pc[r] \in Serving \cup {"lost", "unsettled"}
    \/ post[r] # "unsent"

\* A request that has begun knows its key and its payload.
ArgsKnown ==
    \A r \in Requests :
        pc[r] # "idle" => args[r].key \in Keys /\ args[r].payload \in Payloads

\* The row of a request that holds it is there, with that request's payload.
HoldersHaveRows ==
    \A r \in Requests :
        Holds(r) => MyRow(r).status # "ABSENT" /\ MyRow(r).request_hash = args[r].payload

\* Only one request ever holds a key.
OneHolder ==
    \A r, s \in Requests : Holds(r) /\ Holds(s) /\ SameKey(r, s) => r = s

\* A request at work on its key finds the row as it left it.
ServedRowsArePending ==
    \A r \in Requests :
        /\ pc[r] \in Serving => MyRow(r).status = "PENDING"
        /\ pc[r] = "received" => order[r] # None

\* Orders come from POSTs, POSTs from requests that have begun.
PostsComeFromRequests ==
    \A r \in Requests :
        /\ order[r] # None <=> post[r] = "created"
        /\ pc[r] \in {"idle", "reserved"} => post[r] = "unsent"

\* What a client was told is what the row of its key says.
AnswersMatchRows ==
    \A r \in Requests :
        /\ answer[r].kind # "none" => pc[r] \in {"done", "unsettled"}
        /\ answer[r].kind \in {"CREATED", "IDEMPOTENT_REPLAY"} =>
               /\ MyRow(r).status = "COMPLETED"
               /\ MyRow(r).request_hash = args[r].payload
               /\ MyRow(r).order_id = answer[r].order_id
        /\ answer[r].kind \in {"OperationFailed", "Unavailable"} =>
               /\ MyRow(r).status = "FAILED"
               /\ MyRow(r).request_hash = args[r].payload
        /\ answer[r].kind = "Conflict" =>
               /\ MyRow(r).status # "ABSENT"
               /\ MyRow(r).request_hash # args[r].payload

OrdersInv ==
    /\ TypeOK
    /\ ArgsKnown
    /\ HoldersHaveRows
    /\ OneHolder
    /\ ServedRowsArePending
    /\ PostsComeFromRequests
    /\ AnswersMatchRows
-----------------------------------------------------------------------------

\* A new key gets its only holder.
LEMMA ReserveStep ==
    ASSUME NEW r \in Requests, NEW k \in Keys, NEW p \in Payloads,
           OrdersInv, Reserve(r, k, p)
    PROVE  OrdersInv'
<1> USE OrdersAssumption, NoneAssumption DEF OrdersInv, Reserve, Enter, ReservationState
<1>1. TypeOK'
  BY DEF TypeOK, Row, Answers, Kinds, Say, Serving
<1>2. ArgsKnown'
  BY DEF TypeOK, ArgsKnown, Serving
<1>3. HoldersHaveRows'
  BY DEF TypeOK, Row, ArgsKnown, HoldersHaveRows, PostsComeFromRequests,
         Holds, MyRow, Serving
<1>4. OneHolder'
  <2>1. \A s \in Requests : s # r => (Holds(s)' <=> Holds(s)) /\ args'[s] = args[s]
    BY DEF TypeOK, Holds
  <2>2. args'[r].key = k
    BY DEF TypeOK
  <2>3. \A s \in Requests : Holds(s) => args[s].key # k
    BY DEF HoldersHaveRows, MyRow, TypeOK, Row
  <2> QED BY <2>1, <2>2, <2>3 DEF OneHolder, SameKey
<1>5. ServedRowsArePending'
  BY DEF TypeOK, Row, ArgsKnown, HoldersHaveRows, OneHolder,
         ServedRowsArePending, PostsComeFromRequests, Holds, MyRow, SameKey, Serving
<1>6. PostsComeFromRequests'
  BY DEF TypeOK, PostsComeFromRequests, Serving
<1>7. AnswersMatchRows'
  BY DEF TypeOK, Row, Answers, Say, ArgsKnown, HoldersHaveRows, OneHolder,
         ServedRowsArePending, AnswersMatchRows, Holds, MyRow, SameKey, Serving
<1> QED BY <1>1, <1>2, <1>3, <1>4, <1>5, <1>6, <1>7

\* A known key is answered from its row, which stays.
LEMMA AnswerFromRowStep ==
    ASSUME NEW r \in Requests, NEW k \in Keys, NEW p \in Payloads,
           OrdersInv, AnswerFromRow(r, k, p)
    PROVE  OrdersInv'
<1> USE OrdersAssumption, NoneAssumption DEF OrdersInv, AnswerFromRow, Enter, Finish,
                                              ReservationAnswer, ReservationState, OrderResult
<1>1. TypeOK'
  BY DEF TypeOK, Row, Answers, Kinds, Say, Serving
<1>2. ArgsKnown'
  BY DEF TypeOK, ArgsKnown, Serving
<1>3. HoldersHaveRows'
  BY DEF TypeOK, Row, ArgsKnown, HoldersHaveRows, PostsComeFromRequests,
         Holds, MyRow, Serving
<1>4. OneHolder'
  BY DEF TypeOK, ArgsKnown, HoldersHaveRows, OneHolder,
         PostsComeFromRequests, Holds, MyRow, SameKey, Serving
<1>5. ServedRowsArePending'
  BY DEF TypeOK, Row, ArgsKnown, HoldersHaveRows, OneHolder,
         ServedRowsArePending, PostsComeFromRequests, Holds, MyRow, SameKey, Serving
<1>6. PostsComeFromRequests'
  BY DEF TypeOK, PostsComeFromRequests, Serving
<1>7. AnswersMatchRows'
  BY DEF TypeOK, Row, Answers, Say, ArgsKnown, HoldersHaveRows, OneHolder,
         ServedRowsArePending, AnswersMatchRows, Holds, MyRow, SameKey, Serving
<1> QED BY <1>1, <1>2, <1>3, <1>4, <1>5, <1>6, <1>7

\* A call that finds the database locked holds nothing.
LEMMA ReserveBusyStep ==
    ASSUME NEW r \in Requests, NEW k \in Keys, NEW p \in Payloads,
           OrdersInv, ReserveBusy(r, k, p)
    PROVE  OrdersInv'
<1> USE OrdersAssumption, NoneAssumption DEF OrdersInv, ReserveBusy, Enter, Finish
<1>1. TypeOK'
  BY DEF TypeOK, Row, Answers, Kinds, Say, Serving
<1>2. ArgsKnown'
  BY DEF TypeOK, ArgsKnown, Serving
<1>3. HoldersHaveRows'
  BY DEF TypeOK, Row, ArgsKnown, HoldersHaveRows, PostsComeFromRequests,
         Holds, MyRow, Serving
<1>4. OneHolder'
  BY DEF TypeOK, ArgsKnown, HoldersHaveRows, OneHolder,
         PostsComeFromRequests, Holds, MyRow, SameKey, Serving
<1>5. ServedRowsArePending'
  BY DEF TypeOK, Row, ArgsKnown, HoldersHaveRows, OneHolder,
         ServedRowsArePending, PostsComeFromRequests, Holds, MyRow, SameKey, Serving
<1>6. PostsComeFromRequests'
  BY DEF TypeOK, PostsComeFromRequests, Serving
<1>7. AnswersMatchRows'
  BY DEF TypeOK, Row, Answers, Say, ArgsKnown, HoldersHaveRows, OneHolder,
         ServedRowsArePending, AnswersMatchRows, Holds, MyRow, SameKey, Serving
<1> QED BY <1>1, <1>2, <1>3, <1>4, <1>5, <1>6, <1>7

\* The POST of a holder leaves.
LEMMA SendPostStep ==
    ASSUME NEW r \in Requests, OrdersInv, SendPost(r)
    PROVE  OrdersInv'
<1> USE OrdersAssumption, NoneAssumption DEF OrdersInv, SendPost
<1>1. TypeOK'
  BY DEF TypeOK, Row, Answers, Kinds, Say, Serving
<1>2. ArgsKnown'
  BY DEF TypeOK, ArgsKnown, Serving
<1>3. HoldersHaveRows'
  BY DEF TypeOK, Row, ArgsKnown, HoldersHaveRows, PostsComeFromRequests,
         Holds, MyRow, Serving
<1>4. OneHolder'
  BY DEF TypeOK, ArgsKnown, HoldersHaveRows, OneHolder,
         PostsComeFromRequests, Holds, MyRow, SameKey, Serving
<1>5. ServedRowsArePending'
  BY DEF TypeOK, Row, ArgsKnown, HoldersHaveRows, OneHolder,
         ServedRowsArePending, PostsComeFromRequests, Holds, MyRow, SameKey, Serving
<1>6. PostsComeFromRequests'
  BY DEF TypeOK, PostsComeFromRequests, Serving
<1>7. AnswersMatchRows'
  BY DEF TypeOK, Row, Answers, Say, ArgsKnown, HoldersHaveRows, OneHolder,
         ServedRowsArePending, AnswersMatchRows, Holds, MyRow, SameKey, Serving
<1> QED BY <1>1, <1>2, <1>3, <1>4, <1>5, <1>6, <1>7

\* The provider creates an order for a POST.
LEMMA ProviderCreatesStep ==
    ASSUME NEW r \in Requests, NEW o \in Orders,
           OrdersInv, ProviderCreates(r, o)
    PROVE  OrdersInv'
<1> USE OrdersAssumption, NoneAssumption DEF OrdersInv, ProviderCreates
<1>1. TypeOK'
  BY DEF TypeOK, Row, Answers, Kinds, Say, Serving
<1>2. ArgsKnown'
  BY DEF TypeOK, ArgsKnown, Serving
<1>3. HoldersHaveRows'
  BY DEF TypeOK, Row, ArgsKnown, HoldersHaveRows, PostsComeFromRequests,
         Holds, MyRow, Serving
<1>4. OneHolder'
  BY DEF TypeOK, ArgsKnown, HoldersHaveRows, OneHolder,
         PostsComeFromRequests, Holds, MyRow, SameKey, Serving
<1>5. ServedRowsArePending'
  BY DEF TypeOK, Row, ArgsKnown, HoldersHaveRows, OneHolder,
         ServedRowsArePending, PostsComeFromRequests, Holds, MyRow, SameKey, Serving
<1>6. PostsComeFromRequests'
  BY DEF TypeOK, PostsComeFromRequests, Serving
<1>7. AnswersMatchRows'
  BY DEF TypeOK, Row, Answers, Say, ArgsKnown, HoldersHaveRows, OneHolder,
         ServedRowsArePending, AnswersMatchRows, Holds, MyRow, SameKey, Serving
<1> QED BY <1>1, <1>2, <1>3, <1>4, <1>5, <1>6, <1>7

\* The provider refuses a POST.
LEMMA ProviderRefusesStep ==
    ASSUME NEW r \in Requests, OrdersInv, ProviderRefuses(r)
    PROVE  OrdersInv'
<1> USE OrdersAssumption, NoneAssumption DEF OrdersInv, ProviderRefuses
<1>1. TypeOK'
  BY DEF TypeOK, Row, Answers, Kinds, Say, Serving
<1>2. ArgsKnown'
  BY DEF TypeOK, ArgsKnown, Serving
<1>3. HoldersHaveRows'
  BY DEF TypeOK, Row, ArgsKnown, HoldersHaveRows, PostsComeFromRequests,
         Holds, MyRow, Serving
<1>4. OneHolder'
  BY DEF TypeOK, ArgsKnown, HoldersHaveRows, OneHolder,
         PostsComeFromRequests, Holds, MyRow, SameKey, Serving
<1>5. ServedRowsArePending'
  BY DEF TypeOK, Row, ArgsKnown, HoldersHaveRows, OneHolder,
         ServedRowsArePending, PostsComeFromRequests, Holds, MyRow, SameKey, Serving
<1>6. PostsComeFromRequests'
  BY DEF TypeOK, PostsComeFromRequests, Serving
<1>7. AnswersMatchRows'
  BY DEF TypeOK, Row, Answers, Say, ArgsKnown, HoldersHaveRows, OneHolder,
         ServedRowsArePending, AnswersMatchRows, Holds, MyRow, SameKey, Serving
<1> QED BY <1>1, <1>2, <1>3, <1>4, <1>5, <1>6, <1>7

\* The order arrives.
LEMMA ReceiveOrderStep ==
    ASSUME NEW r \in Requests, OrdersInv, ReceiveOrder(r)
    PROVE  OrdersInv'
<1> USE OrdersAssumption, NoneAssumption DEF OrdersInv, ReceiveOrder
<1>1. TypeOK'
  BY DEF TypeOK, Row, Answers, Kinds, Say, Serving
<1>2. ArgsKnown'
  BY DEF TypeOK, ArgsKnown, Serving
<1>3. HoldersHaveRows'
  BY DEF TypeOK, Row, ArgsKnown, HoldersHaveRows, PostsComeFromRequests,
         Holds, MyRow, Serving
<1>4. OneHolder'
  BY DEF TypeOK, ArgsKnown, HoldersHaveRows, OneHolder,
         PostsComeFromRequests, Holds, MyRow, SameKey, Serving
<1>5. ServedRowsArePending'
  BY DEF TypeOK, Row, ArgsKnown, HoldersHaveRows, OneHolder,
         ServedRowsArePending, PostsComeFromRequests, Holds, MyRow, SameKey, Serving
<1>6. PostsComeFromRequests'
  BY DEF TypeOK, PostsComeFromRequests, Serving
<1>7. AnswersMatchRows'
  BY DEF TypeOK, Row, Answers, Say, ArgsKnown, HoldersHaveRows, OneHolder,
         ServedRowsArePending, AnswersMatchRows, Holds, MyRow, SameKey, Serving
<1> QED BY <1>1, <1>2, <1>3, <1>4, <1>5, <1>6, <1>7

\* The provider call fails as its caller sees it.
LEMMA AdapterErrorStep ==
    ASSUME NEW r \in Requests, OrdersInv, AdapterError(r)
    PROVE  OrdersInv'
<1> USE OrdersAssumption, NoneAssumption DEF OrdersInv, AdapterError
<1>1. TypeOK'
  BY DEF TypeOK, Row, Answers, Kinds, Say, Serving
<1>2. ArgsKnown'
  BY DEF TypeOK, ArgsKnown, Serving
<1>3. HoldersHaveRows'
  BY DEF TypeOK, Row, ArgsKnown, HoldersHaveRows, PostsComeFromRequests,
         Holds, MyRow, Serving
<1>4. OneHolder'
  BY DEF TypeOK, ArgsKnown, HoldersHaveRows, OneHolder,
         PostsComeFromRequests, Holds, MyRow, SameKey, Serving
<1>5. ServedRowsArePending'
  BY DEF TypeOK, Row, ArgsKnown, HoldersHaveRows, OneHolder,
         ServedRowsArePending, PostsComeFromRequests, Holds, MyRow, SameKey, Serving
<1>6. PostsComeFromRequests'
  BY DEF TypeOK, PostsComeFromRequests, Serving
<1>7. AnswersMatchRows'
  BY DEF TypeOK, Row, Answers, Say, ArgsKnown, HoldersHaveRows, OneHolder,
         ServedRowsArePending, AnswersMatchRows, Holds, MyRow, SameKey, Serving
<1> QED BY <1>1, <1>2, <1>3, <1>4, <1>5, <1>6, <1>7

\* A holder cannot settle its row and keeps it.
LEMMA SettleBusyStep ==
    ASSUME NEW r \in Requests, OrdersInv, SettleBusy(r)
    PROVE  OrdersInv'
<1> USE OrdersAssumption, NoneAssumption DEF OrdersInv, SettleBusy
<1>1. TypeOK'
  BY DEF TypeOK, Row, Answers, Kinds, Say, Serving
<1>2. ArgsKnown'
  BY DEF TypeOK, ArgsKnown, Serving
<1>3. HoldersHaveRows'
  BY DEF TypeOK, Row, ArgsKnown, HoldersHaveRows, PostsComeFromRequests,
         Holds, MyRow, Serving
<1>4. OneHolder'
  BY DEF TypeOK, ArgsKnown, HoldersHaveRows, OneHolder,
         PostsComeFromRequests, Holds, MyRow, SameKey, Serving
<1>5. ServedRowsArePending'
  BY DEF TypeOK, Row, ArgsKnown, HoldersHaveRows, OneHolder,
         ServedRowsArePending, PostsComeFromRequests, Holds, MyRow, SameKey, Serving
<1>6. PostsComeFromRequests'
  BY DEF TypeOK, PostsComeFromRequests, Serving
<1>7. AnswersMatchRows'
  BY DEF TypeOK, Row, Answers, Say, ArgsKnown, HoldersHaveRows, OneHolder,
         ServedRowsArePending, AnswersMatchRows, Holds, MyRow, SameKey, Serving
<1> QED BY <1>1, <1>2, <1>3, <1>4, <1>5, <1>6, <1>7

\* complete_order and fail_order never refuse: the row they find is the
\* PENDING row their request inserted.
LEMMA SettlingIsNotRefused ==
    ASSUME NEW r \in Requests, OrdersInv, pc[r] \in {"received", "failing"}
    PROVE  /\ args[r].key \in Keys
           /\ MyRow(r).status = "PENDING"
           /\ MyRow(r).request_hash = args[r].payload
           /\ MyRow(r).order_id = None
           /\ CompletionRefused(r) = Say("none")
           /\ FailureRefused(r) = Say("none")
<1>1. /\ args[r].key \in Keys
      /\ MyRow(r).status = "PENDING"
      /\ MyRow(r).request_hash = args[r].payload
  BY DEF OrdersInv, ArgsKnown, HoldersHaveRows, ServedRowsArePending, Holds, Serving, MyRow
<1>2. MyRow(r).order_id = None
  BY <1>1 DEF OrdersInv, TypeOK, MyRow
<1> QED BY <1>1, <1>2 DEF CompletionRefused, FailureRefused

\* The holder settles its row: CompleteOrder.
LEMMA CompleteOrderStep ==
    ASSUME NEW r \in Requests, OrdersInv, CompleteOrder(r)
    PROVE  OrdersInv'
<1> USE OrdersAssumption, NoneAssumption DEF OrdersInv
<1> DEFINE k == args[r].key
<1>a. /\ pc[r] = "received"
      /\ k \in Keys
      /\ order_requests[k].status = "PENDING"
      /\ order_requests[k].request_hash = args[r].payload
      /\ order_requests[k].order_id = None
      /\ order[r] \in Orders
  BY SettlingIsNotRefused DEF OrdersInv, CompleteOrder, MyRow, TypeOK, ServedRowsArePending
<1>b. /\ pc' = [pc EXCEPT ![r] = "done"]
      /\ answer' = [answer EXCEPT ![r] = OrderResult("CREATED", order[r])]
      /\ order_requests' = [order_requests EXCEPT ![k] = CompletedRow(order_requests[k], order[r])]
      /\ UNCHANGED <<args, post, order>>
  BY <1>a, SettlingIsNotRefused DEF CompleteOrder, Finish, MyRow
<1>1. TypeOK'
  <2>0. order_requests[k] \in Row
    BY <1>a DEF TypeOK
  <2>1. CompletedRow(order_requests[k], order[r]) \in Row
    BY <1>a, <2>0 DEF CompletedRow, Row
  <2>3. OrderResult("CREATED", order[r]) \in Answers
    <3>1. CASE order[r] \in Unusable
      BY <3>1 DEF OrderResult, Say, Answers, Kinds
    <3>2. CASE order[r] \notin Unusable
      BY <1>a, <3>2 DEF OrderResult, Answers, Kinds
    <3> QED BY <3>1, <3>2
  <2>2. /\ CompletedRow(order_requests[k], order[r]).status = "COMPLETED"
        /\ CompletedRow(order_requests[k], order[r]).order_id # None
        /\ CompletedRow(order_requests[k], order[r]).request_hash # None
    BY <1>a, <2>0 DEF CompletedRow, TypeOK, Row
  <2> QED BY <1>a, <1>b, <2>1, <2>2, <2>3 DEF TypeOK, Serving
<1>2. ArgsKnown'
  BY <1>a, <1>b DEF CompletedRow, OrderResult, TypeOK, ArgsKnown, Serving
<1>3. HoldersHaveRows'
  BY <1>a, <1>b DEF CompletedRow, OrderResult, TypeOK, Row, ArgsKnown, HoldersHaveRows, PostsComeFromRequests,
         Holds, MyRow, Serving
<1>4. OneHolder'
  BY <1>a, <1>b DEF CompletedRow, OrderResult, TypeOK, ArgsKnown, HoldersHaveRows, OneHolder,
         PostsComeFromRequests, Holds, MyRow, SameKey, Serving
<1>5. ServedRowsArePending'
  BY <1>a, <1>b DEF CompletedRow, OrderResult, TypeOK, Row, ArgsKnown, HoldersHaveRows, OneHolder,
         ServedRowsArePending, PostsComeFromRequests, Holds, MyRow, SameKey, Serving
<1>6. PostsComeFromRequests'
  BY <1>a, <1>b DEF CompletedRow, OrderResult, TypeOK, PostsComeFromRequests, Serving
<1>7. AnswersMatchRows'
  BY <1>a, <1>b DEF CompletedRow, OrderResult, TypeOK, Row, Answers, Say, ArgsKnown, HoldersHaveRows, OneHolder,
         ServedRowsArePending, AnswersMatchRows, Holds, MyRow, SameKey, Serving
<1> QED BY <1>1, <1>2, <1>3, <1>4, <1>5, <1>6, <1>7

\* The holder settles its row: FailOrder.
LEMMA FailOrderStep ==
    ASSUME NEW r \in Requests, OrdersInv, FailOrder(r)
    PROVE  OrdersInv'
<1> USE OrdersAssumption, NoneAssumption DEF OrdersInv
<1> DEFINE k == args[r].key
<1>a. /\ pc[r] = "failing"
      /\ k \in Keys
      /\ order_requests[k].status = "PENDING"
      /\ order_requests[k].request_hash = args[r].payload
      /\ order_requests[k].order_id = None
  BY SettlingIsNotRefused DEF OrdersInv, FailOrder, MyRow
<1>b. /\ pc' = [pc EXCEPT ![r] = "done"]
      /\ answer' = [answer EXCEPT ![r] = Say("Unavailable")]
      /\ order_requests' = [order_requests EXCEPT ![k] = [order_requests[k] EXCEPT !.status = "FAILED"]]
      /\ UNCHANGED <<args, post, order>>
  BY <1>a, SettlingIsNotRefused DEF FailOrder, Finish, MyRow
<1>1. TypeOK'
  BY <1>a, <1>b DEF TypeOK, Row, Answers, Kinds, Say, Serving
<1>2. ArgsKnown'
  BY <1>a, <1>b DEF TypeOK, ArgsKnown, Serving
<1>3. HoldersHaveRows'
  BY <1>a, <1>b DEF TypeOK, Row, ArgsKnown, HoldersHaveRows, PostsComeFromRequests,
         Holds, MyRow, Serving
<1>4. OneHolder'
  BY <1>a, <1>b DEF TypeOK, ArgsKnown, HoldersHaveRows, OneHolder,
         PostsComeFromRequests, Holds, MyRow, SameKey, Serving
<1>5. ServedRowsArePending'
  BY <1>a, <1>b DEF TypeOK, Row, ArgsKnown, HoldersHaveRows, OneHolder,
         ServedRowsArePending, PostsComeFromRequests, Holds, MyRow, SameKey, Serving
<1>6. PostsComeFromRequests'
  BY <1>a, <1>b DEF TypeOK, PostsComeFromRequests, Serving
<1>7. AnswersMatchRows'
  BY <1>a, <1>b DEF TypeOK, Row, Answers, Say, ArgsKnown, HoldersHaveRows, OneHolder,
         ServedRowsArePending, AnswersMatchRows, Holds, MyRow, SameKey, Serving
<1> QED BY <1>1, <1>2, <1>3, <1>4, <1>5, <1>6, <1>7

\* The process dies: holders keep their keys.
LEMMA CrashStep ==
    ASSUME OrdersInv, Crash
    PROVE  OrdersInv'
<1> USE OrdersAssumption, NoneAssumption DEF OrdersInv
<1>a. \A r \in Requests : pc'[r] = IF pc[r] \in Serving THEN "lost" ELSE pc[r]
  BY DEF Crash
<1>b. UNCHANGED <<order_requests, args, post, order, answer>>
  BY DEF Crash
<1>1. TypeOK'
  BY <1>a, <1>b DEF Crash, TypeOK, Row, Answers, Serving
<1>2. ArgsKnown'
  BY <1>a, <1>b DEF TypeOK, ArgsKnown, Serving
<1>3. HoldersHaveRows'
  BY <1>a, <1>b DEF TypeOK, Row, ArgsKnown, HoldersHaveRows, PostsComeFromRequests,
         Holds, MyRow, Serving
<1>4. OneHolder'
  BY <1>a, <1>b DEF TypeOK, ArgsKnown, HoldersHaveRows, OneHolder,
         PostsComeFromRequests, Holds, MyRow, SameKey, Serving
<1>5. ServedRowsArePending'
  BY <1>a, <1>b DEF TypeOK, Row, ArgsKnown, HoldersHaveRows, OneHolder,
         ServedRowsArePending, PostsComeFromRequests, Holds, MyRow, SameKey, Serving
<1>6. PostsComeFromRequests'
  BY <1>a, <1>b DEF TypeOK, PostsComeFromRequests, Serving
<1>7. AnswersMatchRows'
  BY <1>a, <1>b DEF TypeOK, Row, Answers, Say, ArgsKnown, HoldersHaveRows, OneHolder,
         ServedRowsArePending, AnswersMatchRows, Holds, MyRow, SameKey, Serving
<1> QED BY <1>1, <1>2, <1>3, <1>4, <1>5, <1>6, <1>7
-----------------------------------------------------------------------------
LEMMA OrdersInvInit == Init => OrdersInv
<1> SUFFICES ASSUME Init PROVE OrdersInv
  OBVIOUS
<1>1. TypeOK
  BY NoneAssumption DEF Init, TypeOK, Row, Absent, Answers, Kinds, Say, Serving
<1>2. ArgsKnown /\ HoldersHaveRows /\ OneHolder
  BY DEF Init, ArgsKnown, HoldersHaveRows, OneHolder, Holds, Serving
<1>3. ServedRowsArePending /\ PostsComeFromRequests /\ AnswersMatchRows
  BY DEF Init, ServedRowsArePending, PostsComeFromRequests, AnswersMatchRows, Serving, Say
<1> QED BY <1>1, <1>2, <1>3 DEF OrdersInv

LEMMA OrdersInvNext == OrdersInv /\ [Next]_vars => OrdersInv'
<1> SUFFICES ASSUME OrdersInv, [Next]_vars PROVE OrdersInv'
  OBVIOUS
<1>1. CASE UNCHANGED vars
  BY <1>1 DEF vars, OrdersInv, TypeOK, ArgsKnown, HoldersHaveRows, OneHolder, Holds, MyRow,
              SameKey, ServedRowsArePending, PostsComeFromRequests, AnswersMatchRows
<1>2. CASE Crash
  BY <1>2, CrashStep
<1>3. ASSUME NEW r \in Requests, RequestStep(r) PROVE OrdersInv'
  <2>1. ASSUME NEW k \in Keys, NEW p \in Payloads,
               Reserve(r, k, p) \/ AnswerFromRow(r, k, p) \/ ReserveBusy(r, k, p)
        PROVE  OrdersInv'
    BY <2>1, ReserveStep, AnswerFromRowStep, ReserveBusyStep
  <2>2. CASE ThreadStep(r)
    BY <2>2, SendPostStep, ReceiveOrderStep, AdapterErrorStep, CompleteOrderStep,
       FailOrderStep, SettleBusyStep DEF ThreadStep
  <2>3. CASE ProviderRefuses(r) \/ \E o \in Orders : ProviderCreates(r, o)
    BY <2>3, ProviderRefusesStep, ProviderCreatesStep
  <2> QED BY <1>3, <2>1, <2>2, <2>3 DEF RequestStep
<1> QED BY <1>1, <1>2, <1>3 DEF Next

\* OrdersInv holds in every reachable state.
THEOREM OrdersInvariance == Spec => []OrdersInv
  BY OrdersInvInit, OrdersInvNext, PTL DEF Spec

\* Type correctness, with the coherence of a row's columns: an order id exactly
\* in COMPLETED rows.
THEOREM TypeCorrect == Spec => []TypeOK
<1>1. OrdersInv => TypeOK
  BY DEF OrdersInv
<1> QED BY <1>1, OrdersInvariance, PTL

\* The provider creates at most one order for an idempotency key, for any
\* number of requests, retries, timeouts and crashes.
THEOREM OneOrderPerKey == Spec => []AtMostOneOrderPerKey
<1>1. OrdersInv => AtMostOneOrderPerKey
  BY DEF OrdersInv, PostsComeFromRequests, OneHolder, Holds, AtMostOneOrderPerKey
<1> QED BY <1>1, OrdersInvariance, PTL

\* A client is refused for a conflict only if the row belongs to another payload.
THEOREM RealConflicts == Spec => []ConflictsAreReal
<1>1. OrdersInv => ConflictsAreReal
  BY DEF OrdersInv, AnswersMatchRows, MyRow, ConflictsAreReal
<1> QED BY <1>1, OrdersInvariance, PTL
-----------------------------------------------------------------------------
(* The table is a once-only ledger.  Only three steps are not stutters of  *)
(* it: a request answered from a settled row is told its decision, and the *)
(* two settling transactions decide a key.                                 *)

\* A step that changes neither a decision nor a verdict is a stutter.
LEMMA NothingDecidedOrTold ==
    ASSUME \A k \in Keys : Decision(k)' = Decision(k),
           \A r \in Requests : Verdict(r)' = Verdict(r)
    PROVE  UNCHANGED Ledger!vars
  BY DEF Ledger!vars

\* What is told after a step in which only r's verdict changed, from nothing.
LEMMA OneMoreVerdict ==
    ASSUME NEW r \in Requests,
           \A s \in Requests : s # r => Verdict(s)' = Verdict(s),
           Verdict(r) = {}
    PROVE  (UNION {Verdict(s) : s \in Requests})' =
               (UNION {Verdict(s) : s \in Requests}) \cup Verdict(r)'
  OBVIOUS

\* A request that has not been answered has no verdict.
LEMMA UnansweredHasNoVerdict ==
    ASSUME OrdersInv, NEW r \in Requests, pc[r] \notin {"done", "unsettled"}
    PROVE  Verdict(r) = {}
  BY DEF OrdersInv, AnswersMatchRows, Verdict

LEMMA ReserveRefines ==
    ASSUME OrdersInv, NEW r \in Requests, NEW k \in Keys, NEW p \in Payloads, Reserve(r, k, p)
    PROVE  UNCHANGED Ledger!vars
<1>1. order_requests[k].status = "ABSENT"
  BY DEF Reserve, ReservationState, OrdersInv, TypeOK, Row
<1>2. ASSUME NEW l \in Keys PROVE Decision(l)' = Decision(l)
  BY <1>1 DEF Reserve, Decision, OrdersInv, TypeOK
<1>3. ASSUME NEW s \in Requests PROVE Verdict(s)' = Verdict(s)
  <2>1. CASE s = r
    <3>1. answer[r].kind = "none" /\ answer' = answer
      BY DEF Reserve, Enter, OrdersInv, AnswersMatchRows
    <3> QED BY <2>1, <3>1 DEF Verdict
  <2>2. CASE s # r
    BY <2>2 DEF Reserve, Enter, Verdict, OrdersInv, TypeOK
  <2> QED BY <2>1, <2>2
<1> QED BY <1>2, <1>3, NothingDecidedOrTold

LEMMA AnswerFromRowRefines ==
    ASSUME OrdersInv, OrdersInv', NEW r \in Requests, NEW k \in Keys, NEW p \in Payloads,
           AnswerFromRow(r, k, p)
    PROVE  Ledger!Tell(k) \/ UNCHANGED Ledger!vars
<1>1. /\ pc[r] = "idle"
      /\ args' = [args EXCEPT ![r] = [key |-> k, payload |-> p]]
      /\ answer' = [answer EXCEPT ![r] = ReservationAnswer(order_requests[k], p)]
      /\ order_requests' = order_requests
  BY DEF AnswerFromRow, Enter, Finish
<1>2. \A l \in Keys : Decision(l)' = Decision(l)
  BY <1>1 DEF Decision
<1>3. \A s \in Requests : s # r => Verdict(s)' = Verdict(s)
  BY <1>1 DEF Verdict, OrdersInv, TypeOK
<1>4. Verdict(r) = {}
  BY <1>1, UnansweredHasNoVerdict
<1>5. args'[r].key = k /\ args'[r].payload = p
  BY <1>1 DEF OrdersInv, TypeOK
<1>6. CASE Verdict(r)' = {}
  BY <1>2, <1>3, <1>4, <1>6, NothingDecidedOrTold
<1>7. CASE Verdict(r)' # {}
  <2>1. answer'[r].kind \in {"CREATED", "IDEMPOTENT_REPLAY", "OperationFailed", "Unavailable"}
    BY <1>7 DEF Verdict
  <2>2. /\ order_requests[k] \in Row
        /\ order_requests[k].status \in {"COMPLETED", "FAILED"}
        /\ order_requests[k].request_hash = p
        /\ answer'[r].kind \in {"CREATED", "IDEMPOTENT_REPLAY"} =>
               /\ order_requests[k].status = "COMPLETED"
               /\ order_requests[k].order_id = answer'[r].order_id
        /\ answer'[r].kind \in {"OperationFailed", "Unavailable"} =>
               order_requests[k].status = "FAILED"
    BY <1>1, <1>5, <2>1 DEF OrdersInv, TypeOK, AnswersMatchRows, MyRow
  <2>3. answer'[r].kind \in {"OperationFailed", "Unavailable"} =>
            answer'[r].order_id = None /\ order_requests[k].order_id = None
    <3>1. answer'[r] = ReservationAnswer(order_requests[k], p)
      BY <1>1 DEF OrdersInv, TypeOK
    <3>2. order_requests[k].status = "FAILED" =>
              ReservationAnswer(order_requests[k], p) = Say("OperationFailed")
      BY <2>2 DEF ReservationAnswer, ReservationState
    <3> QED BY <2>2, <3>1, <3>2 DEF Say, OrdersInv, TypeOK
  <2>4. Verdict(r)' = {<<k, order_requests[k]>>}
    BY <1>5, <2>1, <2>2, <2>3 DEF Verdict, Row
  <2>5. Decision(k) = order_requests[k] /\ Decision(k) # Absent
    BY <2>2 DEF Decision, Absent
  <2> QED BY <1>2, <1>3, <1>4, <2>4, <2>5, OneMoreVerdict DEF Ledger!Tell
<1> QED BY <1>6, <1>7

LEMMA CompleteOrderRefines ==
    ASSUME OrdersInv, OrdersInv', NEW r \in Requests, CompleteOrder(r)
    PROVE  \E v \in {row \in Row : row.status \in {"COMPLETED", "FAILED"}} :
               Ledger!Decide(args[r].key, v)
<1> DEFINE k == args[r].key
<1> DEFINE v == order_requests'[k]
<1>1. /\ pc[r] = "received"
      /\ k \in Keys
      /\ MyRow(r).status = "PENDING"
      /\ CompletionRefused(r) = Say("none")
  BY SettlingIsNotRefused DEF CompleteOrder
<1>2. /\ answer' = [answer EXCEPT ![r] = OrderResult("CREATED", order[r])]
      /\ order_requests' = [order_requests EXCEPT ![k] = CompletedRow(MyRow(r), order[r])]
      /\ UNCHANGED args
  BY <1>1 DEF CompleteOrder, Finish
<1>3. /\ v \in Row
      /\ v.status = "COMPLETED"
      /\ v.order_id = order[r]
      /\ v.request_hash = args[r].payload
  <2>1. v = CompletedRow(MyRow(r), order[r])
    BY <1>1, <1>2 DEF OrdersInv, TypeOK
  <2>2. MyRow(r) \in Row /\ MyRow(r).request_hash = args[r].payload
    BY <1>1, SettlingIsNotRefused DEF OrdersInv, TypeOK, MyRow
  <2>3. v \in Row
    BY <1>1 DEF OrdersInv, TypeOK
  <2> QED BY <2>1, <2>2, <2>3 DEF CompletedRow, Row
<1>4. \A l \in Keys : Decision(l)' = IF l = k THEN v ELSE Decision(l)
  BY <1>1, <1>2, <1>3 DEF Decision, OrdersInv, TypeOK
<1>5. Decision(k) = Absent
  BY <1>1 DEF Decision, MyRow
<1>6. \A s \in Requests : s # r => Verdict(s)' = Verdict(s)
  BY <1>2 DEF Verdict, OrdersInv, TypeOK
<1>7. Verdict(r) = {}
  BY <1>1, UnansweredHasNoVerdict
<1>8. Verdict(r)' \in {{}, {<<k, v>>}}
  <2>1. answer'[r] = OrderResult("CREATED", order[r]) /\ args'[r] = args[r]
    BY <1>2 DEF OrdersInv, TypeOK
  <2>2. CASE order[r] \in Unusable
    BY <2>1, <2>2 DEF OrderResult, Say, Verdict
  <2>3. CASE order[r] \notin Unusable
    <3>1. answer'[r].kind = "CREATED" /\ answer'[r].order_id = order[r]
      BY <2>1, <2>3 DEF OrderResult
    <3> QED BY <1>3, <2>1, <3>1 DEF Verdict, Row
  <2> QED BY <2>2, <2>3
<1>9. [l \in Keys |-> Decision(l)]' = [[l \in Keys |-> Decision(l)] EXCEPT ![k] = v]
  BY <1>1, <1>4
<1>10. (UNION {Verdict(s) : s \in Requests})' \in
           {UNION {Verdict(s) : s \in Requests},
            (UNION {Verdict(s) : s \in Requests}) \cup {<<k, v>>}}
  BY <1>6, <1>7, <1>8, OneMoreVerdict
<1> QED BY <1>1, <1>3, <1>5, <1>9, <1>10 DEF Ledger!Decide

LEMMA FailOrderRefines ==
    ASSUME OrdersInv, OrdersInv', NEW r \in Requests, FailOrder(r)
    PROVE  \E v \in {row \in Row : row.status \in {"COMPLETED", "FAILED"}} :
               Ledger!Decide(args[r].key, v)
<1> DEFINE k == args[r].key
<1> DEFINE v == order_requests'[k]
<1>1. /\ pc[r] = "failing"
      /\ k \in Keys
      /\ MyRow(r).status = "PENDING"
      /\ MyRow(r).order_id = None
      /\ FailureRefused(r) = Say("none")
  BY SettlingIsNotRefused DEF FailOrder
<1>2. /\ answer' = [answer EXCEPT ![r] = Say("Unavailable")]
      /\ order_requests' = [order_requests EXCEPT ![k].status = "FAILED"]
      /\ UNCHANGED args
  BY <1>1 DEF FailOrder, Finish
<1>3. /\ v \in Row
      /\ v.status = "FAILED"
      /\ v.order_id = None
      /\ v.request_hash = args[r].payload
  <2>1. v = [MyRow(r) EXCEPT !.status = "FAILED"]
    BY <1>1, <1>2 DEF OrdersInv, TypeOK, MyRow
  <2>2. MyRow(r) \in Row /\ MyRow(r).request_hash = args[r].payload
    BY <1>1, SettlingIsNotRefused DEF OrdersInv, TypeOK, MyRow
  <2>3. v \in Row
    BY <1>1 DEF OrdersInv, TypeOK
  <2> QED BY <1>1, <2>1, <2>2, <2>3 DEF Row
<1>4. \A l \in Keys : Decision(l)' = IF l = k THEN v ELSE Decision(l)
  BY <1>1, <1>2, <1>3 DEF Decision, OrdersInv, TypeOK
<1>5. Decision(k) = Absent
  BY <1>1 DEF Decision, MyRow
<1>6. \A s \in Requests : s # r => Verdict(s)' = Verdict(s)
  BY <1>2 DEF Verdict, OrdersInv, TypeOK
<1>7. Verdict(r) = {}
  BY <1>1, UnansweredHasNoVerdict
<1>8. Verdict(r)' = {<<k, v>>}
  <2>1. /\ answer'[r].kind = "Unavailable"
        /\ answer'[r].order_id = None
        /\ args'[r] = args[r]
    BY <1>2 DEF OrdersInv, TypeOK, Say
  <2> QED BY <1>3, <2>1 DEF Verdict, Row
<1>9. [l \in Keys |-> Decision(l)]' = [[l \in Keys |-> Decision(l)] EXCEPT ![k] = v]
  BY <1>1, <1>4
<1>10. (UNION {Verdict(s) : s \in Requests})' =
           (UNION {Verdict(s) : s \in Requests}) \cup {<<k, v>>}
  BY <1>6, <1>7, <1>8, OneMoreVerdict
<1> QED BY <1>1, <1>3, <1>5, <1>9, <1>10 DEF Ledger!Decide

\* The other steps of a request leave the table alone and answer, if at all,
\* with an internal error.
LEMMA OtherStepsStutter ==
    ASSUME OrdersInv, order_requests' = order_requests,
           \A r \in Requests :
               \/ answer'[r] = answer[r] /\ args'[r] = args[r]
               \/ answer[r].kind = "none" /\ answer'[r].kind = "InternalError"
    PROVE  UNCHANGED Ledger!vars
<1>1. \A k \in Keys : Decision(k)' = Decision(k)
  BY DEF Decision
<1>2. \A r \in Requests : Verdict(r)' = Verdict(r)
  BY DEF Verdict
<1> QED BY <1>1, <1>2, NothingDecidedOrTold

LEMMA LedgerStep == OrdersInv /\ OrdersInv' /\ [Next]_vars => [Ledger!Next]_(Ledger!vars)
<1> SUFFICES ASSUME OrdersInv, OrdersInv', [Next]_vars PROVE [Ledger!Next]_(Ledger!vars)
  OBVIOUS
<1>1. CASE UNCHANGED vars \/ Crash
  BY <1>1, OtherStepsStutter DEF vars, Crash
<1>2. ASSUME NEW r \in Requests, RequestStep(r) PROVE [Ledger!Next]_(Ledger!vars)
  <2>1. ASSUME NEW k \in Keys, NEW p \in Payloads, Reserve(r, k, p)
        PROVE  [Ledger!Next]_(Ledger!vars)
    BY <2>1, ReserveRefines
  <2>2. ASSUME NEW k \in Keys, NEW p \in Payloads, AnswerFromRow(r, k, p)
        PROVE  [Ledger!Next]_(Ledger!vars)
    BY <2>2, AnswerFromRowRefines DEF Ledger!Next
  <2>3. ASSUME NEW k \in Keys, NEW p \in Payloads, ReserveBusy(r, k, p)
        PROVE  [Ledger!Next]_(Ledger!vars)
    <3>1. answer[r].kind = "none"
      BY <2>3 DEF ReserveBusy, Enter, OrdersInv, AnswersMatchRows
    <3> QED BY <2>3, <3>1, OtherStepsStutter
            DEF ReserveBusy, Enter, Finish, Say, OrdersInv, TypeOK
  <2>4. CASE CompleteOrder(r)
    <3>1. args[r].key \in Keys
      BY <2>4, SettlingIsNotRefused DEF CompleteOrder
    <3> QED BY <2>4, <3>1, CompleteOrderRefines DEF Ledger!Next
  <2>5. CASE FailOrder(r)
    <3>1. args[r].key \in Keys
      BY <2>5, SettlingIsNotRefused DEF FailOrder
    <3> QED BY <2>5, <3>1, FailOrderRefines DEF Ledger!Next
  <2>6. CASE SettleBusy(r)
    <3>1. answer[r].kind = "none"
      BY <2>6 DEF SettleBusy, OrdersInv, AnswersMatchRows
    <3> QED BY <2>6, <3>1, OtherStepsStutter DEF SettleBusy, Say, OrdersInv, TypeOK
  <2>7. CASE SendPost(r) \/ ReceiveOrder(r) \/ AdapterError(r) \/ ProviderRefuses(r)
    BY <2>7, OtherStepsStutter DEF SendPost, ReceiveOrder, AdapterError, ProviderRefuses
  <2>8. ASSUME NEW o \in Orders, ProviderCreates(r, o) PROVE [Ledger!Next]_(Ledger!vars)
    BY <2>8, OtherStepsStutter DEF ProviderCreates
  <2> QED BY <1>2, <2>1, <2>2, <2>3, <2>4, <2>5, <2>6, <2>7, <2>8 DEF RequestStep, ThreadStep
<1> QED BY <1>1, <1>2 DEF Next

\* order_requests implements the once-only ledger: the first settlement of a
\* key is final, and every verdict on the key that any client gets is that one.
THEOREM LedgerRefinement == Spec => ImplementsLedger
<1>1. Init => Ledger!Init
  <2> SUFFICES ASSUME Init PROVE Ledger!Init
    OBVIOUS
  <2>1. \A k \in Keys : Decision(k) = Absent
    BY DEF Init, Decision, Absent
  <2>2. \A r \in Requests : Verdict(r) = {}
    BY DEF Init, Verdict, Say
  <2> QED BY <2>1, <2>2 DEF Ledger!Init
<1>2. OrdersInv /\ OrdersInv' /\ [Next]_vars => [Ledger!Next]_(Ledger!vars)
  BY LedgerStep
<1> QED BY <1>1, <1>2, OrdersInvariance, PTL DEF Spec, ImplementsLedger, Ledger!Spec
-----------------------------------------------------------------------------
(* What the ledger promises, therefore, to the clients of order_requests.  *)

\* Only a created or replayed order is named in an answer.
RefusalsNameNoOrder ==
    \A r \in Requests :
        answer[r].kind \notin {"CREATED", "IDEMPOTENT_REPLAY"} => answer[r].order_id = None

\* Every other answer leaves its order column empty.
LEMMA RefusalsNameNoOrderInvariance == Spec => []RefusalsNameNoOrder
<1>1. Init => RefusalsNameNoOrder
  BY DEF Init, RefusalsNameNoOrder, Say
<1>2. ASSUME OrdersInv, RefusalsNameNoOrder, [Next]_vars PROVE RefusalsNameNoOrder'
  <2> DEFINE Fits(a) == a.kind \notin {"CREATED", "IDEMPOTENT_REPLAY"} => a.order_id = None
  <2>0. /\ \A kind : Fits(Say(kind))
        /\ \A o : Fits(OrderResult("CREATED", o)) /\ Fits(OrderResult("IDEMPOTENT_REPLAY", o))
    BY DEF Say, OrderResult
  <2>1. CASE UNCHANGED vars \/ Crash
    BY <1>2, <2>1 DEF vars, Crash, RefusalsNameNoOrder
  <2>2. ASSUME NEW r \in Requests, RequestStep(r)
        PROVE  answer' = answer \/ \E a : Fits(a) /\ answer' = [answer EXCEPT ![r] = a]
    <3>1. ASSUME NEW k \in Keys, NEW p \in Payloads, AnswerFromRow(r, k, p)
          PROVE  \E a : Fits(a) /\ answer' = [answer EXCEPT ![r] = a]
      <4>1. ReservationState(order_requests[k], p) \in {"CONFLICT", "PENDING", "FAILED", "COMPLETED"}
        BY <1>2, <3>1 DEF AnswerFromRow, ReservationState, OrdersInv, TypeOK, Row
      <4>2. Fits(ReservationAnswer(order_requests[k], p))
        <5> HIDE DEF Fits
        <5> QED BY <2>0, <4>1 DEF ReservationAnswer
      <4> QED BY <3>1, <4>2 DEF AnswerFromRow, Finish
    <3>2. CASE CompleteOrder(r)
      <4>1. CompletionRefused(r) = Say("none")
        BY <1>2, <3>2, SettlingIsNotRefused DEF CompleteOrder
      <4>2. answer' = [answer EXCEPT ![r] = OrderResult("CREATED", order[r])]
        BY <3>2, <4>1 DEF CompleteOrder, Finish
      <4> QED BY <2>0, <4>2
    <3>3. CASE FailOrder(r)
      <4>1. FailureRefused(r) = Say("none")
        BY <1>2, <3>3, SettlingIsNotRefused DEF FailOrder
      <4>2. answer' = [answer EXCEPT ![r] = Say("Unavailable")]
        BY <3>3, <4>1 DEF FailOrder, Finish
      <4> QED BY <2>0, <4>2
    <3>4. ASSUME NEW k \in Keys, NEW p \in Payloads, Reserve(r, k, p) \/ ReserveBusy(r, k, p)
          PROVE  answer' = answer \/ \E a : Fits(a) /\ answer' = [answer EXCEPT ![r] = a]
      <4> HIDE DEF Fits
      <4> QED BY <2>0, <3>4 DEF Reserve, ReserveBusy, Enter, Finish
    <3>5. ASSUME NEW o \in Orders, ProviderCreates(r, o) PROVE answer' = answer
      BY <3>5 DEF ProviderCreates
    <3>6. CASE SettleBusy(r)
      <4> HIDE DEF Fits
      <4> QED BY <2>0, <3>6 DEF SettleBusy
    <3>7. CASE SendPost(r) \/ ReceiveOrder(r) \/ AdapterError(r) \/ ProviderRefuses(r)
      BY <3>7 DEF SendPost, ReceiveOrder, AdapterError, ProviderRefuses
    <3> HIDE DEF Fits
    <3> QED BY <2>2, <3>1, <3>2, <3>3, <3>4, <3>5, <3>6, <3>7 DEF RequestStep, ThreadStep
  <2>3. ASSUME NEW r \in Requests, RequestStep(r) PROVE RefusalsNameNoOrder'
    <3>1. CASE answer' = answer
      BY <1>2, <3>1 DEF RefusalsNameNoOrder
    <3>2. ASSUME NEW a, Fits(a), answer' = [answer EXCEPT ![r] = a] PROVE RefusalsNameNoOrder'
      BY <1>2, <3>2 DEF RefusalsNameNoOrder, OrdersInv, TypeOK
    <3> HIDE DEF Fits
    <3> QED BY <2>2, <2>3, <3>1, <3>2
  <2> QED BY <1>2, <2>1, <2>3 DEF Next
<1> QED BY <1>1, <1>2, OrdersInvariance, PTL DEF Spec

\* A verdict is what the row of its key says.
LEMMA VerdictIsDecision ==
    ASSUME OrdersInv, RefusalsNameNoOrder, NEW r \in Requests, NEW kv \in Verdict(r)
    PROVE  kv[1] \in Keys /\ kv[2] = Decision(kv[1])
<1>1. answer[r].kind \in {"CREATED", "IDEMPOTENT_REPLAY", "OperationFailed", "Unavailable"}
  BY DEF Verdict
<1>2. args[r].key \in Keys
  BY <1>1 DEF OrdersInv, AnswersMatchRows, ArgsKnown
<1>3. /\ order_requests[args[r].key] \in Row
      /\ order_requests[args[r].key].request_hash = args[r].payload
      /\ order_requests[args[r].key].order_id = answer[r].order_id
      /\ order_requests[args[r].key].status =
             IF answer[r].kind \in {"CREATED", "IDEMPOTENT_REPLAY"} THEN "COMPLETED" ELSE "FAILED"
  BY <1>1, <1>2 DEF OrdersInv, TypeOK, AnswersMatchRows, MyRow, RefusalsNameNoOrder
<1>4. kv = <<args[r].key, order_requests[args[r].key]>>
  BY <1>1, <1>3 DEF Verdict, Row
<1> QED BY <1>2, <1>3, <1>4 DEF Decision

\* Whatever a client is told about a key is the decision in its row, however
\* late it asks and whoever made the decision.
THEOREM VerdictsAreDecided == Spec => []Ledger!ToldIsDecided
<1>1. OrdersInv /\ RefusalsNameNoOrder => Ledger!ToldIsDecided
  BY VerdictIsDecision DEF Ledger!ToldIsDecided
<1> QED BY <1>1, OrdersInvariance, RefusalsNameNoOrderInvariance, PTL

\* No two clients are ever told different things about a key.
THEOREM ClientsAgreeOnOrders == Spec => []Ledger!ClientsAgree
<1>1. OrdersInv /\ RefusalsNameNoOrder => Ledger!ClientsAgree
  BY VerdictIsDecision DEF Ledger!ClientsAgree
<1> QED BY <1>1, OrdersInvariance, RefusalsNameNoOrderInvariance, PTL

\* A settled key keeps its order or its failure.
THEOREM OrderDecisionsAreFinal == Spec => Ledger!DecisionsAreFinal
<1>1. OrdersInv /\ OrdersInv' /\ [Next]_vars => [Ledger!KeepsDecisions]_(Ledger!vars)
  BY LedgerStep
     DEF Ledger!Next, Ledger!Decide, Ledger!Tell, Ledger!vars, Ledger!KeepsDecisions
<1> QED BY <1>1, OrdersInvariance, PTL DEF Spec, Ledger!DecisionsAreFinal
-----------------------------------------------------------------------------
(* The safety part of ReservationSettles, and what an interruption does.   *)

\* A reservation that is not settled has a request that holds it.
PendingIsHeld ==
    \A k \in Keys :
        order_requests[k].status = "PENDING" =>
            \E r \in Requests : Creator(r, k) \/ (args[r].key = k /\ Interrupted(r))

\* Nobody works on the reservation of a key.
Stuck(k) ==
    /\ order_requests[k].status = "PENDING"
    /\ \A r \in Requests : ~Creator(r, k)
StuckForEver == [][\A k \in Keys : Stuck(k) => Stuck(k)']_vars

\* No path of create_order leaves a PENDING row behind, but an interruption of
\* the request that inserted it.
THEOREM PendingHasAHolder == Spec => []PendingIsHeld
<1>1. Init => PendingIsHeld
  BY DEF Init, PendingIsHeld, Absent
<1>2. ASSUME OrdersInv, OrdersInv', PendingIsHeld, [Next]_vars PROVE PendingIsHeld'
  <2> SUFFICES ASSUME NEW k \in Keys, order_requests'[k].status = "PENDING"
               PROVE  \E r \in Requests :
                          Creator(r, k)' \/ (args'[r].key = k /\ Interrupted(r)')
    BY DEF PendingIsHeld
  <2> DEFINE Held(r) == args[r].key = k /\ pc[r] \in Serving \cup {"lost", "unsettled"}
  <2>1. SUFFICES \E r \in Requests : Held(r)'
    BY DEF Creator, Interrupted
  <2>2. order_requests[k].status = "PENDING" => \E r \in Requests : Held(r)
    BY <1>2 DEF PendingIsHeld, Creator, Interrupted
  <2>3. CASE UNCHANGED vars
    BY <2>2, <2>3 DEF vars
  <2>4. CASE Crash
    BY <1>2, <2>2, <2>4 DEF Crash, OrdersInv, TypeOK
  <2>5. ASSUME NEW s \in Requests, NEW key \in Keys, NEW p \in Payloads, Reserve(s, key, p)
        PROVE  \E r \in Requests : Held(r)'
    <3>1. CASE key = k
      BY <1>2, <2>5, <3>1 DEF Reserve, Enter, OrdersInv, TypeOK, Serving
    <3>2. CASE key # k
      <4>1. PICK r \in Requests : Held(r)
        BY <1>2, <2>2, <2>5, <3>2 DEF Reserve, OrdersInv, TypeOK
      <4>2. r # s
        BY <4>1, <2>5 DEF Reserve, Enter, Serving
      <4> QED BY <1>2, <2>5, <4>1, <4>2 DEF Reserve, Enter, OrdersInv, TypeOK
    <3> QED BY <3>1, <3>2
  <2>6. ASSUME NEW s \in Requests, NEW key \in Keys, NEW p \in Payloads,
               AnswerFromRow(s, key, p) \/ ReserveBusy(s, key, p)
        PROVE  \E r \in Requests : Held(r)'
    <3>1. PICK r \in Requests : Held(r)
      BY <2>2, <2>6 DEF AnswerFromRow, ReserveBusy
    <3>2. r # s
      BY <3>1, <2>6 DEF AnswerFromRow, ReserveBusy, Enter, Serving
    <3> QED BY <1>2, <2>6, <3>1, <3>2
            DEF AnswerFromRow, ReserveBusy, Enter, Finish, OrdersInv, TypeOK
  <2>7. ASSUME NEW s \in Requests, CompleteOrder(s) \/ FailOrder(s)
        PROVE  \E r \in Requests : Held(r)'
    <3>1. CompletionRefused(s) = Say("none") \/ ~CompleteOrder(s)
      BY <1>2, SettlingIsNotRefused DEF CompleteOrder
    <3>2. FailureRefused(s) = Say("none") \/ ~FailOrder(s)
      BY <1>2, SettlingIsNotRefused DEF FailOrder
    <3>3. /\ args' = args /\ args[s].key \in Keys /\ pc[s] \in Serving
          /\ pc' = [pc EXCEPT ![s] = "done"]
          /\ \/ order_requests' = [order_requests EXCEPT
                    ![args[s].key] = CompletedRow(MyRow(s), order[s])]
             \/ order_requests' = [order_requests EXCEPT ![args[s].key].status = "FAILED"]
      BY <1>2, <2>7, <3>1, <3>2
         DEF CompleteOrder, FailOrder, Finish, OrdersInv, ArgsKnown, Serving
    <3>4. /\ MyRow(s) \in Row /\ order_requests \in [Keys -> Row]
          /\ pc \in [Requests -> Serving \cup {"idle", "done", "lost", "unsettled"}]
      BY <1>2, <3>3 DEF OrdersInv, TypeOK, MyRow
    <3>5. args[s].key # k
      <4> SUFFICES ASSUME args[s].key = k PROVE FALSE
        OBVIOUS
      <4> HIDE DEF Held
      <4>1. CompletedRow(MyRow(s), order[s]).status = "COMPLETED"
        BY <3>4 DEF CompletedRow, Row
      <4>2. \/ order_requests'[k] = CompletedRow(MyRow(s), order[s])
            \/ order_requests'[k] = [order_requests[k] EXCEPT !.status = "FAILED"]
        BY <3>3, <3>4
      <4>3. [order_requests[k] EXCEPT !.status = "FAILED"].status = "FAILED"
        BY <3>4 DEF Row
      <4> QED BY <4>1, <4>2, <4>3
    <3>6. order_requests[k].status = "PENDING"
      BY <3>3, <3>4, <3>5
    <3>7. PICK r \in Requests : Held(r)
      BY <2>2, <3>6
    <3> QED BY <3>3, <3>4, <3>5, <3>7
  <2>8. ASSUME NEW s \in Requests,
               \/ SendPost(s) \/ ReceiveOrder(s) \/ AdapterError(s) \/ SettleBusy(s)
               \/ ProviderRefuses(s) \/ \E o \in Orders : ProviderCreates(s, o)
        PROVE  \E r \in Requests : Held(r)'
    BY <1>2, <2>2, <2>8 DEF SendPost, ReceiveOrder, AdapterError, SettleBusy,
       ProviderRefuses, ProviderCreates, OrdersInv, TypeOK, Serving
  <2> QED BY <1>2, <2>3, <2>4, <2>5, <2>6, <2>7, <2>8 DEF Next, RequestStep, ThreadStep
<1> QED BY <1>1, <1>2, OrdersInvariance, PTL DEF Spec

\* Once that has happened nothing settles the row: no retry, no restart and no
\* late answer of the provider.
THEOREM StuckStaysStuck == Spec => StuckForEver
<1>1. ASSUME OrdersInv, [Next]_vars, NEW k \in Keys, Stuck(k) PROVE Stuck(k)'
  <2> USE <1>1 DEF Stuck, Creator
  <2>1. CASE UNCHANGED vars
    BY <2>1 DEF vars
  <2>2. CASE Crash
    BY <2>2 DEF Crash, OrdersInv, TypeOK, Serving
  <2>3. ASSUME NEW s \in Requests, NEW key \in Keys, NEW p \in Payloads, Reserve(s, key, p)
        PROVE  Stuck(k)'
    <3>1. order_requests[key].status = "ABSENT"
      BY <2>3 DEF Reserve, ReservationState, OrdersInv, TypeOK, Row
    <3> QED BY <2>3, <3>1 DEF Reserve, Enter, OrdersInv, TypeOK
  <2>4. ASSUME NEW s \in Requests, NEW key \in Keys, NEW p \in Payloads,
               AnswerFromRow(s, key, p) \/ ReserveBusy(s, key, p)
        PROVE  Stuck(k)'
    BY <2>4 DEF AnswerFromRow, ReserveBusy, Enter, Finish, OrdersInv, TypeOK, Serving
  <2>5. ASSUME NEW s \in Requests, ThreadStep(s)
        PROVE  Stuck(k)'
    <3>1. pc[s] \in Serving /\ args' = args
      BY <2>5 DEF ThreadStep, SendPost, ReceiveOrder, AdapterError, CompleteOrder,
                  FailOrder, SettleBusy, Serving
    <3>2. args[s].key # k /\ args[s].key \in Keys
      BY <3>1 DEF OrdersInv, ArgsKnown, Serving
    <3>3. order_requests'[k] = order_requests[k]
      BY <2>5, <3>2 DEF ThreadStep, SendPost, ReceiveOrder, AdapterError, CompleteOrder,
                        FailOrder, SettleBusy, OrdersInv, TypeOK
    <3>4. \A r \in Requests : r # s => pc'[r] = pc[r]
      BY <2>5 DEF ThreadStep, SendPost, ReceiveOrder, AdapterError, CompleteOrder,
                  FailOrder, SettleBusy, Finish, OrdersInv, TypeOK
    <3> QED BY <3>1, <3>2, <3>3, <3>4
  <2>6. ASSUME NEW s \in Requests,
               ProviderRefuses(s) \/ \E o \in Orders : ProviderCreates(s, o)
        PROVE  Stuck(k)'
    BY <2>6 DEF ProviderRefuses, ProviderCreates
  <2> QED BY <2>1, <2>2, <2>3, <2>4, <2>5, <2>6 DEF Next, RequestStep
<1>2. OrdersInv /\ [Next]_vars => [\A k \in Keys : Stuck(k) => Stuck(k)']_vars
  BY <1>1
<1> QED BY <1>2, OrdersInvariance, PTL DEF Spec, StuckForEver
=============================================================================
