---------------------------- MODULE OutboxProofs ----------------------------
(***************************************************************************)
(* Theorems about Outbox, for any number of courses, spiders, calls of     *)
(* reconcile-outbox and crashes.                                           *)
(***************************************************************************)
EXTENDS Outbox, FiniteSetTheorems, TLAPS

\* Every event is in Calls, and 0 is none.
LEMMA CallsFacts ==
  /\ MaxCalls \in Nat /\ MaxCrashes \in Nat
  /\ Calls \subseteq 0..MaxCalls /\ 0 \notin Calls
  /\ Calls = {n \in Nat : 1 <= n /\ n <= MaxCalls}
BY ConstantsAssumption DEF ConstantsAssumption, Calls

LEMMA CallsAreNumbers == Calls \subseteq Nat
BY CallsFacts

-----------------------------------------------------------------------------
(* Type correctness, action by action.                                     *)

\* UpsertSelect keeps every variable in its type: a call it starts has its request.
LEMMA UpsertSelectType ==
  ASSUME NEW s \in Spiders, TypeOK, UpsertSelect(s)
  PROVE  TypeOK'
<1>1. /\ call[s] = 0 /\ calls \in Nat /\ calls < MaxCalls
      /\ calls' = calls + 1
      /\ call' = [call EXCEPT ![s] = calls + 1]
      /\ calls + 1 \in Calls
      BY CallsFacts DEF UpsertSelect, TypeOK
<1>2. PICK q \in Requests :
         /\ request' = [request EXCEPT ![calls + 1] = q]
         /\ old' = [old EXCEPT ![s] = fingerprint[q[1]]]
      BY DEF UpsertSelect
<1>3. /\ request' \in [Calls -> Requests \cup {<<>>}]
      /\ old' \in [Spiders -> Fingerprints \cup {NoFingerprint}]
      BY <1>2 DEF TypeOK, Requests
<1>4. calls' \in 0..MaxCalls /\ call' \in [Spiders -> 0..MaxCalls]
      BY <1>1, CallsFacts DEF TypeOK
<1>5. ASSUME NEW t \in Spiders, call'[t] # 0
      PROVE  call'[t] <= calls' /\ request'[call'[t]] \in Requests
  <2>1. CASE t = s
        BY <1>1, <1>2, <2>1 DEF TypeOK
  <2>2. CASE t # s
    <3>1. /\ call'[t] = call[t] /\ call[t] \in Nat /\ call[t] <= calls
          /\ request[call[t]] \in Requests
          BY <1>1, <1>5, <2>2, CallsFacts DEF TypeOK
    <3>2. request'[call[t]] = request[call[t]]
          BY <1>1, <1>2, <3>1, CallsFacts DEF TypeOK
    <3>3. QED BY <1>1, <3>1, <3>2
  <2>3. QED BY <2>1, <2>2
<1>6. overtaken' \subseteq {t \in Spiders : call'[t] # 0}
  <2>1. overtaken' = overtaken
        BY DEF UpsertSelect
  <2>2. \A t \in Spiders : call[t] # 0 => call'[t] = call[t]
        BY <1>1 DEF TypeOK
  <2>3. QED BY <2>1, <2>2 DEF TypeOK
<1>7. QED BY <1>3, <1>4, <1>5, <1>6 DEF TypeOK, UpsertSelect, reconcile

\* What is left when an upsert is over is well typed.
LEMMA UpsertEndsType ==
  ASSUME NEW s \in Spiders, TypeOK, UpsertEnds(s), UNCHANGED reconcile,
         fingerprint' \in [Courses -> Fingerprints \cup {NoFingerprint}],
         outbox' \in [Calls -> {"NONE", "PENDING", "SENT"}],
         UNCHANGED inbox,
         overtaken' \subseteq {t \in Spiders \ {s} : call[t] # 0}
  PROVE  TypeOK'
<1>1. \A t \in Spiders : /\ call'[t] # 0 => t # s /\ call'[t] = call[t]
                        /\ t # s => call'[t] = call[t]
      BY DEF UpsertEnds, TypeOK
<1>2. /\ call' \in [Spiders -> 0..MaxCalls]
      /\ old' \in [Spiders -> Fingerprints \cup {NoFingerprint}]
      BY CallsFacts DEF UpsertEnds, TypeOK
<1>3. QED BY <1>1, <1>2 DEF TypeOK, UpsertEnds, reconcile

\* UpsertWrite keeps every variable in its type.
LEMMA UpsertWriteType ==
  ASSUME NEW s \in Spiders, TypeOK, UpsertWrite(s)
  PROVE  TypeOK'
<1>1. call[s] # 0 /\ request[call[s]] \in Courses \X Fingerprints
      BY DEF UpsertWrite, TypeOK, Requests
<1>2. /\ fingerprint' \in [Courses -> Fingerprints \cup {NoFingerprint}]
      /\ outbox' \in [Calls -> {"NONE", "PENDING", "SENT"}]
      BY <1>1 DEF UpsertWrite, TypeOK
<1>3. UpsertEnds(s) /\ UNCHANGED inbox /\ UNCHANGED reconcile
      BY DEF UpsertWrite
<1>4. overtaken' \subseteq {t \in Spiders \ {s} : call[t] # 0}
      BY DEF UpsertWrite, Overtakes, TypeOK
<1>5. QED BY <1>2, <1>3, <1>4, UpsertEndsType

\* UpsertDies keeps every variable in its type.
LEMMA UpsertDiesType ==
  ASSUME NEW s \in Spiders, TypeOK, UpsertDies(s)
  PROVE  TypeOK'
BY UpsertEndsType DEF UpsertDies, TypeOK

\* What a call of reconcile-outbox is left with, in every one of its steps.
RoundOK(r) ==
  /\ pc'[r] \in {"idle", "checking", "inserting", "marking"}
  /\ todo'[r] \subseteq Calls
  /\ pc'[r] = "idle" <=> todo'[r] = {}
  /\ current'[r] \in IF pc'[r] \in {"inserting", "marking"} THEN todo'[r] ELSE {0}

\* A step of one call of reconcile-outbox, well formed by itself, keeps TypeOK.
LEMMA RoundType ==
  ASSUME NEW r \in Reconcilers, TypeOK,
         \E x : pc' = [pc EXCEPT ![r] = x],
         \E x : todo' = [todo EXCEPT ![r] = x],
         \E x : current' = [current EXCEPT ![r] = x],
         RoundOK(r),
         crashes' \in 0..MaxCrashes,
         outbox' \in [Calls -> {"NONE", "PENDING", "SENT"}],
         inbox' \in [Calls -> Nat],
         UNCHANGED <<fingerprint, upserts, overtaken>>
  PROVE  TypeOK'
<1>1. \A t \in Reconcilers \ {r} : /\ pc'[t] = pc[t] /\ todo'[t] = todo[t]
                                   /\ current'[t] = current[t]
      BY DEF TypeOK
<1>2. /\ pc' \in [Reconcilers -> {"idle", "checking", "inserting", "marking"}]
      /\ todo' \in [Reconcilers -> SUBSET Calls]
      BY DEF TypeOK, RoundOK
<1>3. current'[r] \in 0..MaxCalls
      BY CallsFacts DEF RoundOK
<1>4. current' \in [Reconcilers -> 0..MaxCalls]
      BY <1>3 DEF TypeOK
<1>5. \A t \in Reconcilers :
         /\ pc'[t] = "idle" <=> todo'[t] = {}
         /\ current'[t] \in IF pc'[t] \in {"inserting", "marking"} THEN todo'[t] ELSE {0}
      BY <1>1 DEF TypeOK, RoundOK
<1>6. QED BY <1>2, <1>4, <1>5 DEF TypeOK, upserts

\* The end of a round is well formed.
LEMMA NextEventRound ==
  ASSUME NEW r \in Reconcilers, TypeOK, pc[r] # "idle", NEW n \in todo[r], NextEvent(r, n)
  PROVE  RoundOK(r)
BY DEF TypeOK, NextEvent, RoundOK

\* The end of a call is well formed.
LEMMA AbortRound ==
  ASSUME NEW r \in Reconcilers, TypeOK, Abort(r)
  PROVE  RoundOK(r)
BY DEF TypeOK, Abort, RoundOK

\* Fetch keeps every variable in its type.
LEMMA FetchType ==
  ASSUME NEW r \in Reconcilers, TypeOK, Fetch(r)
  PROVE  TypeOK'
<1>1. Fetched \subseteq Calls
      BY DEF Fetched, Pending
<1>2. RoundOK(r)
      BY <1>1 DEF TypeOK, Fetch, RoundOK
<1>3. current' = [current EXCEPT ![r] = current[r]]
      BY DEF TypeOK, Fetch
<1>4. QED BY <1>2, <1>3, RoundType DEF Fetch, TypeOK

\* InboxSelect keeps every variable in its type.
LEMMA InboxSelectType ==
  ASSUME NEW r \in Reconcilers, TypeOK, InboxSelect(r)
  PROVE  TypeOK'
<1>1. PICK n \in todo[r] :
         \/ NextEvent(r, n)
         \/ /\ pc' = [pc EXCEPT ![r] = "inserting"]
            /\ current' = [current EXCEPT ![r] = n]
            /\ UNCHANGED todo
      BY DEF InboxSelect
<1>2. CASE NextEvent(r, n)
  <2>1. RoundOK(r)
        BY <1>2, NextEventRound DEF InboxSelect
  <2>2. QED BY <1>2, <2>1, RoundType DEF InboxSelect, NextEvent, TypeOK
<1>3. CASE /\ pc' = [pc EXCEPT ![r] = "inserting"]
           /\ current' = [current EXCEPT ![r] = n]
           /\ UNCHANGED todo
  <2>1. RoundOK(r)
        BY <1>3 DEF RoundOK, TypeOK
  <2>2. todo' = [todo EXCEPT ![r] = todo[r]]
        BY <1>3 DEF TypeOK
  <2>3. QED BY <1>3, <2>1, <2>2, RoundType DEF InboxSelect, TypeOK
<1>4. QED BY <1>1, <1>2, <1>3

\* InboxInsert keeps every variable in its type.
LEMMA InboxInsertType ==
  ASSUME NEW r \in Reconcilers, TypeOK, InboxInsert(r)
  PROVE  TypeOK'
<1>1. pc[r] = "inserting" /\ current[r] \in todo[r] /\ current[r] \in Calls
      BY DEF InboxInsert, TypeOK
<1>2. CASE Abort(r) /\ UNCHANGED inbox
      BY <1>2, AbortRound, RoundType DEF InboxInsert, Abort, TypeOK
<1>3. CASE ~(Abort(r) /\ UNCHANGED inbox)
  <2>1. /\ inbox' = [inbox EXCEPT ![current[r]] = @ + 1]
        /\ pc' = [pc EXCEPT ![r] = "marking"]
        /\ UNCHANGED <<todo, current>>
        BY <1>3 DEF InboxInsert
  <2>2. RoundOK(r)
        BY <1>1, <2>1 DEF RoundOK, TypeOK
  <2>3. todo' = [todo EXCEPT ![r] = todo[r]]
        BY <2>1 DEF TypeOK
  <2>4. current' = [current EXCEPT ![r] = current[r]]
        BY <2>1 DEF TypeOK
  <2>5. inbox \in [Calls -> Nat] /\ inbox[current[r]] + 1 \in Nat
        BY <1>1 DEF TypeOK
  <2>6. inbox' \in [Calls -> Nat]
        BY <2>1, <2>5
  <2>7. QED BY <2>1, <2>2, <2>3, <2>4, <2>6, RoundType DEF InboxInsert, TypeOK
<1>4. QED BY <1>2, <1>3

\* MarkSent keeps every variable in its type.
LEMMA MarkSentType ==
  ASSUME NEW r \in Reconcilers, TypeOK, MarkSent(r)
  PROVE  TypeOK'
<1>1. current[r] \in todo[r] /\ pc[r] # "idle"
      BY DEF MarkSent, TypeOK
<1>2. RoundOK(r)
      BY <1>1, NextEventRound DEF MarkSent
<1>3. QED BY <1>2, RoundType DEF MarkSent, NextEvent, TypeOK

\* ReconcileDies keeps every variable in its type.
LEMMA ReconcileDiesType ==
  ASSUME NEW r \in Reconcilers, TypeOK, ReconcileDies(r)
  PROVE  TypeOK'
<1>1. crashes' \in 0..MaxCrashes
      BY CallsFacts DEF ReconcileDies, TypeOK
<1>2. QED BY <1>1, AbortRound, RoundType DEF ReconcileDies, Abort, TypeOK

\* Every step keeps every variable in its type.
LEMMA TypeStep == TypeOK /\ [Next]_vars => TypeOK'
<1>1. ASSUME TypeOK, UNCHANGED vars PROVE TypeOK'
      BY <1>1 DEF TypeOK, vars, upserts, reconcile
<1>2. QED BY <1>1, UpsertSelectType, UpsertWriteType, UpsertDiesType, FetchType,
             InboxSelectType, InboxInsertType, MarkSentType, ReconcileDiesType
          DEF Next, SpiderStep, ReconcilerStep

\* Every reachable state is well typed, and a call of reconcile-outbox is over exactly
\* when it has handled what it fetched.
THEOREM TypeCorrect == Spec => []TypeOK
<1>1. Init => TypeOK
      BY CallsFacts DEF Init, TypeOK
<1>2. QED BY <1>1, TypeStep, PTL DEF Spec

-----------------------------------------------------------------------------
(* Delivery.                                                               *)

\* The event of an upsert exists only once the upsert is over, and upserts are apart.
UpsertsInv ==
  /\ \A n \in Calls : n > calls => outbox[n] = "NONE"
  /\ \A s \in Spiders : call[s] # 0 => outbox[call[s]] = "NONE"
  /\ \A s, t \in Spiders : call[s] # 0 /\ call[s] = call[t] => s = t

\* The inbox has an event at most once and after it was emitted, and it has the events
\* that are marked as sent; what a call of reconcile-outbox handles was emitted, and
\* what it is about to mark has been received.
InboxInv ==
  /\ \A n \in Calls : inbox[n] \in {0, 1}
  /\ \A n \in Calls : inbox[n] = 1 => outbox[n] # "NONE"
  /\ \A n \in Calls : outbox[n] = "SENT" => inbox[n] = 1
  /\ \A r \in Reconcilers : \A n \in todo[r] : outbox[n] # "NONE"
  /\ \A r \in Reconcilers : pc[r] = "marking" => inbox[current[r]] = 1

DeliveryInv == TypeOK /\ UpsertsInv /\ InboxInv

\* An upsert that starts takes a number whose event does not exist.
LEMMA UpsertSelectDelivery ==
  ASSUME NEW s \in Spiders, DeliveryInv, UpsertSelect(s)
  PROVE  UpsertsInv' /\ InboxInv'
<1>1. InboxInv'
      BY DEF DeliveryInv, InboxInv, UpsertSelect, reconcile
<1>2. /\ calls \in Nat /\ calls + 1 \in Calls /\ calls' = calls + 1
      /\ call' = [call EXCEPT ![s] = calls + 1]
      /\ outbox' = outbox
      /\ \A n \in Calls : n \in Nat
      BY CallsFacts DEF UpsertSelect, DeliveryInv, TypeOK
<1>3. \A t \in Spiders \ {s} : call'[t] = call[t]
      BY <1>2 DEF DeliveryInv, TypeOK
<1>4. call'[s] = calls + 1
      BY <1>2 DEF DeliveryInv, TypeOK
<1>5. \A t \in Spiders : call[t] # 0 => call[t] \in Nat /\ call[t] <= calls
      BY CallsFacts DEF DeliveryInv, TypeOK
<1>6. \A n \in Calls : n > calls' => outbox'[n] = "NONE"
      BY <1>2 DEF DeliveryInv, UpsertsInv
<1>7. \A t \in Spiders : call'[t] # 0 => outbox'[call'[t]] = "NONE"
      BY <1>2, <1>3, <1>4 DEF DeliveryInv, UpsertsInv
<1>8. ASSUME NEW t \in Spiders, NEW u \in Spiders, call'[t] # 0, call'[t] = call'[u]
      PROVE  t = u
  <2>1. CASE t = s /\ u # s
        BY <1>2, <1>3, <1>4, <1>5, <1>8, <2>1
  <2>2. CASE t # s /\ u = s
        BY <1>2, <1>3, <1>4, <1>5, <1>8, <2>2
  <2>3. CASE t # s /\ u # s
        BY <1>3, <1>8, <2>3 DEF DeliveryInv, UpsertsInv
  <2>4. QED BY <2>1, <2>2, <2>3
<1>9. QED BY <1>1, <1>6, <1>7, <1>8 DEF UpsertsInv

\* An upsert that ends having written at most its own event, which did not exist.
LEMMA UpsertEndsDelivery ==
  ASSUME NEW s \in Spiders, DeliveryInv, call[s] # 0, UpsertEnds(s), UNCHANGED reconcile,
         UNCHANGED inbox,
         \/ UNCHANGED outbox
         \/ outbox' = [outbox EXCEPT ![call[s]] = "PENDING"]
  PROVE  UpsertsInv' /\ InboxInv'
<1>1. /\ call[s] \in Calls /\ call[s] <= calls /\ calls \in Nat
      /\ outbox[call[s]] = "NONE"
      /\ \A n \in Calls : n \in Nat
      BY CallsFacts DEF DeliveryInv, UpsertsInv, TypeOK
<1>2. \A n \in Calls : n # call[s] => outbox'[n] = outbox[n]
      BY DEF DeliveryInv, TypeOK
<1>3. outbox'[call[s]] \in {"NONE", "PENDING"}
      BY <1>1 DEF DeliveryInv, TypeOK
<1>4. \A t \in Spiders : call'[t] # 0 => t # s /\ call'[t] = call[t]
      BY DEF DeliveryInv, TypeOK, UpsertEnds
<1>5. \A t \in Spiders : call'[t] # 0 => call[t] # call[s] /\ call[t] \in Calls
      BY <1>4, CallsFacts DEF DeliveryInv, UpsertsInv, TypeOK
<1>6. UpsertsInv'
  <2>1. \A n \in Calls : n > calls' => outbox'[n] = "NONE"
        BY <1>1, <1>2 DEF DeliveryInv, UpsertsInv, UpsertEnds
  <2>2. \A t \in Spiders : call'[t] # 0 => outbox'[call'[t]] = "NONE"
        BY <1>2, <1>4, <1>5 DEF DeliveryInv, UpsertsInv
  <2>3. \A t, u \in Spiders : call'[t] # 0 /\ call'[t] = call'[u] => t = u
        BY <1>4 DEF DeliveryInv, UpsertsInv
  <2>4. QED BY <2>1, <2>2, <2>3 DEF UpsertsInv
<1>7. \A n \in Calls : /\ outbox[n] # "NONE" => outbox'[n] # "NONE"
                       /\ outbox'[n] = "SENT" => outbox[n] = "SENT"
      BY <1>1, <1>2, <1>3
<1>8. InboxInv'
      BY <1>7 DEF DeliveryInv, InboxInv, TypeOK, reconcile
<1>9. QED BY <1>6, <1>8

\* UpsertWrite writes at most its own event.
LEMMA UpsertWriteDelivery ==
  ASSUME NEW s \in Spiders, DeliveryInv, UpsertWrite(s)
  PROVE  UpsertsInv' /\ InboxInv'
<1>1. /\ call[s] # 0 /\ UpsertEnds(s) /\ UNCHANGED reconcile /\ UNCHANGED inbox
      /\ \/ UNCHANGED outbox
         \/ outbox' = [outbox EXCEPT ![call[s]] = "PENDING"]
      BY DEF UpsertWrite
<1>2. QED BY <1>1, UpsertEndsDelivery

\* Reconciliation does not touch the upserts, nor does it make or unmake an event.
LEMMA ReconcileUpserts ==
  ASSUME DeliveryInv, UNCHANGED upserts,
         \A n \in Calls : outbox[n] = "NONE" => outbox'[n] = "NONE"
  PROVE  UpsertsInv'
<1>1. \A s \in Spiders : call[s] # 0 => call[s] \in Calls
      BY CallsFacts DEF DeliveryInv, TypeOK
<1>2. QED BY <1>1 DEF DeliveryInv, UpsertsInv, upserts

\* A step that writes to neither table, and takes on only events that were emitted.
LEMMA HandledDelivery ==
  ASSUME NEW r \in Reconcilers, DeliveryInv,
         UNCHANGED <<upserts, outbox, inbox>>,
         \E x : pc' = [pc EXCEPT ![r] = x],
         pc'[r] # "marking",
         \A t \in Reconcilers \ {r} : todo'[t] = todo[t] /\ current'[t] = current[t],
         \A n \in todo'[r] : n \in Calls /\ outbox[n] # "NONE"
  PROVE  UpsertsInv' /\ InboxInv'
<1>1. UpsertsInv'
      BY ReconcileUpserts
<1>2. \A t \in Reconcilers : \A n \in todo'[t] : outbox'[n] # "NONE"
      BY DEF DeliveryInv, InboxInv
<1>3. \A t \in Reconcilers : pc'[t] = "marking" => t # r /\ pc[t] = "marking"
      BY DEF DeliveryInv, TypeOK
<1>4. \A t \in Reconcilers : pc'[t] = "marking" => inbox'[current'[t]] = 1
      BY <1>3 DEF DeliveryInv, InboxInv
<1>5. QED BY <1>1, <1>2, <1>4 DEF DeliveryInv, InboxInv

\* Fetch takes on events that are PENDING.
LEMMA FetchDelivery ==
  ASSUME NEW r \in Reconcilers, DeliveryInv, Fetch(r)
  PROVE  UpsertsInv' /\ InboxInv'
<1>1. \A n \in Fetched : n \in Calls /\ outbox[n] # "NONE"
      BY DEF Fetched, Pending
<1>2. /\ \E x : pc' = [pc EXCEPT ![r] = x]
      /\ pc'[r] # "marking"
      /\ todo'[r] = Fetched
      /\ \A t \in Reconcilers \ {r} : todo'[t] = todo[t] /\ current'[t] = current[t]
      BY DEF Fetch, DeliveryInv, TypeOK
<1>3. UNCHANGED <<upserts, outbox, inbox>>
      BY DEF Fetch
<1>4. QED BY <1>1, <1>2, <1>3, HandledDelivery

\* InboxSelect takes on nothing.
LEMMA InboxSelectDelivery ==
  ASSUME NEW r \in Reconcilers, DeliveryInv, InboxSelect(r)
  PROVE  UpsertsInv' /\ InboxInv'
<1>1. PICK n \in todo[r] :
         \/ NextEvent(r, n)
         \/ /\ pc' = [pc EXCEPT ![r] = "inserting"]
            /\ current' = [current EXCEPT ![r] = n]
            /\ UNCHANGED todo
      BY DEF InboxSelect
<1>2. UNCHANGED <<upserts, outbox, inbox>>
      BY DEF InboxSelect
<1>3. /\ \E x : pc' = [pc EXCEPT ![r] = x]
      /\ pc'[r] # "marking"
      BY <1>1 DEF NextEvent, DeliveryInv, TypeOK
<1>4. /\ todo'[r] \subseteq todo[r]
      /\ \A t \in Reconcilers \ {r} : todo'[t] = todo[t] /\ current'[t] = current[t]
      BY <1>1 DEF NextEvent, DeliveryInv, TypeOK
<1>5. \A m \in todo'[r] : m \in Calls /\ outbox[m] # "NONE"
      BY <1>4 DEF DeliveryInv, InboxInv, TypeOK
<1>6. QED BY <1>2, <1>3, <1>4, <1>5, HandledDelivery

\* A call of reconcile-outbox that ends early takes on nothing.
LEMMA AbortDelivery ==
  ASSUME NEW r \in Reconcilers, DeliveryInv, Abort(r), UNCHANGED <<upserts, outbox, inbox>>
  PROVE  UpsertsInv' /\ InboxInv'
<1>1. /\ \E x : pc' = [pc EXCEPT ![r] = x]
      /\ pc'[r] # "marking"
      /\ todo'[r] = {}
      /\ \A t \in Reconcilers \ {r} : todo'[t] = todo[t] /\ current'[t] = current[t]
      BY DEF Abort, DeliveryInv, TypeOK
<1>2. QED BY <1>1, HandledDelivery

\* InboxInsert receives an event that was emitted and not received.
LEMMA InboxInsertDelivery ==
  ASSUME NEW r \in Reconcilers, DeliveryInv, InboxInsert(r)
  PROVE  UpsertsInv' /\ InboxInv'
<1>1. CASE Abort(r) /\ UNCHANGED inbox
      BY <1>1, AbortDelivery DEF InboxInsert
<1>2. CASE ~(Abort(r) /\ UNCHANGED inbox)
  <2>1. /\ inbox[current[r]] = 0
        /\ inbox' = [inbox EXCEPT ![current[r]] = @ + 1]
        /\ pc' = [pc EXCEPT ![r] = "marking"]
        /\ UNCHANGED <<upserts, outbox, todo, current>>
        BY <1>2 DEF InboxInsert, InboxAccepts
  <2>2. /\ current[r] \in Calls /\ outbox[current[r]] # "NONE"
        BY DEF InboxInsert, DeliveryInv, TypeOK, InboxInv
  <2>3. /\ inbox'[current[r]] = 1
        /\ \A n \in Calls : n # current[r] => inbox'[n] = inbox[n]
        BY <2>1, <2>2 DEF DeliveryInv, TypeOK
  <2>4. \A t \in Reconcilers : pc'[t] = "marking" => t = r \/ pc[t] = "marking"
        BY <2>1 DEF DeliveryInv, TypeOK
  <2>5. \A t \in Reconcilers : pc[t] = "marking" => current[t] \in Calls
        BY DEF DeliveryInv, TypeOK
  <2>6. \A t \in Reconcilers : pc'[t] = "marking" => inbox'[current'[t]] = 1
        BY <2>1, <2>3, <2>4, <2>5 DEF DeliveryInv, InboxInv
  <2>7. \A n \in Calls : /\ inbox'[n] \in {0, 1}
                         /\ inbox'[n] = 1 => outbox'[n] # "NONE"
                         /\ outbox'[n] = "SENT" => inbox'[n] = 1
        BY <2>1, <2>2, <2>3 DEF DeliveryInv, InboxInv
  <2>8. UpsertsInv'
        BY <2>1, ReconcileUpserts
  <2>9. QED BY <2>1, <2>6, <2>7, <2>8 DEF DeliveryInv, InboxInv
<1>3. QED BY <1>1, <1>2

\* MarkSent marks an event that was received.
LEMMA MarkSentDelivery ==
  ASSUME NEW r \in Reconcilers, DeliveryInv, MarkSent(r)
  PROVE  UpsertsInv' /\ InboxInv'
<1>1. /\ current[r] \in todo[r] /\ current[r] \in Calls
      /\ inbox[current[r]] = 1 /\ outbox[current[r]] # "NONE"
      /\ outbox' = [outbox EXCEPT ![current[r]] = "SENT"]
      /\ NextEvent(r, current[r])
      /\ UNCHANGED <<upserts, inbox>>
      BY DEF MarkSent, DeliveryInv, TypeOK, InboxInv
<1>2. /\ outbox'[current[r]] = "SENT"
      /\ \A n \in Calls : n # current[r] => outbox'[n] = outbox[n]
      BY <1>1 DEF DeliveryInv, TypeOK
<1>3. UpsertsInv'
      BY <1>1, <1>2, ReconcileUpserts
<1>4. \A t \in Reconcilers : todo'[t] \subseteq todo[t] /\ todo[t] \subseteq Calls
      BY <1>1 DEF NextEvent, DeliveryInv, TypeOK
<1>5. \A t \in Reconcilers : \A n \in todo'[t] : outbox'[n] # "NONE"
      BY <1>2, <1>4 DEF DeliveryInv, InboxInv
<1>6. \A t \in Reconcilers : pc'[t] = "marking" => pc[t] = "marking" /\ t # r
      BY <1>1 DEF NextEvent, DeliveryInv, TypeOK
<1>7. \A t \in Reconcilers : pc'[t] = "marking" => inbox'[current'[t]] = 1
      BY <1>1, <1>6 DEF NextEvent, DeliveryInv, TypeOK, InboxInv
<1>8. \A n \in Calls : /\ inbox'[n] \in {0, 1}
                       /\ inbox'[n] = 1 => outbox'[n] # "NONE"
                       /\ outbox'[n] = "SENT" => inbox'[n] = 1
      BY <1>1, <1>2 DEF DeliveryInv, InboxInv
<1>9. QED BY <1>3, <1>5, <1>7, <1>8 DEF InboxInv

\* Every step keeps the invariant of the delivery.
LEMMA DeliveryStep == DeliveryInv /\ [Next]_vars => DeliveryInv'
<1>1. ASSUME DeliveryInv, UNCHANGED vars PROVE UpsertsInv' /\ InboxInv'
      BY <1>1 DEF DeliveryInv, UpsertsInv, InboxInv, vars, upserts, reconcile
<1>2. ASSUME DeliveryInv, NEW s \in Spiders, UpsertDies(s) PROVE UpsertsInv' /\ InboxInv'
      BY <1>2, UpsertEndsDelivery DEF UpsertDies
<1>3. ASSUME DeliveryInv, NEW r \in Reconcilers, ReconcileDies(r)
      PROVE  UpsertsInv' /\ InboxInv'
      BY <1>3, AbortDelivery DEF ReconcileDies
<1>4. ASSUME DeliveryInv, Next PROVE UpsertsInv' /\ InboxInv'
      BY <1>2, <1>3, <1>4, UpsertSelectDelivery, UpsertWriteDelivery, FetchDelivery,
         InboxSelectDelivery, InboxInsertDelivery, MarkSentDelivery
      DEF Next, SpiderStep, ReconcilerStep
<1>5. QED BY <1>1, <1>4, TypeStep DEF DeliveryInv

\* The invariant of the delivery holds in every reachable state.
THEOREM DeliveryCorrect == Spec => []DeliveryInv
<1>1. Init => DeliveryInv
  <2>1. Init => TypeOK
        BY CallsFacts DEF Init, TypeOK
  <2>2. QED BY <2>1 DEF Init, DeliveryInv, UpsertsInv, InboxInv
<1>2. QED BY <1>1, DeliveryStep, PTL DEF Spec

\* An event that is marked as sent has its row in the inbox, exactly one: nothing is
\* lost between mark_outbox_event_sent and process_inbox_event, however many calls of
\* reconcile-outbox run side by side and die.
THEOREM NothingLost == Spec => []SentIsReceived
<1>1. DeliveryInv => SentIsReceived
      BY DEF DeliveryInv, InboxInv, SentIsReceived
<1>2. QED BY <1>1, DeliveryCorrect, PTL

-----------------------------------------------------------------------------
(* Refinement.                                                             *)

\* The events that were emitted, as the refinement mapping has them.
Emitted == {n \in Calls : outbox[n] # "NONE"}

\* The step of the outbox that emits: only UpsertWrite, of an event that is new.
LEMMA UpsertImplements ==
  ASSUME NEW s \in Spiders, DeliveryInv, UpsertWrite(s)
  PROVE  [Promise!Next]_(Promise!vars)
<1>1. /\ call[s] \in Calls /\ outbox[call[s]] = "NONE"
      BY CallsFacts DEF UpsertWrite, DeliveryInv, UpsertsInv, TypeOK
<1>2. UNCHANGED inbox
      BY DEF UpsertWrite
<1>3. CASE UNCHANGED outbox
      BY <1>2, <1>3 DEF Promise!vars
<1>4. CASE outbox' = [outbox EXCEPT ![call[s]] = "PENDING"]
  <2>1. Emitted' = Emitted \cup {call[s]}
        BY <1>1, <1>4 DEF Emitted, DeliveryInv, TypeOK
  <2>2. \E e \in Calls : Promise!Emit(e)
        BY <1>1, <1>2, <2>1 DEF Promise!Emit, Emitted
  <2>3. QED BY <2>2 DEF Promise!Next
<1>5. QED BY <1>3, <1>4 DEF UpsertWrite

\* The step that receives: only InboxInsert, of an event that is not there yet.
LEMMA InsertImplements ==
  ASSUME NEW r \in Reconcilers, DeliveryInv, InboxInsert(r)
  PROVE  [Promise!Next]_(Promise!vars)
<1>1. current[r] \in Calls /\ current[r] \in Emitted
      BY DEF InboxInsert, DeliveryInv, TypeOK, InboxInv, Emitted
<1>2. UNCHANGED outbox
      BY DEF InboxInsert
<1>3. CASE UNCHANGED inbox
      BY <1>2, <1>3 DEF Promise!vars
<1>4. CASE ~UNCHANGED inbox
  <2>1. inbox[current[r]] = 0 /\ inbox' = [inbox EXCEPT ![current[r]] = @ + 1]
        BY <1>4 DEF InboxInsert, InboxAccepts
  <2>2. inbox' = [inbox EXCEPT ![current[r]] = 1]
        BY <2>1
  <2>3. Promise!Receive(current[r])
        BY <1>1, <1>2, <2>1, <2>2 DEF Promise!Receive, Emitted
  <2>4. QED BY <1>1, <2>3 DEF Promise!Next
<1>5. QED BY <1>3, <1>4

\* Every other step leaves what was emitted and what was received alone.
LEMMA OtherStepsStutter ==
  ASSUME DeliveryInv, UNCHANGED inbox,
         UNCHANGED outbox \/ \E r \in Reconcilers : MarkSent(r)
  PROVE  [Promise!Next]_(Promise!vars)
<1>1. CASE UNCHANGED outbox
      BY <1>1 DEF Promise!vars
<1>2. ASSUME NEW r \in Reconcilers, MarkSent(r) PROVE [Promise!Next]_(Promise!vars)
  <2>1. /\ current[r] \in Calls /\ outbox[current[r]] # "NONE"
        /\ outbox' = [outbox EXCEPT ![current[r]] = "SENT"]
        BY <1>2 DEF MarkSent, DeliveryInv, TypeOK, InboxInv
  <2>2. Emitted' = Emitted
        BY <2>1 DEF Emitted, DeliveryInv, TypeOK
  <2>3. QED BY <2>2 DEF Promise!vars, Emitted
<1>3. QED BY <1>1, <1>2

\* The outbox and the inbox implement the safety half of exactly-once delivery: an event
\* is received at most once, and only after it was emitted.
THEOREM AtMostOnceDelivery == Spec => Promise!Spec
<1>1. Init => Promise!Init
      BY DEF Init, Promise!Init
<1>2. ASSUME DeliveryInv, [Next]_vars PROVE [Promise!Next]_(Promise!vars)
  <2>1. CASE UNCHANGED vars
        BY <1>2, <2>1, OtherStepsStutter DEF vars
  <2>2. CASE \E s \in Spiders : UpsertWrite(s)
        BY <1>2, <2>2, UpsertImplements
  <2>3. CASE \E r \in Reconcilers : InboxInsert(r)
        BY <1>2, <2>3, InsertImplements
  <2>4. CASE \E s \in Spiders : UpsertSelect(s) \/ UpsertDies(s)
        BY <1>2, <2>4, OtherStepsStutter DEF UpsertSelect, UpsertDies
  <2>5. CASE \E r \in Reconcilers : Fetch(r) \/ InboxSelect(r) \/ MarkSent(r) \/ ReconcileDies(r)
        BY <1>2, <2>5, OtherStepsStutter DEF Fetch, InboxSelect, MarkSent, ReconcileDies
  <2>6. QED BY <1>2, <2>1, <2>2, <2>3, <2>4, <2>5 DEF Next, SpiderStep, ReconcilerStep
<1>3. QED BY <1>1, <1>2, DeliveryCorrect, PTL DEF Spec, Promise!Spec

-----------------------------------------------------------------------------
(* Every change is announced, and nothing else is, but for upserts that    *)
(* were overtaken; for any number of upserts that overlap.                 *)

\* Only the writes of an upsert change a fingerprint or append an event.
LEMMA OthersAnnounceNothing ==
  ASSUME DeliveryInv, [Next]_vars, ~\E s \in Spiders : UpsertWrite(s)
  PROVE  /\ fingerprint' = fingerprint
         /\ \A n \in Calls : outbox[n] = "NONE" => outbox'[n] = "NONE"
<1>1. CASE \E r \in Reconcilers : MarkSent(r)
  <2>1. PICK r \in Reconcilers : MarkSent(r)
        BY <1>1
  <2>2. outbox[current[r]] # "NONE"
        BY <2>1 DEF MarkSent, DeliveryInv, TypeOK, InboxInv
  <2>3. QED BY <2>1, <2>2 DEF MarkSent, DeliveryInv, TypeOK
<1>2. CASE ~\E r \in Reconcilers : MarkSent(r)
      BY <1>2 DEF Next, SpiderStep, ReconcilerStep, UpsertSelect, UpsertDies, Fetch, InboxSelect,
                  InboxInsert, ReconcileDies, vars
<1>3. QED BY <1>1, <1>2

\* An upsert that was not overtaken knows the fingerprint that is stored; what any upsert knows,
\* and what is stored, was announced.
KnownInv ==
  /\ \A s \in Spiders : call[s] # 0 /\ s \notin overtaken =>
       old[s] = fingerprint[request[call[s]][1]]
  /\ \A s \in Spiders : call[s] # 0 /\ old[s] # NoFingerprint =>
       Announced(request[call[s]][1], old[s])
  /\ \A c \in Courses : fingerprint[c] # NoFingerprint => Announced(c, fingerprint[c])

\* It is announced after the step.
AnnouncedNext(c, f) == \E n \in Calls : outbox'[n] # "NONE" /\ request'[n] = <<c, f>>

\* What was announced stays so: events remain, and their requests do.
LEMMA AnnouncedStays ==
  ASSUME DeliveryInv, [Next]_vars, NEW c, NEW f, Announced(c, f)
  PROVE  AnnouncedNext(c, f)
<1>1. PICK n \in Calls : outbox[n] # "NONE" /\ request[n] = <<c, f>>
      BY DEF Announced
<1>2. outbox'[n] # "NONE"
      BY <1>1 DEF DeliveryInv, TypeOK, Next, SpiderStep, ReconcilerStep, UpsertSelect,
         UpsertWrite, UpsertDies, Fetch, InboxSelect, InboxInsert, MarkSent, ReconcileDies, vars
<1>3. request'[n] = request[n]
  <2>1. ASSUME NEW s \in Spiders, UpsertSelect(s) PROVE request'[n] = request[n]
    <3>1. n # calls + 1
      <4>1. n \in Nat /\ calls \in Nat /\ ~(n > calls)
            BY <1>1, CallsAreNumbers DEF DeliveryInv, UpsertsInv, TypeOK
      <4>2. QED BY <4>1
    <3>2. QED BY <2>1, <3>1 DEF UpsertSelect, DeliveryInv, TypeOK
  <2>2. CASE ~\E s \in Spiders : UpsertSelect(s)
        BY <2>2 DEF Next, SpiderStep, ReconcilerStep, UpsertWrite, UpsertDies, UpsertEnds, Fetch,
           InboxSelect, InboxInsert, MarkSent, ReconcileDies, upserts, vars
  <2>3. QED BY <2>1, <2>2
<1>4. QED BY <1>1, <1>2, <1>3 DEF AnnouncedNext

\* The writes of an upsert: an event, or a fingerprint it has already seen, or nothing.
LEMMA WriteAnnounces ==
  ASSUME DeliveryInv, KnownInv, NEW s \in Spiders, UpsertWrite(s)
  PROVE  LET n == call[s]
             c == request[n][1]
             f == request[n][2]
         IN  /\ n \in Calls /\ request[n] = <<c, f>> /\ c \in Courses /\ f \in Fingerprints
             /\ outbox[n] = "NONE"
             /\ \/ fingerprint' = fingerprint /\ outbox' = outbox
                \/ /\ fingerprint' = [fingerprint EXCEPT ![c] = f]
                   /\ \/ outbox' = [outbox EXCEPT ![n] = "PENDING"] /\ old[s] # f
                      \/ outbox' = outbox /\ old[s] = f /\ Announced(c, f)
<1> DEFINE n == call[s]
           c == request[n][1]
           f == request[n][2]
<1>1. n # 0 /\ n \in Calls /\ request[n] \in Requests
      BY CallsFacts DEF UpsertWrite, DeliveryInv, TypeOK
<1>2. outbox[n] = "NONE" /\ f \in Fingerprints /\ f # NoFingerprint
      BY <1>1, ConstantsAssumption
         DEF ConstantsAssumption, DeliveryInv, UpsertsInv, Requests
<1>3. old[s] = f => Announced(c, f)
      BY <1>1, <1>2 DEF KnownInv
<1>4. \/ fingerprint' = fingerprint /\ outbox' = outbox
      \/ /\ fingerprint' = [fingerprint EXCEPT ![c] = f]
         /\ outbox' = IF Announces(s) THEN [outbox EXCEPT ![n] = "PENDING"] ELSE outbox
      BY DEF UpsertWrite
<1>5. QED BY <1>1, <1>2, <1>3, <1>4 DEF Announces, Requests

\* A new upsert knows what is stored.
LEMMA SelectKnown ==
  ASSUME DeliveryInv, KnownInv, NEW s \in Spiders, UpsertSelect(s)
  PROVE  KnownInv'
<1>1. PICK q \in Requests :
        /\ request' = [request EXCEPT ![calls + 1] = q]
        /\ old' = [old EXCEPT ![s] = fingerprint[q[1]]]
      BY DEF UpsertSelect
<1>2. /\ calls + 1 \in Calls /\ fingerprint' = fingerprint /\ overtaken' = overtaken
      /\ call' = [call EXCEPT ![s] = calls + 1]
      BY CallsFacts DEF UpsertSelect, DeliveryInv, TypeOK
<1>3. call'[s] = calls + 1 /\ old'[s] = fingerprint[q[1]] /\ request'[calls + 1] = q
      BY <1>1, <1>2 DEF DeliveryInv, TypeOK
<1>4. q[1] \in Courses
      BY DEF Requests
<1>5. ASSUME NEW t \in Spiders, t # s, call'[t] # 0
      PROVE  call'[t] = call[t] /\ old'[t] = old[t] /\ request'[call[t]] = request[call[t]]
  <2>1. call'[t] = call[t] /\ old'[t] = old[t]
        BY <1>1, <1>2, <1>5 DEF DeliveryInv, TypeOK
  <2>2. call[t] # calls + 1 /\ call[t] \in Calls
        BY <1>5, <2>1, CallsFacts DEF DeliveryInv, TypeOK
  <2>3. QED BY <1>1, <2>1, <2>2 DEF DeliveryInv, TypeOK
<1>6. \A d, f : Announced(d, f) => AnnouncedNext(d, f)
      BY AnnouncedStays DEF Next, SpiderStep
<1>7. \A t \in Spiders : call'[t] # 0 /\ t \notin overtaken' =>
        old'[t] = fingerprint'[request'[call'[t]][1]]
      BY <1>2, <1>3, <1>5 DEF KnownInv
<1>8. \A t \in Spiders : call'[t] # 0 /\ old'[t] # NoFingerprint =>
        AnnouncedNext(request'[call'[t]][1], old'[t])
      BY <1>3, <1>4, <1>5, <1>6 DEF KnownInv
<1>9. \A c \in Courses : fingerprint'[c] # NoFingerprint => AnnouncedNext(c, fingerprint'[c])
      BY <1>2, <1>6 DEF KnownInv
<1>10. QED BY <1>7, <1>8, <1>9 DEF KnownInv, Announced, AnnouncedNext

\* An upsert that ends: the others know what they knew.
LEMMA EndsKnown ==
  ASSUME DeliveryInv, KnownInv, [Next]_vars, NEW s \in Spiders, UpsertEnds(s),
         \A c \in Courses : fingerprint'[c] # NoFingerprint => AnnouncedNext(c, fingerprint'[c]),
         \A t \in Spiders \ {s} : call[t] # 0 /\ t \notin overtaken' =>
           /\ t \notin overtaken
           /\ fingerprint'[request[call[t]][1]] = fingerprint[request[call[t]][1]]
  PROVE  KnownInv'
<1>1. \A t \in Spiders : call'[t] # 0 => t # s /\ call'[t] = call[t] /\ old'[t] = old[t]
      BY DEF UpsertEnds, DeliveryInv, TypeOK
<1>2. request' = request
      BY DEF UpsertEnds
<1>3. \A d, f : Announced(d, f) => AnnouncedNext(d, f)
      BY AnnouncedStays
<1>4. \A t \in Spiders : call'[t] # 0 /\ t \notin overtaken' =>
        old'[t] = fingerprint'[request'[call'[t]][1]]
      BY <1>1, <1>2 DEF KnownInv
<1>5. \A t \in Spiders : call'[t] # 0 /\ old'[t] # NoFingerprint =>
        AnnouncedNext(request'[call'[t]][1], old'[t])
      BY <1>1, <1>2, <1>3 DEF KnownInv
<1>6. QED BY <1>4, <1>5 DEF KnownInv, Announced, AnnouncedNext

\* Whoever is not overtaken by an upsert that writes is of another course, or the course is as
\* it was.
LEMMA WriteKnown ==
  ASSUME DeliveryInv, KnownInv, NEW s \in Spiders, UpsertWrite(s)
  PROVE  KnownInv'
<1> DEFINE n == call[s]
           c == request[n][1]
           f == request[n][2]
<1>1. /\ n \in Calls /\ request[n] = <<c, f>> /\ c \in Courses /\ f \in Fingerprints
      /\ outbox[n] = "NONE"
      /\ \/ fingerprint' = fingerprint /\ outbox' = outbox
         \/ /\ fingerprint' = [fingerprint EXCEPT ![c] = f]
            /\ \/ outbox' = [outbox EXCEPT ![n] = "PENDING"]
               \/ outbox' = outbox /\ Announced(c, f)
      BY WriteAnnounces
<1>2. [Next]_vars
      BY DEF Next, SpiderStep
<1>3. UpsertEnds(s) /\ request' = request
      BY DEF UpsertWrite, UpsertEnds
<1>4. ASSUME NEW d \in Courses, fingerprint'[d] # NoFingerprint
      PROVE  AnnouncedNext(d, fingerprint'[d])
  <2>1. CASE fingerprint'[d] = fingerprint[d]
    <3>1. Announced(d, fingerprint[d])
          BY <1>4, <2>1 DEF KnownInv
    <3>2. \A m \in Calls : outbox[m] # "NONE" => outbox'[m] # "NONE"
          BY <1>1 DEF DeliveryInv, TypeOK
    <3>3. QED BY <1>3, <2>1, <3>1, <3>2 DEF Announced, AnnouncedNext
  <2>2. CASE fingerprint'[d] # fingerprint[d]
    <3>1. d = c /\ fingerprint'[d] = f
          BY <1>1, <2>2 DEF DeliveryInv, TypeOK
    <3>2. CASE outbox' = [outbox EXCEPT ![n] = "PENDING"]
      <4>1. outbox'[n] # "NONE" /\ request'[n] = <<d, fingerprint'[d]>>
            BY <1>1, <1>3, <3>1, <3>2 DEF DeliveryInv, TypeOK
      <4>2. QED BY <1>1, <4>1 DEF AnnouncedNext
    <3>3. CASE outbox' = outbox /\ Announced(c, f)
          BY <1>3, <3>1, <3>3 DEF Announced, AnnouncedNext
    <3>4. QED BY <1>1, <2>2, <3>2, <3>3
  <2>3. QED BY <2>1, <2>2
<1>5. ASSUME NEW t \in Spiders \ {s}, call[t] # 0, t \notin overtaken'
      PROVE  /\ t \notin overtaken
             /\ fingerprint'[request[call[t]][1]] = fingerprint[request[call[t]][1]]
  <2>1. t \notin overtaken /\ t \notin Overtakes(s)
        BY <1>5 DEF UpsertWrite
  <2>2. CASE request[call[t]][1] = c
        BY <1>5, <2>1, <2>2 DEF Overtakes
  <2>3. CASE request[call[t]][1] # c
    <3>1. request[call[t]][1] \in Courses
          BY <1>5, CallsFacts DEF DeliveryInv, TypeOK, Requests
    <3>2. \A d \in Courses : d # c => fingerprint'[d] = fingerprint[d]
          BY <1>1 DEF DeliveryInv, TypeOK
    <3>3. QED BY <2>1, <2>3, <3>1, <3>2
  <2>4. QED BY <2>1, <2>2, <2>3
<1>6. QED BY <1>2, <1>3, <1>4, <1>5, EndsKnown

\* The invariant is kept.
LEMMA KnownStep ==
  ASSUME DeliveryInv, KnownInv, [Next]_vars
  PROVE  KnownInv'
<1>1. \A d, f : Announced(d, f) => AnnouncedNext(d, f)
      BY AnnouncedStays
<1>2. ASSUME UNCHANGED <<fingerprint, upserts, overtaken>> PROVE KnownInv'
  <2>1. KnownInv => \A s \in Spiders : call[s] # 0 /\ old[s] # NoFingerprint =>
          AnnouncedNext(request[call[s]][1], old[s])
        BY <1>1 DEF KnownInv
  <2>2. \A c \in Courses : fingerprint[c] # NoFingerprint => AnnouncedNext(c, fingerprint[c])
        BY <1>1 DEF KnownInv
  <2>3. QED BY <1>2, <2>1, <2>2 DEF KnownInv, upserts, Announced, AnnouncedNext
<1>3. ASSUME NEW s \in Spiders, UpsertDies(s) PROVE KnownInv'
  <2>1. UpsertEnds(s) /\ fingerprint' = fingerprint /\ overtaken' = overtaken \ {s}
        BY <1>3 DEF UpsertDies
  <2>2. \A c \in Courses : fingerprint'[c] # NoFingerprint => AnnouncedNext(c, fingerprint'[c])
        BY <1>1, <2>1 DEF KnownInv
  <2>3. QED BY <2>1, <2>2, EndsKnown
<1>4. CASE \E s \in Spiders : SpiderStep(s)
      BY <1>3, <1>4, SelectKnown, WriteKnown DEF SpiderStep
<1>5. CASE \E r \in Reconcilers : ReconcilerStep(r) \/ ReconcileDies(r)
      BY <1>2, <1>5 DEF ReconcilerStep, ReconcileDies, Fetch, InboxSelect, InboxInsert, MarkSent
<1>6. CASE UNCHANGED vars
      BY <1>2, <1>6 DEF vars
<1>7. QED BY <1>4, <1>5, <1>6 DEF Next

\* Who was not overtaken knows what is stored, and only announced fingerprints are known.
THEOREM KnownCorrect == Spec => [](DeliveryInv /\ KnownInv)
<1>1. Init => KnownInv
      BY DEF Init, KnownInv
<1>2. DeliveryInv /\ KnownInv /\ [Next]_vars => KnownInv'
      BY KnownStep
<1>3. QED BY <1>1, <1>2, DeliveryCorrect, PTL DEF Spec

\* Every change of a fingerprint is announced by an event with the new one, or is made by an
\* upsert that was overtaken, with a fingerprint that was announced before.
THEOREM ChangesCorrect == Spec => ChangeAnnounced
<1> DEFINE Told ==
             \A c \in Courses : fingerprint'[c] # fingerprint[c] =>
               \E s \in Spiders : LET n == call[s] IN
                 /\ n # 0 /\ request[n] = <<c, fingerprint'[c]>>
                 /\ \/ outbox[n] = "NONE" /\ outbox'[n] = "PENDING"
                    \/ s \in overtaken /\ Announced(c, fingerprint'[c])
<1>1. ASSUME DeliveryInv, KnownInv, [Next]_vars PROVE Told
  <2>1. ASSUME NEW s \in Spiders, UpsertWrite(s), NEW d \in Courses,
               fingerprint'[d] # fingerprint[d]
        PROVE  LET n == call[s] IN
                 /\ n # 0 /\ request[n] = <<d, fingerprint'[d]>>
                 /\ \/ outbox[n] = "NONE" /\ outbox'[n] = "PENDING"
                    \/ s \in overtaken /\ Announced(d, fingerprint'[d])
    <3> DEFINE n == call[s]
               c == request[n][1]
               f == request[n][2]
    <3>1. /\ n \in Calls /\ request[n] = <<c, f>> /\ c \in Courses /\ outbox[n] = "NONE"
          /\ fingerprint' = [fingerprint EXCEPT ![c] = f]
          /\ \/ outbox' = [outbox EXCEPT ![n] = "PENDING"]
             \/ old[s] = f /\ Announced(c, f)
          BY <1>1, <2>1, WriteAnnounces
    <3>2. n # 0 /\ d = c /\ fingerprint'[d] = f /\ fingerprint[c] # f
          BY <1>1, <2>1, <3>1, CallsFacts DEF DeliveryInv, TypeOK
    <3>3. CASE outbox' = [outbox EXCEPT ![n] = "PENDING"]
          BY <1>1, <3>1, <3>2, <3>3 DEF DeliveryInv, TypeOK
    <3>4. CASE old[s] = f /\ Announced(c, f)
          BY <1>1, <3>1, <3>2, <3>4 DEF KnownInv
    <3>5. QED BY <3>1, <3>3, <3>4
  <2>2. CASE ~\E s \in Spiders : UpsertWrite(s)
        BY <1>1, <2>2, OthersAnnounceNothing
  <2>3. CASE \E s \in Spiders : UpsertWrite(s)
        BY <2>1, <2>3
  <2>4. QED BY <2>2, <2>3
<1>2. DeliveryInv /\ KnownInv /\ [Next]_vars => [Told]_vars
      BY <1>1
<1>3. QED BY <1>2, KnownCorrect, PTL DEF Spec, ChangeAnnounced

\* An upsert that was not overtaken appends an event only for a fingerprint other than the
\* stored one.
THEOREM EventsCorrect == Spec => NoDuplicateEvent
<1> DEFINE Fresh ==
             \A s \in Spiders : LET n == call[s] IN
               n # 0 /\ s \notin overtaken /\ outbox[n] = "NONE" /\ outbox'[n] = "PENDING" =>
                 fingerprint[request[n][1]] # request[n][2]
<1>1. ASSUME DeliveryInv, KnownInv, [Next]_vars PROVE Fresh
  <2>1. SUFFICES ASSUME NEW s \in Spiders, call[s] # 0, s \notin overtaken,
                        outbox[call[s]] = "NONE", outbox'[call[s]] = "PENDING"
                 PROVE  fingerprint[request[call[s]][1]] # request[call[s]][2]
        OBVIOUS
  <2>2. call[s] \in Calls
        BY <1>1, <2>1, CallsFacts DEF DeliveryInv, TypeOK
  <2>3. PICK t \in Spiders : UpsertWrite(t)
        BY <1>1, <2>1, <2>2, OthersAnnounceNothing
  <2>4. /\ call[t] \in Calls
        /\ \/ outbox' = outbox
           \/ outbox' = [outbox EXCEPT ![call[t]] = "PENDING"] /\ old[t] # request[call[t]][2]
        BY <1>1, <2>3, WriteAnnounces
  <2>5. call[t] = call[s]
        BY <1>1, <2>1, <2>2, <2>4 DEF DeliveryInv, TypeOK
  <2>6. t = s
        BY <1>1, <2>1, <2>5 DEF DeliveryInv, UpsertsInv
  <2>7. old[s] # request[call[s]][2]
        BY <2>1, <2>4, <2>6
  <2>8. QED BY <1>1, <2>1, <2>7 DEF KnownInv
<1>2. DeliveryInv /\ KnownInv /\ [Next]_vars => [Fresh]_vars
      BY <1>1
<1>3. QED BY <1>2, KnownCorrect, PTL DEF Spec, NoDuplicateEvent

-----------------------------------------------------------------------------
(* Where upserts do not overlap, the inbox has the events in the order of  *)
(* their discovery; for any number of courses, of overlapping calls of     *)
(* reconcile-outbox and of their deaths.                                   *)

\* Upserts follow each other: one spider at most makes them.
OneSpider == \A s, t \in Spiders : s = t

\* A running upsert is the newest one, and its course is still as its SELECT found it.
SerialInv ==
  \A s \in Spiders :
    call[s] # 0 => call[s] = calls /\ old[s] = fingerprint[request[call[s]][1]]

\* The inbox is in order; a call of reconcile-outbox that has an event to handle has every
\* older one that is not received, too; and it handles the oldest one first.
OrderInv ==
  /\ ReceivedInOrder
  /\ \A r \in Reconcilers : \A n \in todo[r] : \A m \in Calls :
       m < n /\ outbox[m] # "NONE" => inbox[m] > 0 \/ m \in todo[r]
  /\ \A r \in Reconcilers :
       pc[r] \in {"inserting", "marking"} => \A m \in todo[r] : current[r] <= m

-----------------------------------------------------------------------------
(* One upsert at a time.                                                   *)

LEMMA SerialStep ==
  ASSUME OneSpider, DeliveryInv, SerialInv, [Next]_vars
  PROVE  SerialInv'
<1> USE DEF DeliveryInv
<1>1. ASSUME NEW s \in Spiders, UpsertSelect(s) PROVE SerialInv'
  <2>1. PICK q \in Requests :
          /\ request' = [request EXCEPT ![calls + 1] = q]
          /\ old' = [old EXCEPT ![s] = fingerprint[q[1]]]
        BY <1>1 DEF UpsertSelect
  <2>2. /\ calls + 1 \in Calls /\ calls' = calls + 1 /\ fingerprint' = fingerprint
        /\ call' = [call EXCEPT ![s] = calls + 1]
        BY <1>1, CallsFacts DEF UpsertSelect, TypeOK
  <2>3. /\ call'[s] = calls' /\ old'[s] = fingerprint[q[1]]
        /\ request'[calls'] = q
        BY <2>1, <2>2 DEF TypeOK
  <2>4. QED BY <2>2, <2>3 DEF SerialInv, OneSpider
<1>2. ASSUME NEW s \in Spiders, UpsertEnds(s) PROVE SerialInv'
  <2>1. call'[s] = 0
        BY <1>2 DEF UpsertEnds, TypeOK
  <2>2. QED BY <2>1 DEF SerialInv, OneSpider
<1>3. ASSUME UNCHANGED <<fingerprint, upserts>> PROVE SerialInv'
      BY <1>3 DEF SerialInv, upserts
<1>4. CASE \E s \in Spiders : SpiderStep(s)
      BY <1>1, <1>2, <1>4 DEF SpiderStep, UpsertWrite, UpsertDies
<1>5. CASE \E r \in Reconcilers : ReconcilerStep(r) \/ ReconcileDies(r)
      BY <1>3, <1>5 DEF ReconcilerStep, ReconcileDies, Fetch, InboxSelect, InboxInsert, MarkSent
<1>6. CASE UNCHANGED vars
      BY <1>3, <1>6 DEF vars
<1>7. QED BY <1>4, <1>5, <1>6 DEF Next

\* The writes of a single upsert: the INSERT cannot fail, and an event is appended exactly if
\* the fingerprint changes.
LEMMA SingleUpsert ==
  ASSUME DeliveryInv, SerialInv, NEW s \in Spiders, UpsertWrite(s)
  PROVE  LET n == call[s]
             c == request[n][1]
             f == request[n][2]
         IN  /\ n \in Calls /\ n = calls /\ request[n] = <<c, f>> /\ c \in Courses
             /\ outbox[n] = "NONE"
             /\ fingerprint' = [fingerprint EXCEPT ![c] = f]
             /\ outbox' = IF fingerprint[c] # f THEN [outbox EXCEPT ![n] = "PENDING"] ELSE outbox
<1> DEFINE n == call[s]
           c == request[n][1]
<1>1. n # 0 /\ n \in Calls /\ request[n] \in Requests
      BY CallsFacts DEF UpsertWrite, DeliveryInv, TypeOK
<1>2. n = calls /\ old[s] = fingerprint[c] /\ outbox[n] = "NONE"
      BY <1>1 DEF SerialInv, DeliveryInv, UpsertsInv
<1>3. /\ fingerprint' = [fingerprint EXCEPT ![c] = request[n][2]]
      /\ outbox' = IF Announces(s) THEN [outbox EXCEPT ![n] = "PENDING"] ELSE outbox
      BY <1>2 DEF UpsertWrite
<1>4. QED BY <1>1, <1>2, <1>3 DEF Announces, Requests

-----------------------------------------------------------------------------
(* The order of the inbox.                                                 *)

\* The events that are fetched are the oldest ones.
LEMMA OldestFetched ==
  ASSUME NEW n \in Fetched, NEW m \in Pending, m < n
  PROVE  m \in Fetched
<1> DEFINE Before(k) == {i \in Pending : i < k}
<1>1. /\ Pending \subseteq Nat /\ Pending \subseteq 1..MaxCalls
      /\ n \in Nat /\ m \in Nat
      BY CallsAreNumbers DEF Pending, Calls, Fetched
<1>2. IsFiniteSet(Pending)
  <2>1. IsFiniteSet(1..MaxCalls)
        BY FS_Interval, CallsFacts
  <2>2. QED BY <1>1, <2>1, FS_Subset
<1>3. Before(m) \subseteq Before(n)
  <2>1. ASSUME NEW i \in Pending, i < m PROVE i < n
        BY <1>1, <2>1
  <2>2. QED BY <2>1
<1>4. IsFiniteSet(Before(n)) /\ IsFiniteSet(Before(m))
      BY <1>2, FS_Subset
<1>5. Cardinality(Before(m)) <= Cardinality(Before(n))
      BY <1>3, <1>4, FS_Subset
<1>6. Cardinality(Before(m)) \in Nat /\ Cardinality(Before(n)) \in Nat
      BY <1>4, FS_CardinalityType
<1>7. Cardinality(Before(n)) < Limit
      BY DEF Fetched
<1>8. Cardinality(Before(m)) < Limit
      BY <1>5, <1>6, <1>7, ConstantsAssumption DEF ConstantsAssumption
<1>9. QED BY <1>8 DEF Fetched

\* What has to be shown of a call of reconcile-outbox that emits and receives nothing.
LEMMA RoundOrder ==
  ASSUME DeliveryInv, OrderInv, NEW r \in Reconcilers,
         UNCHANGED inbox, \A n \in Calls : outbox'[n] = "NONE" <=> outbox[n] = "NONE",
         todo' = [todo EXCEPT ![r] = todo'[r]],
         \A k \in Reconcilers \ {r} : pc'[k] = pc[k] /\ current'[k] = current[k],
         \A n \in todo'[r] : \A m \in Calls :
           m < n /\ outbox[m] # "NONE" => inbox[m] > 0 \/ m \in todo'[r],
         pc'[r] \in {"inserting", "marking"} => \A m \in todo'[r] : current'[r] <= m
  PROVE  OrderInv'
<1>1. \A k \in Reconcilers \ {r} : todo'[k] = todo[k]
      BY DEF DeliveryInv, TypeOK
<1>2. ReceivedInOrder'
      BY DEF OrderInv, ReceivedInOrder
<1>3. ASSUME NEW k \in Reconcilers, NEW n \in todo'[k], NEW m \in Calls, m < n,
             outbox'[m] # "NONE"
      PROVE  inbox'[m] > 0 \/ m \in todo'[k]
      BY <1>1, <1>3 DEF OrderInv
<1>4. ASSUME NEW k \in Reconcilers, pc'[k] \in {"inserting", "marking"}, NEW m \in todo'[k]
      PROVE  current'[k] <= m
      BY <1>1, <1>4 DEF OrderInv
<1>5. QED BY <1>2, <1>3, <1>4 DEF OrderInv

\* A call that has ended handles nothing.
LEMMA AbortOrder ==
  ASSUME DeliveryInv, OrderInv, NEW r \in Reconcilers, Abort(r), UNCHANGED <<inbox, outbox>>
  PROVE  OrderInv'
<1>1. /\ todo'[r] = {} /\ todo' = [todo EXCEPT ![r] = todo'[r]]
      /\ \A k \in Reconcilers \ {r} : pc'[k] = pc[k] /\ current'[k] = current[k]
      BY DEF Abort, DeliveryInv, TypeOK
<1>2. QED BY <1>1, RoundOrder

\* The round of an event that is received ends.
LEMMA NextEventOrder ==
  ASSUME DeliveryInv, OrderInv, NEW r \in Reconcilers, NEW e \in Calls, inbox[e] > 0,
         NextEvent(r, e), UNCHANGED inbox,
         \A n \in Calls : outbox'[n] = "NONE" <=> outbox[n] = "NONE"
  PROVE  OrderInv'
<1>1. /\ todo'[r] = todo[r] \ {e} /\ todo' = [todo EXCEPT ![r] = todo'[r]]
      /\ pc'[r] \in {"idle", "checking"}
      /\ \A k \in Reconcilers \ {r} : pc'[k] = pc[k] /\ current'[k] = current[k]
      BY DEF NextEvent, DeliveryInv, TypeOK
<1>2. \A n \in todo'[r] : \A m \in Calls :
        m < n /\ outbox[m] # "NONE" => inbox[m] > 0 \/ m \in todo'[r]
      BY <1>1 DEF OrderInv
<1>3. QED BY <1>1, <1>2, RoundOrder

LEMMA FetchOrder ==
  ASSUME DeliveryInv, OrderInv, NEW r \in Reconcilers, Fetch(r)
  PROVE  OrderInv'
<1>1. /\ todo'[r] = Fetched /\ todo' = [todo EXCEPT ![r] = todo'[r]]
      /\ pc'[r] \in {"idle", "checking"}
      /\ \A k \in Reconcilers \ {r} : pc'[k] = pc[k]
      /\ UNCHANGED <<current, inbox, outbox>>
      BY DEF Fetch, DeliveryInv, TypeOK
<1>2. ASSUME NEW n \in Fetched, NEW m \in Calls, m < n, outbox[m] # "NONE"
      PROVE  inbox[m] > 0 \/ m \in Fetched
  <2>1. CASE outbox[m] = "PENDING"
        BY <1>2, <2>1, OldestFetched DEF Pending
  <2>2. CASE outbox[m] = "SENT"
        BY <2>2 DEF DeliveryInv, InboxInv
  <2>3. QED BY <1>2, <2>1, <2>2 DEF DeliveryInv, TypeOK
<1>3. QED BY <1>1, <1>2, RoundOrder

LEMMA InboxSelectOrder ==
  ASSUME DeliveryInv, OrderInv, NEW r \in Reconcilers, InboxSelect(r)
  PROVE  OrderInv'
<1>1. PICK n \in todo[r] :
        /\ \A m \in todo[r] : n <= m
        /\ \/ inbox[n] > 0 /\ NextEvent(r, n)
           \/ /\ pc' = [pc EXCEPT ![r] = "inserting"]
              /\ current' = [current EXCEPT ![r] = n]
              /\ UNCHANGED todo
      BY DEF InboxSelect
<1>2. UNCHANGED <<inbox, outbox>> /\ n \in Calls
      BY DEF InboxSelect, DeliveryInv, TypeOK
<1>3. CASE inbox[n] > 0 /\ NextEvent(r, n)
      BY <1>2, <1>3, NextEventOrder
<1>4. CASE /\ pc' = [pc EXCEPT ![r] = "inserting"]
           /\ current' = [current EXCEPT ![r] = n]
           /\ UNCHANGED todo
  <2>1. /\ todo' = [todo EXCEPT ![r] = todo'[r]] /\ todo'[r] = todo[r]
        /\ current'[r] = n
        /\ \A k \in Reconcilers \ {r} : pc'[k] = pc[k] /\ current'[k] = current[k]
        BY <1>4 DEF DeliveryInv, TypeOK
  <2>2. \A i \in todo'[r] : \A m \in Calls :
          m < i /\ outbox[m] # "NONE" => inbox[m] > 0 \/ m \in todo'[r]
        BY <2>1 DEF OrderInv
  <2>3. QED BY <1>1, <1>2, <2>1, <2>2, RoundOrder
<1>5. QED BY <1>1, <1>3, <1>4

\* The event that is received is the oldest the call has to handle: all older ones are there.
LEMMA InboxInsertOrder ==
  ASSUME DeliveryInv, OrderInv, NEW r \in Reconcilers, InboxInsert(r)
  PROVE  OrderInv'
<1> DEFINE e == current[r]
<1>1. e \in todo[r] /\ e \in Calls /\ \A m \in todo[r] : e <= m
      BY DEF InboxInsert, DeliveryInv, TypeOK, OrderInv
<1>2. UNCHANGED outbox
      BY DEF InboxInsert
<1>3. CASE Abort(r) /\ UNCHANGED inbox
      BY <1>2, <1>3, AbortOrder
<1>4. CASE /\ inbox' = [inbox EXCEPT ![e] = @ + 1]
           /\ pc' = [pc EXCEPT ![r] = "marking"]
           /\ UNCHANGED <<todo, current>>
  <2>1. inbox'[e] > 0 /\ \A m \in Calls \ {e} : inbox'[m] = inbox[m]
        BY <1>1, <1>4 DEF DeliveryInv, TypeOK
  <2>2. \A m \in Calls : inbox[m] > 0 => inbox'[m] > 0
        BY <2>1
  <2>3. \A m \in Calls : m < e /\ outbox[m] # "NONE" => inbox[m] > 0
    <3>1. ASSUME NEW m \in Calls, m < e PROVE m \notin todo[r]
      <4>1. m \in Nat /\ e \in Nat
            BY <1>1, CallsAreNumbers
      <4>2. QED BY <1>1, <3>1, <4>1
    <3>2. QED BY <1>1, <3>1 DEF OrderInv
  <2>4. ReceivedInOrder'
    <3>1. SUFFICES ASSUME NEW m \in Calls, NEW n \in Calls, m < n, outbox[m] # "NONE",
                          inbox'[n] > 0
                   PROVE  inbox'[m] > 0
          BY <1>2 DEF ReceivedInOrder
    <3>2. CASE n = e
          BY <2>2, <2>3, <3>1, <3>2
    <3>3. CASE n # e
          BY <2>1, <2>2, <3>1, <3>3 DEF OrderInv, ReceivedInOrder
    <3>4. QED BY <3>2, <3>3
  <2>5. ASSUME NEW k \in Reconcilers, NEW n \in todo'[k], NEW m \in Calls, m < n,
               outbox'[m] # "NONE"
        PROVE  inbox'[m] > 0 \/ m \in todo'[k]
        BY <1>2, <1>4, <2>2, <2>5 DEF OrderInv
  <2>6. ASSUME NEW k \in Reconcilers, pc'[k] \in {"inserting", "marking"}, NEW m \in todo'[k]
        PROVE  current'[k] <= m
    <3>1. CASE k = r
          BY <1>1, <1>4, <3>1
    <3>2. CASE k # r
          BY <1>4, <2>6, <3>2 DEF OrderInv, DeliveryInv, TypeOK
    <3>3. QED BY <3>1, <3>2
  <2>7. QED BY <2>4, <2>5, <2>6 DEF OrderInv
<1>5. QED BY <1>3, <1>4 DEF InboxInsert

LEMMA MarkSentOrder ==
  ASSUME DeliveryInv, OrderInv, NEW r \in Reconcilers, MarkSent(r)
  PROVE  OrderInv'
<1>1. /\ current[r] \in Calls /\ inbox[current[r]] > 0 /\ outbox[current[r]] # "NONE"
      /\ UNCHANGED inbox /\ NextEvent(r, current[r])
      BY DEF MarkSent, DeliveryInv, TypeOK, InboxInv
<1>2. \A n \in Calls : outbox'[n] = "NONE" <=> outbox[n] = "NONE"
      BY <1>1 DEF MarkSent, DeliveryInv, TypeOK
<1>3. QED BY <1>1, <1>2, NextEventOrder

\* A new event is the newest: none that is received or about to be is newer.
LEMMA UpsertWriteOrder ==
  ASSUME DeliveryInv, SerialInv, OrderInv, NEW s \in Spiders, UpsertWrite(s)
  PROVE  OrderInv'
<1> DEFINE e == call[s]
<1>1. /\ e \in Calls /\ e = calls
      /\ outbox' = outbox \/ outbox' = [outbox EXCEPT ![e] = "PENDING"]
      BY SingleUpsert
<1>2. UNCHANGED <<inbox, pc, todo, current>>
      BY DEF UpsertWrite, reconcile
<1>3. \A n \in Calls : outbox[n] # "NONE" => n <= e
  <2>1. \A n \in Calls : n \in Nat
        BY CallsAreNumbers
  <2>2. \A n \in Calls : n > calls => outbox[n] = "NONE"
        BY DEF DeliveryInv, UpsertsInv
  <2>3. QED BY <1>1, <2>1, <2>2
<1>4. \A m \in Calls : outbox'[m] # "NONE" => outbox[m] # "NONE" \/ m = e
      BY <1>1 DEF DeliveryInv, TypeOK
<1>5. ReceivedInOrder'
  <2>1. SUFFICES ASSUME NEW m \in Calls, NEW n \in Calls, m < n, outbox'[m] # "NONE",
                        inbox[n] > 0
                 PROVE  inbox[m] > 0
        BY <1>2 DEF ReceivedInOrder
  <2>2. outbox[n] # "NONE"
        BY <2>1 DEF DeliveryInv, InboxInv
  <2>3. m # e
        BY <1>3, <2>1, <2>2, CallsAreNumbers
  <2>4. QED BY <1>4, <2>1, <2>3 DEF OrderInv, ReceivedInOrder
<1>6. ASSUME NEW k \in Reconcilers, NEW n \in todo'[k], NEW m \in Calls, m < n,
             outbox'[m] # "NONE"
      PROVE  inbox'[m] > 0 \/ m \in todo'[k]
  <2>1. n \in todo[k] /\ n \in Calls /\ outbox[n] # "NONE"
        BY <1>2 DEF DeliveryInv, TypeOK, InboxInv
  <2>2. m # e
    <3>1. m \in Nat /\ n \in Nat /\ m < n /\ n <= e
          BY <1>3, <1>6, <2>1, CallsAreNumbers
    <3>2. QED BY <3>1
  <2>3. QED BY <1>2, <1>4, <1>6, <2>1, <2>2 DEF OrderInv
<1>7. \A k \in Reconcilers :
        pc'[k] \in {"inserting", "marking"} => \A m \in todo'[k] : current'[k] <= m
      BY <1>2 DEF OrderInv
<1>8. QED BY <1>5, <1>6, <1>7 DEF OrderInv

LEMMA OrderStep ==
  ASSUME DeliveryInv, SerialInv, OrderInv, [Next]_vars
  PROVE  OrderInv'
<1>1. ASSUME UNCHANGED <<outbox, inbox, reconcile>> PROVE OrderInv'
      BY <1>1 DEF OrderInv, ReceivedInOrder, reconcile
<1>2. ASSUME NEW s \in Spiders, SpiderStep(s) PROVE OrderInv'
      BY <1>1, <1>2, UpsertWriteOrder DEF SpiderStep, UpsertSelect, UpsertDies
<1>3. ASSUME NEW r \in Reconcilers, ReconcilerStep(r) \/ ReconcileDies(r) PROVE OrderInv'
      BY <1>3, FetchOrder, InboxSelectOrder, InboxInsertOrder, MarkSentOrder, AbortOrder
         DEF ReconcilerStep, ReconcileDies
<1>4. CASE UNCHANGED vars
      BY <1>1, <1>4 DEF vars
<1>5. QED BY <1>2, <1>3, <1>4 DEF Next

-----------------------------------------------------------------------------
(* The theorems.                                                           *)

LEMMA OrderInit == Init => SerialInv /\ OrderInv
BY DEF Init, SerialInv, OrderInv, ReceivedInOrder

\* Upserts that do not overlap leave nothing between the SELECT and the writes of each other.
THEOREM SerialCorrect ==
  ASSUME OneSpider
  PROVE  Spec => [](DeliveryInv /\ SerialInv /\ OrderInv)
<1>1. DeliveryInv /\ SerialInv /\ OrderInv /\ [Next]_vars => SerialInv' /\ OrderInv'
      BY SerialStep, OrderStep
<1>2. QED BY <1>1, OrderInit, DeliveryCorrect, PTL DEF Spec

\* The inbox shows the events in the order of their discovery, although calls of
\* reconcile-outbox overlap and die.
THEOREM OrderCorrect ==
  ASSUME OneSpider
  PROVE  Spec => []ReceivedInOrder
<1>1. OrderInv => ReceivedInOrder
      BY DEF OrderInv
<1>2. QED BY <1>1, SerialCorrect, PTL

=============================================================================
