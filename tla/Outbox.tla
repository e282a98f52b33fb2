------------------------------- MODULE Outbox -------------------------------
(***************************************************************************)
(* The discovery side of src/database.py: upsert_discovered_course, which  *)
(* stores a course's fingerprint and appends an event to discovery_outbox  *)
(* in one transaction, and the reconcile-outbox endpoint of src/server.py, *)
(* which carries the events to inbox_events in the processing database.    *)
(*                                                                         *)
(* The two databases share no transaction, so a delivery is three steps:   *)
(* process_inbox_event's SELECT, its INSERT, and mark_outbox_event_sent.   *)
(* upsert_discovered_course is two: its SELECT runs before the transaction *)
(* of its writes begins (sqlite3) or sees an older snapshot (PostgreSQL).  *)
(*                                                                         *)
(* fail_outbox_event is left out: nothing but a test calls it, so no event *)
(* is ever FAILED and attempts stays 0.                                    *)
(***************************************************************************)
EXTENDS Naturals, FiniteSets

CONSTANTS
  Courses,       \* the canonical URLs, each the key of at most one row
  Fingerprints,  \* values of source_fingerprint
  NoFingerprint, \* the row does not exist
  Spiders,       \* concurrent callers of upsert_discovered_course
  Reconcilers,   \* concurrent callers of reconcile-outbox
  Limit,         \* how many events a call of reconcile-outbox fetches (50)
  MaxCalls,      \* bound: the number of upserts
  MaxCrashes     \* bound: the number of reconcile-outbox calls that die half-way

ASSUME ConstantsAssumption ==
  /\ NoFingerprint \notin Fingerprints
  /\ Limit \in Nat \ {0} /\ MaxCalls \in Nat /\ MaxCrashes \in Nat

\* The upserts in the order of the `now` they read, which is the created_at of the event
\* they append.  An upsert appends at most one, so its number is also the event's.
Calls == 1..MaxCalls

VARIABLES
  fingerprint,  \* discovered_courses.source_fingerprint
  calls,        \* the number of upserts started so far
  call,         \* the upsert a spider is in, 0 for none
  request,      \* the course and the fingerprint each upsert was called with
  old,          \* the fingerprint that the SELECT of a spider's upsert returned
  outbox,       \* the status of the event of each upsert
  inbox,        \* how many rows inbox_events has for each event
  pc,           \* where each call of reconcile-outbox is
  todo,         \* the events it fetched and has yet to handle
  current,      \* the event of the round a call is in, 0 before its SELECT
  crashes,      \* how many calls of reconcile-outbox died
  overtaken     \* spiders whose course another upsert has changed since their SELECT

upserts   == <<calls, call, request, old>>
reconcile == <<pc, todo, current, crashes>>
vars      == <<fingerprint, upserts, outbox, inbox, reconcile, overtaken>>

Requests == Courses \X Fingerprints

Init ==
  /\ fingerprint = [c \in Courses |-> NoFingerprint]
  /\ calls = 0
  /\ call = [s \in Spiders |-> 0]
  /\ request = [n \in Calls |-> <<>>]
  /\ old = [s \in Spiders |-> NoFingerprint]
  /\ outbox = [n \in Calls |-> "NONE"]
  /\ inbox = [n \in Calls |-> 0]
  /\ pc = [r \in Reconcilers |-> "idle"]
  /\ todo = [r \in Reconcilers |-> {}]
  /\ current = [r \in Reconcilers |-> 0]
  /\ crashes = 0
  /\ overtaken = {}

-----------------------------------------------------------------------------
(* Discovery.                                                              *)

\* upsert_discovered_course reads the clock and SELECTs the row by canonical_url.
UpsertSelect(s) ==
  /\ call[s] = 0 /\ calls < MaxCalls
  /\ calls' = calls + 1
  /\ call' = [call EXCEPT ![s] = calls + 1]
  /\ \E q \in Requests :
       /\ request' = [request EXCEPT ![calls + 1] = q]
       /\ old' = [old EXCEPT ![s] = fingerprint[q[1]]]
  /\ UNCHANGED <<fingerprint, outbox, inbox, reconcile, overtaken>>

\* The upsert returns, or dies with its transaction rolled back.
UpsertEnds(s) ==
  /\ call' = [call EXCEPT ![s] = 0]
  /\ old' = [old EXCEPT ![s] = NoFingerprint]
  /\ UNCHANGED <<calls, request>>

\* Mutant of Announces: an event for a new course only.
MutantOnlyNew(s) == old[s] = NoFingerprint

\* Mutant of Announces: every upsert appends an event.
MutantAlways(s) == TRUE

\* The upsert appends an event: the course is new, or the fingerprint it brings differs
\* from the one its SELECT returned.
Announces(s) == old[s] # request[call[s]][2]

\* The upserts that are between their SELECT and their writes of the course that s changes.
Overtakes(s) ==
  LET c == request[call[s]][1]
  IN  {t \in Spiders \ {s} : call[t] # 0 /\ request[call[t]][1] = c
                              /\ fingerprint'[c] # fingerprint[c]}

\* The writes of upsert_discovered_course, one transaction: the INSERT of a course it did
\* not find, or the UPDATE of the one it did, whatever its fingerprint is by now, and the
\* event.  The INSERT of a course that another upsert has inserted meanwhile fails.
UpsertWrite(s) ==
  LET n == call[s]
      c == request[n][1]
  IN  /\ n # 0
      /\ \/ /\ old[s] = NoFingerprint => fingerprint[c] = NoFingerprint
            /\ fingerprint' = [fingerprint EXCEPT ![c] = request[n][2]]
            /\ outbox' = IF Announces(s) THEN [outbox EXCEPT ![n] = "PENDING"] ELSE outbox
         \/ /\ old[s] = NoFingerprint /\ fingerprint[c] # NoFingerprint
            /\ UNCHANGED <<fingerprint, outbox>>
      /\ overtaken' = (overtaken \ {s}) \cup Overtakes(s)
      /\ UpsertEnds(s)
      /\ UNCHANGED <<inbox, reconcile>>

\* The process dies between the SELECT and the COMMIT.
UpsertDies(s) ==
  /\ call[s] # 0
  /\ overtaken' = overtaken \ {s}
  /\ UpsertEnds(s)
  /\ UNCHANGED <<fingerprint, outbox, inbox, reconcile>>

-----------------------------------------------------------------------------
(* Reconciliation.                                                         *)

Pending == {n \in Calls : outbox[n] = "PENDING"}

\* Mutant of Fetched: the newest events first.
MutantNewestFirst == {n \in Pending : Cardinality({m \in Pending : m > n}) < Limit}

\* get_pending_outbox_events: the oldest Limit events.
Fetched == {n \in Pending : Cardinality({m \in Pending : m < n}) < Limit}

\* Mutant of NextEvent: the call returns after its first event.
MutantStopsEarly(r, n) ==
  /\ todo' = [todo EXCEPT ![r] = @ \ {n}]
  /\ pc' = [pc EXCEPT ![r] = "idle"]
  /\ current' = [current EXCEPT ![r] = 0]

\* The round for event n ends: the call goes on to the next event, or returns.
NextEvent(r, n) ==
  /\ todo' = [todo EXCEPT ![r] = @ \ {n}]
  /\ pc' = [pc EXCEPT ![r] = IF todo[r] = {n} THEN "idle" ELSE "checking"]
  /\ current' = [current EXCEPT ![r] = 0]

\* A call of reconcile-outbox ends before its time.
Abort(r) ==
  /\ todo' = [todo EXCEPT ![r] = {}]
  /\ pc' = [pc EXCEPT ![r] = "idle"]
  /\ current' = [current EXCEPT ![r] = 0]

\* reconcile-outbox is called, by WF06 every 15 minutes.
Fetch(r) ==
  /\ pc[r] = "idle"
  /\ todo' = [todo EXCEPT ![r] = Fetched]
  /\ pc' = [pc EXCEPT ![r] = IF Fetched = {} THEN "idle" ELSE "checking"]
  /\ UNCHANGED <<fingerprint, upserts, outbox, inbox, current, crashes, overtaken>>

\* Mutant of InboxSelect: the event is marked as sent before it is inserted.
MutantMarksFirst(r) ==
  /\ pc[r] = "checking"
  /\ \E n \in todo[r] :
       /\ \A m \in todo[r] : n <= m
       /\ \/ inbox[n] > 0 /\ NextEvent(r, n) /\ UNCHANGED outbox
          \/ /\ inbox[n] = 0
             /\ pc' = [pc EXCEPT ![r] = "inserting"]
             /\ current' = [current EXCEPT ![r] = n]
             /\ outbox' = [outbox EXCEPT ![n] = "SENT"]
             /\ UNCHANGED todo
  /\ UNCHANGED <<fingerprint, upserts, inbox, crashes, overtaken>>

\* process_inbox_event's SELECT, for the oldest event left.  An event that is there
\* already is not delivered, and not marked as sent either.
InboxSelect(r) ==
  /\ pc[r] = "checking"
  /\ \E n \in todo[r] :
       /\ \A m \in todo[r] : n <= m
       /\ \/ inbox[n] > 0 /\ NextEvent(r, n)
          \/ /\ inbox[n] = 0
             /\ pc' = [pc EXCEPT ![r] = "inserting"]
             /\ current' = [current EXCEPT ![r] = n]
             /\ UNCHANGED todo
  /\ UNCHANGED <<fingerprint, upserts, outbox, inbox, crashes, overtaken>>

\* Mutant of InboxAccepts: inbox_events without UNIQUE (source_event_id).
MutantNoUnique(n) == TRUE

\* The UNIQUE constraint on inbox_events.source_event_id.
InboxAccepts(n) == inbox[n] = 0

\* process_inbox_event's INSERT.  If another call has inserted the event meanwhile, the
\* constraint raises, and the exception ends the whole call of reconcile-outbox.
InboxInsert(r) ==
  /\ pc[r] = "inserting"
  /\ \/ /\ InboxAccepts(current[r])
        /\ inbox' = [inbox EXCEPT ![current[r]] = @ + 1]
        /\ pc' = [pc EXCEPT ![r] = "marking"]
        /\ UNCHANGED <<todo, current>>
     \/ ~InboxAccepts(current[r]) /\ Abort(r) /\ UNCHANGED inbox
  /\ UNCHANGED <<fingerprint, upserts, outbox, crashes, overtaken>>

\* mark_outbox_event_sent, in the other database.
MarkSent(r) ==
  /\ pc[r] = "marking"
  /\ outbox' = [outbox EXCEPT ![current[r]] = "SENT"]
  /\ NextEvent(r, current[r])
  /\ UNCHANGED <<fingerprint, upserts, inbox, crashes, overtaken>>

\* The server dies, or the connection to one of the databases is lost.
ReconcileDies(r) ==
  /\ pc[r] # "idle" /\ crashes < MaxCrashes
  /\ crashes' = crashes + 1
  /\ Abort(r)
  /\ UNCHANGED <<fingerprint, upserts, outbox, inbox, overtaken>>

SpiderStep(s) == UpsertSelect(s) \/ UpsertWrite(s) \/ UpsertDies(s)

ReconcilerStep(r) == Fetch(r) \/ InboxSelect(r) \/ InboxInsert(r) \/ MarkSent(r)

Next ==
  \/ \E s \in Spiders : SpiderStep(s)
  \/ \E r \in Reconcilers : ReconcilerStep(r) \/ ReconcileDies(r)

Spec == Init /\ [][Next]_vars

\* WF06 calls reconcile-outbox for ever and the server goes on with every call.  Nothing
\* obliges the spider to visit a course.
FairSpec == Spec /\ \A r \in Reconcilers : WF_vars(ReconcilerStep(r))
-----------------------------------------------------------------------------
(* Properties.                                                             *)

\* Type invariant: also, a call of reconcile-outbox is over exactly when it has handled
\* every event it fetched.
TypeOK ==
  /\ fingerprint \in [Courses -> Fingerprints \cup {NoFingerprint}]
  /\ calls \in 0..MaxCalls
  /\ call \in [Spiders -> 0..MaxCalls]
  /\ request \in [Calls -> Requests \cup {<<>>}]
  /\ old \in [Spiders -> Fingerprints \cup {NoFingerprint}]
  /\ outbox \in [Calls -> {"NONE", "PENDING", "SENT"}]
  /\ inbox \in [Calls -> Nat]
  /\ pc \in [Reconcilers -> {"idle", "checking", "inserting", "marking"}]
  /\ todo \in [Reconcilers -> SUBSET Calls]
  /\ current \in [Reconcilers -> 0..MaxCalls]
  /\ crashes \in 0..MaxCrashes
  /\ overtaken \subseteq {s \in Spiders : call[s] # 0}
  /\ \A s \in Spiders : call[s] # 0 => call[s] <= calls /\ request[call[s]] \in Requests
  /\ \A r \in Reconcilers : /\ pc[r] = "idle" <=> todo[r] = {}
                          /\ current[r] \in IF pc[r] \in {"inserting", "marking"}
                                            THEN todo[r] ELSE {0}

\* Nothing is lost on the way: an event marked as sent has its row in the inbox, with
\* several reconciliations at work on it and whichever of them died.
SentIsReceived == \A n \in Calls : outbox[n] = "SENT" => inbox[n] = 1

\* An event is not received before one that was discovered earlier: the inbox shows the
\* history of a course in order.  It needs upserts that do not overlap.
ReceivedInOrder ==
  \A m, n \in Calls : m < n /\ outbox[m] # "NONE" /\ inbox[n] > 0 => inbox[m] > 0

\* An event of this course with this fingerprint was emitted.
Announced(c, f) == \E n \in Calls : outbox[n] # "NONE" /\ request[n] = <<c, f>>

\* The processing side sees every change of a course: a fingerprint never changes without an
\* event that carries the new one; unless the upsert was overtaken between its SELECT and its
\* writes by another that changed the course, and then the new one was announced before.
ChangeAnnounced ==
  [][\A c \in Courses : fingerprint'[c] # fingerprint[c] =>
       \E s \in Spiders : LET n == call[s] IN
         /\ n # 0 /\ request[n] = <<c, fingerprint'[c]>>
         /\ \/ outbox[n] = "NONE" /\ outbox'[n] = "PENDING"
            \/ s \in overtaken /\ Announced(c, fingerprint'[c])]_vars

\* A repeated discovery with the fingerprint that is stored emits no duplicate event, unless
\* the upsert was overtaken: two upserts of one new fingerprint may both emit it.
NoDuplicateEvent ==
  [][\A s \in Spiders : LET n == call[s] IN
       n # 0 /\ s \notin overtaken /\ outbox[n] = "NONE" /\ outbox'[n] = "PENDING" =>
         fingerprint[request[n][1]] # request[n][2]]_vars

\* The outbox and the inbox implement exactly-once delivery: every event is received in
\* the end, once, as long as fewer calls of reconcile-outbox die than one call fetches.
Promise == INSTANCE Delivery WITH
             Events <- Calls,
             emitted <- {n \in Calls : outbox[n] # "NONE"},
             received <- inbox

EveryEventReceivedOnce == Promise!FairSpec
=============================================================================
