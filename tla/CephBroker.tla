------------------------------- MODULE CephBroker -------------------------------
(***************************************************************************)
(* contrib/storage/linux/ceph: the conversation with the Ceph brokers.  A  *)
(* unit writes its request, with an identifier, on every ceph relation;    *)
(* each monitor unit carries it out in its own time and answers with that  *)
(* identifier; hooks compare the request they want now with the one sent.  *)
(* A charm is modelled as the comment above get_previous_request says it   *)
(* is to be written.                                                       *)
(***************************************************************************)
EXTENDS Naturals, Sequences, FiniteSets

CONSTANTS
    Relations,    \* identifiers of ceph relations, one of which is always there
    Monitors,     \* remote units, the same on every relation
    Wanted,       \* sequences of operations a charm may want
    None,
    MaxRequests,  \* bound: requests sent
    MaxFailures   \* bound: operations that fail, and hooks that do

VARIABLES
    related,   \* the relations the unit has
    wanted,    \* the operations the charm wants now
    sent,      \* broker_req, by relation
    answers,   \* the answer of a monitor on a relation
    kvstore,   \* "unit_N_ceph_broker_action.restart": an identifier or NoId
    last_id,   \* identifiers used so far
    performed, \* history: the requests a relation's cluster has carried out
    acted,     \* history: the identifiers the action was run for
    twice,     \* history: it was run twice for one of them
    failures

broker_vars == <<related, wanted, sent, answers, kvstore, last_id, performed, acted, twice, failures>>

NoId == 0

\* An operation has a name, what _ops_equal compares, and what it does not (the
\* erasure profile of a pool, the parameters of a profile, the namespace of
\* permissions).
_ops_equal(a, b) ==
    /\ Len(a) = Len(b)
    /\ \A i \in DOMAIN a : a[i].name = b[i].name /\ a[i].compared = b[i].compared

Request(id, ops) == [id |-> id, ops |-> ops]
Same(request, other) == other # None /\ _ops_equal(request.ops, other.ops)

-----------------------------------------------------------------------------
\* Mutant: any answer that reports success will do.
is_request_complete_for_any(request, rid) ==
    \E m \in Monitors : answers[rid][m] # None /\ answers[rid][m].code = 0

\* An answer to this unit counts when it names the request and reports success.  A
\* monitor that does not answer units one by one has the answer without identifier
\* count for whatever was asked; with one, it is not for this unit.
is_request_complete_for_rid(request, rid) ==
    \E m \in Monitors :
        LET rsp == answers[rid][m] IN
          /\ rsp # None /\ rsp.code = 0
          /\ IF rsp.targeted THEN rsp.id = request.id ELSE rsp.id = NoId

\* get_request_states, for a request the hook has just built.
IsSent(ops, rid) == Same(Request(NoId, ops), sent[rid])
IsComplete(ops, rid) == IsSent(ops, rid) /\ is_request_complete_for_rid(sent[rid], rid)

is_request_sent(ops) == \A rid \in related : IsSent(ops, rid)
is_request_complete(ops) == \A rid \in related : IsComplete(ops, rid)

\* The key broker-rsp-<unit> of the monitor whose hook this is.
Targeted(rid, m) == answers[rid][m] # None /\ answers[rid][m].targeted
is_broker_action_done(rid, m) ==
    Targeted(rid, m) /\ kvstore = answers[rid][m].id

-----------------------------------------------------------------------------
Init ==
    /\ \E rid \in Relations : related = {rid}
    /\ wanted \in Wanted
    /\ sent = [rid \in Relations |-> None]
    /\ answers = [rid \in Relations |-> [m \in Monitors |-> None]]
    /\ kvstore = NoId
    /\ last_id = 0
    /\ performed = [rid \in Relations |-> {}]
    /\ acted = {}
    /\ twice = FALSE
    /\ failures = 0

\* Another configuration: the charm builds another request from now on.
Reconfigure ==
    /\ \E ops \in Wanted : wanted' = ops /\ ops # wanted
    /\ UNCHANGED <<related, sent, answers, kvstore, last_id, performed, acted, twice, failures>>

Relate(rid) ==
    /\ rid \notin related
    /\ related' = related \cup {rid}
    /\ UNCHANGED <<wanted, sent, answers, kvstore, last_id, performed, acted, twice, failures>>

\* A hook of one of the ceph relations, for a monitor.  send_request_if_needed
\* sends to every relation, with a fresh identifier, when one of them lacks it.
Send ==
    /\ ~is_request_complete(wanted)
    /\ ~is_request_sent(wanted)
    /\ last_id < MaxRequests
    /\ last_id' = last_id + 1
    /\ sent' = [rid \in Relations |->
                  IF rid \in related THEN Request(last_id', wanted) ELSE sent[rid]]
    /\ UNCHANGED <<related, wanted, answers, kvstore, performed, acted, twice, failures>>

\* The action is run and then marked, which flushes the store, with the answer of
\* the monitor whose hook this is; mark_broker_action_done without one does nothing.
Complete(rid, m) ==
    /\ rid \in related
    /\ is_request_complete(wanted)
    /\ ~is_broker_action_done(rid, m)
    /\ acted' = acted \cup {sent[rid].id}
    /\ twice' = (twice \/ sent[rid].id \in acted)
    /\ kvstore' = IF Targeted(rid, m) THEN answers[rid][m].id ELSE kvstore
    /\ UNCHANGED <<related, wanted, sent, answers, last_id, performed, failures>>

\* The hook fails between the two.
Interrupted(rid, m) ==
    /\ rid \in related
    /\ is_request_complete(wanted)
    /\ ~is_broker_action_done(rid, m)
    /\ failures < MaxFailures
    /\ failures' = failures + 1
    /\ acted' = acted \cup {sent[rid].id}
    /\ twice' = (twice \/ sent[rid].id \in acted)
    /\ UNCHANGED <<related, wanted, sent, answers, kvstore, last_id, performed>>

\* A monitor sees the request that is there now, carries it out or fails to, and
\* answers.  An older monitor answers without a key for the unit, the oldest
\* without an identifier.
Answer(rid, m, targeted, named) ==
    /\ rid \in related /\ sent[rid] # None
    /\ answers[rid][m] # None => answers[rid][m].id # sent[rid].id
    /\ \E code \in {0, 1} :
          /\ code = 1 => failures < MaxFailures
          /\ failures' = failures + code
          /\ answers' = [answers EXCEPT ![rid][m] =
                            [targeted |-> targeted, code |-> code,
                             id |-> IF named THEN sent[rid].id ELSE NoId]]
          /\ performed' = IF code = 1 THEN performed
                          ELSE [performed EXCEPT ![rid] = @ \cup {sent[rid]}]
    /\ UNCHANGED <<related, wanted, sent, kvstore, last_id, acted, twice>>

Next ==
    \/ Reconfigure
    \/ \E rid \in Relations : Relate(rid)
    \/ Send
    \/ \E rid \in Relations, m \in Monitors :
          \/ Complete(rid, m) \/ Interrupted(rid, m)
          \/ Answer(rid, m, TRUE, TRUE)

\* The same with a monitor that may be of an older release.
NextWithOlder ==
    \/ Next
    \/ \E rid \in Relations, m \in Monitors, named \in BOOLEAN : Answer(rid, m, FALSE, named)

Spec == Init /\ [][Next]_broker_vars
SpecWithOlder == Init /\ [][NextWithOlder]_broker_vars

-----------------------------------------------------------------------------
\* What a hook takes for complete was carried out on every relation, in the terms
\* _ops_equal compares, whatever answers of earlier requests are still there and
\* whatever was wanted in between.  (is_request_complete)
CompleteTrue ==
    is_request_complete(wanted) =>
        \A rid \in related : \E done \in performed[rid] : _ops_equal(done.ops, wanted)

\* A request that is equal on every relation is not replaced, so that the answers
\* to it are not thrown away: every relation is answered the same identifier, or
\* still lacks the request.  (send_request_if_needed)
OneIdentifier ==
    \A r, s \in related : sent[r] # None /\ sent[s] # None => sent[r] = sent[s]

\* The action is run only for a request that some cluster carried out, even when
\* the hook that runs it is of a monitor that still shows an earlier answer.
\* (is_broker_action_done, mark_broker_action_done)
ActedOnAnswered ==
    \A id \in acted :
        \E rid \in related : \E done \in performed[rid] : done.id = id

\* What a charm believes about its requests is true: complete ones were carried out, an
\* identifier is one request, an action follows an answer.  (is_request_complete)
RequestsTrue == CompleteTrue /\ OneIdentifier /\ ActedOnAnswered

-----------------------------------------------------------------------------
\* What the documentation says and the code does not do.

\* ceph.py:2140 "a functionally equivalent request has already been sent": the
\* comparison leaves out what distinguishes two erasure coded pools.
SentWhatIsWanted ==
    is_request_sent(wanted) => \A rid \in related : sent[rid].ops = wanted

\* ceph.py:2155 "a functionally equivalent request has already been completed": an
\* answer without identifier counts for a request it did not answer, under
\* SpecWithOlder.
CompleteWithOlder == CompleteTrue

\* ceph.py:2243 "Check whether broker action has completed yet": with two monitors
\* it is run again while the later one still shows its answer to the last request.
ActedOnce ==
    failures = 0 => ~twice
=============================================================================
