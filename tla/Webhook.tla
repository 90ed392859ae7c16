------------------------------ MODULE Webhook -------------------------------
(***************************************************************************)
(* internal/service/webhook/service.go and internal/handler/webhook.go:    *)
(* subscriptions and the delivery of events to their endpoints.  Emit      *)
(* looks the subscriptions up under the store's lock and starts one        *)
(* goroutine for each after it; a delivery posts up to three times, with a *)
(* pause before each repetition, until it sees a 2xx.  The client gives up *)
(* a request after ten seconds, which says nothing about what the endpoint *)
(* got: a request may be lost, or arrive while the sender waits, or after  *)
(* it has given up, and the answer may be lost as well.  The length of the *)
(* pauses and the signature are left out.  Create makes every subscription *)
(* active and nothing changes that.  Emit has no caller in the server; it  *)
(* is modelled as any caller may use it.                                   *)
(***************************************************************************)
EXTENDS Integers, Sequences, FiniteSets, SequencesExt

CONSTANTS
    SubIds,   \* the subscriptions there may be
    Form,     \* subscription |-> what Create is asked for: app, events, goodURL
    Events,   \* the events there may be
    Kind,     \* event |-> its app and type
    Wildcard       \* "*", in a subscription: every app, every event type

VARIABLES
    subs,       \* the store's slice of subscriptions
    created,    \* subscriptions that have been created (history)
    removed,    \* subscriptions that have been deleted (history)
    emit,       \* event |-> where its Emit is, and the subscriptions it has still to serve
    known,      \* event |-> the subscriptions created and removed before its lookup (history)
    delivery,   \* subscription and event |-> where its goroutine is
    tries,      \* subscription and event |-> iterations of the loop begun
    onTheWay,   \* subscription and event |-> requests that may still arrive
    answered,   \* subscription and event |-> the 2xx of the current request can be read
    copies      \* subscription and event |-> requests that reached the endpoint

storeVars == <<subs, created, removed>>
emitVars  == <<emit, known>>
sendVars  == <<delivery, tries, onTheWay, answered, copies>>
vars == <<storeVars, emitVars, sendVars>>

Attempts == 3

\* One subscription, one event: what one goroutine delivers.
Notes == SubIds \X Events

GoodURL(n) == Form[n[1]].goodURL

Wants(s, e) ==
    /\ Form[s].app \in {Kind[e].app, Wildcard}
    /\ Form[s].events \cap {Kind[e].type, Wildcard} # {}

Init ==
    /\ subs = <<>> /\ created = {} /\ removed = {}
    /\ emit = [e \in Events |-> [pc |-> "new", todo |-> {}]]
    /\ known = [e \in Events |-> [created |-> {}, removed |-> {}]]
    /\ delivery = [n \in Notes |-> "none"]
    /\ tries = [n \in Notes |-> 0]
    /\ onTheWay = [n \in Notes |-> 0]
    /\ answered = [n \in Notes |-> FALSE]
    /\ copies = [n \in Notes |-> 0]
-----------------------------------------------------------------------------
(* POST and DELETE /v1/webhooks; GET changes nothing. *)

\* Under a fresh uuid.
Create(s) ==
    /\ s \notin created
    /\ subs' = Append(subs, s)
    /\ created' = created \cup {s}
    /\ UNCHANGED <<removed, emitVars, sendVars>>

\* Variant: the cut is made at the head of the slice.
DeleteFirst(s) ==
    /\ s \in ToSet(subs)
    /\ subs' = Tail(subs)
    /\ removed' = removed \cup {s}
    /\ UNCHANGED <<created, emitVars, sendVars>>

Delete(s) ==
    /\ \E i \in DOMAIN subs : subs[i] = s /\ subs' = RemoveAt(subs, i)
    /\ removed' = removed \cup {s}
    /\ UNCHANGED <<created, emitVars, sendVars>>
-----------------------------------------------------------------------------
(* Emit *)

\* GetSubscriptions, under the lock.
Lookup(e) ==
    /\ emit[e].pc = "new"
    /\ emit' = [emit EXCEPT ![e] = [pc |-> "started", todo |-> {s \in ToSet(subs) : Wants(s, e)}]]
    /\ known' = [known EXCEPT ![e] = [created |-> created, removed |-> removed]]
    /\ UNCHANGED <<storeVars, sendVars>>

\* go s.deliver(sub, event), for one of those found.
Spawn(s, e) ==
    /\ s \in emit[e].todo
    /\ emit' = [emit EXCEPT ![e].todo = @ \ {s}]
    /\ delivery' = [delivery EXCEPT ![<<s, e>>] = "ready"]
    /\ UNCHANGED <<storeVars, known, tries, onTheWay, answered, copies>>
-----------------------------------------------------------------------------
(* deliver *)

\* One turn of the loop begins; a URL that does not parse makes no request.
Post(n) ==
    /\ delivery[n] = "ready"
    /\ delivery' = [delivery EXCEPT ![n] = "trying"]
    /\ tries' = [tries EXCEPT ![n] = @ + 1]
    /\ onTheWay' = IF GoodURL(n) THEN [onTheWay EXCEPT ![n] = @ + 1] ELSE onTheWay
    /\ UNCHANGED <<storeVars, emitVars, answered, copies>>

\* The endpoint gets a request.  Its 2xx counts if it is the answer to the request
\* the sender is waiting for, and reaches it.
Receive(n) ==
    /\ onTheWay[n] > 0
    /\ onTheWay' = [onTheWay EXCEPT ![n] = @ - 1]
    /\ copies' = [copies EXCEPT ![n] = @ + 1]
    /\ \/ UNCHANGED answered
       \/ /\ delivery[n] = "trying"
          /\ answered' = [answered EXCEPT ![n] = TRUE]
    /\ UNCHANGED <<storeVars, emitVars, delivery, tries>>

Confirm(n) ==
    /\ delivery[n] = "trying"
    /\ answered[n]
    /\ delivery' = [delivery EXCEPT ![n] = "confirmed"]
    /\ UNCHANGED <<storeVars, emitVars, tries, onTheWay, answered, copies>>

\* Variant: the third failure is followed by a fourth request.
FailLate(n) ==
    /\ delivery[n] = "trying"
    /\ ~answered[n]
    /\ delivery' = [delivery EXCEPT ![n] = IF tries[n] <= Attempts THEN "ready" ELSE "dropped"]
    /\ UNCHANGED <<storeVars, emitVars, tries, onTheWay, answered, copies>>

\* Variant: a request that could not be made is repeated without counting.
FailUncounted(n) ==
    /\ delivery[n] = "trying"
    /\ ~answered[n]
    /\ delivery' = [delivery EXCEPT ![n] =
                      IF tries[n] < Attempts \/ ~GoodURL(n) THEN "ready" ELSE "dropped"]
    /\ tries' = IF GoodURL(n) THEN tries ELSE [tries EXCEPT ![n] = @ - 1]
    /\ UNCHANGED <<storeVars, emitVars, onTheWay, answered, copies>>

\* No request, no connection, no answer within ten seconds, or another status: the
\* loop goes on, or ends after its third turn.
Fail(n) ==
    /\ delivery[n] = "trying"
    /\ ~answered[n]
    /\ delivery' = [delivery EXCEPT ![n] = IF tries[n] < Attempts THEN "ready" ELSE "dropped"]
    /\ UNCHANGED <<storeVars, emitVars, tries, onTheWay, answered, copies>>

Next ==
    \/ \E s \in SubIds : Create(s) \/ Delete(s)
    \/ \E e \in Events : Lookup(e)
    \/ \E s \in SubIds, e \in Events : Spawn(s, e)
    \/ \E n \in Notes : Post(n) \/ Receive(n) \/ Confirm(n) \/ Fail(n)

\* Goroutines are scheduled, a pause ends, and client.Do returns at the latest when
\* its timeout fires.  Nothing obliges the network, the endpoint or the console.
Fairness ==
    /\ \A s \in SubIds, e \in Events : WF_vars(Spawn(s, e))
    /\ \A n \in Notes : WF_vars(Post(n)) /\ WF_vars(Confirm(n) \/ Fail(n))

Spec == Init /\ [][Next]_vars

FairSpec == Spec /\ Fairness
-----------------------------------------------------------------------------
\* The types of the variables, and where requests are: each turn of the loop made
\* at most one, and what was made is on its way or has arrived.
TypeOK ==
    /\ subs \in Seq(SubIds) /\ created \subseteq SubIds /\ removed \subseteq SubIds
    /\ emit \in [Events -> [pc : {"new", "started"}, todo : SUBSET SubIds]]
    /\ known \in [Events -> [created : SUBSET SubIds, removed : SUBSET SubIds]]
    /\ delivery \in [Notes -> {"none", "ready", "trying", "confirmed", "dropped"}]
    /\ tries \in [Notes -> 0..Attempts]
    /\ onTheWay \in [Notes -> 0..Attempts] /\ copies \in [Notes -> 0..Attempts]
    /\ answered \in [Notes -> BOOLEAN]

Status(pc) ==
    CASE pc \in {"ready", "trying"} -> "owed"
      [] pc = "dropped" -> "abandoned"
      [] OTHER -> pc

Promise == INSTANCE Notification WITH
    MaxTries <- Attempts,
    status <- [n \in Notes |-> Status(delivery[n])]

\* deliver keeps the promise of Notification, whatever is lost or late: at most
\* three requests, none after a 2xx was seen, a 2xx only from an endpoint that has
\* the event, and no giving up before the third.
KeepsPromise == Promise!Spec

\* Deleting a subscription takes effect for every event emitted afterwards, and for
\* no other subscription: the goroutines of an Emit are for those, and only those,
\* that want it and had been created, and not deleted, when it looked, so no deletion
\* loses a subscription but its own.
RightAudience ==
    \A e \in Events : emit[e] = [pc |-> "started", todo |-> {}] =>
        {s \in SubIds : delivery[<<s, e>>] # "none"} =
            {s \in known[e].created \ known[e].removed : Wants(s, e)}

\* No delivery hangs: what an Emit has found to serve ends confirmed or dropped.
EverySettled ==
    \A s \in SubIds, e \in Events :
        s \in emit[e].todo ~> delivery[<<s, e>>] \in {"confirmed", "dropped"}
=============================================================================
