---------------------------- MODULE EventStream -----------------------------
(***************************************************************************)
(* internal/service/events/stream.go and internal/handler/events_stream.go:*)
(* server-sent events.  Publish stores an event and picks the subscribers  *)
(* under the lock, then sends without it; each send is non-blocking and    *)
(* goes to the subscriber's bounded channel.  A stream handler subscribes, *)
(* replays the buffer if asked to, forwards its channel to the client and, *)
(* when the client is gone, unsubscribes, which closes the channel.  A     *)
(* send on a closed channel panics and ends the publisher's loop.          *)
(***************************************************************************)
EXTENDS Integers, Sequences, FiniteSets, SequencesExt

CONSTANTS
    Publishers,   \* goroutines that call Publish
    Streams,      \* client connections, each of them one subscription
    EventTypes, Apps,
    Unset,        \* the empty string in a filter: matches everything
    Query,        \* stream |-> its query parameters: event_type, app_id, replay
    ChanSize,     \* 64
    BufferSize,   \* 100
    MaxEvents     \* bound on the events published

ASSUME SizeAssumption == ChanSize \in Nat \ {0} /\ BufferSize \in Nat \ {0} /\ MaxEvents \in Nat

Filters == [type : EventTypes \cup {Unset}, app : Apps \cup {Unset}]

ASSUME QueryAssumption == Query \in [Streams -> [filter : Filters, replay : BOOLEAN]]

VARIABLES
    log,          \* all events ever stored (history)
    buffer,       \* the replay buffer
    subscribers,  \* the streams registered with the EventStream
    chan,         \* stream |-> what is in its channel
    closed,       \* streams whose channel has been closed
    conn,         \* where each stream's handler is
    replayed,     \* stream |-> what the replay wrote to the client
    got,          \* stream |-> what the loop wrote to the client, in order
    pub           \* where each publisher is

vars == <<log, buffer, subscribers, chan, closed, conn, replayed, got, pub>>

Events  == [id : 1..MaxEvents, by : Publishers, type : EventTypes, app : Apps]
Idle    == [pc |-> "idle"]

\* matchesFilter, of an event and the filter of stream s.
Matches(event, s) ==
    LET filter == Query[s].filter IN
    filter.type \in {Unset, event.type} /\ filter.app \in {Unset, event.app}

LatestOf(seq, n) == SubSeq(seq, Len(seq) - n + 1, Len(seq))

\* Publish bounds what it keeps: the replay buffer never exceeds BufferSize events,
\* a subscriber's channel never its capacity.
TypeOK ==
    /\ log \in Seq(Events) /\ buffer \in Seq(Events)
    /\ Len(buffer) <= BufferSize
    /\ subscribers \subseteq Streams /\ closed \subseteq Streams
    /\ chan \in [Streams -> Seq(Events)] /\ \A s \in Streams : Len(chan[s]) <= ChanSize
    /\ replayed \in [Streams -> SUBSET Events] /\ got \in [Streams -> Seq(Events)]
    /\ conn \in [Streams -> {Idle}
         \cup [pc : {"opened", "streaming", "closed"}, since : 0..MaxEvents]]
    /\ pub \in [Publishers -> {Idle}
         \cup [pc : {"sending", "panicked"}, event : Events, todo : SUBSET Streams]]

Init ==
    /\ log = <<>> /\ buffer = <<>>
    /\ subscribers = {} /\ closed = {}
    /\ chan = [s \in Streams |-> <<>>]
    /\ conn = [s \in Streams |-> Idle]
    /\ replayed = [s \in Streams |-> {}]
    /\ got = [s \in Streams |-> <<>>]
    /\ pub = [p \in Publishers |-> Idle]
-----------------------------------------------------------------------------
(* Publish *)

\* Variant: the buffer is cut one event too early.
TrimEarly(seq) == IF Len(seq) >= BufferSize THEN LatestOf(seq, BufferSize - 1) ELSE seq

Trim(seq) == IF Len(seq) > BufferSize THEN LatestOf(seq, BufferSize) ELSE seq

\* Variant: a stream that is still replaying is not sent to.
MatchingStreaming(event) ==
    {s \in subscribers : conn[s].pc = "streaming" /\ Matches(event, s)}

Matching(event) == {s \in subscribers : Matches(event, s)}

\* Under the lock: the event enters the buffer, and its receivers are collected.
Store(p, type, app) ==
    /\ pub[p] = Idle
    /\ Len(log) < MaxEvents
    /\ LET event == [id |-> Len(log) + 1, by |-> p, type |-> type, app |-> app] IN
         /\ log' = Append(log, event)
         /\ buffer' = Trim(Append(buffer, event))
         /\ pub' = [pub EXCEPT ![p] = IF Matching(event) = {} THEN Idle
                      ELSE [pc |-> "sending", event |-> event, todo |-> Matching(event)]]
    /\ UNCHANGED <<subscribers, chan, closed, conn, replayed, got>>

\* Variant: a full channel loses its oldest event to the new one's place in front.
PushFront(seq, event) == IF Len(seq) < ChanSize THEN <<event>> \o seq ELSE seq

\* select { case ch <- event: default: }
Push(seq, event) == IF Len(seq) < ChanSize THEN Append(seq, event) ELSE seq

\* After the unlock, one subscriber at a time in the map's random order.
Send(p, s) ==
    /\ pub[p].pc = "sending"
    /\ s \in pub[p].todo
    /\ \/ /\ s \notin closed
          /\ chan' = [chan EXCEPT ![s] = Push(@, pub[p].event)]
          /\ pub' = [pub EXCEPT ![p] =
                IF @.todo = {s} THEN Idle ELSE [pub[p] EXCEPT !.todo = pub[p].todo \ {s}]]
       \/ /\ s \in closed
          /\ pub' = [pub EXCEPT ![p].pc = "panicked"]
          /\ UNCHANGED chan
    /\ UNCHANGED <<log, buffer, subscribers, closed, conn, replayed, got>>
-----------------------------------------------------------------------------
(* EventStreamHandler.Stream *)

Open(s) ==
    /\ conn[s] = Idle
    /\ subscribers' = subscribers \cup {s}
    /\ conn' = [conn EXCEPT ![s] =
                  [pc |-> IF Query[s].replay THEN "opened" ELSE "streaming", since |-> Len(log)]]
    /\ UNCHANGED <<log, buffer, chan, closed, replayed, got, pub>>

\* RecentEventsFiltered is copied under the lock and written to the client.
Replay(s) ==
    /\ conn[s].pc = "opened"
    /\ replayed' = [replayed EXCEPT ![s] = {e \in ToSet(buffer) : Matches(e, s)}]
    /\ conn' = [conn EXCEPT ![s].pc = "streaming"]
    /\ UNCHANGED <<log, buffer, subscribers, chan, closed, got, pub>>

Forward(s) ==
    /\ conn[s].pc = "streaming"
    /\ chan[s] # <<>>
    /\ got' = [got EXCEPT ![s] = Append(@, Head(chan[s]))]
    /\ chan' = [chan EXCEPT ![s] = Tail(@)]
    /\ UNCHANGED <<log, buffer, subscribers, closed, conn, replayed, pub>>

\* The client disconnects, or a write to it fails: the handler returns, and the
\* deferred Unsubscribe closes the channel and forgets the subscriber.
Leave(s) ==
    /\ conn[s].pc = "streaming"
    /\ conn' = [conn EXCEPT ![s].pc = "closed"]
    /\ closed' = closed \cup {s}
    /\ subscribers' = subscribers \ {s}
    /\ UNCHANGED <<log, buffer, chan, replayed, got, pub>>

Next ==
    \/ \E p \in Publishers :
          \/ \E type \in EventTypes, app \in Apps : Store(p, type, app)
          \/ \E s \in Streams : Send(p, s)
    \/ \E s \in Streams :
          \/ Open(s) \/ Replay(s) \/ Forward(s) \/ Leave(s)

Spec == Init /\ [][Next]_vars

-----------------------------------------------------------------------------
\* The replay buffer is the latest BufferSize events, none skipped or repeated,
\* however many publishers append to it.
BufferIsTail ==
    buffer = LatestOf(log, IF Len(log) < BufferSize THEN Len(log) ELSE BufferSize)

Received(s) == replayed[s] \cup ToSet(got[s]) \cup ToSet(chan[s])

\* Event e is on its way to stream s, or its publisher died before it got there.
Owed(s, e) == \E p \in Publishers : pub[p] # Idle /\ pub[p].event = e /\ s \in pub[p].todo

\* No more events were published for stream s than its channel can hold.
NeverFull(s) ==
    Cardinality({e \in ToSet(log) : e.id > conn[s].since /\ Matches(e, s)}) <= ChanSize

\* Subscribing before replaying leaves no gap: while the channel has room, what a
\* stream wants is replayed, delivered, queued or owed to it.
NoGap ==
    \A s \in subscribers : conn[s].pc = "streaming" /\ NeverFull(s) =>
        \A e \in ToSet(log) :
            Matches(e, s) /\ (e.id > conn[s].since \/ (Query[s].replay /\ e \in ToSet(buffer)))
                => e \in Received(s) \/ Owed(s, e)

\* Sending outside the lock may reorder two publishers, never one publisher's own
\* events: the live part of a stream has them in the order they were published.
PublisherOrder ==
    \A s \in Streams :
        LET seen == got[s] \o chan[s] IN
        \A i, j \in 1..Len(seen) :
            i < j /\ seen[i].by = seen[j].by => seen[i].id < seen[j].id

\* "Publish broadcasts an event to all matching subscribers"; "slow consumers may
\* miss events": a stream whose channel never filled misses nothing, whatever the
\* other streams do.
OnlySlowMiss ==
    \A s \in subscribers : conn[s].pc = "streaming" /\ NeverFull(s) =>
        \A e \in ToSet(log) :
            Matches(e, s) /\ e.id > conn[s].since
                => \/ e \in Received(s)
                   \/ \E p \in Publishers : pub[p].pc = "sending" /\ pub[p].event = e /\ s \in pub[p].todo
=============================================================================
