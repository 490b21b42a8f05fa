----------------------------- MODULE ReviewStream -----------------------------
(***************************************************************************)
(* The event stream of internal/api/handlers/review.go, composed with the   *)
(* review operations whose results it announces.  A stream is one request   *)
(* to StreamReview: it registers a channel in the connection map of its     *)
(* review, passes on what arrives there, and unregisters when it ends.  An  *)
(* operation that succeeded ends its handler with notifyReviewUpdate, which *)
(* takes the map under the lock and goes through it without: streams come   *)
(* and go meanwhile.                                                        *)
(*                                                                         *)
(* The handler is modelled under a ResponseWriter that can flush; under one *)
(* that cannot, it refuses the stream.                                      *)
(***************************************************************************)
EXTENDS Review, Sequences

CONSTANTS Streams,
          ChanCap,      \* capacity of a stream's channel
          Workloads     \* operations, streams and reviews that take part, and
                        \* whether reviews expire and are swept

ASSUME StreamConstants ==
  /\ ChanCap \in Nat /\ ChanCap >= 2
  /\ NoOne \notin Streams
  /\ Workloads \subseteq [ops : SUBSET Ops, streams : SUBSET Streams,
                          reviews : SUBSET Reviews, expiry : BOOLEAN]

VARIABLES work,       \* the workload of this behaviour
          stage,      \* of each stream; "gone" once its channel is closed
          watch,      \* the review it watches
          chan,       \* what waits in its channel
          seen,       \* status events it has written to its client
          conns,      \* channels in the connection map of each review
          made,       \* number of maps made for each review so far
          notice      \* the notification of each operation

streams == <<stage, watch, chan, seen>>
streamVars == <<work, streams, conns, made, notice>>

Decisions == {"APPROVED", "REJECTED", "EXECUTED"}
Notice == [at : {"none", "ranging", "sending", "done", "panicked", "lost"},
           map : Nat,               \* the map taken, by its number
           took : SUBSET Streams,   \* what it held then
           visited : SUBSET Streams,
           to : Streams \cup {NoOne}]

StreamTypeOK ==
  /\ work \in Workloads
  /\ stage \in [Streams -> {"away", "refused", "open", "gone", "lost"}]
  /\ watch \in [Streams -> Reviews \cup {NoOne}]
  /\ chan \in [Streams -> Seq(Decisions)] /\ \A s \in Streams : Len(chan[s]) <= ChanCap
  /\ seen \in [Streams -> Seq({"PENDING"} \cup Decisions)]
  /\ conns \in [Reviews -> SUBSET Streams]
  /\ made \in [Reviews -> Nat]
  /\ notice \in [Ops -> Notice]

StreamInit ==
  /\ Init
  /\ work \in Workloads
  /\ stage = [s \in Streams |-> "away"]
  /\ watch = [s \in Streams |-> NoOne]
  /\ chan = [s \in Streams |-> <<>>]
  /\ seen = [s \in Streams |-> <<>>]
  /\ conns = [v \in Reviews |-> {}]
  /\ made = [v \in Reviews |-> 0]
  /\ notice = [o \in Ops |-> [at |-> "none", map |-> 0, took |-> {}, visited |-> {}, to |-> NoOne]]

-----------------------------------------------------------------------------
(* Streams *)

\* The map of a review is made when its first stream registers; the one before,
\* if any, was emptied and dropped.
RegisterConnection(s, v) ==
  /\ made' = IF conns[v] = {} THEN [made EXCEPT ![v] = @ + 1] ELSE made
  /\ conns' = [conns EXCEPT ![v] = @ \cup {s}]

\* Mutant: the channel is closed but stays in the map.
UnregisterConnection_Keeps(s) ==
  /\ stage' = [stage EXCEPT ![s] = "gone"]
  /\ UNCHANGED conns

\* Under the lock: out of the map, then closed.
UnregisterConnection(s) ==
  /\ stage' = [stage EXCEPT ![s] = "gone"]
  /\ conns' = [conns EXCEPT ![watch[s]] = @ \ {s}]

\* A stream with a good ticket for v registers; the client is told PENDING
\* first, whatever the row says.  A missing, bad or foreign ticket is refused.
Open(s, v) ==
  /\ stage[s] = "away"
  /\ status[v] # "absent"
  /\ \/ /\ stage' = [stage EXCEPT ![s] = "open"]
        /\ watch' = [watch EXCEPT ![s] = v]
        /\ seen' = [seen EXCEPT ![s] = <<"PENDING">>]
        /\ RegisterConnection(s, v)
     \/ /\ stage' = [stage EXCEPT ![s] = "refused"]
        /\ UNCHANGED <<watch, seen, conns, made>>
  /\ UNCHANGED <<vars, work, chan, notice>>

\* An event is received from the channel and written; a failed write ends the
\* stream.
Receive(s) ==
  /\ stage[s] = "open"
  /\ chan[s] # <<>>
  /\ chan' = [chan EXCEPT ![s] = Tail(@)]
  /\ \/ seen' = [seen EXCEPT ![s] = Append(@, Head(chan[s]))] /\ UNCHANGED <<stage, conns>>
     \/ UnregisterConnection(s) /\ UNCHANGED seen
  /\ UNCHANGED <<vars, work, watch, made, notice>>

\* The client disconnects.
Disconnect(s) ==
  /\ stage[s] = "open"
  /\ UnregisterConnection(s)
  /\ UNCHANGED <<vars, work, watch, chan, seen, made, notice>>

-----------------------------------------------------------------------------
(* Notifications *)

Announced(o) == IF kind[o] = "execute" THEN "EXECUTED" ELSE Decision(kind[o])

SetNotice(o, n) == notice' = [notice EXCEPT ![o] = n]

\* Mutant: the handlers notify whatever the use case returned.
Notifies_Always(o) == pc[o] = "done" /\ target[o] # NoOne

\* The handlers of Approve, Reject and Execute return on an error.
Notifies(o) == pc[o] = "done" /\ answer[o] = "ok"

\* The map of the review is taken under the read lock.
TakeMap(o) ==
  /\ notice[o].at = "none"
  /\ Notifies(o)
  /\ LET v == target[o] IN
       SetNotice(o, [at |-> IF conns[v] = {} THEN "done" ELSE "ranging", map |-> made[v],
                     took |-> conns[v], visited |-> {}, to |-> NoOne])
  /\ UNCHANGED <<vars, work, streams, conns, made>>

\* What is in the map taken now.  A map that is not the current one was empty
\* when it was dropped.
InMap(o) == IF notice[o].map = made[target[o]] THEN conns[target[o]] ELSE {}

\* The next channel of the iteration.
Pick(o, s) ==
  /\ notice[o].at = "ranging"
  /\ s \in InMap(o) \ notice[o].visited
  /\ SetNotice(o, [[notice[o] EXCEPT !.at = "sending"] EXCEPT !.to = s])
  /\ UNCHANGED <<vars, work, streams, conns, made>>

\* Entries made during the iteration may or may not be visited.
Exhausted(o) == InMap(o) \cap notice[o].took \subseteq notice[o].visited

EndOfMap(o) ==
  /\ notice[o].at = "ranging"
  /\ Exhausted(o)
  /\ SetNotice(o, [notice[o] EXCEPT !.at = "done"])
  /\ UNCHANGED <<vars, work, streams, conns, made>>

\* Mutant: the channel holds one event less than it was made for.
Room_Less(s) == Len(chan[s]) + 1 < ChanCap

Room(s) == Len(chan[s]) < ChanCap

\* The select with a default: send, skip a full channel, or panic when the
\* stream has closed its channel since it was picked.  The panic ends the
\* handler of an operation that has taken effect.
Send(o) ==
  LET s == notice[o].to IN
  /\ notice[o].at = "sending"
  /\ IF stage[s] = "gone"
       THEN SetNotice(o, [notice[o] EXCEPT !.at = "panicked"])
       ELSE SetNotice(o, [[notice[o] EXCEPT !.at = "ranging"] EXCEPT !.visited = @ \cup {s}])
  /\ chan' = IF stage[s] = "open" /\ Room(s) THEN [chan EXCEPT ![s] = Append(@, Announced(o))] ELSE chan
  /\ UNCHANGED <<vars, work, stage, watch, seen, conns, made>>

-----------------------------------------------------------------------------
(* Process *)

Ranging == {o \in Ops : notice[o].at \in {"ranging", "sending"}}

\* The process stops.  One cause is in this code: the runtime stops a program
\* it finds iterating over a map, in notifyReviewUpdate, that is being written,
\* by a stream that registers or unregisters.
Stop ==
  /\ \/ Crash
     \/ /\ \A o \in Ops : pc[o] \in {"start", "done"}
        /\ Ranging # {} \/ toSweep # {} \/ \E s \in Streams : stage[s] = "open"
        /\ SweepFails \/ (toSweep = {} /\ UNCHANGED vars)
  /\ stage' = [s \in Streams |-> IF stage[s] = "open" THEN "lost" ELSE stage[s]]
  /\ conns' = [v \in Reviews |-> {}]
  /\ chan' = [s \in Streams |-> <<>>]
  /\ notice' = [o \in Ops |-> IF o \in Ranging THEN [notice[o] EXCEPT !.at = "lost"] ELSE notice[o]]
  /\ UNCHANGED <<work, watch, seen, made>>

Notify(o) == TakeMap(o) \/ EndOfMap(o) \/ Send(o) \/ \E s \in Streams : Pick(o, s)

Stream(s) == Receive(s) \/ Disconnect(s) \/ \E v \in work.reviews : Open(s, v)

ReviewStep ==
  /\ \/ \E v \in work.reviews : Create(v)
     \/ \E o \in work.ops : OpStep(o)
     \/ work.expiry /\ (Sweep \/ \E v \in work.reviews : TimePasses(v))
  /\ UNCHANGED streamVars

\* Every request of the workload has ended.
Finished ==
  /\ \A o \in work.ops : pc[o] = "done" /\ (Notifies(o) => notice[o].at \in {"done", "panicked", "lost"})
  /\ \A s \in work.streams : stage[s] \in {"refused", "gone", "lost"}
  /\ UNCHANGED <<vars, streamVars>>

StreamNext ==
  \/ ReviewStep
  \/ \E o \in Ops : Notify(o)
  \/ \E s \in work.streams : Stream(s)
  \/ Stop
  \/ Finished

StreamSpec == StreamInit /\ [][StreamNext]_<<vars, streamVars>>

-----------------------------------------------------------------------------
(* Properties *)

\* The connection maps hold exactly the channels of the streams that listen:
\* no closed channel is left for the next notification to panic on, and no
\* stream loses its place when another one ends (review.go:540-551).
RegisteredAreOpen ==
  \A v \in Reviews : conns[v] = {s \in Streams : stage[s] = "open" /\ watch[s] = v}

Events(s) == Tail(seen[s]) \o chan[s]

\* A client is told of a decision or an execution only if the row has it for
\* good, and of each only once, although the event is sent after the lock and
\* the transaction are released (review.go:294, 395).
EventsTruthful ==
  \A s \in {t \in Streams : watch[t] # NoOne} :
    /\ \A i \in DOMAIN Events(s) :
         CASE Events(s)[i] = "APPROVED" -> status[watch[s]] \in {"APPROVED", "EXECUTED"}
           [] OTHER -> status[watch[s]] = Events(s)[i]
    /\ \A i, j \in DOMAIN Events(s) : Events(s)[i] = Events(s)[j] => i = j

\* A notification that comes to its end has reached every stream that was there
\* when it took the map and still is: a review has one decision and one
\* execution, so that the channel never fills and "Channel full, skip"
\* (review.go:571) never loses an event, however slow the client.
EventsReach ==
  \A o \in Ops : notice[o].at = "done" =>
    \A s \in notice[o].took : stage[s] = "open" =>
      \E i \in DOMAIN Events(s) : Events(s)[i] = Announced(o)
==============================================================================
