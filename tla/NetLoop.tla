------------------------------ MODULE NetLoop ------------------------------
(* The swarm task of a node and the handles that command it (net/lib.rs:     *)
(* Network, Command, EventLoop).  Callers send commands through a bounded    *)
(* channel; a command is answered at once, or when the DHT query or the      *)
(* request it started has ended.  The queries, the requests and the records  *)
(* in the DHT are libp2p's: what the loop sees of them are their events, and *)
(* these come in any order between queries.                                  *)
(*                                                                           *)
(* What the loop does with the ledger, receipts and chunks is in Reputation. *)
EXTENDS Integers, Sequences, FiniteSets, SequencesExt, Functions

CONSTANTS
    Callers,        \* tasks that hold a handle
    Peers, Roots,
    QueueSize,      \* capacity of the command channel (64)
    MaxIds,         \* queries and requests in a behaviour
    MaxFound,       \* events with results in a query
    None

ASSUME NetLoopAssumption ==
    /\ IsFiniteSet(Callers) /\ IsFiniteSet(Peers)
    /\ None \notin Callers \cup Roots /\ None \notin Nat
    /\ QueueSize \in Nat \ {0} /\ MaxIds \in Nat /\ MaxFound \in Nat

VARIABLES
    calls,      \* calls[c]: the call c is in, and what came of it
    chan,       \* the commands in the channel
    loop,       \* "running", "ended"
    handles,    \* some handle exists
    pending,    \* pending_providers, _get, _put, _req, _internal: id -> waiting
    swarm,      \* id -> the events of the query or request, and whether it is over
    provided,   \* roots whose manifests are served
    announced,  \* roots with a provider record in the node's own record store
    elsewhere,  \* roots whose record of this node is at, or on its way to, other peers
    symbols     \* roots whose symbols are cached

vars == <<calls, chan, loop, handles, pending, swarm, provided, announced, elsewhere, symbols>>
contents == <<provided, announced, elsewhere, symbols>>

Queries == {"find", "get", "put", "request"}       \* answered by a later event
Instant == {"listeners"}                           \* answered by the command
Posted == {"provide", "unprovide", "receipt"}      \* not answered
Ops == Queries \cup Instant \cup Posted
Ids == 1 .. MaxIds
Idle == [state |-> "returned", op |-> None, root |-> None, id |-> None, answer |-> None]

Init ==
    /\ calls = [c \in Callers |-> Idle]
    /\ chan = <<>> /\ loop = "running" /\ handles = TRUE
    /\ pending = <<>> /\ swarm = <<>>
    /\ provided = {} /\ announced = {} /\ elsewhere = {} /\ symbols = {}

-----------------------------------------------------------------------------
(* The handle *)

\* mpsc::channel(64): a send waits for room.
Room == Len(chan) < QueueSize

\* A call returns without a result that matters here.
Done(c) == [calls EXCEPT ![c] = Idle]

\* Queries and requests begun or on their way, for the bound on them.
NeedsId(op) == op \in Queries \cup {"receipt"}
Begun ==
    Cardinality(DOMAIN swarm) + Cardinality({i \in DOMAIN chan : NeedsId(chan[i].op)})
        + Cardinality({c \in Callers : calls[c].state = "sending" /\ NeedsId(calls[c].op)})

\* A method of Network. The handle is borrowed while it runs, so there is one
\* call at a time per caller.
Call(c, op, root) ==
    /\ NeedsId(op) => Begun < MaxIds
    /\ handles /\ calls[c].state = "returned"
    /\ calls' = [calls EXCEPT ![c] = [Idle EXCEPT !.state = "sending", !.op = op, !.root = root]]
    /\ UNCHANGED <<chan, loop, handles, pending, swarm, contents>>

\* The command is in the channel. A posted one has returned with that.
Send(c) ==
    /\ calls[c].state = "sending" /\ Room
    /\ chan' = Append(chan, [op |-> calls[c].op, root |-> calls[c].root, who |-> c])
    /\ IF calls[c].op \in Posted THEN calls' = Done(c)
       ELSE calls' = [calls EXCEPT ![c].state = "waiting"]
    /\ UNCHANGED <<loop, handles, pending, swarm, contents>>

\* The last handle is dropped.
DropHandles ==
    /\ handles /\ \A c \in Callers : calls[c].state = "returned"
    /\ handles' = FALSE
    /\ UNCHANGED <<calls, chan, loop, pending, swarm, contents>>

\* recv gives None once the handles are gone and the channel is empty; the
\* queries that run then are dropped with the swarm.
LoopEnds ==
    /\ loop = "running" /\ ~handles /\ chan = <<>>
    /\ loop' = "ended" /\ pending' = <<>> /\ swarm' = <<>>
    /\ UNCHANGED <<calls, chan, handles, contents>>

-----------------------------------------------------------------------------
(* Commands *)

NextId == Cardinality(DOMAIN swarm) + 1
With(f, x, v) == [y \in DOMAIN f \cup {x} |-> IF y = x THEN v ELSE f[y]]
Begin(op) == With(swarm, NextId, [op |-> op, events |-> <<>>, over |-> FALSE])
Wait(op, who) == With(pending, NextId, [op |-> op, who |-> who, acc |-> <<>>])
Reply(who, answer) == [calls EXCEPT ![who].state = "returned", ![who].answer = answer]

\* FindProviders, Request, GetRecord, PutRecord: begin and remember who waits.
\* A record the local DHT store refuses is answered at once.
StartQuery(cmd) ==
    /\ cmd.op \in Queries
    /\ \/ /\ swarm' = Begin(cmd.op)
          /\ pending' = Wait(cmd.op, cmd.who)
          /\ calls' = [calls EXCEPT ![cmd.who].id = NextId]
       \/ cmd.op = "put" /\ calls' = Reply(cmd.who, FALSE) /\ UNCHANGED <<swarm, pending>>
    /\ UNCHANGED contents

\* Listen, Dial, Listeners, ExternalAddresses, Reputation, ConnectedPeers,
\* LedgerTotals: answered from the state at hand.
AnswerNow(cmd) ==
    /\ cmd.op \in Instant
    /\ calls' = Done(cmd.who)
    /\ UNCHANGED <<swarm, pending, contents>>

\* start_providing keeps a record and sends it to the peers nearest to its key,
\* or fails; the manifest is served either way.
StartProviding(root) ==
    \/ announced' = announced \cup {root} /\ elsewhere' = elsewhere \cup {root}
    \/ UNCHANGED <<announced, elsewhere>>

\* stop_providing drops the node's own record. Those at other peers stay until
\* they run out.
StopProviding(root) == announced' = announced \ {root} /\ UNCHANGED elsewhere

Provide(cmd) ==
    /\ cmd.op = "provide"
    /\ StartProviding(cmd.root)
    /\ provided' = provided \cup {cmd.root}
    /\ UNCHANGED <<calls, swarm, pending, symbols>>

\* Neither manifest nor symbols are served from now on; chunks, which serve()
\* takes from the store whatever is provided, still are.
BugSymbolsStay(cmd) ==
    /\ cmd.op = "unprovide"
    /\ StopProviding(cmd.root)
    /\ provided' = provided \ {cmd.root}
    /\ UNCHANGED <<calls, swarm, pending, symbols>>

Unprovide(cmd) ==
    /\ cmd.op = "unprovide"
    /\ StopProviding(cmd.root)
    /\ provided' = provided \ {cmd.root}
    /\ symbols' = symbols \ {cmd.root}
    /\ UNCHANGED <<calls, swarm, pending>>

\* SubmitReceipt: a request of the loop's own, if the peer is identified.
SubmitReceipt(cmd) ==
    /\ cmd.op = "receipt"
    /\ \/ swarm' = Begin("internal") /\ pending' = Wait("internal", None)
       \/ UNCHANGED <<swarm, pending>>
    /\ UNCHANGED <<calls, contents>>

OnCommand ==
    /\ loop = "running" /\ chan # <<>>
    /\ \/ StartQuery(Head(chan)) \/ AnswerNow(Head(chan)) \/ Provide(Head(chan))
       \/ Unprovide(Head(chan)) \/ SubmitReceipt(Head(chan))
    /\ chan' = Tail(chan)
    /\ UNCHANGED <<loop, handles>>

-----------------------------------------------------------------------------
(* Events *)

Running(op) == {q \in DOMAIN swarm : swarm[q].op = op /\ ~swarm[q].over}
Happens(q, results, last) ==
    swarm' = [swarm EXCEPT ![q].events = @ \o results, ![q].over = last]

\* A reply goes to the caller whose entry it is; without an entry it is lost.
Answered(q, answer) ==
    IF q \in DOMAIN pending
    THEN calls' = Reply(pending[q].who, answer) /\ pending' = Restrict(pending, DOMAIN pending \ {q})
    ELSE UNCHANGED <<calls, pending>>

BugAllAppended(acc, found) == acc \o SetToSeq(found)

\* The providers of an event that were not found before.
AddFound(acc, found) == acc \o SetToSeq(found \ ToSet(acc))

\* GetProviders(Ok): gathered, and answered at the last step.
GatherProviders(q, acc, last) ==
    IF last THEN Answered(q, acc)
    ELSE pending' = [pending EXCEPT ![q].acc = acc] /\ UNCHANGED calls

ProvidersFound ==
    \E q \in Running("find"), found \in SUBSET Peers, last \in BOOLEAN :
      /\ last \/ (found # {} /\ Len(swarm[q].events) < MaxFound)
      /\ GatherProviders(q, AddFound(pending[q].acc, found), last)
      /\ Happens(q, SetToSeq(found), last)

BugQueryErrorForgotten(q) == UNCHANGED <<calls, pending>>

\* GetProviders(Err): the query is dead, and what it found is the answer.
QueryError(q) == Answered(q, pending[q].acc)

ProvidersFailed ==
    \E q \in Running("find") : QueryError(q) /\ Happens(q, <<>>, TRUE)

BugOnlyFoundAnswers(q, value, last) ==
    IF value # None THEN Answered(q, value) ELSE UNCHANGED <<calls, pending>>

\* GetRecord(Ok): the first record answers; the end without one answers None.
TakeRecord(q, value, last) ==
    IF value # None THEN Answered(q, value)
    ELSE IF last THEN Answered(q, None)
    ELSE UNCHANGED <<calls, pending>>

RecordFound ==
    \E q \in Running("get"), value \in Roots \cup {None}, last \in BOOLEAN :
      /\ last \/ (value # None /\ Len(swarm[q].events) < MaxFound)
      /\ TakeRecord(q, value, last)
      /\ Happens(q, IF value = None THEN <<>> ELSE <<value>>, last)

RecordFailed ==
    \E q \in Running("get") : Answered(q, None) /\ Happens(q, <<>>, TRUE)

PutDone ==
    \E q \in Running("put"), ok \in BOOLEAN : Answered(q, ok) /\ Happens(q, <<ok>>, TRUE)

\* Response and OutboundFailure, of a caller's request or of the loop's own.
ResponseArrives ==
    \/ \E q \in Running("request"), ok \in BOOLEAN : Answered(q, ok) /\ Happens(q, <<ok>>, TRUE)
    \/ \E q \in Running("internal") :
         /\ pending' = Restrict(pending, DOMAIN pending \ {q})
         /\ Happens(q, <<>>, TRUE) /\ UNCHANGED calls

OnQueryEvent ==
    /\ loop = "running"
    /\ \/ ProvidersFound \/ ProvidersFailed \/ RecordFound \/ RecordFailed
       \/ PutDone \/ ResponseArrives
    /\ UNCHANGED <<chan, loop, handles, contents>>

\* ensure_symbols, on the first request for symbols of content that is here.
CacheSymbols ==
    /\ loop = "running"
    /\ \E r \in provided : symbols' = symbols \cup {r}
    /\ UNCHANGED <<calls, chan, loop, handles, pending, swarm, provided, announced, elsewhere>>

\* A record at other peers runs out once libp2p no longer renews it.
RecordExpires ==
    /\ loop = "running"
    /\ \E r \in elsewhere \ announced : elsewhere' = elsewhere \ {r}
    /\ UNCHANGED <<calls, chan, loop, handles, pending, swarm, provided, announced, symbols>>

Next ==
    \/ \E c \in Callers, op \in Ops, r \in Roots : Call(c, op, r)
    \/ \E c \in Callers : Send(c)
    \/ DropHandles \/ LoopEnds \/ OnCommand \/ OnQueryEvent
    \/ CacheSymbols \/ RecordExpires

\* The task polls its commands and its swarm, a sender that waits is woken in
\* its turn, and libp2p ends each query and each request (their timeouts).
Ends(q) == OnQueryEvent /\ q \in DOMAIN swarm /\ ~swarm[q].over /\ swarm'[q].over
Fairness ==
    /\ WF_vars(OnCommand) /\ WF_vars(LoopEnds)
    /\ \A c \in Callers : SF_vars(Send(c))
    /\ \A q \in Ids : WF_vars(Ends(q))

Spec == Init /\ [][Next]_vars /\ Fairness

-----------------------------------------------------------------------------
(* Properties *)

TypeOK ==
    /\ \A c \in Callers : calls[c].state \in {"sending", "waiting", "returned"}
    /\ Len(chan) <= QueueSize
    /\ DOMAIN pending \subseteq DOMAIN swarm /\ DOMAIN swarm \subseteq Ids
    /\ provided \subseteq Roots

\* Answers are of the caller's own query and lose nothing: find_providers gives
\* each provider of its events once, up to the last or the failing step,
\* get_record the first record and None only if there was none, however the
\* events of several queries are mixed.
OwnAnswer ==
    \A c \in Callers : calls[c].state = "returned" /\ calls[c].id \in DOMAIN swarm =>
      LET q == swarm[calls[c].id]
          got == calls[c].answer
      IN  /\ calls[c].op = "find" =>
               q.over /\ ToSet(got) = ToSet(q.events) /\ Len(got) = Cardinality(ToSet(got))
          /\ calls[c].op = "get" =>
               IF q.events = <<>> THEN q.over /\ got = None ELSE got = q.events[1]
          /\ calls[c].op \in {"put", "request"} => got = q.events[1]

\* No entry outlives its query: the maps of waiting callers do not grow in a
\* node that runs for long, also when queries fail. (The types of the
\* variables, and the bound of the channel, are part of it.)
NoLeak == TypeOK /\ \A q \in DOMAIN pending : ~swarm[q].over

\* What a node holds to serve and to announce a root, besides its chunks, goes
\* with the manifest: neither the symbols, cached on the first request for
\* them, nor the node's own provider record, which libp2p would renew for ever,
\* outlive it. (The records at other peers do, and the chunks in the store.)
UnprovidedIsGone == announced \subseteq provided /\ symbols \subseteq provided

\* What the doc of unprovide says: "Removes the DHT provider record so
\* `find_providers` no longer surfaces this node for it". Refuted: the records
\* at other peers, which find_providers asks, are not touched.
UnprovidedIsNotFound == elsewhere \subseteq provided

\* Every call on a handle returns, whatever becomes of its query ("a dead
\* query must still answer the oneshot, or the caller hangs forever").
CallsReturn == \A c \in Callers : calls[c].state \in {"sending", "waiting"} ~> calls[c].state = "returned"
=============================================================================
