----------------------------- MODULE Reputation -----------------------------
(***************************************************************************)
(* Contribution accounting between nodes: the ledger and the receipts of   *)
(* np2ptp-rep as the EventLoop of np2ptp-net uses them.  A node records    *)
(* what it serves and receives per peer, chokes a peer that takes too      *)
(* much, issues a signed receipt to whoever served it a download, collects *)
(* the receipts issued to it, and pulls the receipts of a peer it has no   *)
(* history with.  Nodes restart from what they saved, connections drop and *)
(* requests are lost.                                                      *)
(*                                                                         *)
(* A node is named by its peer id; both identities come from one seed, so  *)
(* the Ed25519 id and the libp2p id are the same node.  A signature is     *)
(* modelled by what verify() establishes: only client issues a receipt     *)
(* with its name.  An amount is a number of bytes.                         *)
(***************************************************************************)
EXTENDS Integers, SequencesExt

CONSTANTS
    Nodes,
    Scenarios,      \* who downloads from whom, in which sizes, within which bounds
    Threshold,      \* choke_threshold
    MaxReceipts,    \* MAX_RECEIPTS
    U64Max, I64Max  \* the largest u64 and i64

(* A behaviour stays within one scenario: downloads are the pairs <<n, p>>  *)
(* such that n downloads from p, sizes the sizes of chunks and of symbol   *)
(* batches, and the rest are the bounds on requests, batches, lost         *)
(* connections, failed requests, restarts, failed saves and seconds.       *)
Bounded == {"fetches", "symbols", "drops", "losses", "restarts", "errors", "seconds"}

ASSUME NodesAssumption == IsFiniteSet(Nodes)
ASSUME ScenariosAssumption ==
    \A s \in Scenarios :
        /\ s.downloads \subseteq {d \in Nodes \X Nodes : d[1] # d[2]}
        /\ s.sizes \subseteq Nat \ {0} /\ s.sizes # {} /\ IsFiniteSet(s.sizes)
        /\ \A b \in Bounded : s[b] \in Nat
ASSUME ThresholdAssumption == Threshold \in (-I64Max - 1) .. I64Max
ASSUME MaxReceiptsAssumption == MaxReceipts \in Nat \ {0}
ASSUME WidthAssumption == U64Max \in Nat \ {0} /\ I64Max \in Nat
VARIABLES
    scenario, \* the scenario of this behaviour
    ledger,   \* ledger[n][p]: the Counters that n keeps of p
    dirty,    \* ledger_dirty
    ledgerBin,    \* what ledger.bin holds
    bag,      \* the ReceiptBag of a node
    receiptsBin,  \* what receipts.bin holds
    offered,  \* history: every receipt inserted into the bag, and into the one saved
    link,     \* the connections, as sets of two nodes
    known,    \* rep_peers: whose identity a node has learned
    pulled,   \* receipts_pulled_from
    epoch,    \* next_receipt_epoch
    clock,    \* seconds since the epoch
    wire,     \* requests and responses under way
    fetched,  \* fetched_bytes of the downloads that n is running, by provider
    issued,   \* issued[c][s]: bytes of all receipts that c has issued to s
    served,   \* served[s][c]: bytes that s has handed to c
    used      \* how much of the bounds is used up

accounts == <<ledger, dirty, ledgerBin, bag, receiptsBin, offered>>
session == <<link, known, pulled>>
totals == <<issued, served>>
vars == <<scenario, ledger, dirty, ledgerBin, bag, receiptsBin, offered, link, known, pulled,
          epoch, clock, wire, fetched, issued, served, used>>

Amounts == 0 .. U64Max
Counters == [served_to_us : Amounts, we_served : Amounts, credited_by_receipts : Amounts]
Receipts == [server : Nodes, client : Nodes, bytes : Nat, epoch : Nat]
Messages ==
    [kind : {"receipts?"}, from : Nodes, to : Nodes]
    \cup [kind : {"chunk?", "symbols?"}, from : Nodes, to : Nodes, wanted : BOOLEAN]
    \cup [kind : {"chunk", "symbols"}, from : Nodes, to : Nodes, wanted : BOOLEAN, bytes : Nat]
    \cup [kind : {"receipt"}, from : Nodes, to : Nodes, receipt : Receipts]
    \cup [kind : {"receipts"}, from : Nodes, to : Nodes, list : Seq(Receipts)]

TypeOK ==
    /\ ledger \in [Nodes -> [Nodes -> Counters]]
    /\ dirty \in [Nodes -> BOOLEAN]
    /\ ledgerBin \in [Nodes -> [Nodes -> Counters]]
    /\ bag \in [Nodes -> Seq(Receipts)]
    /\ receiptsBin \in [Nodes -> Seq(Receipts)]
    /\ offered \in [Nodes -> [now : SUBSET Receipts, saved : SUBSET Receipts]]
    /\ link \in SUBSET SUBSET Nodes
    /\ known \in [Nodes -> SUBSET Nodes]
    /\ pulled \in [Nodes -> SUBSET Nodes]
    /\ epoch \in [Nodes -> Nat]
    /\ clock \in Nat
    /\ wire \in SUBSET Messages
    /\ fetched \in [Nodes -> [Nodes -> Nat]]
    /\ issued \in [Nodes -> [Nodes -> Nat]]
    /\ served \in [Nodes -> [Nodes -> Nat]]
    /\ used \in [Bounded -> Nat]

-----------------------------------------------------------------------------
(* Ledger.  A definition whose name begins with Bug is a deliberate        *)
(* mistake in the one after it, there to show that the properties notice.  *)

NoHistory == [served_to_us |-> 0, we_served |-> 0, credited_by_receipts |-> 0]

(* The result of saturating_add.                                           *)
Saturated(x) == IF x \in Amounts THEN x ELSE U64Max

RecordReceived(n, p, bytes) ==
    ledger' = [ledger EXCEPT ![n][p].served_to_us = Saturated(@ + bytes)]
RecordServed(n, p, bytes) ==
    ledger' = [ledger EXCEPT ![n][p].we_served = Saturated(@ + bytes)]

(* ledger_dirty = true                                                     *)
BugNotMarked(n) == UNCHANGED dirty
MarkDirty(n) == dirty' = [dirty EXCEPT ![n] = TRUE]

(* Ledger::reputation, clamped into an i64.                                *)
Net(c) == c.served_to_us + c.credited_by_receipts - c.we_served
BugWrappedReputation(c) == ((Net(c) + I64Max + 1) % (2 * I64Max + 2)) - I64Max - 1
Reputation(c) ==
    IF Net(c) > I64Max THEN I64Max
    ELSE IF Net(c) < -I64Max - 1 THEN -I64Max - 1 ELSE Net(c)

(* choke_threshold.saturating_neg()                                        *)
ChokeBelow == IF -Threshold > I64Max THEN I64Max ELSE -Threshold
BugNeverChoked(n, p) == FALSE
Choked(n, p) == Reputation(ledger[n][p]) < ChokeBelow

-----------------------------------------------------------------------------
(* ReceiptBag                                                              *)

(* insert: an exact duplicate changes nothing; the rest is kept in order   *)
(* of falling bytes, and only the MAX_RECEIPTS largest.                    *)
BugDropsFirst(b, r) ==
    IF r \in ToSet(b) THEN b
    ELSE LET at == 1 + Cardinality({i \in DOMAIN b : b[i].bytes >= r.bytes})
             longer == InsertAt(b, at, r)
         IN  SubSeq(longer, 1 + Max({0, Len(longer) - MaxReceipts}), Len(longer))
Collected(b, r) ==
    IF r \in ToSet(b) THEN b
    ELSE LET at == 1 + Cardinality({i \in DOMAIN b : b[i].bytes >= r.bytes})
             longer == InsertAt(b, at, r)
         IN  SubSeq(longer, 1, IF Len(longer) > MaxReceipts THEN MaxReceipts ELSE Len(longer))

(* The receipts of a pulled list that handle_receipts_response credits: the *)
(* ones about the peer, the first of each (client, epoch).                 *)
Creditable(list, p) ==
    {i \in DOMAIN list :
        /\ list[i].server = p
        /\ \A j \in 1 .. i - 1 :
              list[j].server = p => <<list[j].client, list[j].epoch>> # <<list[i].client, list[i].epoch>>}

SumOver(S, f) == MapThenSumSet(LAMBDA x : f[x], S)
CreditOf(list, p) == SumOver(Creditable(list, p), [i \in DOMAIN list |-> list[i].bytes])

-----------------------------------------------------------------------------
Init ==
    /\ scenario \in Scenarios
    /\ ledger = [n \in Nodes |-> [p \in Nodes |-> NoHistory]]
    /\ dirty = [n \in Nodes |-> FALSE]
    /\ ledgerBin = ledger
    /\ bag = [n \in Nodes |-> <<>>]
    /\ receiptsBin = bag
    /\ offered = [n \in Nodes |-> [now |-> {}, saved |-> {}]]
    /\ link = {}
    /\ known = [n \in Nodes |-> {}]
    /\ pulled = [n \in Nodes |-> {}]
    /\ epoch = [n \in Nodes |-> 0]
    /\ clock = 0
    /\ wire = {}
    /\ fetched = [n \in Nodes |-> [p \in Nodes |-> 0]]
    /\ issued = fetched
    /\ served = fetched
    /\ used = [b \in Bounded |-> 0]

Use(b) == used[b] < scenario[b] /\ used' = [used EXCEPT ![b] = @ + 1]

(* What is under way between two nodes.                                    *)
Between(a, b) == {m \in wire : {m.from, m.to} = {a, b}}
Reply(m, answer) == wire' = (wire \ {m}) \cup {answer}
Consume(m) == wire' = wire \ {m}

-----------------------------------------------------------------------------
(* Connections                                                             *)

Connect(n, p) ==
    /\ {n, p} \notin link
    /\ link' = link \cup {{n, p}}
    /\ UNCHANGED <<accounts, known, pulled, epoch, clock, wire, fetched, totals, used, scenario>>

(* identify::Event::Received of p at n, which may come again: n pulls the  *)
(* receipts of a peer it has no history with.                              *)
BugPullsEverySession(n, p) == p \notin pulled[n]
MayPull(n, p) == p \notin pulled[n] /\ ledger[n][p] = NoHistory

Identify(n, p) ==
    /\ {n, p} \in link
    /\ known' = [known EXCEPT ![n] = @ \cup {p}]
    /\ IF MayPull(n, p)
       THEN /\ pulled' = [pulled EXCEPT ![n] = @ \cup {p}]
            /\ wire' = wire \cup {[kind |-> "receipts?", from |-> n, to |-> p]}
       ELSE UNCHANGED <<pulled, wire>>
    /\ UNCHANGED <<accounts, link, epoch, clock, fetched, totals, used, scenario>>

(* The last connection of n and p closes: n and p see it (ConnectionClosed *)
(* with num_established 0) and what was under way fails.                   *)
Forgotten(f, S, Gone) == [n \in Nodes |-> IF n \in S THEN f[n] \ Gone ELSE f[n]]

Disconnect(n, p) ==
    /\ {n, p} \in link
    /\ Use("drops")
    /\ link' = link \ {{n, p}}
    /\ known' = Forgotten(known, {n, p}, {n, p})
    /\ pulled' = Forgotten(pulled, {n, p}, {n, p})
    /\ wire' = wire \ Between(n, p)
    /\ UNCHANGED <<accounts, epoch, clock, fetched, totals, scenario>>

(* The connection breaks and n dials again before p has noticed, so that p *)
(* never sees zero connections.                                            *)
Reconnect(n, p) ==
    /\ {n, p} \in link
    /\ Use("drops")
    /\ known' = Forgotten(known, {n}, {p})
    /\ pulled' = Forgotten(pulled, {n}, {p})
    /\ wire' = wire \ Between(n, p)
    /\ UNCHANGED <<accounts, link, epoch, clock, fetched, totals, scenario>>

(* A single request or response fails: OutboundFailure.                    *)
Lose(m) ==
    /\ Use("losses")
    /\ Consume(m)
    /\ UNCHANGED <<accounts, session, epoch, clock, fetched, totals, scenario>>

-----------------------------------------------------------------------------
(* Downloads                                                               *)

(* fetch_chunk and fetch_symbols put a request on the wire; the model has   *)
(* at most one of each under way between two nodes.                        *)
Request(n, p, kind) == [kind |-> kind, from |-> n, to |-> p, wanted |-> TRUE]
Ask(n, p, kind, answer) ==
    /\ {n, p} \in link
    /\ \A m \in Between(n, p) : m.kind \notin {kind, answer}
    /\ wire' = wire \cup {Request(n, p, kind)}
    /\ UNCHANGED <<accounts, session, epoch, clock, fetched, totals, scenario>>

Fetch(n, p) == Ask(n, p, "chunk?", "chunk") /\ Use("fetches")
FetchSymbols(n, p) == Ask(n, p, "symbols?", "symbols") /\ Use("symbols")

(* The part of serve that hands bytes out.                                 *)
HandOut(m, kind, bytes) ==
    /\ RecordServed(m.to, m.from, bytes)
    /\ MarkDirty(m.to)
    /\ served' = [served EXCEPT ![m.to][m.from] = @ + bytes]
    /\ Reply(m, [kind |-> kind, from |-> m.to, to |-> m.from, wanted |-> m.wanted, bytes |-> bytes])
    /\ UNCHANGED <<ledgerBin, bag, receiptsBin, offered, session, epoch, clock, fetched, issued, used, scenario>>

(* serve: Request::Chunk of a peer that is not choked ...                  *)
ServeChunk(m) ==
    /\ m.kind = "chunk?"
    /\ ~Choked(m.to, m.from)
    /\ \E bytes \in scenario.sizes : HandOut(m, "chunk", bytes)

(* ... or that is choked, or for a chunk that is not there: Chunk(None).   *)
RefuseChunk(m) ==
    /\ m.kind = "chunk?"
    /\ Consume(m)
    /\ UNCHANGED <<accounts, session, epoch, clock, fetched, totals, used, scenario>>

(* serve: Request::Symbols, which no choke applies to.                     *)
ServeSymbols(m) ==
    /\ m.kind = "symbols?"
    /\ \E bytes \in scenario.sizes : HandOut(m, "symbols", bytes)

(* A Chunk response is recorded by the event loop and counted by the       *)
(* download; a Symbols response is only counted.                           *)
RecordResponse(m) ==
    IF m.kind = "chunk"
    THEN /\ RecordReceived(m.to, m.from, m.bytes)
         /\ MarkDirty(m.to)
    ELSE UNCHANGED <<ledger, dirty>>

ReceiveData(m) ==
    /\ m.kind \in {"chunk", "symbols"}
    /\ RecordResponse(m)
    /\ fetched' = IF m.wanted THEN [fetched EXCEPT ![m.to][m.from] = @ + m.bytes] ELSE fetched
    /\ Consume(m)
    /\ UNCHANGED <<ledgerBin, bag, receiptsBin, offered, session, epoch, clock, totals, used, scenario>>

(* The download is over: Command::SubmitReceipt for one of its providers,  *)
(* in vain if the provider's identity is not known.                        *)
BugFetchedKept(n, p) == fetched
AfterSubmit(n, p) == [fetched EXCEPT ![n][p] = 0]

SubmitReceipt(n, p) ==
    LET receipt == [server |-> p, client |-> n, bytes |-> fetched[n][p], epoch |-> epoch[n]]
    IN  /\ fetched[n][p] > 0
        /\ fetched' = AfterSubmit(n, p)
        /\ IF p \in known[n]
           THEN /\ epoch' = [epoch EXCEPT ![n] = @ + 1]
                /\ issued' = [issued EXCEPT ![n][p] = @ + fetched[n][p]]
                /\ wire' = wire \cup
                       {[kind |-> "receipt", from |-> n, to |-> p, receipt |-> receipt]}
           ELSE UNCHANGED <<epoch, issued, wire>>
        /\ UNCHANGED <<accounts, session, clock, served, used, scenario>>

(* The download ends early (a put fails, its task is dropped): nobody is   *)
(* credited, and the download does not see the answers still under way.    *)
Orphaned(m) == [m EXCEPT !.wanted = FALSE]
Abandon(n) ==
    LET asked == {m \in wire : m.kind \in {"chunk?", "symbols?"} /\ m.from = n}
        answered == {m \in wire : m.kind \in {"chunk", "symbols"} /\ m.to = n}
    IN  /\ fetched[n] # [p \in Nodes |-> 0]
        /\ fetched' = [fetched EXCEPT ![n] = [p \in Nodes |-> 0]]
        /\ wire' = (wire \ (asked \cup answered)) \cup {Orphaned(m) : m \in asked \cup answered}
        /\ UNCHANGED <<accounts, session, epoch, clock, totals, used, scenario>>

-----------------------------------------------------------------------------
(* Receipts                                                                *)

(* serve: Request::SubmitReceipt.                                          *)
(* The history of what was given to the bag, up to now and up to the last   *)
(* save that succeeded.                                                    *)
Offer(n, r, saved) ==
    LET all == offered[n].now \cup {r}
    IN  offered' = [offered EXCEPT ![n] = [now |-> all, saved |-> IF saved THEN all ELSE offered[n].saved]]

AboutUs(m) == m.receipt.server = m.to /\ m.receipt.client # m.receipt.server

CollectReceipt(m) ==
    LET n == m.to
    IN  /\ m.kind = "receipt"
        /\ Consume(m)
        /\ IF AboutUs(m)
           THEN /\ bag' = [bag EXCEPT ![n] = Collected(@, m.receipt)]
                /\ \/ receiptsBin' = [receiptsBin EXCEPT ![n] = bag'[n]] /\ Offer(n, m.receipt, TRUE)
                      /\ UNCHANGED used
                   \/ Use("errors") /\ Offer(n, m.receipt, FALSE) /\ UNCHANGED receiptsBin
           ELSE UNCHANGED <<bag, receiptsBin, offered, used>>
        /\ UNCHANGED <<ledger, dirty, ledgerBin, session, epoch, clock, fetched, totals, scenario>>

(* serve: Request::GetReceipts.                                            *)
PresentReceipts(m) ==
    /\ m.kind = "receipts?"
    /\ Reply(m, [kind |-> "receipts", from |-> m.to, to |-> m.from, list |-> bag[m.to]])
    /\ UNCHANGED <<accounts, session, epoch, clock, fetched, totals, used, scenario>>

(* handle_receipts_response: credit, then save at once.                    *)
CreditReceipts(m) ==
    LET n == m.to
        p == m.from
    IN  /\ m.kind = "receipts"
        /\ Consume(m)
        /\ IF p \in known[n] /\ Creditable(m.list, p) # {}
           THEN /\ ledger' = [ledger EXCEPT ![n][p].credited_by_receipts =
                                  Saturated(@ + CreditOf(m.list, p))]
                /\ \/ ledgerBin' = [ledgerBin EXCEPT ![n] = ledger'[n]] /\ UNCHANGED used
                   \/ Use("errors") /\ UNCHANGED ledgerBin
           ELSE UNCHANGED <<ledger, ledgerBin, used>>
        /\ UNCHANGED <<dirty, bag, receiptsBin, offered, session, epoch, clock, fetched, totals, scenario>>

-----------------------------------------------------------------------------
(* The periodic flush; one that fails changes nothing.                     *)
SaveTick(n) ==
    /\ dirty[n]
    /\ ledgerBin' = [ledgerBin EXCEPT ![n] = ledger[n]]
    /\ dirty' = [dirty EXCEPT ![n] = FALSE]
    /\ UNCHANGED <<ledger, bag, receiptsBin, offered, session, epoch, clock, wire, fetched, totals, used, scenario>>

(* The process ends and Network::spawn starts it again with its seed.      *)
Restart(n) ==
    /\ Use("restarts")
    /\ ledger' = [ledger EXCEPT ![n] = ledgerBin[n]]
    /\ dirty' = [dirty EXCEPT ![n] = FALSE]
    /\ bag' = [bag EXCEPT ![n] = receiptsBin[n]]
    /\ offered' = [offered EXCEPT ![n].now = offered[n].saved]
    /\ link' = {l \in link : n \notin l}
    /\ known' = [q \in Nodes |-> IF q = n THEN {} ELSE known[q] \ {n}]
    /\ pulled' = [q \in Nodes |-> IF q = n THEN {} ELSE pulled[q] \ {n}]
    /\ epoch' = [epoch EXCEPT ![n] = clock]
    /\ wire' = {m \in wire : n \notin {m.from, m.to}}
    /\ fetched' = [fetched EXCEPT ![n] = [p \in Nodes |-> 0]]
    /\ UNCHANGED <<ledgerBin, receiptsBin, clock, totals, scenario>>

Tick ==
    /\ clock < scenario.seconds
    /\ clock' = clock + 1
    /\ UNCHANGED <<accounts, session, epoch, wire, fetched, totals, used, scenario>>

-----------------------------------------------------------------------------
Handle(m) ==
    \/ ServeChunk(m) \/ RefuseChunk(m) \/ ServeSymbols(m) \/ ReceiveData(m)
    \/ CollectReceipt(m) \/ PresentReceipts(m) \/ CreditReceipts(m)

Pair(n, p) == <<n, p>> \in scenario.downloads \/ <<p, n>> \in scenario.downloads

Next ==
    \/ \E n, p \in Nodes :
          /\ Pair(n, p)
          /\ Connect(n, p) \/ Identify(n, p) \/ Disconnect(n, p) \/ Reconnect(n, p)
    \/ \E d \in scenario.downloads : Fetch(d[1], d[2]) \/ FetchSymbols(d[1], d[2]) \/ SubmitReceipt(d[1], d[2])
    \/ \E n \in Nodes : Abandon(n) \/ SaveTick(n) \/ Restart(n)
    \/ \E m \in wire : Handle(m) \/ Lose(m)
    \/ Tick

Spec == Init /\ [][Next]_vars

-----------------------------------------------------------------------------
(* Properties                                                              *)

IssuedTo(p, clients) == SumOver(clients, [c \in Nodes |-> issued[c][p]])

(* A provider is credited a receipt only for bytes it really served: the   *)
(* receipts a client ever issues to a server add up to no more than the    *)
(* server has handed to it, through retries, lost answers, abandoned       *)
(* downloads and restarts.                                                 *)
HonestReceipts == \A c, s \in Nodes : issued[c][s] <= served[s][c]

(* The credit that a node gives a peer for receipts is backed by receipts  *)
(* issued to that peer, each counted once, however often the two connect,  *)
(* identify, pull and restart.                                             *)
CreditBacked ==
    \A p \in Nodes :
        LET backing == IssuedTo(p, Nodes)
        IN  \A n \in Nodes : ledger[n][p].credited_by_receipts <= backing

(* What a node presents and what it saves as its receipts is the best of   *)
(* all that it was ever given ("keep only the MAX_RECEIPTS highest-`bytes` *)
(* entries"): receipts about itself, by others, each once, at most         *)
(* MAX_RECEIPTS, and one that is missing is missing because the bag is     *)
(* full of receipts worth at least as much, through ties, repetitions,     *)
(* failed saves and restarts.  (The types of the variables are part of it.) *)
BestOf(b, n, given) ==
    /\ Len(b) <= MaxReceipts
    /\ ToSet(b) \subseteq {r \in given : r.server = n /\ r.client # n}
    /\ \A i, j \in DOMAIN b : i < j => b[i] # b[j] /\ b[i].bytes >= b[j].bytes
    /\ \A r \in given \ ToSet(b) :
          Len(b) = MaxReceipts /\ \A i \in DOMAIN b : b[i].bytes >= r.bytes

BagSound ==
    TypeOK /\ \A n \in Nodes :
        BestOf(bag[n], n, offered[n].now) /\ BestOf(receiptsBin[n], n, offered[n].saved)

(* A peer that only takes is cut off: by what a node has on record, nobody *)
(* is ever more than one answer past the choke threshold, symbols aside,   *)
(* which no choke applies to.                                              *)
DebtBounded ==
    \A n, p \in Nodes :
        Net(ledger[n][p]) >= Min({0, ChokeBelow}) - (1 + used["symbols"]) * Max(scenario.sizes)

(* A peer that has given at least what it took is never choked, however    *)
(* large the counters: "a wrapping `as i64` would turn an inflated credit  *)
(* into a *negative* reputation - exactly backwards".                      *)
GiverNotChoked ==
    \A n, p \in Nodes : Threshold >= 0 /\ Net(ledger[n][p]) >= 0 => ~Choked(n, p)

(* What a node has on record reaches ledger.bin: whatever differs from the  *)
(* file is marked for the next flush, through servings, answers, creditings *)
(* and restarts, unless a save has failed (the one after a crediting is not *)
(* tried again).                                                            *)
UnsavedIsMarked ==
    used["errors"] = 0 => \A n \in Nodes : ledger[n] # ledgerBin[n] => dirty[n]
=============================================================================
