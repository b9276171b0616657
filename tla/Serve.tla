------------------------------- MODULE Serve -------------------------------
(* `np2ptp serve` (node/main.rs: cmd_serve, load_or_create_seed,             *)
(* wait_for_listeners; node/serve_set.rs; node/portmap.rs; node/tracker.rs)  *)
(* with the tracker it announces to (tracker/api): from the manifests in the *)
(* store directory to the addresses that others are told.  The process may   *)
(* be killed at any step and started again, the power may fail, another      *)
(* process registers and removes manifests, and the tracker may be down,     *)
(* slow or restarted.                                                        *)
(*                                                                           *)
(* Time passes in periods of the announcements (120 s).  What the tracker    *)
(* keeps of an announcement is its age, which stops counting at Ttl.         *)
EXTENDS Integers, FiniteSets

CONSTANTS
    Roots,
    Invocations,    \* [all, given, public, relay, tracker]: how serve is called
    Ttl,            \* TTL_SECONDS, in periods (1800 s are 15)
    MaxSlow,        \* periods that one round of announcements may last
    MaxStarts,      \* starts of the process
    MaxEvents,      \* power failures, manifests registered or removed by another
                    \* process, failed announcements, restarts of the tracker,
                    \* changes of the router's mapping and of the circuit
    None

ASSUME ServeAssumption ==
    /\ Invocations \subseteq [all : BOOLEAN, given : SUBSET Roots, public : BOOLEAN,
                              relay : {"auto", "given", "never"}, tracker : BOOLEAN]
    /\ Ttl \in Nat \ {0, 1}
    /\ {MaxSlow, MaxStarts, MaxEvents} \subseteq Nat
    /\ None \notin Invocations /\ None \notin 0 .. MaxStarts

VARIABLES
    pc,         \* where cmd_serve is
    args,       \* how it was called
    listing,    \* registry entries still to be read, manifests still to be registered
    mine,       \* the manifests it serves
    tmp,        \* the staged file of the registration under way
    registry,   \* registry[r]: "none", "whole", "soft" (not on the disk yet), "torn"
    key,        \* identity.key: None, 0 (not 32 bytes), or the seed; seeds are numbers
    keySoft,    \* the key has not reached the disk
    id,         \* the seed the process runs with
    addrs,      \* "local", "external", "circuit": what the node listens on or has confirmed
    mapped,     \* the router has answered a NAT-PMP/PCP request
    todo,       \* roots left in this round of announcements, with which addresses
    until,      \* periods until the next tick of announce_interval
    slow,       \* periods this round has lasted
    table,      \* tracker: table[i][r], the last announcement of r by i
    steady,     \* roots registered since this start
    ids,        \* seeds the node has run with
    missed,     \* missed[r]: failed or late announcements since the last good one
    used        \* how much of the bounds is used up

disk == <<registry, key, keySoft>>
process == <<args, listing, mine, tmp, id, addrs, mapped>>
clocks == <<todo, until, slow>>
ghosts == <<steady, ids, missed>>
vars == <<pc, args, listing, mine, tmp, id, addrs, mapped, disk, clocks, table, ghosts, used>>

Event == used.events < MaxEvents /\ used' = [used EXCEPT !.events = @ + 1]

Seeds == 1 .. MaxStarts
Unknown == [age |-> Ttl, addrs |-> {}]
NoRound == [roots |-> {}, addrs |-> {}, next |-> "idle"]
Loop == {"idle", "announce"}
Down == {"down", "failed"}

Init ==
    /\ pc = "down" /\ args = None /\ listing = {} /\ mine = {} /\ tmp = "none"
    /\ registry \in [Roots -> {"none", "whole"}]
    /\ key = None /\ keySoft = FALSE /\ id = None
    /\ addrs = {} /\ mapped = FALSE
    /\ todo = NoRound /\ until = 0 /\ slow = 0
    /\ table = [i \in Seeds |-> [r \in Roots |-> Unknown]]
    /\ steady = {} /\ ids = {} /\ missed = [r \in Roots |-> Ttl]
    /\ used = [starts |-> 0, cuts |-> 0, events |-> 0]

-----------------------------------------------------------------------------
(* Which manifests to serve: collect_serve_manifests, register_manifest *)

Registered == {r \in Roots : registry[r] # "none"}

Start ==
    /\ pc \in Down /\ used.starts < MaxStarts
    /\ used' = [used EXCEPT !.starts = @ + 1]
    /\ \E a \in Invocations :
         /\ args' = a
         /\ IF a.all <=> a.given # {} THEN pc' = "failed"
            ELSE pc' = "collect"
         /\ listing' = IF a.all THEN Registered ELSE a.given
    /\ mine' = {} /\ tmp' = "none" /\ id' = None /\ addrs' = {} /\ mapped' = FALSE
    /\ steady' = Registered
    /\ missed' = [r \in Roots |-> Ttl]
    /\ UNCHANGED <<disk, clocks, table, ids>>

\* A file that is gone by now, or does not decode, is skipped.
BugGoneAborts(r) == [pc |-> IF registry[r] = "whole" THEN "collect" ELSE "failed",
                     mine |-> IF registry[r] = "whole" THEN mine \cup {r} ELSE mine]
ReadEntry(r) == [pc |-> "collect",
                 mine |-> IF registry[r] \in {"whole", "soft"} THEN mine \cup {r} ELSE mine]

\* A manifest that is given has to be there and to decode.
Collect ==
    /\ pc = "collect"
    /\ IF listing # {}
       THEN \E r \in listing :
              LET read == IF args.all THEN ReadEntry(r) ELSE [pc |-> pc, mine |-> mine \cup {r}]
              IN  /\ listing' = listing \ {r}
                  /\ \/ pc' = read.pc /\ mine' = read.mine
                     \/ ~args.all /\ pc' = "failed" /\ UNCHANGED mine
       ELSE /\ pc' = IF mine = {} THEN "failed" ELSE "register"
            /\ listing' = mine /\ UNCHANGED mine
    /\ UNCHANGED <<args, tmp, id, addrs, mapped, disk, clocks, table, ghosts, used>>

\* Staged in a file of its own, flushed, renamed into place. What a crash
\* leaves of a staged file is never read: its name does not end in .nptp.
BugNotFlushed(staged) ==
    CASE staged = "none" -> "created" [] staged = "created" -> "written"
      [] staged = "written" -> "unflushed"
NextStage(staged) ==
    CASE staged = "none" -> "created" [] staged = "created" -> "written"
      [] staged = "written" -> "flushed"
InPlace(staged) == IF staged = "flushed" THEN "whole" ELSE "soft"

Register ==
    /\ pc = "register"
    /\ IF listing = {} THEN pc' = "seed" /\ UNCHANGED <<tmp, registry, listing, steady>>
       ELSE \E r \in listing :
              /\ UNCHANGED pc
              /\ IF tmp \in {"none", "created", "written"}
                 THEN tmp' = NextStage(tmp) /\ UNCHANGED <<registry, listing, steady>>
                 ELSE /\ registry' = [registry EXCEPT ![r] = InPlace(tmp)]
                      /\ tmp' = "none" /\ listing' = listing \ {r}
                      /\ UNCHANGED steady
    /\ UNCHANGED <<args, mine, id, addrs, mapped, key, keySoft, clocks, table, ids, missed, used>>

\* The daemon over the same store registers a manifest or removes one.
Other ==
    /\ Event
    /\ \E r \in Roots :
         \/ registry' = [registry EXCEPT ![r] = "whole"] /\ UNCHANGED steady
         \/ /\ registry' = [registry EXCEPT ![r] = "none"]
            /\ steady' = steady \ {r}
    /\ UNCHANGED <<pc, process, key, keySoft, clocks, table, ids, missed>>

-----------------------------------------------------------------------------
(* The identity: load_or_create_seed *)

\* The file holds a seed of 32 bytes.
BugNeverFits(k) == FALSE
Fits(k) == k # None /\ k # 0

Spawn(seed) == id' = seed /\ ids' = ids \cup {seed} /\ pc' = "listen"

LoadSeed ==
    /\ pc = "seed"
    /\ IF Fits(key) THEN Spawn(key) /\ UNCHANGED <<key, keySoft>>
       ELSE pc' = "truncated" /\ key' = 0 /\ keySoft' = TRUE /\ UNCHANGED <<id, ids>>
    /\ UNCHANGED <<args, listing, mine, tmp, addrs, mapped, registry, clocks, table, steady, missed, used>>

\* write_secret: the file is truncated, then written, and not flushed.
CreateSeed ==
    /\ pc = "truncated"
    /\ key' = used.starts /\ UNCHANGED keySoft
    /\ Spawn(used.starts)
    /\ UNCHANGED <<args, listing, mine, tmp, addrs, mapped, registry, clocks, table, steady, missed, used>>

-----------------------------------------------------------------------------
(* How others reach the node *)

\* Listen, provide each manifest, wait_for_listeners: the list has held still,
\* or the time for it is over; --public adds an address.
Listen ==
    /\ pc = "listen"
    /\ \E bound \in {{"local"}, {}} :
         /\ addrs' = addrs \cup bound \cup (IF args.public THEN {"external"} ELSE {})
         /\ pc' = IF bound = {} THEN "external" ELSE "map"
    /\ UNCHANGED <<args, listing, mine, tmp, id, mapped, disk, clocks, table, ghosts, used>>

\* An interface that was late.
Bind ==
    /\ pc \in {"external", "relay", "circuit"} \cup Loop /\ "local" \notin addrs
    /\ addrs' = addrs \cup {"local"}
    /\ UNCHANGED <<pc, args, listing, mine, tmp, id, mapped, disk, clocks, table, ghosts, used>>

\* try_map_udp and public_ip: the router may refuse; it may map the port
\* without the node finding out its public address.
MapPort ==
    /\ pc = "map" /\ pc' = "external"
    /\ \/ UNCHANGED <<mapped, addrs>>
       \/ mapped' = TRUE /\ addrs' \in {addrs, addrs \cup {"external"}}
    /\ UNCHANGED <<args, listing, mine, tmp, id, disk, clocks, table, ghosts, used>>

\* An external address is waited for, unless one is taken to be there already,
\* and the relay is the way out.
NeedsRelay(has) == args.relay = "given" \/ (args.relay = "auto" /\ ~has)

DecideRelay ==
    /\ pc = "external"
    /\ pc' = IF NeedsRelay(args.public \/ mapped \/ "external" \in addrs) THEN "relay" ELSE "loop"
    /\ UNCHANGED <<process, disk, clocks, table, ghosts, used>>

\* The relay is dialed, and a circuit asked for; a dial that is refused ends serve.
DialRelay ==
    /\ pc = "relay" /\ pc' \in {"circuit", "failed"}
    /\ UNCHANGED <<process, disk, clocks, table, ghosts, used>>

Round(with, next) == [roots |-> mine, addrs |-> with, next |-> next]

\* With a reservation the circuit is announced at once; without, serve goes on.
AwaitCircuit ==
    /\ pc = "circuit"
    /\ \/ /\ addrs' = addrs \cup {"circuit"}
          /\ IF args.tracker
             THEN pc' = "announce" /\ todo' = Round(addrs' \ {"external"}, "loop")
             ELSE pc' = "loop" /\ UNCHANGED todo
       \/ pc' = "loop" /\ UNCHANGED <<addrs, todo>>
    /\ slow' = 0 /\ until' = 0
    /\ UNCHANGED <<args, listing, mine, tmp, id, mapped, disk, table, ghosts, used>>

\* UPnP maps a port or loses the mapping; a reservation is lost and not renewed.
AddressChanges ==
    /\ pc \in {"map", "external", "relay", "circuit"} \cup Loop /\ Event
    /\ addrs' \in {addrs \cup {"external"}, addrs \ {"external"}, addrs \ {"circuit"}}
    /\ UNCHANGED <<pc, args, listing, mine, tmp, id, mapped, disk, clocks, table, ghosts>>

-----------------------------------------------------------------------------
(* The tracker *)

\* announce: the last announcement of a peer replaces the one before it.
Stored(i, r, with) == [table EXCEPT ![i][r] = [age |-> 0, addrs |-> with]]

\* peers: the ones whose announcement is fresh.
Listed(i, r) == table[i][r].age < Ttl

-----------------------------------------------------------------------------
(* The loop *)

\* The first tick of the interval is immediate.
EnterLoop ==
    /\ pc = "loop"
    /\ pc' = "idle" /\ until' = 0
    /\ steady' = {} /\ mapped' = FALSE
    /\ UNCHANGED <<args, listing, mine, tmp, id, addrs, disk, todo, slow, table, ids, missed, used>>

BugOnce == Ttl
Period == 1

BugExactTick == until = 0

\* A tick that was missed during a long round is made up for.
Due == until <= 0

\* announce_interval: every root, with the addresses of this moment.
AnnounceTick ==
    /\ pc = "idle" /\ args.tracker /\ Due
    /\ pc' = "announce"
    /\ todo' = Round(addrs, "idle")
    /\ until' = until + Period /\ slow' = 0
    /\ UNCHANGED <<process, disk, table, ghosts, used>>

\* tracker::announce. The tracker refuses an announcement without addresses.
AnnounceOne ==
    /\ pc = "announce"
    /\ \E r \in todo.roots :
         /\ todo' = [todo EXCEPT !.roots = @ \ {r}]
         /\ \/ /\ todo.addrs # {}
               /\ table' = Stored(id, r, todo.addrs) /\ missed' = [missed EXCEPT ![r] = 0]
               /\ UNCHANGED used
            \/ /\ todo.addrs # {} => Event
               /\ todo.addrs = {} => UNCHANGED used
               /\ missed' = [missed EXCEPT ![r] = IF @ < Ttl THEN @ + 1 ELSE @]
               /\ UNCHANGED table
    /\ UNCHANGED <<pc, process, disk, until, slow, steady, ids>>

AnnounceDone ==
    /\ pc = "announce" /\ todo.roots = {}
    /\ pc' = todo.next /\ todo' = NoRound
    /\ UNCHANGED <<process, disk, until, slow, table, ghosts, used>>

\* A period passes. The loop is not late for a tick; a round that waits for the
\* tracker may be.
Older(e) == IF e.age + 1 < Ttl THEN [e EXCEPT !.age = @ + 1] ELSE Unknown
Tick ==
    /\ pc \in Down \cup Loop
    /\ pc = "idle" /\ args.tracker => until > 0
    /\ pc = "announce" => slow < MaxSlow
    /\ slow' = IF pc = "announce" THEN slow + 1 ELSE slow
    /\ until' = IF pc \in Loop /\ args.tracker /\ until > -MaxSlow THEN until - 1 ELSE until
    /\ table' = [i \in Seeds |-> [r \in Roots |-> Older(table[i][r])]]
    /\ missed' = IF pc = "announce" THEN [r \in Roots |-> IF missed[r] < Ttl THEN missed[r] + 1 ELSE Ttl]
                 ELSE missed
    /\ UNCHANGED <<pc, process, disk, todo, steady, ids, used>>

-----------------------------------------------------------------------------
(* Failures *)

Gone ==
    /\ pc' = "down" /\ args' = None /\ listing' = {} /\ mine' = {} /\ tmp' = "none"
    /\ id' = None /\ addrs' = {} /\ mapped' = FALSE
    /\ todo' = NoRound /\ until' = 0 /\ slow' = 0 /\ steady' = {}
    /\ missed' = [r \in Roots |-> Ttl]

\* The process is killed, or leaves with an error.
Kill ==
    /\ pc \notin Down \cup {"idle"} /\ Gone
    /\ UNCHANGED <<disk, table, ids, used>>

\* Ctrl-C is heard while the loop waits, not in the middle of a round.
Stop ==
    /\ pc = "idle" /\ Gone
    /\ UNCHANGED <<disk, table, ids, used>>

\* The power fails: of what was not flushed, anything may be lost.
PowerCut ==
    /\ Gone /\ used.events < MaxEvents
    /\ used' = [used EXCEPT !.cuts = @ + 1, !.events = @ + 1]
    /\ registry' \in {f \in [Roots -> {"none", "whole", "torn"}] :
                        \A r \in Roots : registry[r] # "soft" => f[r] = registry[r]}
    /\ key' \in IF keySoft THEN {key, 0} ELSE {key}
    /\ keySoft' = FALSE
    /\ UNCHANGED <<table, ids>>

\* The tracker is restarted without Redis: the Map is empty.
TrackerReset ==
    /\ Event
    /\ table' = [i \in Seeds |-> [r \in Roots |-> Unknown]]
    /\ missed' = [r \in Roots |-> Ttl]
    /\ UNCHANGED <<pc, process, disk, clocks, steady, ids>>

Work ==
    \/ Collect \/ Register \/ LoadSeed \/ CreateSeed \/ Listen \/ MapPort \/ DecideRelay
    \/ DialRelay \/ AwaitCircuit \/ EnterLoop \/ AnnounceTick \/ AnnounceOne \/ AnnounceDone

Next ==
    \/ Start \/ Work \/ Other \/ Bind \/ AddressChanges \/ Tick
    \/ Kill \/ Stop \/ PowerCut \/ TrackerReset

\* The process is scheduled, and time passes.
Spec == Init /\ [][Next]_vars /\ WF_vars(Work) /\ WF_vars(Tick)

-----------------------------------------------------------------------------
(* Properties *)

Places == {"collect", "register", "seed", "truncated", "listen", "map", "external", "relay",
           "circuit", "loop"} \cup Loop \cup Down
Addresses == {"local", "external", "circuit"}

TypeOK ==
    /\ pc \in Places /\ args \in Invocations \cup {None}
    /\ listing \subseteq Roots /\ mine \subseteq Roots /\ steady \subseteq Roots
    /\ tmp \in {"none", "created", "written", "flushed"}
    /\ registry \in [Roots -> {"none", "whole", "soft", "torn"}]
    /\ key \in {None, 0} \cup Seeds /\ id \in {None} \cup Seeds /\ ids \subseteq Seeds
    /\ keySoft \in BOOLEAN /\ mapped \in BOOLEAN /\ addrs \subseteq Addresses
    /\ todo \in [roots : SUBSET Roots, addrs : SUBSET Addresses, next : {"idle", "loop"}]
    /\ until \in -MaxSlow .. Period /\ slow \in 0 .. MaxSlow
    /\ table \in [Seeds -> [Roots -> [age : 0 .. Ttl, addrs : SUBSET Addresses]]]
    /\ missed \in [Roots -> 0 .. Ttl]
    /\ used \in [starts : 0 .. MaxStarts, cuts : Nat, events : Nat]

\* Whatever is killed or cut off, the registry holds whole manifests only: a
\* file is flushed before it gets its name ("a power cut mid-register must not
\* leave the manifest empty"). (The types of the variables are part of it.)
RegistryWhole == TypeOK /\ \A r \in Roots : registry[r] # "torn"

\* serve --all serves every manifest that was registered before it started and
\* is not removed meanwhile; manifests that disappear under it do not keep it
\* from serving the others.
AllServed ==
    args # None /\ args.all /\ args.given = {} /\ pc \notin {"collect", "down"} =>
        IF pc = "failed" /\ id = None THEN steady = {} ELSE steady \subseteq mine

\* Restarting serve on the same store keeps the peer id, wherever the process
\* was killed before, unless a power failure took the key.
SameIdentity == Cardinality(ids) <= 1 + used.cuts

\* A node that is up stays in the tracker's lists while fewer announcements in
\* a row are missed, by failures or by slow rounds, than the time to live is
\* long, less one.
LiveStaysListed ==
    pc \in Loop => \A r \in mine : missed[r] + 1 < Ttl => Listed(id, r)

\* A node that stays up is listed, with the addresses it has then, and again
\* after every failure of the tracker and every change of the addresses.
Current(r) == Listed(id, r) /\ table[id][r].addrs = addrs
Relisted ==
    \A r \in Roots :
        pc = "idle" /\ args.tracker /\ r \in mine ~> pc \notin Loop \/ addrs = {} \/ Current(r)
=============================================================================
