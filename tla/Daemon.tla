------------------------------- MODULE Daemon -------------------------------
(***************************************************************************)
(* The daemon of np2ptp-node (daemon/mod.rs): a client writes requests to  *)
(* its stdin, each one runs in a task of its own, and all events go        *)
(* through one channel to a writer that prints them on stdout.  The tasks  *)
(* share the roots that the network provides, the registry of manifests on *)
(* disk and the map of announce loops.  A shutdown, a closed stdin or a    *)
(* broken stdout ends the main loop; the daemon then waits for the writer, *)
(* but no longer than SHUTDOWN_GRACE, and the runtime is dropped.          *)
(*                                                                         *)
(* The model is of the build without the librqbit feature.  Of the         *)
(* progress events only the one with done = total is kept, the others      *)
(* being throttled by the clock.                                           *)
(***************************************************************************)
EXTENDS Naturals, Sequences, FiniteSets

CONSTANTS
    Ids,            \* the requests, named by their ids
    Roots,          \* content that can be provided
    Clients,        \* what clients there are: whether the client waits for each
                    \* answer before it goes on, how many lines it sends, of
                    \* which commands
    Attempts,       \* downloads that a fetch tries
    None,
    MaxPanics,      \* bound: tasks that panic
    MaxDiskErrors,  \* bound: files that cannot be read, written or removed
    MaxWarns        \* bound: warnings about the relay and the tracker

AllCmds == {"fetch", "convert", "bridge", "torrent", "provide", "provide root",
            "unprovide", "status", "dial", "shutdown", "bad line", "oversized line"}
AboutRoot == {"convert", "bridge", "provide", "provide root", "unprovide"}

ASSUME ClientsAssumption == Clients \subseteq [awaits : BOOLEAN, lines : Nat, cmds : SUBSET AllCmds]
ASSUME AttemptsAssumption == Attempts \in Nat \ {0}
ASSUME NoneAssumption == None \notin Ids \cup Roots \cup AllCmds
ASSUME BoundsAssumption == {MaxPanics, MaxDiskErrors, MaxWarns} \subseteq Nat

VARIABLES
    client,     \* the client of this behaviour
    task,       \* of every request: what it asks and how far its task is
    inbox,      \* lines that the reader thread has passed on
    stdin,      \* "open" or "closed"
    stdout,     \* "open" or "broken"
    phase,      \* of run_daemon: see Phases
    permit,     \* the stored permit of Notify
    writer,     \* "running" or "stopped"
    outq,       \* events in the channel to the writer
    printed,    \* events on stdout
    provided,   \* the roots that the network provides
    registry,   \* the roots with a file in <store>/manifests
    announces,  \* the map of announce loops: the request that started it
    live,       \* the announce loops that are running
    used        \* how much of the bounds is used up

streams == <<inbox, stdin, stdout, phase, permit>>
output == <<writer, outq, printed>>
seeding == <<provided, registry, announces, live>>
vars == <<client, task, inbox, stdin, stdout, phase, permit, writer, outq, printed,
          provided, registry, announces, live, used>>

(* The stages of a task; the ones in Blocking run on the blocking pool.    *)
Blocking == {"ingest", "export"}
InFlight == Blocking \cup {"begin", "download", "publish", "provide", "register", "announce",
                           "list", "unprovide", "remove", "ended"}
Stages == InFlight \cup {"unsent", "queued", "done", "dropped"}
Phases == {"starting", "running", "draining", "returned", "exited"}
Kinds == {"ready", "warn", "complete", "result", "error"}
Events == [id : Ids \cup {None}, kind : Kinds]
Tasks == [cmd : AllCmds \cup {None}, root : Roots \cup {None}, at : Stages,
          outcome : {"result", "error", None}, tries : 0 .. Attempts - 1]
Bounded == {"panics", "disk", "warns"}

TypeOK ==
    /\ task \in [Ids -> Tasks]
    /\ inbox \in Seq(Ids)
    /\ stdin \in {"open", "closed"}
    /\ stdout \in {"open", "broken"}
    /\ phase \in Phases
    /\ permit \in BOOLEAN
    /\ writer \in {"running", "stopped"}
    /\ outq \in Seq(Events)
    /\ printed \in Seq(Events)
    /\ provided \in SUBSET Roots
    /\ registry \in SUBSET Roots
    /\ announces \in [Roots -> Ids \cup {None}]
    /\ live \in SUBSET Ids
    /\ used \in [Bounded -> Nat]

Init ==
    /\ client \in Clients
    /\ task = [id \in Ids |-> [cmd |-> None, root |-> None, at |-> "unsent",
                               outcome |-> None, tries |-> 0]]
    /\ inbox = <<>>
    /\ stdin = "open"
    /\ stdout = "open"
    /\ phase = "starting"
    /\ permit = FALSE
    /\ writer = "running"
    /\ outq = <<>>
    /\ printed = <<>>
    /\ provided = {}
    /\ registry = {}
    /\ announces = [r \in Roots |-> None]
    /\ live = {}
    /\ used = [b \in Bounded |-> 0]

-----------------------------------------------------------------------------
(* The channel to the writer.  A definition whose name begins with Bug is  *)
(* a deliberate mistake in the one after it.                               *)

Event(id, kind) == [id |-> id, kind |-> kind]
Terminal == {"result", "error"}

(* tx.send, which fails silently when the writer has closed the channel.   *)
Send(events) ==
    /\ outq' = IF writer = "running" THEN outq \o events ELSE outq
    /\ UNCHANGED <<writer, printed>>

Said(id, kinds) == \E i \in DOMAIN printed : printed[i].id = id /\ printed[i].kind \in kinds

(* Who holds a strong sender: the main loop, every task and announce loop. *)
(* The reader thread has a weak one.                                       *)
Senders == (IF phase \in {"starting", "running"} THEN {"run_daemon"} ELSE {})
           \cup {id \in Ids : task[id].at \in InFlight} \cup live

Use(b, limit) == used[b] < limit /\ used' = [used EXCEPT ![b] = @ + 1]

WriteLine ==
    /\ writer = "running"
    /\ outq # <<>>
    /\ stdout = "open"
    /\ printed' = Append(printed, Head(outq))
    /\ outq' = Tail(outq)
    /\ UNCHANGED <<task, streams, writer, seeding, used, client>>

(* A write fails: the writer asks for a shutdown and closes the channel.   *)
WriterFails ==
    /\ writer = "running"
    /\ outq # <<>>
    /\ stdout = "broken"
    /\ writer' = "stopped"
    /\ outq' = <<>>
    /\ permit' = TRUE
    /\ UNCHANGED <<task, inbox, stdin, stdout, phase, printed, seeding, used, client>>

WriterEnds ==
    /\ writer = "running"
    /\ outq = <<>>
    /\ Senders = {}
    /\ writer' = "stopped"
    /\ UNCHANGED <<task, streams, outq, printed, seeding, used, client>>

-----------------------------------------------------------------------------
(* The client, and the thread that reads its lines.                        *)

Answered(id) == Said(id, Terminal) \/ task[id].cmd = "oversized line"

SendLine(id, cmd, root) ==
    /\ stdin = "open"
    /\ phase \in {"starting", "running"}
    /\ task[id].at = "unsent"
    /\ Cardinality({other \in Ids : task[other].at # "unsent"}) < client.lines
    /\ client.awaits => \A other \in Ids : task[other].at # "unsent" => Answered(other)
    /\ IF cmd = "oversized line"
       THEN /\ task' = [task EXCEPT ![id].cmd = cmd, ![id].at = "done"]
            /\ Send(<<Event(None, "error")>>)
            /\ UNCHANGED inbox
       ELSE /\ task' = [task EXCEPT ![id].cmd = cmd, ![id].root = root, ![id].at = "queued"]
            /\ inbox' = Append(inbox, id)
            /\ UNCHANGED output
    /\ UNCHANGED <<stdin, stdout, phase, permit, seeding, used, client>>

CloseStdin ==
    /\ stdin = "open"
    /\ stdin' = "closed"
    /\ UNCHANGED <<task, inbox, stdout, phase, permit, output, seeding, used, client>>

BreakStdout ==
    /\ stdout = "open"
    /\ stdout' = "broken"
    /\ UNCHANGED <<task, inbox, stdin, phase, permit, output, seeding, used, client>>

-----------------------------------------------------------------------------
(* run_daemon                                                              *)

(* Setting up, with a warning if the relay cannot be dialled.              *)
Ready ==
    /\ phase = "starting"
    /\ phase' = "running"
    /\ \/ Send(<<Event(None, "ready")>>) /\ UNCHANGED used
       \/ Send(<<Event(None, "warn"), Event(None, "ready")>>) /\ Use("warns", MaxWarns)
    /\ UNCHANGED <<task, inbox, stdin, stdout, permit, seeding, client>>

(* handle_line answers a line that is no request at once; dial is taken    *)
(* out before, as it would not parse.                                      *)
BugDialFallsThrough(cmd) == cmd \in {"bad line", "dial"}
FailsToParse(cmd) == cmd = "bad line"
HandleLine ==
    /\ phase = "running"
    /\ inbox # <<>>
    /\ inbox' = Tail(inbox)
    /\ LET id == Head(inbox)
           cmd == task[id].cmd
       IN  /\ task' = [task EXCEPT ![id].at = IF cmd = "bad line" THEN "done" ELSE "begin"]
           /\ IF FailsToParse(cmd) THEN Send(<<Event(id, "error")>>) ELSE UNCHANGED output
    /\ UNCHANGED <<stdin, stdout, phase, permit, seeding, used, client>>

(* The two ways out of the select loop; the context is dropped.            *)
LoopEnds ==
    /\ phase = "running"
    /\ \/ permit /\ permit' = FALSE
       \/ stdin = "closed" /\ inbox = <<>> /\ UNCHANGED permit
    /\ phase' = "draining"
    /\ UNCHANGED <<task, inbox, stdin, stdout, output, seeding, used, client>>

(* SHUTDOWN_GRACE has passed.  It is long for a step that waits for        *)
(* nothing: a task whose operation has returned has sent its event.        *)
BugNoGrace == FALSE
GraceOver == \A id \in Ids :
    /\ task[id].at # "ended"
    /\ ~(task[id].cmd = "shutdown" /\ task[id].at = "begin")

(* run_daemon returns and the runtime is dropped: asynchronous tasks end   *)
(* where they are, what runs on the blocking pool goes on.                 *)
Cancelled(t) == IF t.at \in InFlight \ Blocking THEN [t EXCEPT !.at = "dropped"] ELSE t
Return ==
    /\ phase = "draining"
    /\ writer = "stopped" \/ GraceOver
    /\ phase' = "returned"
    /\ task' = [id \in Ids |-> Cancelled(task[id])]
    /\ live' = {}
    /\ UNCHANGED <<inbox, stdin, stdout, permit, output, provided, registry, announces, used, client>>

(* Dropping the runtime waits for the blocking pool, where the writer runs *)
(* too.                                                                    *)
BugLeavesWriter == \A id \in Ids : task[id].at \notin Blocking
PoolIdle == writer = "stopped" /\ \A id \in Ids : task[id].at \notin Blocking
Exit ==
    /\ phase = "returned"
    /\ PoolIdle
    /\ phase' = "exited"
    /\ UNCHANGED <<task, inbox, stdin, stdout, permit, output, seeding, used, client>>

-----------------------------------------------------------------------------
(* Tasks.  execute runs the operation and sends its one terminal event.    *)

Async(id) == phase \in {"running", "draining"}
At(id, stage, cmds) == task[id].at = stage /\ task[id].cmd \in cmds
GoTo(id, stage) == task' = [task EXCEPT ![id].at = stage]
End(id, outcome) == task' = [task EXCEPT ![id].at = "ended", ![id].outcome = outcome]

Report(id) ==
    /\ Async(id)
    /\ task[id].at = "ended"
    /\ GoTo(id, "done")
    /\ Send(<<Event(id, task[id].outcome)>>)
    /\ UNCHANGED <<streams, seeding, used, client>>

(* A panic is caught by the outer task, which answers "internal error".    *)
(* Nothing can panic between the spawn of an announce loop and its insert. *)
BugPanicUnseen(id) == GoTo(id, "done")
Caught(id) == End(id, "error")
Panic(id) ==
    /\ Async(id)
    /\ task[id].at \in InFlight \ (Blocking \cup {"list", "ended"})
    /\ Use("panics", MaxPanics)
    /\ Caught(id)
    /\ UNCHANGED <<streams, output, seeding, client>>

Shutdown(id) ==
    /\ Async(id)
    /\ At(id, "begin", {"shutdown"})
    /\ permit' = TRUE
    /\ End(id, "result")
    /\ UNCHANGED <<inbox, stdin, stdout, phase, output, seeding, used, client>>

(* status only reads, dial leaves nothing behind in the daemon, and        *)
(* torrent is refused.                                                     *)
Status(id) ==
    /\ Async(id)
    /\ At(id, "begin", {"status"})
    /\ End(id, "result")
    /\ UNCHANGED <<streams, output, seeding, used, client>>

Dial(id) ==
    /\ Async(id)
    /\ At(id, "begin", {"dial"})
    /\ \E outcome \in Terminal : End(id, outcome)
    /\ UNCHANGED <<streams, output, seeding, used, client>>

Torrent(id) ==
    /\ Async(id)
    /\ At(id, "begin", {"torrent"})
    /\ End(id, "error")
    /\ UNCHANGED <<streams, output, seeding, used, client>>

-----------------------------------------------------------------------------
(* fetch                                                                   *)

(* run_fetch looks for peers, with a warning if the tracker fails, ...     *)
Discover(id) ==
    /\ Async(id)
    /\ At(id, "begin", {"fetch"})
    /\ \/ UNCHANGED <<output, used>>
       \/ Send(<<Event(None, "warn")>>) /\ Use("warns", MaxWarns)
    /\ GoTo(id, "download") \/ End(id, "error")
    /\ UNCHANGED <<streams, seeding, client>>

(* ... tries to download, while attempts and time are left, ...            *)
MayRetry(t) == t.tries + 1 < Attempts
Download(id) ==
    /\ Async(id)
    /\ task[id].at = "download"
    /\ \/ GoTo(id, "export") /\ Send(<<Event(id, "complete")>>)
       \/ /\ MayRetry(task[id])
          /\ task' = [task EXCEPT ![id].tries = @ + 1]
          /\ UNCHANGED output
       \/ End(id, "error") /\ UNCHANGED output
    /\ UNCHANGED <<streams, seeding, used, client>>

(* ... and exports what it has, on the blocking pool.  convert ingests     *)
(* there.  With the runtime gone nobody takes the result.                  *)
AfterPool(id, stage) ==
    IF phase = "returned" THEN GoTo(id, "dropped")
    ELSE IF stage = "ended" THEN End(id, "result") ELSE GoTo(id, stage)

OnPool(id, from, to) ==
    /\ phase \in {"running", "draining", "returned"}
    /\ task[id].at = from
    /\ \/ AfterPool(id, to) /\ Send(<<Event(id, "complete")>>) /\ UNCHANGED used
       \/ /\ Use("disk", MaxDiskErrors)
          /\ IF phase = "returned" THEN GoTo(id, "dropped") ELSE End(id, "error")
          /\ UNCHANGED output
    /\ UNCHANGED <<streams, seeding, client>>

Export(id) == OnPool(id, "export", "ended")
Ingest(id) == OnPool(id, "ingest", "register")

-----------------------------------------------------------------------------
(* convert, provide and unprovide                                          *)

(* run_convert of a path: its files are listed first.                      *)
Convert(id) ==
    /\ Async(id)
    /\ At(id, "begin", {"convert"})
    /\ GoTo(id, "ingest") \/ End(id, "error")
    /\ UNCHANGED <<streams, output, seeding, used, client>>

(* run_convert of a torrent: the content is found on the network, or       *)
(* converted and provided by the bridge, or neither.                       *)
Bridge(id) ==
    /\ Async(id)
    /\ At(id, "begin", {"bridge"})
    /\ GoTo(id, "register") \/ GoTo(id, "publish") \/ End(id, "error")
    /\ UNCHANGED <<streams, output, seeding, used, client>>

(* load_provide_manifest: from a path, or by its root from the registry.   *)
Load(id) ==
    /\ Async(id)
    /\ \/ At(id, "begin", {"provide"}) /\ GoTo(id, "provide") /\ UNCHANGED used
       \/ At(id, "begin", {"provide root"}) /\ UNCHANGED used
          /\ IF task[id].root \in registry THEN GoTo(id, "provide") ELSE End(id, "error")
       \/ At(id, "begin", {"provide", "provide root"}) /\ Use("disk", MaxDiskErrors) /\ End(id, "error")
    /\ UNCHANGED <<streams, output, seeding, client>>

(* Network::provide; commands take effect in the order they are sent.      *)
Provide(id) ==
    /\ Async(id)
    /\ task[id].at \in {"provide", "publish"}
    /\ provided' = provided \cup {task[id].root}
    /\ GoTo(id, "register")
    /\ UNCHANGED <<streams, output, registry, announces, live, used, client>>

(* register_manifest: a rename puts the file in place.                     *)
Register(id) ==
    /\ Async(id)
    /\ task[id].at = "register"
    /\ \/ /\ registry' = registry \cup {task[id].root}
          /\ IF task[id].cmd \in {"provide", "provide root"} THEN GoTo(id, "announce") ELSE End(id, "result")
          /\ UNCHANGED used
       \/ Use("disk", MaxDiskErrors) /\ End(id, "error") /\ UNCHANGED registry
    /\ UNCHANGED <<streams, output, provided, announces, live, client>>

(* The announce loop is spawned ...                                        *)
Announce(id) ==
    /\ Async(id)
    /\ task[id].at = "announce"
    /\ live' = live \cup {id}
    /\ GoTo(id, "list")
    /\ UNCHANGED <<streams, output, provided, registry, announces, used, client>>

(* ... and put into the map, which aborts the one it replaces.             *)
BugOldRuns(root) == live
Aborted(root) == live \ {announces[root]}
List(id) ==
    /\ Async(id)
    /\ task[id].at = "list"
    /\ announces' = [announces EXCEPT ![task[id].root] = id]
    /\ live' = Aborted(task[id].root)
    /\ End(id, "result")
    /\ UNCHANGED <<streams, output, provided, registry, used, client>>

(* run_unprovide takes the announce loop from the map and aborts it, ...   *)
BugStaysListed(root) == announces
Unlisted(root) == [announces EXCEPT ![root] = None]
Unannounce(id) ==
    /\ Async(id)
    /\ At(id, "begin", {"unprovide"})
    /\ announces' = Unlisted(task[id].root)
    /\ live' = Aborted(task[id].root)
    /\ GoTo(id, "unprovide")
    /\ UNCHANGED <<streams, output, provided, registry, used, client>>

(* ... has the network stop, ...                                           *)
Unprovide(id) ==
    /\ Async(id)
    /\ task[id].at = "unprovide"
    /\ provided' = provided \ {task[id].root}
    /\ GoTo(id, "remove")
    /\ UNCHANGED <<streams, output, registry, announces, live, used, client>>

(* ... and removes the registry's file, or warns that it could not.        *)
Remove(id) ==
    /\ Async(id)
    /\ task[id].at = "remove"
    /\ End(id, "result")
    /\ \/ registry' = registry \ {task[id].root} /\ UNCHANGED <<output, used>>
       \/ Use("disk", MaxDiskErrors) /\ Send(<<Event(None, "warn")>>) /\ UNCHANGED registry
    /\ UNCHANGED <<streams, provided, announces, live, client>>

(* announce_loop reports that the tracker cannot be reached.               *)
AnnounceFails ==
    /\ live # {}
    /\ Use("warns", MaxWarns)
    /\ Send(<<Event(None, "warn")>>)
    /\ UNCHANGED <<task, streams, seeding, client>>

-----------------------------------------------------------------------------
Step(id) ==
    \/ Report(id) \/ Shutdown(id) \/ Status(id) \/ Dial(id) \/ Torrent(id)
    \/ Discover(id) \/ Download(id) \/ Export(id)
    \/ Convert(id) \/ Ingest(id) \/ Bridge(id)
    \/ Load(id) \/ Provide(id) \/ Register(id) \/ Announce(id) \/ List(id)
    \/ Unannounce(id) \/ Unprovide(id) \/ Remove(id)

Loop == Ready \/ HandleLine \/ LoopEnds \/ Return \/ Exit
Writer == WriteLine \/ WriterFails \/ WriterEnds

Next ==
    \/ \E id \in Ids, cmd \in client.cmds :
          \E root \in IF cmd \in AboutRoot THEN Roots ELSE {None} : SendLine(id, cmd, root)
    \/ CloseStdin \/ BreakStdout
    \/ Loop
    \/ Writer
    \/ \E id \in Ids : Step(id) \/ Panic(id)
    \/ AnnounceFails

(* Every task that can run does, the writer writes and the main loop goes  *)
(* on: tokio schedules them all, and no step of a task waits for ever,     *)
(* since requests, tracker calls and retries have deadlines and an export  *)
(* is finite.  Nothing is assumed of the client.                           *)
Fairness == WF_vars(Loop) /\ WF_vars(Writer) /\ \A id \in Ids : WF_vars(Step(id))

Spec == Init /\ [][Next]_vars /\ Fairness

-----------------------------------------------------------------------------
(* Properties                                                              *)

AllEvents == printed \o outq

(* No request is answered twice, and nothing more is said of a request     *)
(* that has been answered: bad lines, panics, retries and work on the      *)
(* blocking pool included.                                                 *)
TerminalOnce ==
    \A i, j \in DOMAIN AllEvents :
        i < j /\ AllEvents[i].id # None /\ AllEvents[i].kind \in Terminal
        => AllEvents[j].id # AllEvents[i].id

(* An announce loop that runs can be aborted: it is the one in the map for *)
(* its root, or its provide is about to put it there.  (The types of the   *)
(* variables are part of it.)                                              *)
NoOrphanAnnouncer ==
    TypeOK /\ \A t \in live : announces[task[t].root] = t \/ task[t].at = "list"

(* The process does not leave with events unwritten: whatever was sent     *)
(* before the end, even after the grace, is on stdout if that still works. *)
AllPrinted == phase = "exited" /\ stdout = "open" => outq = <<>>

(* A root that status lists, and that a loop keeps announcing to the       *)
(* tracker as "still provided locally", is provided and registered once    *)
(* no request for it is under way.                                         *)
ListedIsServed ==
    \A r \in Roots :
        /\ announces[r] # None
        /\ \A id \in Ids : task[id].root = r => task[id].at \notin InFlight
        => r \in provided \cap registry

(* A client that waits for each answer can rely on it, whatever fails.     *)
SerialListed == client.awaits => ListedIsServed

(* Every line that asks for something is answered, by a result or an       *)
(* error, unless the daemon is told to stop or its stdout is gone.         *)
EveryRequestAnswered ==
    \A id \in Ids :
        task[id].at = "queued" ~>
            Said(id, Terminal) \/ stdout = "broken" \/ phase \notin {"starting", "running"}

(* "`shutdown` = result then clean exit": the result is printed, whatever  *)
(* else is under way, and the process exits, with announce loops that      *)
(* never end and a client that leaves stdin open.                          *)
ShutdownEnds ==
    /\ \A id \in Ids :
          At(id, "begin", {"shutdown"}) ~> Said(id, {"result", "error"}) \/ stdout = "broken"
    /\ permit \/ phase = "draining" ~> phase = "exited"
=============================================================================
