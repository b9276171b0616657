---------------------------- MODULE DaemonProofs ----------------------------
(***************************************************************************)
(* Proofs about Daemon for any requests, roots, clients and bounds.        *)
(***************************************************************************)
EXTENDS Daemon, SequenceTheorems, TLAPS

(* The stages of requests about a root.                                    *)
Rooted == {"ingest", "publish", "provide", "register", "announce", "list", "unprovide", "remove"}

(* What a stage says of the request.                                       *)
StagedTask(t) ==
    /\ t.cmd \in AboutRoot => t.root \in Roots
    /\ t.at \in Rooted => t.cmd \in AboutRoot
    /\ t.at = "ingest" => t.cmd = "convert"
    /\ t.at = "ended" => t.outcome \in Terminal
    /\ t.cmd = "oversized line" => t.at = "done"

Staged == \A id \in Ids : StagedTask(task[id])

(* A line waits in the inbox once, and its task has not begun.             *)
Queued ==
    /\ \A i \in DOMAIN inbox : task[inbox[i]].at = "queued"
    /\ \A i, j \in DOMAIN inbox : inbox[i] = inbox[j] => i = j

IndInv == TypeOK /\ client \in Clients /\ Staged /\ Queued

-----------------------------------------------------------------------------
(* What a step of a task changes of the task.                              *)

Only(id) == /\ task' \in [Ids -> Tasks]
            /\ \A other \in Ids \ {id} : task'[other] = task[other]
            /\ task'[id].cmd = task[id].cmd /\ task'[id].root = task[id].root

LEMMA GoToFact ==
    ASSUME task \in [Ids -> Tasks], NEW id \in Ids, NEW stage \in Stages, GoTo(id, stage)
    PROVE  Only(id) /\ task'[id].at = stage /\ task'[id].outcome = task[id].outcome
<1>1. task' = [task EXCEPT ![id] = [task[id] EXCEPT !.at = stage]]
  BY DEF GoTo
<1>2. task[id] \in Tasks
  OBVIOUS
<1>3. [task[id] EXCEPT !.at = stage] \in Tasks
  BY <1>2 DEF Tasks
<1>4. task'[id] = [task[id] EXCEPT !.at = stage]
  BY <1>1
<1> QED BY <1>1, <1>2, <1>3, <1>4 DEF Only, Tasks

LEMMA EndFact ==
    ASSUME task \in [Ids -> Tasks], NEW id \in Ids, NEW outcome \in Terminal, End(id, outcome)
    PROVE  Only(id) /\ task'[id].at = "ended" /\ task'[id].outcome = outcome
<1>1. task' = [task EXCEPT ![id] = [task[id] EXCEPT !.at = "ended", !.outcome = outcome]]
  BY DEF End
<1>2. task[id] \in Tasks
  OBVIOUS
<1>3. [task[id] EXCEPT !.at = "ended", !.outcome = outcome] \in Tasks
  BY <1>2 DEF Tasks, Stages, InFlight, Terminal
<1>4. task'[id] = [task[id] EXCEPT !.at = "ended", !.outcome = outcome]
  BY <1>1
<1> QED BY <1>1, <1>2, <1>3, <1>4 DEF Only, Tasks

LEMMA RetryFact ==
    ASSUME task \in [Ids -> Tasks], NEW id \in Ids, MayRetry(task[id]),
           task' = [task EXCEPT ![id].tries = @ + 1]
    PROVE  Only(id) /\ task'[id].at = task[id].at /\ task'[id].outcome = task[id].outcome
<1>1. task' = [task EXCEPT ![id] = [task[id] EXCEPT !.tries = @ + 1]]
  OBVIOUS
<1>2. task[id] \in Tasks
  OBVIOUS
<1>3. task[id].tries + 1 \in 0 .. Attempts - 1
  BY <1>2, AttemptsAssumption DEF Tasks, MayRetry
<1>4. [task[id] EXCEPT !.tries = @ + 1] \in Tasks
  BY <1>2, <1>3 DEF Tasks
<1>5. task'[id] = [task[id] EXCEPT !.tries = @ + 1]
  BY <1>1
<1> QED BY <1>1, <1>2, <1>4, <1>5 DEF Only, Tasks

LEMMA UseFact ==
    ASSUME used \in [Bounded -> Nat], NEW b \in Bounded, NEW limit, Use(b, limit)
    PROVE  used' \in [Bounded -> Nat]
BY DEF Use

(* A task in flight goes on, says what it has to, and stays what it is.    *)
Advances(id) ==
    /\ Only(id) /\ task[id].at \in InFlight
    /\ task'[id].at \in InFlight \cup {"done", "dropped"}
    /\ StagedTask(task'[id])
    /\ UNCHANGED <<client, inbox, stdin, stdout, phase>>

(* ... with the events that it sends.                                      *)
Speaks(id) ==
    \/ UNCHANGED output /\ task'[id].at # "done"
    \/ Send(<<Event(None, "warn")>>) /\ task'[id].at # "done"
    \/ Send(<<Event(id, "complete")>>) /\ task'[id].at # "done"
    \/ \E kind \in Terminal : Send(<<Event(id, kind)>>) /\ task'[id].at = "done"

LEMMA StepAdvances ==
    ASSUME IndInv, NEW id \in Ids, Step(id) \/ Panic(id)
    PROVE  Advances(id) /\ Speaks(id) /\ used' \in [Bounded -> Nat]
<1> USE DEF streams, output, seeding
<1>0. /\ task \in [Ids -> Tasks] /\ used \in [Bounded -> Nat] /\ StagedTask(task[id])
      /\ "disk" \in Bounded /\ "warns" \in Bounded /\ "panics" \in Bounded
  BY DEF IndInv, TypeOK, Staged, Bounded
<1>1. CASE Report(id)
  <2>1. GoTo(id, "done") /\ task[id].at = "ended" /\ task[id].outcome \in Terminal
    BY <1>1, <1>0 DEF Report, StagedTask
  <2>2. Only(id) /\ task'[id].at = "done"
    BY <2>1, <1>0, GoToFact DEF Stages
  <2> QED
    BY <2>1, <2>2, <1>1, <1>0 DEF Report, Advances, Speaks, StagedTask, InFlight, Rooted, Only
<1>2. CASE Panic(id)
  <2>1. Only(id) /\ task'[id].at = "ended" /\ task'[id].outcome = "error"
    BY <1>2, <1>0, EndFact DEF Panic, Caught, Terminal
  <2>2. used' \in [Bounded -> Nat]
    BY <1>2, <1>0, UseFact DEF Panic
  <2> QED
    BY <2>1, <2>2, <1>2, <1>0
       DEF Panic, Advances, Speaks, StagedTask, InFlight, Rooted, Only, Terminal
<1>3. CASE Shutdown(id) \/ Status(id) \/ Dial(id) \/ Torrent(id)
  <2>1. \E outcome \in Terminal : End(id, outcome)
    BY <1>3 DEF Shutdown, Status, Dial, Torrent, Terminal
  <2>2. Only(id) /\ task'[id].at = "ended" /\ task'[id].outcome \in Terminal
    BY <2>1, <1>0, EndFact
  <2> QED
    BY <2>2, <1>3, <1>0
       DEF Shutdown, Status, Dial, Torrent, At, Advances, Speaks, StagedTask, InFlight, Rooted, Only
<1>4. CASE Discover(id)
  <2>1. GoTo(id, "download") \/ End(id, "error")
    BY <1>4 DEF Discover
  <2>2. /\ Only(id) /\ task'[id].at \in {"download", "ended"}
        /\ task'[id].at = "ended" => task'[id].outcome \in Terminal
    BY <2>1, <1>0, GoToFact, EndFact DEF Stages, InFlight, Terminal
  <2>3. used' \in [Bounded -> Nat]
    BY <1>4, <1>0, UseFact DEF Discover
  <2> QED
    BY <2>2, <2>3, <1>4, <1>0
       DEF Discover, At, Advances, Speaks, StagedTask, InFlight, Rooted, Only
<1>5. CASE Download(id)
  <2>1. \/ GoTo(id, "export") \/ End(id, "error")
        \/ MayRetry(task[id]) /\ task' = [task EXCEPT ![id].tries = @ + 1]
    BY <1>5 DEF Download
  <2>2. /\ Only(id) /\ task'[id].at \in {"export", "ended", "download"}
        /\ task'[id].at = "ended" => task'[id].outcome \in Terminal
    BY <2>1, <1>5, <1>0, GoToFact, EndFact, RetryFact DEF Download, Stages, InFlight, Blocking, Terminal
  <2> QED
    BY <2>2, <1>5, <1>0
       DEF Download, At, Advances, Speaks, StagedTask, InFlight, Blocking, Rooted, Only
<1>6. CASE Export(id)
  <2>1. GoTo(id, "dropped") \/ (\E outcome \in Terminal : End(id, outcome))
    BY <1>6 DEF Export, OnPool, AfterPool, Terminal
  <2>2. /\ Only(id) /\ task'[id].at \in {"dropped", "ended"}
        /\ task'[id].at = "ended" => task'[id].outcome \in Terminal
    BY <2>1, <1>0, GoToFact, EndFact DEF Stages
  <2>3. used' \in [Bounded -> Nat]
    BY <1>6, <1>0, UseFact DEF Export, OnPool
  <2> QED
    BY <2>2, <2>3, <1>6, <1>0
       DEF Export, OnPool, Advances, Speaks, StagedTask, InFlight, Blocking, Rooted, Only
<1>7. CASE Ingest(id)
  <2>1. GoTo(id, "dropped") \/ GoTo(id, "register") \/ End(id, "error")
    BY <1>7 DEF Ingest, OnPool, AfterPool
  <2>2. /\ Only(id) /\ task'[id].at \in {"dropped", "register", "ended"}
        /\ task'[id].at = "ended" => task'[id].outcome \in Terminal
    BY <2>1, <1>0, GoToFact, EndFact DEF Stages, InFlight, Terminal
  <2>3. used' \in [Bounded -> Nat]
    BY <1>7, <1>0, UseFact DEF Ingest, OnPool
  <2> QED
    BY <2>2, <2>3, <1>7, <1>0
       DEF Ingest, OnPool, Advances, Speaks, StagedTask, InFlight, Blocking, Rooted, Only
<1>8. CASE Convert(id) \/ Bridge(id)
  <2>1. \/ GoTo(id, "ingest") /\ task[id].cmd = "convert"
        \/ (GoTo(id, "register") \/ GoTo(id, "publish")) /\ task[id].cmd = "bridge"
        \/ End(id, "error")
    BY <1>8 DEF Convert, Bridge, At
  <2>2. /\ Only(id) /\ task'[id].at \in {"ingest", "register", "publish", "ended"}
        /\ task'[id].at = "ingest" => task[id].cmd = "convert"
        /\ task'[id].at = "ended" => task'[id].outcome \in Terminal
    BY <2>1, <1>0, GoToFact, EndFact DEF Stages, InFlight, Blocking, Terminal
  <2> QED
    BY <2>2, <1>8, <1>0
       DEF Convert, Bridge, At, Advances, Speaks, StagedTask, InFlight, Blocking, Rooted, Only, AboutRoot
<1>9. CASE Load(id)
  <2>1. GoTo(id, "provide") \/ End(id, "error")
    BY <1>9 DEF Load
  <2>2. /\ Only(id) /\ task'[id].at \in {"provide", "ended"}
        /\ task'[id].at = "ended" => task'[id].outcome \in Terminal
    BY <2>1, <1>0, GoToFact, EndFact DEF Stages, InFlight, Terminal
  <2>3. used' \in [Bounded -> Nat]
    BY <1>9, <1>0, UseFact DEF Load
  <2>4. task[id].at = "begin" /\ task[id].cmd \in {"provide", "provide root"}
    BY <1>9 DEF Load, At
  <2> QED
    BY <2>2, <2>3, <2>4, <1>9, <1>0
       DEF Load, Advances, Speaks, StagedTask, InFlight, Rooted, Only, AboutRoot
<1>10. CASE Provide(id) \/ Announce(id) \/ Unprovide(id)
  <2>1. PICK stage \in {"register", "list", "remove"} : GoTo(id, stage)
    BY <1>10 DEF Provide, Announce, Unprovide
  <2>2. Only(id) /\ task'[id].at = stage
    BY <2>1, <1>0, GoToFact DEF Stages, InFlight
  <2>3. task[id].at \in {"provide", "publish", "announce", "unprovide"}
    BY <1>10 DEF Provide, Announce, Unprovide
  <2> QED
    BY <2>2, <2>3, <1>10, <1>0
       DEF Provide, Announce, Unprovide, Advances, Speaks, StagedTask, InFlight, Rooted, Only
<1>11. CASE Register(id)
  <2>1. GoTo(id, "announce") \/ (\E outcome \in Terminal : End(id, outcome))
    BY <1>11 DEF Register, Terminal
  <2>2. /\ Only(id) /\ task'[id].at \in {"announce", "ended"}
        /\ task'[id].at = "ended" => task'[id].outcome \in Terminal
    BY <2>1, <1>0, GoToFact, EndFact DEF Stages, InFlight
  <2>3. used' \in [Bounded -> Nat]
    BY <1>11, <1>0, UseFact DEF Register
  <2> QED
    BY <2>2, <2>3, <1>11, <1>0 DEF Register, Advances, Speaks, StagedTask, InFlight, Rooted, Only
<1>12. CASE List(id)
  <2>1. Only(id) /\ task'[id].at = "ended" /\ task'[id].outcome \in Terminal
    BY <1>12, <1>0, EndFact DEF List, Terminal
  <2> QED
    BY <2>1, <1>12, <1>0 DEF List, Advances, Speaks, StagedTask, InFlight, Rooted, Only
<1>13. CASE Unannounce(id)
  <2>1. Only(id) /\ task'[id].at = "unprovide"
    BY <1>13, <1>0, GoToFact DEF Unannounce, Stages, InFlight
  <2> QED
    BY <2>1, <1>13, <1>0 DEF Unannounce, At, Advances, Speaks, StagedTask, InFlight, Rooted, Only, AboutRoot
<1>14. CASE Remove(id)
  <2>1. Only(id) /\ task'[id].at = "ended" /\ task'[id].outcome \in Terminal
    BY <1>14, <1>0, EndFact DEF Remove, Terminal
  <2>2. used' \in [Bounded -> Nat]
    BY <1>14, <1>0, UseFact DEF Remove
  <2> QED
    BY <2>1, <2>2, <1>14, <1>0 DEF Remove, Advances, Speaks, StagedTask, InFlight, Rooted, Only
<1> QED
  BY <1>1, <1>2, <1>3, <1>4, <1>5, <1>6, <1>7, <1>8, <1>9, <1>10, <1>11, <1>12, <1>13, <1>14 DEF Step

-----------------------------------------------------------------------------
(* The channel.                                                            *)

LEMMA SendFact ==
    ASSUME TypeOK, NEW es \in Seq(Events), Send(es)
    PROVE  /\ outq' \in Seq(Events) /\ printed' \in Seq(Events) /\ writer' = writer
           /\ writer = "running" => outq' = outq \o es
           /\ writer # "running" => outq' = outq
           /\ printed' = printed
BY DEF Send, TypeOK

LEMMA EventFact ==
    ASSUME NEW id \in Ids \cup {None}, NEW kind \in Kinds
    PROVE  Event(id, kind) \in Events /\ <<Event(id, kind)>> \in Seq(Events)
BY DEF Event, Events

LEMMA ReadyEventsFact ==
    /\ <<Event(None, "warn"), Event(None, "ready")>> \in Seq(Events)
    /\ <<Event(None, "ready")>> \in Seq(Events)
BY DEF Event, Events, Kinds

(* What a task says is an event of its own, or of nobody.                  *)
LEMMA SpeaksFact ==
    ASSUME TypeOK, NEW id \in Ids, Speaks(id)
    PROVE  outq' \in Seq(Events) /\ printed' \in Seq(Events) /\ writer' = writer
<1> USE DEF output
<1>1. CASE UNCHANGED output
  BY <1>1 DEF TypeOK
<1>2. CASE \E o \in Ids \cup {None}, k \in Kinds : Send(<<Event(o, k)>>)
  BY <1>2, SendFact, EventFact
<1>3. "warn" \in Kinds /\ "complete" \in Kinds /\ Terminal \subseteq Kinds
  BY DEF Kinds, Terminal
<1> QED BY <1>1, <1>2, <1>3 DEF Speaks

-----------------------------------------------------------------------------
LEMMA InitIndInv == Init => IndInv
<1> SUFFICES ASSUME Init PROVE IndInv
  OBVIOUS
<1>1. task \in [Ids -> Tasks]
  BY AttemptsAssumption DEF Init, Tasks, Stages
<1>2. Staged
  BY NoneAssumption DEF Init, Staged, StagedTask, AboutRoot, AllCmds, Rooted
<1>3. Queued
  BY DEF Init, Queued
<1>4. used \in [Bounded -> Nat] /\ announces \in [Roots -> Ids \cup {None}]
  BY DEF Init, Bounded
<1>5. inbox \in Seq(Ids) /\ outq \in Seq(Events) /\ printed \in Seq(Events)
  BY DEF Init
<1> QED
  BY <1>1, <1>2, <1>3, <1>4, <1>5 DEF Init, IndInv, TypeOK, Phases

(* A step that keeps every task, and the inbox.                            *)
LEMMA KeepsStaged ==
    ASSUME Staged, Queued, UNCHANGED <<task, inbox>>
    PROVE  Staged' /\ Queued'
BY DEF Staged, Queued

LEMMA InboxTail ==
    ASSUME inbox \in Seq(Ids), inbox # <<>>
    PROVE  /\ Tail(inbox) \in Seq(Ids) /\ Head(inbox) \in Ids /\ Head(inbox) = inbox[1]
           /\ 1 \in DOMAIN inbox
           /\ \A i \in DOMAIN Tail(inbox) : i + 1 \in DOMAIN inbox /\ Tail(inbox)[i] = inbox[i + 1]
                                            /\ i \in Nat \ {0}
OBVIOUS

LEMMA InboxAppend ==
    ASSUME inbox \in Seq(Ids), NEW id \in Ids
    PROVE  /\ Append(inbox, id) \in Seq(Ids)
           /\ \A i \in DOMAIN Append(inbox, id) :
                 \/ i \in DOMAIN inbox /\ Append(inbox, id)[i] = inbox[i]
                 \/ i = Len(inbox) + 1 /\ i \notin DOMAIN inbox /\ Append(inbox, id)[i] = id
OBVIOUS

LEMMA NextIndInv == IndInv /\ [Next]_vars => IndInv'
<1> SUFFICES ASSUME IndInv, [Next]_vars PROVE IndInv'
  OBVIOUS
<1> USE DEF vars, streams, output, seeding
<1>0. TypeOK /\ client \in Clients /\ Staged /\ Queued
  BY DEF IndInv
<1>1. ASSUME NEW id \in Ids, NEW cmd \in client.cmds,
             NEW root \in IF cmd \in AboutRoot THEN Roots ELSE {None}, SendLine(id, cmd, root)
      PROVE  IndInv'
  <2>0. /\ cmd \in AllCmds /\ root \in Roots \cup {None} /\ (cmd \in AboutRoot => root \in Roots)
        /\ task \in [Ids -> Tasks] /\ task[id] \in Tasks /\ task[id].at = "unsent"
        /\ UNCHANGED <<client, stdin, stdout, phase, permit, seeding, used>>
    BY <1>1, <1>0, ClientsAssumption DEF TypeOK, SendLine
  <2>1. CASE cmd = "oversized line"
    <3>1. /\ task' = [task EXCEPT ![id] = [task[id] EXCEPT !.cmd = cmd, !.at = "done"]]
          /\ Send(<<Event(None, "error")>>) /\ inbox' = inbox
      BY <1>1, <2>1 DEF SendLine
    <3>2. [task[id] EXCEPT !.cmd = cmd, !.at = "done"] \in Tasks
      BY <2>0 DEF Tasks, Stages
    <3>3. StagedTask([task[id] EXCEPT !.cmd = cmd, !.at = "done"])
      BY <2>0, <2>1 DEF StagedTask, Tasks, Rooted, AboutRoot
    <3>4. task' \in [Ids -> Tasks]
      BY <3>1, <3>2, <2>0
    <3>5. Staged'
      BY <3>1, <3>3, <2>0, <1>0 DEF Staged
    <3>6. Queued'
      BY <3>1, <2>0, <1>0 DEF Queued, TypeOK
    <3>7. outq' \in Seq(Events) /\ printed' \in Seq(Events) /\ writer' = writer
      BY <3>1, <1>0, SendFact, EventFact DEF Kinds
    <3> QED BY <3>1, <3>4, <3>5, <3>6, <3>7, <2>0, <1>0 DEF IndInv, TypeOK
  <2>2. CASE cmd # "oversized line"
    <3>1. /\ task' = [task EXCEPT ![id] = [task[id] EXCEPT !.cmd = cmd, !.root = root, !.at = "queued"]]
          /\ inbox' = Append(inbox, id) /\ UNCHANGED output
      BY <1>1, <2>2 DEF SendLine
    <3>2. [task[id] EXCEPT !.cmd = cmd, !.root = root, !.at = "queued"] \in Tasks
      BY <2>0 DEF Tasks, Stages
    <3>3. StagedTask([task[id] EXCEPT !.cmd = cmd, !.root = root, !.at = "queued"])
      BY <2>0, <2>2 DEF StagedTask, Tasks, Rooted
    <3>4. task' \in [Ids -> Tasks]
      BY <3>1, <3>2, <2>0
    <3>5. Staged'
      BY <3>1, <3>3, <2>0, <1>0 DEF Staged
    <3>6. inbox \in Seq(Ids) /\ inbox' \in Seq(Ids)
      BY <3>1, <1>0 DEF TypeOK
    <3>7. \A i \in DOMAIN inbox : inbox[i] \in Ids /\ inbox[i] # id
      BY <3>6, <2>0, <1>0 DEF Queued
    <3>8. task'[id].at = "queued" /\ \A other \in Ids \ {id} : task'[other] = task[other]
      BY <3>1, <2>0 DEF Tasks
    <3>9. \A i \in DOMAIN inbox' :
             \/ i \in DOMAIN inbox /\ inbox'[i] = inbox[i]
             \/ i = Len(inbox) + 1 /\ i \notin DOMAIN inbox /\ inbox'[i] = id
      BY <3>1, <3>6, InboxAppend
    <3>10. Queued'
      BY <3>7, <3>8, <3>9, <1>0 DEF Queued
    <3> QED BY <3>1, <3>4, <3>5, <3>6, <3>10, <2>0, <1>0 DEF IndInv, TypeOK
  <2> QED BY <2>1, <2>2
<1>2. CASE CloseStdin \/ BreakStdout \/ LoopEnds \/ Exit
  <2>1. UNCHANGED <<task, inbox, output, seeding, used, client>>
    BY <1>2 DEF CloseStdin, BreakStdout, LoopEnds, Exit
  <2>2. /\ stdin' \in {"open", "closed"} /\ stdout' \in {"open", "broken"} /\ phase' \in Phases
        /\ permit' \in BOOLEAN
    BY <1>2, <1>0 DEF CloseStdin, BreakStdout, LoopEnds, Exit, TypeOK, Phases
  <2> QED BY <2>1, <2>2, <1>0, KeepsStaged DEF IndInv, TypeOK
<1>3. CASE Ready
  <2>1. outq' \in Seq(Events) /\ printed' \in Seq(Events) /\ writer' = writer
    BY <1>3, <1>0, SendFact, ReadyEventsFact DEF Ready
  <2>2. used' \in [Bounded -> Nat]
    BY <1>3, <1>0, UseFact DEF Ready, TypeOK, Bounded
  <2> QED BY <1>3, <2>1, <2>2, <1>0, KeepsStaged DEF IndInv, TypeOK, Ready, Phases
<1>4. CASE HandleLine
  <2> DEFINE id == Head(inbox)
             stage == IF task[id].cmd = "bad line" THEN "done" ELSE "begin"
  <2>1. /\ inbox # <<>> /\ inbox' = Tail(inbox)
        /\ task' = [task EXCEPT ![id].at = stage]
        /\ UNCHANGED <<client, stdin, stdout, phase, permit, seeding, used>>
    BY <1>4 DEF HandleLine
  <2>2. inbox \in Seq(Ids) /\ task \in [Ids -> Tasks]
    BY <1>0 DEF TypeOK
  <2>3. /\ inbox' \in Seq(Ids) /\ id \in Ids /\ id = inbox[1] /\ 1 \in DOMAIN inbox
        /\ \A i \in DOMAIN inbox' : i + 1 \in DOMAIN inbox /\ inbox'[i] = inbox[i + 1] /\ i \in Nat \ {0}
    BY <2>1, <2>2, InboxTail
  <2>4. task[id].at = "queued"
    BY <2>3, <1>0 DEF Queued
  <2>5. stage \in Stages /\ stage \in {"done", "begin"}
    BY DEF Stages, InFlight
  <2>6. \/ UNCHANGED output
        \/ Send(<<Event(id, "error")>>)
    BY <1>4 DEF HandleLine
  <2> HIDE DEF id, stage
  <2>7. Only(id) /\ task'[id].at = stage /\ task'[id].outcome = task[id].outcome
    BY <2>1, <2>2, <2>3, <2>5, GoToFact DEF GoTo
  <2>8. Staged'
    <3>1. StagedTask(task[id])
      BY <2>3, <1>0 DEF Staged
    <3>2. StagedTask(task'[id])
      BY <3>1, <2>4, <2>5, <2>7 DEF StagedTask, Only, Rooted
    <3> QED BY <3>2, <2>7, <1>0 DEF Staged, Only
  <2>9. Queued'
    <3>1. \A i \in DOMAIN inbox' : inbox'[i] \in Ids \ {id}
      BY <2>2, <2>3, <1>0 DEF Queued
    <3> QED BY <3>1, <2>3, <2>7, <1>0 DEF Queued, Only
  <2>10. outq' \in Seq(Events) /\ printed' \in Seq(Events) /\ writer' = writer
    BY <2>3, <2>6, <1>0, SendFact, EventFact DEF Kinds, TypeOK
  <2> QED BY <2>1, <2>3, <2>7, <2>8, <2>9, <2>10, <1>0 DEF IndInv, TypeOK, Only
<1>5. CASE Return
  <2>1. /\ UNCHANGED <<inbox, stdin, stdout, permit, output, provided, registry, announces, used, client>>
        /\ phase' = "returned" /\ live' = {}
        /\ task' = [id \in Ids |-> Cancelled(task[id])]
    BY <1>5 DEF Return
  <2>2. ASSUME NEW id \in Ids
        PROVE  /\ task'[id] \in Tasks /\ StagedTask(task'[id])
               /\ task[id].at = "queued" => task'[id].at = "queued"
    BY <2>1, <1>0 DEF TypeOK, Staged, StagedTask, Cancelled, InFlight, Tasks, Stages, Rooted
  <2>3. task' \in [Ids -> Tasks] /\ Staged'
    BY <2>1, <2>2 DEF Staged
  <2>4. Queued'
    BY <2>1, <2>2, <1>0 DEF Queued, TypeOK
  <2> QED BY <2>1, <2>3, <2>4, <1>0 DEF IndInv, TypeOK, Phases
<1>6. CASE WriteLine
  <2>1. /\ printed' = Append(printed, Head(outq)) /\ outq' = Tail(outq) /\ outq # <<>>
        /\ UNCHANGED <<task, streams, writer, seeding, used, client>>
    BY <1>6 DEF WriteLine
  <2>2. outq' \in Seq(Events) /\ printed' \in Seq(Events)
    BY <2>1, <1>0 DEF TypeOK
  <2> QED BY <2>1, <2>2, <1>0, KeepsStaged DEF IndInv, TypeOK
<1>7. CASE WriterFails \/ WriterEnds
  <2>1. /\ UNCHANGED <<client, task, inbox, stdin, stdout, phase, printed, seeding, used>>
        /\ outq' = <<>> \/ outq' = outq
        /\ writer' = "stopped"
    BY <1>7 DEF WriterFails, WriterEnds
  <2>2. outq' \in Seq(Events)
    <3>1. <<>> \in Seq(Events) /\ outq \in Seq(Events)
      BY <1>0 DEF TypeOK
    <3> QED BY <3>1, <2>1
  <2>3. permit' \in BOOLEAN
    BY <1>7, <1>0 DEF WriterFails, WriterEnds, TypeOK
  <2> QED BY <2>1, <2>2, <2>3, <1>0, KeepsStaged DEF IndInv, TypeOK
<1>8. ASSUME NEW id \in Ids, Step(id) \/ Panic(id) PROVE IndInv'
  <2>1. Advances(id) /\ Speaks(id) /\ used' \in [Bounded -> Nat]
    BY <1>8, StepAdvances
  <2>2. outq' \in Seq(Events) /\ printed' \in Seq(Events) /\ writer' = writer
    BY <2>1, <1>0, SpeaksFact
  <2>3. Staged'
    BY <2>1, <1>0 DEF Staged, Advances, Only
  <2>4. Queued'
    <3>1. \A i \in DOMAIN inbox : inbox[i] \in Ids \ {id}
      BY <2>1, <1>0 DEF Advances, Queued, TypeOK, InFlight, Blocking
    <3> QED BY <3>1, <2>1, <1>0 DEF Queued, Advances, Only
  <2>5. /\ provided' \in SUBSET Roots /\ registry' \in SUBSET Roots
        /\ announces' \in [Roots -> Ids \cup {None}] /\ live' \in SUBSET Ids /\ permit' \in BOOLEAN
    <3>1. CASE UNCHANGED seeding
      <4>1. permit' \in BOOLEAN
        BY <1>8, <1>0 DEF TypeOK, Step, Report, Panic, Shutdown, Status, Dial, Torrent, Discover,
                          Download, Export, OnPool, Convert, Ingest, Bridge, Load, Provide, Register,
                          Announce, List, Unannounce, Unprovide, Remove
      <4> QED BY <3>1, <4>1, <1>0 DEF TypeOK
    <3>2. StagedTask(task[id])
      BY <1>0 DEF Staged
    <3>3. CASE Provide(id) \/ Register(id) \/ Unprovide(id) \/ Remove(id)
      <4>1. task[id].root \in Roots
        BY <3>2, <3>3 DEF StagedTask, Provide, Register, Unprovide, Remove, Rooted
      <4> QED BY <3>3, <4>1, <1>0 DEF TypeOK, Provide, Register, Unprovide, Remove
    <3>4. CASE Announce(id) \/ List(id) \/ Unannounce(id)
      <4>1. task[id].root \in Roots
        BY <3>2, <3>4 DEF StagedTask, Announce, List, Unannounce, Rooted, At, AboutRoot
      <4> QED BY <3>4, <4>1, <1>0 DEF TypeOK, Announce, List, Unannounce, Aborted, Unlisted
    <3>5. UNCHANGED seeding \/ Provide(id) \/ Register(id) \/ Unprovide(id) \/ Remove(id)
          \/ Announce(id) \/ List(id) \/ Unannounce(id)
      BY <1>8 DEF Step, Report, Panic, Shutdown, Status, Dial, Torrent, Discover,
                  Download, Export, OnPool, Convert, Ingest, Bridge, Load
    <3> QED BY <3>1, <3>3, <3>4, <3>5
  <2> QED BY <2>1, <2>2, <2>3, <2>4, <2>5, <1>0 DEF IndInv, TypeOK, Advances, Only
<1>9. CASE AnnounceFails
  <2>1. outq' \in Seq(Events) /\ printed' \in Seq(Events) /\ writer' = writer
    BY <1>9, <1>0, SendFact, EventFact DEF AnnounceFails, Kinds
  <2>2. used' \in [Bounded -> Nat]
    BY <1>9, <1>0, UseFact DEF AnnounceFails, TypeOK, Bounded
  <2> QED BY <1>9, <2>1, <2>2, <1>0, KeepsStaged DEF IndInv, TypeOK, AnnounceFails
<1>10. CASE UNCHANGED vars
  BY <1>10, <1>0, KeepsStaged DEF IndInv, TypeOK
<1> QED
  BY <1>1, <1>2, <1>3, <1>4, <1>5, <1>6, <1>7, <1>8, <1>9, <1>10 DEF Next, Loop, Writer

-----------------------------------------------------------------------------
(* Announce loops.                                                         *)

(* A loop that runs was spawned by a provide that has come as far as its   *)
(* entry in the map.                                                       *)
Abortable ==
    \A t \in live :
        /\ announces[task[t].root] = t \/ task[t].at = "list"
        /\ task[t].at \in {"list", "ended", "done", "dropped"} /\ task[t].root \in Roots

LEMMA InitAbortable == Init => Abortable
BY DEF Init, Abortable

LEMMA NextAbortable == IndInv /\ IndInv' /\ Abortable /\ [Next]_vars => Abortable'
<1> SUFFICES ASSUME IndInv, IndInv', Abortable, [Next]_vars PROVE Abortable'
  OBVIOUS
<1> USE DEF vars, streams, output, seeding
<1>0. TypeOK /\ Staged /\ Queued /\ TypeOK'
  BY DEF IndInv
<1>00. live \subseteq Ids /\ task \in [Ids -> Tasks] /\ announces \in [Roots -> Ids \cup {None}]
  BY <1>0 DEF TypeOK
<1>1. ASSUME NEW id \in Ids, NEW cmd, NEW root, SendLine(id, cmd, root) PROVE Abortable'
  <2>1. id \notin live /\ UNCHANGED <<announces, live>>
    BY <1>1 DEF SendLine, Abortable
  <2>2. \A other \in Ids \ {id} : task'[other] = task[other]
    BY <1>1, <1>00 DEF SendLine
  <2> QED BY <2>1, <2>2, <1>00 DEF Abortable
<1>2. CASE \/ CloseStdin \/ BreakStdout \/ LoopEnds \/ Exit \/ Ready \/ WriteLine \/ WriterFails
           \/ WriterEnds \/ AnnounceFails \/ UNCHANGED vars
  <2>1. UNCHANGED <<task, announces, live>>
    BY <1>2 DEF CloseStdin, BreakStdout, LoopEnds, Exit, Ready, WriteLine, WriterFails, WriterEnds,
                AnnounceFails
  <2> QED BY <2>1 DEF Abortable
<1>3. CASE HandleLine
  <2>1. /\ inbox # <<>> /\ inbox \in Seq(Ids) /\ UNCHANGED <<announces, live>>
        /\ task' = [task EXCEPT ![Head(inbox)].at =
                       IF task[Head(inbox)].cmd = "bad line" THEN "done" ELSE "begin"]
    BY <1>3, <1>0 DEF HandleLine, TypeOK
  <2>2. Head(inbox) \in Ids /\ task[Head(inbox)].at = "queued"
    BY <2>1, <1>0, InboxTail DEF Queued
  <2>3. Head(inbox) \notin live
    BY <2>2 DEF Abortable
  <2> QED BY <2>1, <2>2, <2>3, <1>00 DEF Abortable
<1>4. CASE Return
  BY <1>4 DEF Return, Abortable
<1>5. ASSUME NEW id \in Ids, Step(id) \/ Panic(id) PROVE Abortable'
  <2>1. Only(id) /\ task[id].at \in InFlight /\ task'[id].at \in InFlight \cup {"done", "dropped"}
    BY <1>5, StepAdvances DEF Advances
  <2>2. StagedTask(task[id])
    BY <1>0 DEF Staged
  <2>3. CASE Announce(id)
    <3>1. /\ task[id].at = "announce" /\ live' = live \cup {id} /\ GoTo(id, "list")
          /\ UNCHANGED announces
      BY <2>3 DEF Announce
    <3>2. task'[id].at = "list" /\ task[id].root \in Roots
      BY <3>1, <2>2, <1>00, GoToFact DEF Stages, InFlight, StagedTask, Rooted
    <3> QED BY <3>1, <3>2, <2>1, <1>00 DEF Abortable, Only
  <2>4. CASE List(id)
    <3>1. /\ task[id].at = "list" /\ live' = live \ {announces[task[id].root]} /\ End(id, "result")
          /\ announces' = [announces EXCEPT ![task[id].root] = id]
      BY <2>4 DEF List, Aborted
    <3>2. task'[id].at = "ended" /\ task[id].root \in Roots
      BY <3>1, <2>2, <1>00, EndFact DEF Terminal, StagedTask, Rooted
    <3> QED BY <3>1, <3>2, <2>1, <1>00 DEF Abortable, Only
  <2>5. CASE Unannounce(id)
    <3>1. /\ task[id].at = "begin" /\ live' = live \ {announces[task[id].root]}
          /\ announces' = [announces EXCEPT ![task[id].root] = None]
      BY <2>5 DEF Unannounce, Unlisted, Aborted, At
    <3>2. id \notin live
      BY <3>1 DEF Abortable
    <3> QED BY <3>1, <3>2, <2>1, <1>00 DEF Abortable, Only
  <2>6. CASE ~(Announce(id) \/ List(id) \/ Unannounce(id))
    <3>1. UNCHANGED <<announces, live>>
      BY <1>5, <2>6 DEF Step, Report, Panic, Shutdown, Status, Dial, Torrent, Discover, Download,
                  Export, OnPool, Convert, Ingest, Bridge, Load, Provide, Register, Unprovide, Remove
    <3>2. task[id].at # "list"
      BY <1>5, <2>6 DEF Step, Report, Panic, Shutdown, Status, Dial, Torrent, Discover, Download, At,
                  Export, OnPool, Convert, Ingest, Bridge, Load, Provide, Register, Unprovide, Remove
    <3>3. task[id].at = "ended" => task'[id].at = "done"
      <4>1. ASSUME task[id].at = "ended" PROVE Report(id)
        BY <1>5, <2>6, <4>1
           DEF Step, Report, Panic, Shutdown, Status, Dial, Torrent, Discover, Download, At,
                  Export, OnPool, Convert, Ingest, Bridge, Load, Provide, Register, Unprovide, Remove
      <4> QED BY <4>1, <1>00, GoToFact DEF Report, Stages
    <3> QED BY <3>1, <3>2, <3>3, <2>1, <1>00 DEF Abortable, Only, InFlight, Blocking
  <2> QED BY <2>3, <2>4, <2>5, <2>6
<1> QED
  BY <1>1, <1>2, <1>3, <1>4, <1>5 DEF Next, Loop, Writer

(* An announce loop that runs can be aborted (run_provide's insert into    *)
(* the map aborts the loop it replaces, run_unprovide takes it out), and   *)
(* the variables keep their types.                                         *)
THEOREM SpecNoOrphanAnnouncer == Spec => []NoOrphanAnnouncer
<1>1. IndInv /\ Abortable => NoOrphanAnnouncer
  BY DEF IndInv, Abortable, NoOrphanAnnouncer
<1> QED
  BY <1>1, InitIndInv, NextIndInv, InitAbortable, NextAbortable, PTL DEF Spec

-----------------------------------------------------------------------------
(* The end.                                                                *)

Flushed ==
    /\ writer = "stopped" => outq = <<>>
    /\ phase = "exited" => writer = "stopped"

LEMMA NextFlushed == IndInv /\ Flushed /\ [Next]_vars => Flushed'
<1> SUFFICES ASSUME IndInv, Flushed, [Next]_vars PROVE Flushed'
  OBVIOUS
<1> USE DEF vars, streams, output, seeding
<1>0. writer \in {"running", "stopped"}
  BY DEF IndInv, TypeOK
<1>1. CASE WriteLine \/ WriterFails \/ WriterEnds
  BY <1>1 DEF WriteLine, WriterFails, WriterEnds, Flushed
<1>2. CASE Exit
  BY <1>2 DEF Exit, PoolIdle, Flushed
<1>3. ASSUME UNCHANGED writer, phase' = phase \/ phase' # "exited", writer = "stopped" => outq' = outq
      PROVE  Flushed'
  BY <1>3 DEF Flushed
<1>4. CASE CloseStdin \/ BreakStdout \/ LoopEnds \/ Return \/ UNCHANGED vars
  BY <1>3, <1>4 DEF CloseStdin, BreakStdout, LoopEnds, Return
<1>5. CASE Ready \/ HandleLine \/ AnnounceFails
  BY <1>3, <1>5, <1>0 DEF Ready, HandleLine, AnnounceFails, Send
<1>6. ASSUME NEW id \in Ids, NEW cmd, NEW root, SendLine(id, cmd, root) PROVE Flushed'
  BY <1>3, <1>6, <1>0 DEF SendLine, Send
<1>7. ASSUME NEW id \in Ids, Step(id) \/ Panic(id) PROVE Flushed'
  <2>1. UNCHANGED phase /\ Speaks(id)
    BY <1>7, StepAdvances DEF Advances
  <2> QED BY <1>3, <2>1 DEF Speaks, Send
<1> QED
  BY <1>1, <1>2, <1>4, <1>5, <1>6, <1>7 DEF Next, Loop, Writer

(* What was sent is printed before the process ends (run_daemon's grace,   *)
(* and the runtime that waits for the writer's thread).                    *)
THEOREM SpecAllPrinted == Spec => []AllPrinted
<1>1. Init => Flushed
  BY DEF Init, Flushed
<1>2. Flushed => AllPrinted
  BY DEF Flushed, AllPrinted
<1> QED
  BY <1>1, <1>2, InitIndInv, NextIndInv, NextFlushed, PTL DEF Spec

-----------------------------------------------------------------------------
(* Answers.                                                                *)

(* The answer to a request is sent as its task ends.                       *)
AnsweredIsDone ==
    \A i \in DOMAIN AllEvents :
        AllEvents[i].id # None /\ AllEvents[i].kind \in Terminal => task[AllEvents[i].id].at = "done"

(* One more event, of nobody or of a task that was not done.               *)
Adds(e) ==
    /\ AllEvents' = Append(AllEvents, e)
    /\ e.id # None => task[e.id].at # "done"
    /\ e.id # None /\ e.kind \in Terminal => task'[e.id].at = "done"

DoneStays == \A id \in Ids : task[id].at = "done" => task'[id].at = "done"

LEMMA AllEventsType == TypeOK => AllEvents \in Seq(Events)
BY DEF TypeOK, AllEvents

LEMMA KeepsAnswers ==
    ASSUME TypeOK, DoneStays, AnsweredIsDone, TerminalOnce,
           \/ AllEvents' = AllEvents
           \/ \E e \in Events : Adds(e)
           \/ \E n \in Nat : n <= Len(AllEvents) /\ AllEvents' = SubSeq(AllEvents, 1, n)
    PROVE  AnsweredIsDone' /\ TerminalOnce'
<1>0. AllEvents \in Seq(Events) /\ \A i \in DOMAIN AllEvents : AllEvents[i].id \in Ids \cup {None}
  <2>1. AllEvents \in Seq(Events)
    BY AllEventsType
  <2>2. \A i \in DOMAIN AllEvents : AllEvents[i] \in Events
    BY <2>1
  <2> QED BY <2>1, <2>2 DEF Events
<1>1. CASE AllEvents' = AllEvents
  BY <1>0, <1>1 DEF AnsweredIsDone, TerminalOnce, DoneStays
<1>2. CASE \E e \in Events : Adds(e)
  <2>1. PICK e \in Events : Adds(e)
    BY <1>2
  <2>2. /\ DOMAIN AllEvents' = DOMAIN AllEvents \cup {Len(AllEvents) + 1}
        /\ AllEvents'[Len(AllEvents) + 1] = e
        /\ \A i \in DOMAIN AllEvents : AllEvents'[i] = AllEvents[i] /\ i < Len(AllEvents) + 1 /\ i \in Nat
        /\ Len(AllEvents) \in Nat
    BY <2>1, <1>0 DEF Adds
  <2>3. AnsweredIsDone'
    BY <2>1, <2>2, <1>0 DEF AnsweredIsDone, DoneStays, Adds
  <2>4. TerminalOnce'
    <3> SUFFICES ASSUME NEW i \in DOMAIN AllEvents', NEW k \in DOMAIN AllEvents', i < k,
                        AllEvents'[i].id # None, AllEvents'[i].kind \in Terminal
                 PROVE  AllEvents'[k].id # AllEvents'[i].id
      BY DEF TerminalOnce
    <3>1. i \in DOMAIN AllEvents
      BY <2>2
    <3>2. CASE k \in DOMAIN AllEvents
      BY <2>2, <3>1, <3>2 DEF TerminalOnce
    <3>3. CASE k = Len(AllEvents) + 1
      <4>1. task[AllEvents[i].id].at = "done"
        BY <2>2, <3>1 DEF AnsweredIsDone
      <4> QED BY <2>1, <2>2, <3>1, <3>3, <4>1 DEF Adds
    <3> QED BY <2>2, <3>2, <3>3
  <2> QED BY <2>3, <2>4
<1>3. CASE \E n \in Nat : n <= Len(AllEvents) /\ AllEvents' = SubSeq(AllEvents, 1, n)
  <2>1. \A i \in DOMAIN AllEvents' : i \in DOMAIN AllEvents /\ AllEvents'[i] = AllEvents[i]
    BY <1>0, <1>3
  <2> QED BY <2>1, <1>0 DEF AnsweredIsDone, TerminalOnce, DoneStays
<1> QED BY <1>1, <1>2, <1>3

LEMMA SendOne ==
    ASSUME TypeOK, NEW e \in Events, Send(<<e>>)
    PROVE  AllEvents' = AllEvents \/ AllEvents' = Append(AllEvents, e)
<1>1. <<e>> \in Seq(Events) /\ printed \in Seq(Events) /\ outq \in Seq(Events)
  BY DEF TypeOK
<1>2. printed' = printed /\ (outq' = outq \/ outq' = outq \o <<e>>)
  BY <1>1, SendFact
<1>3. printed \o (outq \o <<e>>) = Append(printed \o outq, e)
  BY <1>1
<1> QED BY <1>2, <1>3 DEF AllEvents

(* The two events of a start with a warning.                               *)
LEMMA SendTwo ==
    ASSUME TypeOK, NEW d \in Events, NEW e \in Events, Send(<<d, e>>), d.id = None, e.id = None,
           UNCHANGED task, AnsweredIsDone, TerminalOnce
    PROVE  AnsweredIsDone' /\ TerminalOnce'
<1>1. <<d, e>> \in Seq(Events) /\ printed \in Seq(Events) /\ outq \in Seq(Events)
  BY DEF TypeOK
<1>2. printed' = printed /\ (outq' = outq \/ outq' = outq \o <<d, e>>)
  BY <1>1, SendFact
<1>3. AllEvents' = AllEvents \/ AllEvents' = AllEvents \o <<d, e>>
  <2>1. printed \o (outq \o <<d, e>>) = (printed \o outq) \o <<d, e>>
    BY <1>1
  <2> QED BY <1>2, <2>1 DEF AllEvents
<1>4. AllEvents \in Seq(Events)
  BY AllEventsType
<1>5. CASE AllEvents' = AllEvents
  BY <1>5 DEF AnsweredIsDone, TerminalOnce
<1>6. CASE AllEvents' = AllEvents \o <<d, e>>
  <2>1. /\ \A i \in DOMAIN AllEvents' : \/ i \in DOMAIN AllEvents /\ AllEvents'[i] = AllEvents[i]
                                        \/ AllEvents'[i].id = None
    BY <1>4, <1>6
  <2> QED BY <2>1 DEF AnsweredIsDone, TerminalOnce
<1> QED BY <1>3, <1>5, <1>6

LEMMA NextAnswers ==
    IndInv /\ AnsweredIsDone /\ TerminalOnce /\ [Next]_vars => AnsweredIsDone' /\ TerminalOnce'
<1> SUFFICES ASSUME IndInv, AnsweredIsDone, TerminalOnce, [Next]_vars
             PROVE  AnsweredIsDone' /\ TerminalOnce'
  OBVIOUS
<1> USE DEF vars, streams, output, seeding
<1>0. TypeOK /\ Staged /\ Queued /\ task \in [Ids -> Tasks]
  BY DEF IndInv, TypeOK
<1>00. None \notin Ids
  BY NoneAssumption
<1>1. ASSUME NEW id \in Ids, NEW cmd \in client.cmds, NEW root, SendLine(id, cmd, root)
      PROVE  AnsweredIsDone' /\ TerminalOnce'
  <2>1. DoneStays
    BY <1>1, <1>0 DEF SendLine, DoneStays
  <2>2. CASE cmd = "oversized line"
    <3>1. Send(<<Event(None, "error")>>)
      BY <1>1, <2>2 DEF SendLine
    <3>2. Event(None, "error") \in Events /\ Event(None, "error").id = None
      BY DEF Event, Events, Kinds
    <3>3. AllEvents' = AllEvents \/ Adds(Event(None, "error"))
      BY <3>1, <3>2, <1>0, SendOne DEF Adds
    <3> QED BY <3>2, <3>3, <2>1, <1>0, KeepsAnswers
  <2>3. CASE cmd # "oversized line"
    BY <1>1, <2>1, <2>3, <1>0, KeepsAnswers DEF SendLine, AllEvents
  <2> QED BY <2>2, <2>3
<1>2. CASE CloseStdin \/ BreakStdout \/ LoopEnds \/ Exit \/ WriterEnds \/ UNCHANGED vars
  <2>1. UNCHANGED <<task, printed, outq>>
    BY <1>2 DEF CloseStdin, BreakStdout, LoopEnds, Exit, WriterEnds
  <2>2. DoneStays /\ AllEvents' = AllEvents
    BY <2>1 DEF DoneStays, AllEvents
  <2> QED BY <2>2, <1>0, KeepsAnswers
<1>3. CASE Ready
  <2>0. /\ Event(None, "ready") \in Events /\ Event(None, "ready").id = None
        /\ Event(None, "warn") \in Events /\ Event(None, "warn").id = None
    BY DEF Event, Events, Kinds
  <2>1. UNCHANGED task /\ DoneStays
    BY <1>3 DEF Ready, DoneStays
  <2>2. CASE Send(<<Event(None, "ready")>>)
    <3>1. AllEvents' = AllEvents \/ Adds(Event(None, "ready"))
      BY <2>0, <2>2, <1>0, SendOne DEF Adds
    <3> QED BY <2>0, <2>1, <3>1, <1>0, KeepsAnswers
  <2>3. CASE Send(<<Event(None, "warn"), Event(None, "ready")>>)
    BY <2>0, <2>1, <2>3, <1>0, SendTwo
  <2> QED BY <1>3, <2>2, <2>3 DEF Ready
<1>4. CASE HandleLine
  <2> DEFINE id == Head(inbox)
             stage == IF task[id].cmd = "bad line" THEN "done" ELSE "begin"
  <2>1. inbox # <<>> /\ inbox \in Seq(Ids) /\ task' = [task EXCEPT ![id].at = stage]
    BY <1>4, <1>0 DEF HandleLine, TypeOK
  <2>2. id \in Ids /\ task[id].at = "queued"
    BY <2>1, <1>0, InboxTail DEF Queued
  <2>3. Only(id) /\ task'[id].at = stage
    BY <2>1, <2>2, <1>0, GoToFact DEF GoTo, Stages, InFlight
  <2>4. DoneStays
    BY <2>2, <2>3 DEF DoneStays, Only
  <2>5. \/ UNCHANGED output
        \/ task[id].cmd = "bad line" /\ Send(<<Event(id, "error")>>)
    BY <1>4 DEF HandleLine, FailsToParse
  <2>6. Event(id, "error") \in Events /\ Event(id, "error").id = id
    BY <2>2 DEF Event, Events, Kinds
  <2>7. AllEvents' = AllEvents \/ Adds(Event(id, "error"))
    <3>1. CASE UNCHANGED output
      BY <3>1 DEF AllEvents
    <3>2. CASE task[id].cmd = "bad line" /\ Send(<<Event(id, "error")>>)
      BY <3>2, <2>2, <2>3, <2>6, <1>0, SendOne DEF Adds
    <3> QED BY <3>1, <3>2, <2>5
  <2> QED BY <2>4, <2>6, <2>7, <1>0, KeepsAnswers
<1>5. CASE Return
  <2>1. UNCHANGED output /\ task' = [id \in Ids |-> Cancelled(task[id])]
    BY <1>5 DEF Return
  <2>2. DoneStays /\ AllEvents' = AllEvents
    BY <2>1 DEF DoneStays, Cancelled, InFlight, Blocking, AllEvents
  <2> QED BY <2>2, <1>0, KeepsAnswers
<1>6. CASE WriteLine
  <2>1. /\ printed' = Append(printed, Head(outq)) /\ outq' = Tail(outq) /\ outq # <<>> /\ UNCHANGED task
        /\ printed \in Seq(Events) /\ outq \in Seq(Events)
    BY <1>6, <1>0 DEF WriteLine, TypeOK
  <2>2. Append(printed, Head(outq)) \o Tail(outq) = printed \o outq
    BY <2>1
  <2>3. DoneStays /\ AllEvents' = AllEvents
    BY <2>1, <2>2 DEF DoneStays, AllEvents
  <2> QED BY <2>3, <1>0, KeepsAnswers
<1>7. CASE WriterFails
  <2>1. /\ printed' = printed /\ outq' = <<>> /\ UNCHANGED task
        /\ printed \in Seq(Events) /\ outq \in Seq(Events)
    BY <1>7, <1>0 DEF WriterFails, TypeOK
  <2>2. /\ printed \o <<>> = SubSeq(printed \o outq, 1, Len(printed))
        /\ Len(printed) \in Nat /\ Len(printed) <= Len(printed \o outq)
    BY <2>1
  <2>3. /\ DoneStays
        /\ \E n \in Nat : n <= Len(AllEvents) /\ AllEvents' = SubSeq(AllEvents, 1, n)
    BY <2>1, <2>2 DEF DoneStays, AllEvents
  <2> QED BY <2>3, <1>0, KeepsAnswers
<1>8. ASSUME NEW id \in Ids, Step(id) \/ Panic(id) PROVE AnsweredIsDone' /\ TerminalOnce'
  <2>1. Advances(id) /\ Speaks(id)
    BY <1>8, StepAdvances
  <2>2. task[id].at # "done" /\ DoneStays
    BY <2>1 DEF Advances, Only, InFlight, Blocking, DoneStays
  <2>3. /\ Event(None, "warn") \in Events /\ Event(None, "warn").id = None
        /\ Event(id, "complete") \in Events /\ Event(id, "complete").id = id
        /\ Event(id, "complete").kind \notin Terminal
        /\ \A kind \in Terminal : Event(id, kind) \in Events /\ Event(id, kind).id = id
    BY DEF Event, Events, Kinds, Terminal
  <2>4. AllEvents' = AllEvents \/ \E e \in Events : Adds(e)
    <3>1. CASE UNCHANGED output
      BY <3>1 DEF AllEvents
    <3>2. CASE Send(<<Event(None, "warn")>>)
      BY <3>2, <2>3, <1>0, SendOne DEF Adds
    <3>3. CASE Send(<<Event(id, "complete")>>)
      BY <3>3, <2>2, <2>3, <1>0, SendOne DEF Adds
    <3>4. ASSUME NEW kind \in Terminal, Send(<<Event(id, kind)>>), task'[id].at = "done"
          PROVE  AllEvents' = AllEvents \/ Adds(Event(id, kind))
      BY <3>4, <2>2, <2>3, <1>0, SendOne DEF Adds
    <3> QED BY <3>1, <3>2, <3>3, <3>4, <2>1, <2>3 DEF Speaks
  <2> QED BY <2>2, <2>4, <1>0, KeepsAnswers
<1>9. CASE AnnounceFails
  <2>1. Send(<<Event(None, "warn")>>) /\ UNCHANGED task
    BY <1>9 DEF AnnounceFails
  <2>2. Event(None, "warn") \in Events /\ Event(None, "warn").id = None
    BY DEF Event, Events, Kinds
  <2>3. DoneStays /\ (AllEvents' = AllEvents \/ Adds(Event(None, "warn")))
    BY <2>1, <2>2, <1>0, SendOne DEF Adds, DoneStays
  <2> QED BY <2>2, <2>3, <1>0, KeepsAnswers
<1> QED
  BY <1>1, <1>2, <1>3, <1>4, <1>5, <1>6, <1>7, <1>8, <1>9 DEF Next, Loop, Writer

(* No request is answered twice, nor spoken of after its answer (execute   *)
(* sends the one terminal event, handle_line that of a bad line).          *)
THEOREM SpecTerminalOnce == Spec => []TerminalOnce
<1>1. Init => AnsweredIsDone /\ TerminalOnce
  <2> SUFFICES ASSUME Init PROVE AnsweredIsDone /\ TerminalOnce
    OBVIOUS
  <2>1. AllEvents = <<>>
    BY DEF Init, AllEvents
  <2> QED BY <2>1 DEF AnsweredIsDone, TerminalOnce
<1> QED
  BY <1>1, InitIndInv, NextIndInv, NextAnswers, PTL DEF Spec

-----------------------------------------------------------------------------
(* A client that waits for each answer.                                    *)

Idle == {"unsent", "done"}

(* At most one of its requests is under way, ...                           *)
OneAtATime == \A a, b \in Ids : a # b => task[a].at \in Idle \/ task[b].at \in Idle

(* ... and so the steps of a provide or an unprovide are not interrupted.  *)
Serving ==
    /\ \A r \in Roots : announces[r] # None => r \in provided \cap registry
    /\ \A id \in Ids :
          /\ task[id].at \in {"announce", "list"} => task[id].root \in provided \cap registry
          /\ task[id].at = "register" /\ task[id].cmd \in {"provide", "provide root"}
                => task[id].root \in provided
          /\ task[id].at \in {"unprovide", "remove"} => announces[task[id].root] = None

Serial == client.awaits => OneAtATime /\ Serving

(* What is neither a step of a task nor a new line.                        *)
LEMMA SameTasks ==
    ASSUME IndInv, Serial, client' = client, UNCHANGED <<provided, registry, announces>>,
           \A id \in Ids : \/ task'[id] = task[id]
                           \/ task'[id].at \in {"begin", "done", "dropped"} /\ task[id].at \notin Idle
    PROVE  Serial'
BY DEF Serial, OneAtATime, Serving, Idle

LEMMA NextSerial ==
    IndInv /\ AnsweredIsDone /\ Serial /\ [Next]_vars => Serial'
<1> SUFFICES ASSUME IndInv, AnsweredIsDone, Serial, [Next]_vars PROVE Serial'
  OBVIOUS
<1> USE DEF vars, streams, output, seeding
<1>0. TypeOK /\ Staged /\ Queued /\ task \in [Ids -> Tasks]
  BY DEF IndInv, TypeOK
<1>00. None \notin Ids
  BY NoneAssumption
<1>1. ASSUME NEW id \in Ids, NEW cmd \in client.cmds, NEW root, SendLine(id, cmd, root)
      PROVE  Serial'
  <2>1. /\ UNCHANGED <<client, provided, registry, announces>> /\ task[id].at = "unsent"
        /\ client.awaits => \A other \in Ids : task[other].at # "unsent" => Answered(other)
    BY <1>1 DEF SendLine
  <2>2. task'[id].at \in {"done", "queued"} /\ \A other \in Ids \ {id} : task'[other] = task[other]
    BY <1>1, <1>0, ZenonT(40) DEF SendLine, Tasks
  <2>3. ASSUME NEW other \in Ids, Answered(other) PROVE task[other].at = "done"
    <3>1. CASE task[other].cmd = "oversized line"
      BY <3>1, <1>0 DEF Staged, StagedTask
    <3>2. CASE Said(other, Terminal)
      <4>1. PICK i \in DOMAIN printed : printed[i].id = other /\ printed[i].kind \in Terminal
        BY <3>2 DEF Said
      <4>2. i \in DOMAIN AllEvents /\ AllEvents[i] = printed[i]
        BY <1>0 DEF TypeOK, AllEvents
      <4> QED BY <4>1, <4>2, <1>00 DEF AnsweredIsDone
    <3> QED BY <2>3, <3>1, <3>2 DEF Answered
  <2> SUFFICES ASSUME client.awaits PROVE OneAtATime' /\ Serving'
    BY <2>1 DEF Serial
  <2>4. \A other \in Ids \ {id} : task'[other].at \in Idle
    BY <2>1, <2>2, <2>3 DEF Idle
  <2>5. OneAtATime'
    BY <2>4 DEF OneAtATime
  <2>6. Serving'
    BY <2>1, <2>2 DEF Serving, Serial
  <2> QED BY <2>5, <2>6
<1>2. CASE \/ CloseStdin \/ BreakStdout \/ LoopEnds \/ Exit \/ Ready \/ WriteLine \/ WriterFails
           \/ WriterEnds \/ AnnounceFails \/ UNCHANGED vars
  <2>1. UNCHANGED <<client, task, provided, registry, announces>>
    BY <1>2 DEF CloseStdin, BreakStdout, LoopEnds, Exit, Ready, WriteLine, WriterFails, WriterEnds,
                AnnounceFails
  <2> QED BY <2>1 DEF Serial, OneAtATime, Serving
<1>3. CASE HandleLine
  <2> DEFINE id == Head(inbox)
             stage == IF task[id].cmd = "bad line" THEN "done" ELSE "begin"
  <2>1. /\ inbox # <<>> /\ inbox \in Seq(Ids) /\ task' = [task EXCEPT ![id].at = stage]
        /\ UNCHANGED <<client, provided, registry, announces>>
    BY <1>3, <1>0 DEF HandleLine, TypeOK
  <2>2. id \in Ids /\ task[id].at = "queued"
    BY <2>1, <1>0, InboxTail DEF Queued
  <2>3. Only(id) /\ task'[id].at = stage
    BY <2>1, <2>2, <1>0, GoToFact DEF GoTo, Stages, InFlight
  <2> QED BY <2>1, <2>2, <2>3, SameTasks DEF Only, Idle
<1>4. CASE Return
  <2>1. UNCHANGED <<client, provided, registry, announces>> /\ task' = [id \in Ids |-> Cancelled(task[id])]
    BY <1>4 DEF Return
  <2>2. \A id \in Ids : \/ task'[id] = task[id]
                        \/ task'[id].at = "dropped" /\ task[id].at \notin Idle
    BY <2>1, <1>0 DEF Cancelled, InFlight, Blocking, Idle, Tasks
  <2> QED BY <2>1, <2>2, SameTasks
<1>5. ASSUME NEW id \in Ids, Step(id) \/ Panic(id) PROVE Serial'
  <2>1. Advances(id)
    BY <1>5, StepAdvances
  <2>2. /\ client' = client /\ task[id].at \notin Idle
        /\ task'[id].root = task[id].root /\ task'[id].cmd = task[id].cmd
        /\ \A other \in Ids \ {id} : task'[other] = task[other]
    BY <2>1 DEF Advances, Only, InFlight, Blocking, Idle
  <2> SUFFICES ASSUME client.awaits, OneAtATime, Serving PROVE OneAtATime' /\ Serving'
    BY <2>2 DEF Serial
  <2>3. \A other \in Ids \ {id} : task[other].at \in Idle /\ task'[other].at \in Idle
    BY <2>2 DEF OneAtATime
  <2>4. OneAtATime'
    BY <2>3 DEF OneAtATime
  <2>5. StagedTask(task[id])
    BY <1>0 DEF Staged
  <2>6. ASSUME /\ \A r \in Roots : announces'[r] # None => r \in provided' \cap registry'
               /\ task'[id].at \in {"announce", "list"} => task[id].root \in provided' \cap registry'
               /\ task'[id].at = "register" /\ task[id].cmd \in {"provide", "provide root"}
                     => task[id].root \in provided'
               /\ task'[id].at \in {"unprovide", "remove"} => announces'[task[id].root] = None
        PROVE  Serving'
    BY <2>2, <2>3, <2>6 DEF Serving, Idle
  <2>7. CASE Provide(id)
    <3>1. GoTo(id, "register") /\ provided' = provided \cup {task[id].root} /\ UNCHANGED <<registry, announces>>
      BY <2>7 DEF Provide
    <3>2. task'[id].at = "register"
      BY <3>1, <1>0, GoToFact DEF Stages, InFlight
    <3> QED BY <2>4, <2>6, <3>1, <3>2 DEF Serving
  <2>8. CASE Register(id)
    <3>1. /\ task[id].at = "register" /\ UNCHANGED <<provided, announces>>
          /\ \/ /\ registry' = registry \cup {task[id].root}
                /\ \/ GoTo(id, "announce") /\ task[id].cmd \in {"provide", "provide root"}
                   \/ End(id, "result")
             \/ registry' = registry /\ End(id, "error")
      BY <2>8 DEF Register
    <3>2. \/ /\ registry' = registry \cup {task[id].root} /\ task'[id].at = "announce"
             /\ task[id].cmd \in {"provide", "provide root"}
          \/ registry \subseteq registry' /\ task'[id].at = "ended"
      BY <3>1, <1>0, GoToFact, EndFact DEF Stages, InFlight, Terminal
    <3> QED BY <2>4, <2>6, <3>1, <3>2 DEF Serving
  <2>9. CASE Announce(id)
    <3>1. task[id].at = "announce" /\ GoTo(id, "list") /\ UNCHANGED <<provided, registry, announces>>
      BY <2>9 DEF Announce
    <3>2. task'[id].at = "list"
      BY <3>1, <1>0, GoToFact DEF Stages, InFlight
    <3> QED BY <2>4, <2>6, <3>1, <3>2 DEF Serving
  <2>10. CASE List(id)
    <3>1. /\ task[id].at = "list" /\ End(id, "result") /\ UNCHANGED <<provided, registry>>
          /\ announces' = [announces EXCEPT ![task[id].root] = id]
          /\ announces \in [Roots -> Ids \cup {None}]
      BY <2>10, <1>0 DEF List, TypeOK
    <3>2. task'[id].at = "ended"
      BY <3>1, <1>0, EndFact DEF Terminal
    <3> QED BY <2>4, <2>6, <3>1, <3>2 DEF Serving
  <2>11. CASE Unannounce(id)
    <3>1. /\ At(id, "begin", {"unprovide"}) /\ GoTo(id, "unprovide") /\ UNCHANGED <<provided, registry>>
          /\ announces' = [announces EXCEPT ![task[id].root] = None]
          /\ announces \in [Roots -> Ids \cup {None}]
      BY <2>11, <1>0 DEF Unannounce, Unlisted, TypeOK
    <3>2. task'[id].at = "unprovide" /\ task[id].root \in Roots
      BY <3>1, <2>5, <1>0, GoToFact DEF Stages, InFlight, At, StagedTask, AboutRoot
    <3> QED BY <2>4, <2>6, <3>1, <3>2 DEF Serving
  <2>12. CASE Unprovide(id)
    <3>1. /\ task[id].at = "unprovide" /\ GoTo(id, "remove") /\ UNCHANGED <<registry, announces>>
          /\ provided' = provided \ {task[id].root}
      BY <2>12 DEF Unprovide
    <3>2. task'[id].at = "remove"
      BY <3>1, <1>0, GoToFact DEF Stages, InFlight
    <3> QED BY <2>4, <2>6, <3>1, <3>2 DEF Serving
  <2>13. CASE Remove(id)
    <3>1. /\ task[id].at = "remove" /\ End(id, "result") /\ UNCHANGED <<provided, announces>>
          /\ registry' = registry \/ registry' = registry \ {task[id].root}
      BY <2>13 DEF Remove
    <3>2. task'[id].at = "ended"
      BY <3>1, <1>0, EndFact DEF Terminal
    <3> QED BY <2>4, <2>6, <3>1, <3>2 DEF Serving
  <2>14. CASE Ingest(id) \/ Bridge(id)
    <3>1. UNCHANGED <<provided, registry, announces>> /\ task[id].cmd \in {"convert", "bridge"}
      BY <2>14, <2>5 DEF Ingest, OnPool, Bridge, At, StagedTask
    <3>2. task'[id].at \in {"register", "publish", "ended", "dropped"}
      <4>1. \/ GoTo(id, "register") \/ GoTo(id, "publish") \/ GoTo(id, "dropped") \/ End(id, "error")
        BY <2>14 DEF Ingest, OnPool, AfterPool, Bridge
      <4> QED BY <4>1, <1>0, GoToFact, EndFact DEF Stages, InFlight, Terminal
    <3> QED BY <2>4, <2>6, <3>1, <3>2 DEF Serving
  <2>15. CASE \/ Report(id) \/ Panic(id) \/ Shutdown(id) \/ Status(id) \/ Dial(id) \/ Torrent(id)
              \/ Discover(id) \/ Download(id) \/ Export(id) \/ Convert(id) \/ Load(id)
    <3>1. UNCHANGED <<provided, registry, announces>>
      BY <2>15 DEF Report, Panic, Shutdown, Status, Dial, Torrent, Discover, Download, Export, OnPool,
                   Convert, Load
    <3>2. task'[id].at \in {"done", "ended", "download", "export", "dropped", "ingest", "provide"}
      <4>1. \/ \E stage \in {"done", "download", "export", "dropped", "ingest", "provide"} : GoTo(id, stage)
            \/ \E outcome \in Terminal : End(id, outcome)
            \/ /\ task[id].at = "download" /\ MayRetry(task[id])
               /\ task' = [task EXCEPT ![id].tries = @ + 1]
        BY <2>15 DEF Report, Panic, Caught, Shutdown, Status, Dial, Torrent, Discover, Download, Export,
                     OnPool, AfterPool, Convert, Load, Terminal
      <4> QED BY <4>1, <1>0, GoToFact, EndFact, RetryFact DEF Stages, InFlight, Blocking
    <3> QED BY <2>4, <2>6, <3>1, <3>2 DEF Serving
  <2> QED
    BY <1>5, <2>7, <2>8, <2>9, <2>10, <2>11, <2>12, <2>13, <2>14, <2>15 DEF Step
<1> QED
  BY <1>1, <1>2, <1>3, <1>4, <1>5 DEF Next, Loop, Writer

(* A client that waits for each answer finds every root that status lists  *)
(* provided and registered (run_provide, run_unprovide), whatever panics   *)
(* and whatever the disk refuses.                                          *)
THEOREM SpecSerialListed == Spec => []SerialListed
<1>1. Init => AnsweredIsDone /\ TerminalOnce /\ Serial
  <2> SUFFICES ASSUME Init PROVE AnsweredIsDone /\ TerminalOnce /\ Serial
    OBVIOUS
  <2>1. AllEvents = <<>>
    BY DEF Init, AllEvents
  <2>2. AnsweredIsDone /\ TerminalOnce
    BY <2>1 DEF AnsweredIsDone, TerminalOnce
  <2>3. OneAtATime /\ Serving
    BY DEF Init, OneAtATime, Serving, Idle
  <2> QED BY <2>2, <2>3 DEF Serial
<1>2. Serial => SerialListed
  BY DEF Serial, Serving, SerialListed, ListedIsServed
<1> QED
  BY <1>1, <1>2, InitIndInv, NextIndInv, NextAnswers, NextSerial, PTL DEF Spec
=============================================================================
