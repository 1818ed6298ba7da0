--------------------------- MODULE MobilePairing ---------------------------
(***************************************************************************)
(* The life of a phone's pairing: the desktop's MobileManager (its rows in *)
(* SQLite, the pairing code, the allowlist file), the requests it sends to *)
(* the gateway, and the mobile channel plugin there, which keeps one sync  *)
(* engine per phone on one shared relay transport.                         *)
(*                                                                         *)
(* The relay's connection is in RelayTransport and what an engine does     *)
(* with messages in MobileSync; here an engine starts, hears its phone or  *)
(* does not, and stops.  A row is keyed by its pairingId, which the phone  *)
(* keeps when it pairs again.                                              *)
(***************************************************************************)
EXTENDS Naturals, FiniteSets, SequencesExt

CONSTANTS
  Phone,       \* the phones, by pairingId
  Engines,     \* engine objects; one that stopped is used again
  Jobs,        \* changes of the allowlist; one that ended is used again
  MaxPolls,    \* bound on the polls of the control plane under way
  MaxInputs    \* bound on what users, phones and faults do

ASSUME PairingBoundsAssumption ==
  /\ IsFiniteSet(Phone) /\ IsFiniteSet(Engines)
  /\ 0 \notin Engines
  /\ {MaxPolls, MaxInputs} \subseteq Nat

VARIABLES
  row,           \* mobilePairings: "absent", "active" or "stale"
  code,          \* activeCode: "none", "open", or the phone that used it
  answers,       \* polls whose answer names the phone
  allow,         \* mobile-allowFrom.json
  recipients,    \* the mobile rows of channel_recipients
  jobs,          \* the asynchronous changes of the allowlist
  rpc,           \* is the gateway's RPC client connected?
  requests,      \* sent and not yet handled
  report,        \* stale phones named by an answer on its way
  engine,        \* the engine objects
  syncEngines,   \* the plugin's map, 0 where it has no entry
  stalePairings, \* the plugin's set of phones that unpaired
  transport,     \* is there a shared transport?
  tokens,        \* its pairingTokens
  handlers,      \* its handlers, 0 where it has no entry
  paired,        \* external: phones that hold a valid pairing
  overlapped,    \* history: phones whose last start met an end of service
  crossed,       \* history: phones two of whose changes were under way at once
  raced,         \* history: did two changes ever use the file at once?
  inputs         \* inputs so far

desktopVars == <<row, code, answers, jobs>>
fileVars == <<allow, recipients, crossed, raced>>
linkVars == <<rpc, requests, report>>
pluginVars == <<engine, syncEngines, stalePairings, transport, tokens, handlers, overlapped>>
vars == <<desktopVars, fileVars, linkVars, pluginVars, paired, inputs>>

Stopped == [at |-> "stopped"]
EngineFor(p, at, wired) == [at |-> at, phone |-> p, wired |-> wired]
NoJob == [at |-> "none"]
NoEngines == [p \in Phone |-> 0]
StartSync(p) == [m |-> "start", phones |-> {p}]
StopSync(p) == [m |-> "stop", phones |-> {p}]
StopAll == [m |-> "stopAll", phones |-> {}]
RegisterStale(ps) == [m |-> "registerStale", phones |-> ps]
DeviceStatus == [m |-> "status", phones |-> {}]

IsAt(e, at) == engine[e].at = at
EnginesAt(p, ats) == {e \in Engines : engine[e].at \in ats /\ engine[e].phone = p}
\* Engines of p that have yet to leave the transport in use.
Leaving(p) == {e \in EnginesAt(p, {"leaving"}) : engine[e].wired}
Rows(status) == {p \in Phone : row[p] = status}

Init ==
  /\ row = [p \in Phone |-> "absent"] /\ code = "none"
  /\ answers = [p \in Phone |-> 0] /\ jobs = [j \in Jobs |-> NoJob]
  /\ allow = {} /\ recipients = {} /\ crossed = {} /\ raced = FALSE
  /\ rpc = TRUE /\ requests = <<>> /\ report = {}
  /\ engine = [e \in Engines |-> Stopped] /\ syncEngines = NoEngines
  /\ stalePairings = {} /\ transport = FALSE /\ tokens = {} /\ handlers = NoEngines
  /\ overlapped = {}
  /\ paired = {} /\ inputs = 0

Input == inputs < MaxInputs /\ inputs' = inputs + 1

\* A request is sent when the client is connected, and forgotten otherwise.
Send(msg) == requests' = IF rpc THEN Append(requests, msg) ELSE requests
-----------------------------------------------------------------------------
(* The desktop. *)

UnderWay(p) == {j \in Jobs : jobs[j] # NoJob /\ p \in jobs[j].phones}
InUse == {j \in Jobs : jobs[j].at \in {"write", "fill"}}

\* An asynchronous change of the allowlist begins.  One that is alone and
\* names its phone settles what earlier ones of the phone left.
Change(do, ps) ==
  /\ \E j \in Jobs :
       /\ jobs[j] = NoJob
       /\ jobs' = [jobs EXCEPT ![j] = [do |-> do, phones |-> ps, at |-> "read", file |-> {}]]
  /\ crossed' = (IF do = "clear" THEN crossed ELSE crossed \ ps)
                   \cup {p \in ps : UnderWay(p) # {}}

RequestPairingCode ==
  /\ Input
  /\ code' = "open"
  /\ UNCHANGED <<row, answers, jobs, fileVars, linkVars, pluginVars, paired>>

CodeExpires ==
  /\ Input
  /\ code # "none" /\ code' = "none"
  /\ UNCHANGED <<row, answers, jobs, fileVars, linkVars, pluginVars, paired>>

\* The phone redeems the code at the control plane.
PhonePairs(p) ==
  /\ Input
  /\ code = "open" /\ code' = p
  /\ paired' = paired \cup {p}
  /\ UNCHANGED <<row, answers, jobs, fileVars, linkVars, pluginVars>>

\* Every request for the status polls the control plane while a code is out.
PollPairingStatus ==
  /\ code \in Phone
  /\ answers[code] < MaxPolls
  /\ answers' = [answers EXCEPT ![code] = @ + 1]
  /\ UNCHANGED <<row, code, jobs, fileVars, linkVars, pluginVars, paired, inputs>>

\* The answer of a poll, whatever the code that is out by now.
CompletePairing(p) ==
  /\ answers[p] > 0
  /\ answers' = [answers EXCEPT ![p] = @ - 1]
  /\ row' = [row EXCEPT ![p] = "active"]
  /\ code' = "none"
  /\ Change("add", {p})
  /\ Send(StartSync(p))
  /\ UNCHANGED <<allow, recipients, raced, rpc, report, pluginVars, paired, inputs>>

RemovePairing(p) ==
  /\ Input
  /\ row[p] # "absent"
  /\ row' = [row EXCEPT ![p] = "absent"]
  /\ Change("remove", {p})
  /\ Send(StopSync(p))
  /\ UNCHANGED <<code, answers, allow, recipients, raced, rpc, report, pluginVars, paired>>

DisconnectAll ==
  /\ Input
  /\ row' = [p \in Phone |-> "absent"]
  /\ code' = "none"
  /\ Change("clear", Phone)
  /\ Send(StopAll)
  /\ UNCHANGED <<answers, allow, recipients, raced, rpc, report, pluginVars, paired>>

\* What a change makes of the list it read.
Changed(job, list) ==
  IF job.do = "add" THEN list \cup job.phones ELSE list \ job.phones

\* Mutation: the recipients are replaced by the list the change made.
FinishChangeWhole(j) ==
  /\ jobs' = [jobs EXCEPT ![j] = NoJob]
  /\ recipients' = IF jobs[j].at = "read" THEN Changed(jobs[j], allow) ELSE jobs[j].file

\* The end of a change; a cleared list's recipients went when it was read.
FinishChange(j) ==
  /\ jobs' = [jobs EXCEPT ![j] = NoJob]
  /\ recipients' = CASE jobs[j].do = "add" -> recipients \cup jobs[j].phones
                     [] jobs[j].do = "remove" -> recipients \ jobs[j].phones
                     [] OTHER -> recipients

ReadAllowlist(j) ==
  LET file == Changed(jobs[j], allow)
  IN /\ jobs[j].at = "read"
     /\ IF jobs[j].do # "clear" /\ file = allow
        THEN FinishChange(j)
        ELSE /\ jobs' = [jobs EXCEPT ![j] = [@ EXCEPT !.at = "write", !.file = file]]
             /\ recipients' = IF jobs[j].do = "clear" THEN recipients \ allow ELSE recipients
     /\ raced' = (raced \/ InUse # {})
     /\ UNCHANGED <<row, code, answers, allow, crossed, linkVars, pluginVars, paired, inputs>>

\* writeFile() empties the file before it fills it.
TruncateAllowlist(j) ==
  /\ jobs[j].at = "write"
  /\ jobs' = [jobs EXCEPT ![j].at = "fill"]
  /\ allow' = {}
  /\ UNCHANGED <<row, code, answers, recipients, crossed, raced, linkVars, pluginVars, paired,
                 inputs>>

\* It fills from the start: a longer list that another change filled in
\* meanwhile keeps its end, and a file that does not parse counts as empty.
FillAllowlist(j) ==
  /\ jobs[j].at = "fill"
  /\ allow' = IF Cardinality(allow) > Cardinality(jobs[j].file) THEN {} ELSE jobs[j].file
  /\ FinishChange(j)
  /\ UNCHANGED <<row, code, answers, crossed, raced, linkVars, pluginVars, paired, inputs>>

\* The panel asks which phones are connected, one question at a time.
AskDeviceStatus ==
  /\ Input
  /\ rpc /\ report = {} /\ ~Contains(requests, DeviceStatus)
  /\ Send(DeviceStatus)
  /\ UNCHANGED <<desktopVars, fileVars, rpc, report, pluginVars, paired>>

PersistStale ==
  /\ report # {} /\ report' = {}
  /\ row' = [p \in Phone |-> IF p \in report /\ row[p] = "active" THEN "stale" ELSE row[p]]
  /\ UNCHANGED <<code, answers, jobs, fileVars, rpc, requests, pluginVars, paired, inputs>>

\* Mutation: only one of the active pairings is started.
RpcConnectedOnePairing ==
  /\ ~rpc /\ rpc' = TRUE
  /\ \E order \in SetToSeqs(Rows("active")) :
       requests' = requests \o (IF order = <<>> THEN <<>> ELSE <<StartSync(Head(order))>>)
  /\ UNCHANGED <<desktopVars, fileVars, report, pluginVars, paired, inputs>>

\* onRpcConnected: every active pairing is started, the stale ones are named.
RpcConnected ==
  /\ ~rpc /\ rpc' = TRUE
  /\ \E order \in SetToSeqs(Rows("active")) :
       requests' = requests \o [i \in DOMAIN order |-> StartSync(order[i])]
                     \o (IF Rows("stale") = {} THEN <<>> ELSE <<RegisterStale(Rows("stale"))>>)
  /\ UNCHANGED <<desktopVars, fileVars, report, pluginVars, paired, inputs>>

\* The socket is lost: with it the later requests and any answer.
RpcLost ==
  /\ Input
  /\ rpc /\ rpc' = FALSE
  /\ \E n \in 0..Len(requests) : requests' = SubSeq(requests, 1, n)
  /\ report' = {}
  /\ UNCHANGED <<desktopVars, fileVars, pluginVars, paired>>
-----------------------------------------------------------------------------
(* The plugin: requests are taken up in the order they were sent. *)

Take(msg) == requests # <<>> /\ Head(requests) = msg /\ requests' = Tail(requests)

\* One phone leaves the transport, which goes when no engine is registered.
LeavePairing(p, objects, registered) ==
  /\ syncEngines' = registered
  /\ IF registered = NoEngines
     THEN /\ transport' = FALSE /\ tokens' = {} /\ handlers' = NoEngines
          /\ engine' = [e \in Engines |-> IF objects[e] = Stopped THEN Stopped
                                          ELSE [objects[e] EXCEPT !.wired = FALSE]]
     ELSE /\ tokens' = tokens \ {p} /\ handlers' = [handlers EXCEPT ![p] = 0]
          /\ engine' = objects
          /\ UNCHANGED transport
  /\ overlapped' = overlapped \cup {q \in (IF registered = NoEngines THEN Phone ELSE {p}) :
                                     EnginesAt(q, {"starting"}) # {}}

\* mobile_chat_start_sync, up to the await of engine.start().
TakeStartSync(p) ==
  /\ Take(StartSync(p))
  /\ transport' = TRUE /\ tokens' = tokens \cup {p}
  /\ IF syncEngines[p] # 0
     THEN UNCHANGED <<engine, overlapped>>
     ELSE /\ \E e \in Engines :
               /\ IsAt(e, "stopped")
               /\ engine' = [engine EXCEPT ![e] = EngineFor(p, "starting", TRUE)]
          /\ overlapped' = CASE Leaving(p) # {} -> overlapped \cup {p}
                             [] Leaving(p) = {} /\ EnginesAt(p, {"starting"}) = {} -> overlapped \ {p}
                             [] OTHER -> overlapped
  /\ UNCHANGED <<syncEngines, stalePairings, handlers, desktopVars, fileVars, rpc, report,
                 paired, inputs>>

\* Mutation: of two engines that start, the first keeps the phone's handler.
EngineStartedFirst(e) ==
  LET p == engine[e].phone
  IN /\ IsAt(e, "starting")
     /\ engine' = [engine EXCEPT ![e].at = "running"]
     /\ handlers' = IF engine[e].wired /\ handlers[p] = 0 THEN [handlers EXCEPT ![p] = e] ELSE handlers
     /\ syncEngines' = [syncEngines EXCEPT ![p] = e]
     /\ UNCHANGED <<stalePairings, transport, tokens, overlapped, desktopVars, fileVars, linkVars,
                    paired, inputs>>

\* The state file is loaded: the handler is registered, then the engine.
\* An engine whose transport is gone registers with an object nobody uses.
EngineStarted(e) ==
  LET p == engine[e].phone
  IN /\ IsAt(e, "starting")
     /\ engine' = [engine EXCEPT ![e].at = "running"]
     /\ handlers' = IF engine[e].wired THEN [handlers EXCEPT ![p] = e] ELSE handlers
     /\ syncEngines' = [syncEngines EXCEPT ![p] = e]
     /\ UNCHANGED <<stalePairings, transport, tokens, overlapped, desktopVars, fileVars, linkVars,
                    paired, inputs>>

\* The unpair message may reach the phone; the engine stops 200 ms later.
TakeStopSync(p) ==
  LET e == syncEngines[p]
  IN /\ Take(StopSync(p))
     /\ stalePairings' = stalePairings \ {p}
     /\ IF e = 0
        THEN UNCHANGED <<engine, syncEngines, transport, tokens, handlers, overlapped, paired>>
        ELSE /\ LeavePairing(p, [engine EXCEPT ![e].at = "leaving"],
                             [syncEngines EXCEPT ![p] = 0])
             /\ paired' \in {paired, paired \ {p}}
     /\ UNCHANGED <<desktopVars, fileVars, rpc, report, inputs>>

TakeStopAll ==
  LET registered == {syncEngines[p] : p \in Phone}
  IN /\ Take(StopAll)
     /\ stalePairings' = {} /\ syncEngines' = NoEngines
     /\ transport' = FALSE /\ tokens' = {} /\ handlers' = NoEngines
     /\ engine' = [e \in Engines |->
                     CASE IsAt(e, "stopped") -> Stopped
                       [] e \in registered -> [engine[e] EXCEPT !.at = "leaving", !.wired = FALSE]
                       [] OTHER -> [engine[e] EXCEPT !.wired = FALSE]]
     /\ \E told \in SUBSET {p \in Phone : syncEngines[p] # 0} : paired' = paired \ told
     /\ overlapped' = overlapped \cup {q \in Phone : EnginesAt(q, {"starting"}) # {}}
     /\ UNCHANGED <<desktopVars, fileVars, rpc, report, inputs>>

\* stop(): the phone's handler goes, whichever engine registered it.
EngineLeft(e) ==
  /\ IsAt(e, "leaving")
  /\ engine' = [engine EXCEPT ![e] = Stopped]
  /\ handlers' = IF engine[e].wired THEN [handlers EXCEPT ![engine[e].phone] = 0] ELSE handlers
  /\ UNCHANGED <<syncEngines, stalePairings, transport, tokens, overlapped, desktopVars, fileVars,
                 linkVars, paired, inputs>>

TakeRegisterStale(ps) ==
  /\ Take(RegisterStale(ps))
  /\ stalePairings' = stalePairings \cup {p \in ps : syncEngines[p] = 0}
  /\ UNCHANGED <<engine, syncEngines, transport, tokens, handlers, overlapped, desktopVars,
                 fileVars, rpc, report, paired, inputs>>

TakeDeviceStatus ==
  /\ Take(DeviceStatus)
  /\ report' = IF rpc THEN stalePairings ELSE {}
  /\ UNCHANGED <<desktopVars, fileVars, rpc, pluginVars, paired, inputs>>

\* Mutation: the pairing stays on the transport.
OnUnpairedStaying(e, p) ==
  /\ engine' = [engine EXCEPT ![e] = Stopped]
  /\ syncEngines' = [syncEngines EXCEPT ![p] = 0]
  /\ handlers' = [handlers EXCEPT ![p] = 0]
  /\ stalePairings' = stalePairings \cup {p}
  /\ UNCHANGED <<transport, tokens, overlapped>>

\* onUnpaired, by the engine whose handler got the phone's message.
OnUnpaired(e, p) ==
  /\ LeavePairing(p, [engine EXCEPT ![e] = Stopped], [syncEngines EXCEPT ![p] = 0])
  /\ stalePairings' = stalePairings \cup {p}

\* The phone unpairs; its message is heard if the relay delivers it.
PhoneUnpairs(p) ==
  /\ Input
  /\ p \in paired /\ paired' = paired \ {p}
  /\ \/ p \in tokens /\ handlers[p] # 0 /\ OnUnpaired(handlers[p], p)
     \/ UNCHANGED pluginVars
  /\ UNCHANGED <<desktopVars, fileVars, linkVars>>

\* The gateway process dies, and with it all the plugin knew.
Crash ==
  /\ Input
  /\ rpc' = FALSE /\ requests' = <<>> /\ report' = {}
  /\ engine' = [e \in Engines |-> Stopped] /\ syncEngines' = NoEngines
  /\ stalePairings' = {} /\ transport' = FALSE /\ tokens' = {} /\ handlers' = NoEngines
  /\ overlapped' = {}
  /\ UNCHANGED <<desktopVars, fileVars, paired>>

Next ==
  \/ RequestPairingCode \/ CodeExpires \/ PollPairingStatus
  \/ \E p \in Phone : PhonePairs(p) \/ CompletePairing(p) \/ RemovePairing(p)
  \/ DisconnectAll \/ AskDeviceStatus \/ PersistStale
  \/ \E j \in Jobs : ReadAllowlist(j) \/ TruncateAllowlist(j) \/ FillAllowlist(j)
  \/ RpcConnected \/ RpcLost \/ Crash
  \/ \E p \in Phone : TakeStartSync(p) \/ TakeStopSync(p) \/ PhoneUnpairs(p)
  \/ \E ps \in SUBSET Phone : TakeRegisterStale(ps)
  \/ TakeStopAll \/ TakeDeviceStatus
  \/ \E e \in Engines : EngineStarted(e) \/ EngineLeft(e)

Spec == Init /\ [][Next]_vars
-----------------------------------------------------------------------------
\* Types; a stopped engine has forgotten its phone.
Requests == [m : {"start", "stop", "stopAll", "registerStale", "status"}, phones : SUBSET Phone]
Changes == [do : {"add", "remove", "clear"}, phones : SUBSET Phone,
            at : {"read", "write", "fill"}, file : SUBSET Phone]
AtWork == [at : {"starting", "running", "leaving"}, phone : Phone, wired : BOOLEAN]

TypeOK ==
  /\ row \in [Phone -> {"absent", "active", "stale"}]
  /\ code \in {"none", "open"} \cup Phone
  /\ answers \in [Phone -> Nat]
  /\ jobs \in [Jobs -> {NoJob} \cup Changes]
  /\ allow \in SUBSET Phone /\ recipients \in SUBSET Phone /\ crossed \in SUBSET Phone
  /\ raced \in BOOLEAN
  /\ rpc \in BOOLEAN /\ requests \in Seq(Requests) /\ report \in SUBSET Phone
  /\ engine \in [Engines -> {Stopped} \cup AtWork]
  /\ syncEngines \in [Phone -> {0} \cup Engines]
  /\ stalePairings \in SUBSET Phone
  /\ transport \in BOOLEAN /\ tokens \in SUBSET Phone
  /\ handlers \in [Phone -> {0} \cup Engines]
  /\ overlapped \in SUBSET Phone
  /\ paired \in SUBSET Phone
  /\ inputs \in 0..MaxInputs

Settled == requests = <<>> /\ \A e \in Engines : engine[e].at \in {"stopped", "running"}

(* When the requests are handled and no engine starts or stops, every active *)
(* pairing has its engine, unless the phone has unpaired meanwhile.          *)
ActiveIsServed ==
  rpc /\ Settled => \A p \in Rows("active") : syncEngines[p] # 0 \/ p \in stalePairings

(* The transport is open for phones somebody serves: every token it would    *)
(* rejoin belongs to an engine that runs or starts.                          *)
JoinedIsServed ==
  /\ transport => \E p \in Phone : syncEngines[p] # 0 \/ EnginesAt(p, {"starting"}) # {}
  /\ \A p \in tokens : syncEngines[p] # 0 \/ EnginesAt(p, {"starting"}) # {}

(* A registered engine hears its phone: it has the phone's handler on the    *)
(* transport in use, which rejoins the phone's token.  So it is also when    *)
(* two starts of the phone overlap and while other phones start and stop.    *)
(* Only a start that meets the end of the phone's own service, or the end of *)
(* the transport, may leave the phone unheard, until its next start.         *)
HearsItsPhone ==
  \A p \in Phone \ overlapped :
    syncEngines[p] # 0 => transport /\ p \in tokens /\ handlers[p] = syncEngines[p]

(* What the changes of the allowlist leave of a phone none of whose own      *)
(* changes overlapped, when they are done: a phone with a row is a           *)
(* recipient, even where changes of other phones lost its entry in the file; *)
(* and while no change ever read the file under another that used it, the    *)
(* phone is a recipient and in the file just when it has a row.              *)
AllowlistSettles ==
  \A p \in Phone \ crossed : UnderWay(p) = {} =>
    /\ row[p] # "absent" => p \in recipients
    /\ ~raced => /\ p \in recipients => row[p] # "absent"
                 /\ \/ \E j \in Jobs : jobs[j].at = "fill"
                    \/ p \in allow <=> row[p] # "absent"

(* plugin.ts keeps in stalePairings the phones that have unpaired: none of   *)
(* them has paired again and has its engine.                                 *)
StaleHasUnpaired ==
  \A p \in stalePairings : syncEngines[p] = 0 \/ p \notin paired
=============================================================================
