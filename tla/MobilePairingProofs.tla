------------------------ MODULE MobilePairingProofs ------------------------
(***************************************************************************)
(* The safety of the pairing lifecycle for every finite number of phones   *)
(* and engines and every bound on polls, allowlist changes and inputs.     *)
(***************************************************************************)
EXTENDS MobilePairing, FiniteSetTheorems, SequenceTheorems, TLAPS

(***************************************************************************)
(* The plugin.                                                             *)
(***************************************************************************)

\* The engines that a map of the plugin names run for their phones.
RunFor(map) ==
  \A p \in Phone : map[p] # 0 => IsAt(map[p], "running") /\ engine[map[p]].phone = p

MapsInv == RunFor(syncEngines) /\ RunFor(handlers)

\* What the engines of p that start rely on.
StartsAlone(p) ==
  \A e \in EnginesAt(p, {"starting"}) :
    engine[e].wired /\ transport /\ p \in tokens /\ Leaving(p) = {}

\* Where no start met an end, an engine that has yet to leave is the last one.
AloneInv ==
  \A p \in Phone \ overlapped : StartsAlone(p) /\ (Leaving(p) # {} => syncEngines[p] = 0)

PluginInv == MapsInv /\ JoinedIsServed /\ AloneInv /\ HearsItsPhone

(***************************************************************************)
(* The requests under way for an active pairing.                           *)
(***************************************************************************)

\* The request ends the service of p.
Ends(p, msg) == msg = StopSync(p) \/ msg = StopAll

\* No request of s ends the service of p; the last one that concerns it
\* starts it.
NoneEnds(p, s) == \A i \in 1..Len(s) : ~Ends(p, s[i])
LastStarts(p, s) ==
  \E i \in 1..Len(s) : s[i] = StartSync(p) /\ \A j \in (i + 1)..Len(s) : ~Ends(p, s[j])

\* p has an engine, or one that starts, or the plugin knows that it unpaired.
Engaged(p) ==
  syncEngines[p] # 0 \/ p \in stalePairings \/ EnginesAt(p, {"starting"}) # {}

ServedInv ==
  rpc => \A p \in Rows("active") :
           LastStarts(p, requests) \/ (NoneEnds(p, requests) /\ Engaged(p))

(***************************************************************************)
(* The allowlist.                                                          *)
(***************************************************************************)

HasRow(p) == row[p] # "absent"

\* b says whether p is listed: by the file, unless it is being written, and
\* by what the changes of other phones will make of it.
Listed(p, b) ==
  /\ (\E j \in Jobs : jobs[j].at = "fill") \/ (p \in allow <=> b)
  /\ \A k \in InUse \ UnderWay(p) : p \in jobs[k].file <=> b

\* No change of p is under way.
HasSettled(p) ==
  /\ HasRow(p) => p \in recipients
  /\ ~raced => (p \in recipients => HasRow(p)) /\ Listed(p, HasRow(p))

\* The change j of p will end as the row says; a list is cleared from the
\* recipients only as it was read.
WillSettle(p, j) ==
  /\ jobs[j].do = "add" <=> HasRow(p)
  /\ ~raced =>
       /\ jobs[j].at = "read" /\ jobs[j].do = "clear" => Listed(p, p \in recipients)
       /\ jobs[j].at # "read" => /\ p \in jobs[j].file <=> HasRow(p)
                                 /\ jobs[j].do = "clear" => p \notin recipients

\* One change at a time uses the file, which is empty before it is filled.
FileInv ==
  /\ \A i \in InUse : \A j \in InUse : i = j
  /\ \A j \in Jobs : jobs[j].at = "fill" => allow = {}

Settles(p) ==
  /\ \A i \in UnderWay(p) : \A j \in UnderWay(p) : i = j
  /\ UnderWay(p) = {} => HasSettled(p)
  /\ \A j \in UnderWay(p) : WillSettle(p, j)

ClearsAll == \A j \in Jobs : jobs[j] # NoJob /\ jobs[j].do = "clear" => jobs[j].phones = Phone

AllowlistInv ==
  /\ ClearsAll
  /\ ~raced => FileInv
  /\ \A p \in Phone \ crossed : Settles(p)

PairingInv == TypeOK /\ PluginInv /\ ServedInv /\ AllowlistInv
-----------------------------------------------------------------------------
(***************************************************************************)
(* Types.                                                                  *)
(***************************************************************************)

\* The requests have their type.
LEMMA RequestsTyped ==
  /\ \A p \in Phone : StartSync(p) \in Requests /\ StopSync(p) \in Requests
  /\ \A ps \in SUBSET Phone : RegisterStale(ps) \in Requests
  /\ StopAll \in Requests /\ DeviceStatus \in Requests
BY DEF StartSync, StopSync, RegisterStale, StopAll, DeviceStatus, Requests

\* What is sent keeps the type of what is under way.
LEMMA SendTyped ==
  ASSUME requests \in Seq(Requests), NEW msg \in Requests, Send(msg)
  PROVE  requests' \in Seq(Requests)
BY AppendProperties DEF Send

\* So does what is taken up.
LEMMA TakeTyped ==
  ASSUME requests \in Seq(Requests), NEW msg, Take(msg)
  PROVE  requests' \in Seq(Requests)
BY HeadTailProperties DEF Take

\* Engine objects in their places.
LEMMA EngineTyped ==
  /\ \A p \in Phone : \A at \in {"starting", "running", "leaving"} :
       \A w \in BOOLEAN : EngineFor(p, at, w) \in AtWork
  /\ \A x \in AtWork : x # Stopped
  /\ \A x \in {Stopped} \cup AtWork : x.at = "stopped" <=> x = Stopped
BY DEF EngineFor, AtWork, Stopped

\* Every order of a finite set names each of its members.
LEMMA OrdersAreComplete ==
  ASSUME NEW S, IsFiniteSet(S), NEW order \in SetToSeqs(S)
  PROVE  /\ order \in Seq(S) /\ Len(order) = Cardinality(S)
         /\ \A x \in S : \E i \in 1..Len(order) : order[i] = x
<1> DEFINE n == Cardinality(S)
<1>1. n \in Nat
  BY FS_CardinalityType
<1>2. order \in [1..n -> S] /\ \A i, j \in 1..n : i # j => order[i] # order[j]
  BY DEF SetToSeqs
<1>3. order \in Seq(S) /\ Len(order) = n
  BY <1>1, <1>2
<1>4. IsFiniteSet(1..n) /\ Cardinality(1..n) = n
  BY <1>1, FS_Interval
<1>5. order \in Injection(1..n, S)
  BY <1>2 DEF Injection, IsInjective
<1>6. order \in Surjection(1..n, S)
  BY <1>4, <1>5, FS_Injection
<1> QED
  BY <1>3, <1>6 DEF Surjection

\* An engine object whose place, or whose wire, changes.
LEMMA EngineExcept ==
  ASSUME NEW x \in AtWork
  PROVE  /\ \A at \in {"starting", "running", "leaving"} : [x EXCEPT !.at = at] \in AtWork
         /\ [x EXCEPT !.wired = FALSE] \in AtWork
         /\ [x EXCEPT !.at = "leaving", !.wired = FALSE] \in AtWork
BY DEF AtWork

\* An engine that is not stopped is at work.
LEMMA EngineAtWork ==
  ASSUME TypeOK, NEW e \in Engines, ~IsAt(e, "stopped")
  PROVE  engine[e] \in AtWork /\ engine[e].phone \in Phone
BY DEF TypeOK, IsAt, AtWork, Stopped

\* A phone leaves the transport: the plugin's variables keep their types.
LEMMA LeaveTyped ==
  ASSUME TypeOK, NEW p \in Phone,
         NEW objects \in [Engines -> {Stopped} \cup AtWork],
         NEW registered \in [Phone -> {0} \cup Engines],
         LeavePairing(p, objects, registered)
  PROVE  /\ engine' \in [Engines -> {Stopped} \cup AtWork]
         /\ syncEngines' \in [Phone -> {0} \cup Engines]
         /\ transport' \in BOOLEAN /\ tokens' \in SUBSET Phone
         /\ handlers' \in [Phone -> {0} \cup Engines]
         /\ overlapped' \in SUBSET Phone
<1>0. overlapped' \in SUBSET Phone
  BY DEF LeavePairing, TypeOK
<1>1. syncEngines' = registered
  BY DEF LeavePairing
<1>2. CASE registered = NoEngines
  <2>1. \A e \in Engines : objects[e] # Stopped => [objects[e] EXCEPT !.wired = FALSE] \in AtWork
    BY EngineExcept
  <2>2. engine' = [e \in Engines |-> IF objects[e] = Stopped THEN Stopped
                                     ELSE [objects[e] EXCEPT !.wired = FALSE]]
    BY <1>2 DEF LeavePairing
  <2>3. engine' \in [Engines -> {Stopped} \cup AtWork]
    BY <2>1, <2>2
  <2> QED
    BY <1>0, <1>1, <1>2, <2>3 DEF LeavePairing, NoEngines
<1>3. CASE registered # NoEngines
  BY <1>0, <1>1, <1>3 DEF LeavePairing, TypeOK
<1> QED
  BY <1>2, <1>3

\* Changes of the allowlist in their places.
LEMMA ChangesTyped ==
  ASSUME TypeOK, NEW j \in Jobs
  PROVE  /\ NoJob.at = "none"
         /\ jobs[j] = NoJob \/ jobs[j] \in Changes
         /\ jobs[j].at # "none" => jobs[j] \in Changes
         /\ jobs[j] \in Changes => jobs[j] # NoJob /\ jobs[j].phones \in SUBSET Phone
                                    /\ jobs[j].do \in {"add", "remove", "clear"}
                                    /\ jobs[j].at \in {"read", "write", "fill"}
                                    /\ jobs[j].file \in SUBSET Phone
BY DEF TypeOK, Changes, NoJob

\* The end of a change of the allowlist.
LEMMA FinishTyped ==
  ASSUME TypeOK, NEW j \in Jobs, jobs[j] \in Changes, FinishChange(j)
  PROVE  jobs' \in [Jobs -> {NoJob} \cup Changes] /\ recipients' \in SUBSET Phone
<1>1. jobs' \in [Jobs -> {NoJob} \cup Changes]
  BY DEF FinishChange, TypeOK
<1>2. recipients' \in {recipients, recipients \cup jobs[j].phones, recipients \ jobs[j].phones}
  BY DEF FinishChange
<1>3. jobs[j].phones \in SUBSET Phone /\ recipients \in SUBSET Phone
  BY ChangesTyped DEF TypeOK
<1> QED
  BY <1>1, <1>2, <1>3

\* A change of the allowlist begins.
LEMMA ChangeTyped ==
  ASSUME TypeOK, NEW do \in {"add", "remove", "clear"}, NEW ps \in SUBSET Phone, Change(do, ps)
  PROVE  jobs' \in [Jobs -> {NoJob} \cup Changes] /\ crossed' \in SUBSET Phone
<1>1. [do |-> do, phones |-> ps, at |-> "read", file |-> {}] \in Changes
  BY DEF Changes
<1>2. jobs' \in [Jobs -> {NoJob} \cup Changes]
  BY <1>1 DEF Change, TypeOK
<1>3. crossed' \in SUBSET Phone
  BY DEF Change, TypeOK
<1> QED
  BY <1>2, <1>3

\* What the changes of the allowlist do to the types.
LEMMA JobsTyped ==
  ASSUME TypeOK, NEW j \in Jobs,
         ReadAllowlist(j) \/ TruncateAllowlist(j) \/ FillAllowlist(j)
  PROVE  /\ jobs[j] \in Changes
         /\ jobs' \in [Jobs -> {NoJob} \cup Changes]
         /\ recipients' \in SUBSET Phone /\ allow' \in SUBSET Phone /\ raced' \in BOOLEAN
<1>0. jobs[j].at # "none"
  BY DEF ReadAllowlist, TruncateAllowlist, FillAllowlist
<1>1. /\ jobs[j] \in Changes /\ allow \in SUBSET Phone /\ recipients \in SUBSET Phone
      /\ raced \in BOOLEAN
  BY <1>0, ChangesTyped DEF TypeOK
<1>2. CASE ReadAllowlist(j)
  <2> DEFINE file == Changed(jobs[j], allow)
  <2>1. file \in SUBSET Phone /\ allow' = allow /\ raced' \in BOOLEAN
    BY <1>1, <1>2 DEF Changed, Changes, ReadAllowlist
  <2>2. CASE FinishChange(j)
    BY <1>1, <2>1, <2>2, FinishTyped
  <2>3. CASE /\ jobs' = [jobs EXCEPT ![j] = [@ EXCEPT !.at = "write", !.file = file]]
             /\ recipients' = IF jobs[j].do = "clear" THEN recipients \ allow ELSE recipients
    <3>1. [jobs[j] EXCEPT !.at = "write", !.file = file] \in Changes
      BY <1>1, <2>1 DEF Changes
    <3>2. jobs' \in [Jobs -> {NoJob} \cup Changes]
      BY <2>3, <3>1 DEF TypeOK
    <3> QED
      BY <1>1, <2>1, <2>3, <3>2
  <2> QED
    BY <1>2, <2>2, <2>3 DEF ReadAllowlist
<1>3. CASE TruncateAllowlist(j)
  <2>1. [jobs[j] EXCEPT !.at = "fill"] \in Changes
    BY <1>1 DEF Changes
  <2>2. jobs' \in [Jobs -> {NoJob} \cup Changes]
    BY <1>3, <2>1 DEF TruncateAllowlist, TypeOK
  <2> QED
    BY <1>1, <1>3, <2>2 DEF TruncateAllowlist
<1>4. CASE FillAllowlist(j)
  <2>1. jobs[j].file \in SUBSET Phone
    BY <1>1 DEF Changes
  <2>2. allow' \in {{}, jobs[j].file} /\ raced' = raced
    BY <1>4 DEF FillAllowlist
  <2> QED
    BY <1>1, <1>4, <2>1, <2>2, FinishTyped DEF FillAllowlist
<1> QED
  BY <1>2, <1>3, <1>4, <1>1

\* The requests that onRpcConnected sends.
Named(order) == [i \in DOMAIN order |-> StartSync(order[i])]
StaleNamed == IF Rows("stale") = {} THEN <<>> ELSE <<RegisterStale(Rows("stale"))>>

LEMMA ConnectedTyped ==
  ASSUME TypeOK, NEW order \in SetToSeqs(Rows("active"))
  PROVE  /\ order \in Seq(Phone) /\ Len(order) = Cardinality(Rows("active"))
         /\ \A p \in Rows("active") : \E i \in 1..Len(order) : order[i] = p
         /\ Named(order) \in Seq(Requests) /\ Len(Named(order)) = Len(order)
         /\ StaleNamed \in Seq(Requests)
<1>1. IsFiniteSet(Rows("active"))
  BY FS_Subset, PairingBoundsAssumption DEF Rows
<1>2. /\ order \in Seq(Rows("active")) /\ Len(order) = Cardinality(Rows("active"))
      /\ \A p \in Rows("active") : \E i \in 1..Len(order) : order[i] = p
  BY <1>1, OrdersAreComplete
<1>3. order \in Seq(Phone)
  BY <1>2 DEF Rows
<1>4. \A i \in 1..Len(order) : StartSync(order[i]) \in Requests
  BY <1>3, RequestsTyped, ElementOfSeq
<1>5. Named(order) \in [1..Len(order) -> Requests]
  BY <1>3, <1>4 DEF Named
<1>6. Named(order) \in Seq(Requests) /\ Len(Named(order)) = Len(order)
  BY <1>3, <1>5
<1>7. RegisterStale(Rows("stale")) \in Requests
  BY RequestsTyped DEF Rows
<1> QED
  BY <1>2, <1>3, <1>6, <1>7 DEF StaleNamed

\* Every step of the desktop and of the link keeps the types.
LEMMA DesktopTyped ==
  ASSUME TypeOK,
         \/ RequestPairingCode \/ CodeExpires \/ PollPairingStatus
         \/ \E p \in Phone : PhonePairs(p) \/ CompletePairing(p) \/ RemovePairing(p)
         \/ DisconnectAll \/ AskDeviceStatus \/ PersistStale
         \/ \E j \in Jobs : ReadAllowlist(j) \/ TruncateAllowlist(j) \/ FillAllowlist(j)
         \/ RpcConnected \/ RpcLost
  PROVE  TypeOK'
<1> USE DEF desktopVars, fileVars, linkVars, pluginVars
<1>a. ASSUME Input PROVE inputs' \in 0..MaxInputs
  BY <1>a, PairingBoundsAssumption DEF Input, TypeOK
<1>1. CASE RequestPairingCode
  BY <1>1, <1>a DEF RequestPairingCode, TypeOK
<1>2. CASE CodeExpires
  BY <1>2, <1>a DEF CodeExpires, TypeOK
<1>3. CASE PollPairingStatus
  BY <1>3 DEF PollPairingStatus, TypeOK
<1>4. ASSUME NEW p \in Phone, PhonePairs(p) PROVE TypeOK'
  BY <1>4, <1>a DEF PhonePairs, TypeOK
<1>5. ASSUME NEW p \in Phone, CompletePairing(p) PROVE TypeOK'
  <2>1. jobs' \in [Jobs -> {NoJob} \cup Changes] /\ crossed' \in SUBSET Phone
    BY <1>5, ChangeTyped DEF CompletePairing
  <2>2. requests' \in Seq(Requests)
    BY <1>5, SendTyped, RequestsTyped DEF CompletePairing, TypeOK
  <2>3. answers' \in [Phone -> Nat] /\ row' \in [Phone -> {"absent", "active", "stale"}]
    BY <1>5 DEF CompletePairing, TypeOK
  <2> QED
    BY <1>5, <2>1, <2>2, <2>3 DEF CompletePairing, TypeOK
<1>6. ASSUME NEW p \in Phone, RemovePairing(p) PROVE TypeOK'
  <2>1. jobs' \in [Jobs -> {NoJob} \cup Changes] /\ crossed' \in SUBSET Phone
    BY <1>6, ChangeTyped DEF RemovePairing
  <2>2. requests' \in Seq(Requests)
    BY <1>6, SendTyped, RequestsTyped DEF RemovePairing, TypeOK
  <2>3. inputs' \in 0..MaxInputs
    BY <1>6, <1>a DEF RemovePairing
  <2> QED
    BY <1>6, <2>1, <2>2, <2>3 DEF RemovePairing, TypeOK
<1>7. CASE DisconnectAll
  <2>1. jobs' \in [Jobs -> {NoJob} \cup Changes] /\ crossed' \in SUBSET Phone
    BY <1>7, ChangeTyped DEF DisconnectAll
  <2>2. requests' \in Seq(Requests)
    BY <1>7, SendTyped, RequestsTyped DEF DisconnectAll, TypeOK
  <2>3. inputs' \in 0..MaxInputs
    BY <1>7, <1>a DEF DisconnectAll
  <2> QED
    BY <1>7, <2>1, <2>2, <2>3 DEF DisconnectAll, TypeOK
<1>8. CASE AskDeviceStatus
  <2>1. requests' \in Seq(Requests)
    BY <1>8, SendTyped, RequestsTyped DEF AskDeviceStatus, TypeOK
  <2>2. inputs' \in 0..MaxInputs
    BY <1>8, <1>a DEF AskDeviceStatus
  <2> QED
    BY <1>8, <2>1, <2>2 DEF AskDeviceStatus, TypeOK
<1>9. CASE PersistStale
  BY <1>9 DEF PersistStale, TypeOK
<1>10. ASSUME NEW j \in Jobs, ReadAllowlist(j) \/ TruncateAllowlist(j) \/ FillAllowlist(j)
       PROVE TypeOK'
  <2>2. /\ jobs' \in [Jobs -> {NoJob} \cup Changes]
        /\ recipients' \in SUBSET Phone /\ allow' \in SUBSET Phone /\ raced' \in BOOLEAN
    BY <1>10, JobsTyped
  <2>3. UNCHANGED <<row, code, answers, crossed, linkVars, pluginVars, paired, inputs>>
    BY <1>10 DEF ReadAllowlist, TruncateAllowlist, FillAllowlist
  <2> QED
    BY <2>2, <2>3 DEF TypeOK
<1>11. CASE RpcConnected
  <2>1. PICK order \in SetToSeqs(Rows("active")) :
          requests' = requests \o Named(order) \o StaleNamed
    BY <1>11 DEF RpcConnected, Named, StaleNamed
  <2>2. requests \in Seq(Requests) /\ Named(order) \in Seq(Requests) /\ StaleNamed \in Seq(Requests)
    BY ConnectedTyped DEF TypeOK
  <2>3. requests' \in Seq(Requests)
    BY <2>1, <2>2, ConcatProperties
  <2> QED
    BY <1>11, <2>3 DEF RpcConnected, TypeOK
<1>12. CASE RpcLost
  <2>1. requests' \in Seq(Requests)
    BY <1>12, SubSeqProperties DEF RpcLost, TypeOK
  <2>2. inputs' \in 0..MaxInputs
    BY <1>12, <1>a DEF RpcLost
  <2> QED
    BY <1>12, <2>1, <2>2 DEF RpcLost, TypeOK
<1> QED
  BY <1>1, <1>2, <1>3, <1>4, <1>5, <1>6, <1>7, <1>8, <1>9, <1>10, <1>11, <1>12

\* What the actions of the plugin leave alone.
PluginStep ==
  \/ \E p \in Phone : TakeStartSync(p) \/ TakeStopSync(p) \/ PhoneUnpairs(p)
  \/ \E ps \in SUBSET Phone : TakeRegisterStale(ps)
  \/ TakeStopAll \/ TakeDeviceStatus \/ Crash
  \/ \E e \in Engines : EngineStarted(e) \/ EngineLeft(e)

\* Every step of the plugin keeps the types: an engine it stops is at work.
LEMMA PluginTyped ==
  ASSUME TypeOK, MapsInv, PluginStep
  PROVE  TypeOK'
<1> USE DEF desktopVars, fileVars, linkVars, pluginVars
<1>a. ASSUME Input PROVE inputs' \in 0..MaxInputs
  BY <1>a, PairingBoundsAssumption DEF Input, TypeOK
<1>b. ASSUME NEW msg, Take(msg) PROVE requests' \in Seq(Requests)
  BY <1>b, TakeTyped DEF TypeOK
<1>c. NoEngines \in [Phone -> {0} \cup Engines]
  BY DEF NoEngines
<1>d. overlapped \in SUBSET Phone
  BY DEF TypeOK
<1>1. ASSUME NEW p \in Phone, TakeStartSync(p) PROVE TypeOK'
  <2>1. requests' \in Seq(Requests)
    BY <1>1, <1>b DEF TakeStartSync
  <2>2. engine' \in [Engines -> {Stopped} \cup AtWork]
    <3>1. EngineFor(p, "starting", TRUE) \in AtWork
      BY EngineTyped
    <3> QED
      BY <1>1, <3>1 DEF TakeStartSync, TypeOK
  <2>3. overlapped' \in SUBSET Phone
    BY <1>1, <1>d DEF TakeStartSync
  <2> QED
    BY <1>1, <2>1, <2>2, <2>3 DEF TakeStartSync, TypeOK
<1>2. ASSUME NEW p \in Phone, TakeStopSync(p) PROVE TypeOK'
  <2> DEFINE e == syncEngines[p]
             objects == [engine EXCEPT ![e].at = "leaving"]
             registered == [syncEngines EXCEPT ![p] = 0]
  <2>1. requests' \in Seq(Requests)
    BY <1>2, <1>b DEF TakeStopSync
  <2>2. /\ engine' \in [Engines -> {Stopped} \cup AtWork]
        /\ syncEngines' \in [Phone -> {0} \cup Engines]
        /\ transport' \in BOOLEAN /\ tokens' \in SUBSET Phone
        /\ handlers' \in [Phone -> {0} \cup Engines]
        /\ overlapped' \in SUBSET Phone /\ paired' \in SUBSET Phone
    <3>1. CASE e = 0
      BY <1>2, <3>1 DEF TakeStopSync, TypeOK
    <3>2. CASE e # 0
      <4>1. e \in Engines /\ registered \in [Phone -> {0} \cup Engines]
        BY <3>2 DEF TypeOK
      <4>2. engine[e] \in AtWork
        BY <3>2, <4>1, EngineAtWork DEF MapsInv, RunFor, IsAt
      <4>3. LeavePairing(p, objects, registered) /\ paired' \in {paired, paired \ {p}}
        BY <1>2, <3>2 DEF TakeStopSync
      <4>4. paired' \in SUBSET Phone
        BY <4>3 DEF TypeOK
      <4>5. [engine[e] EXCEPT !.at = "leaving"] \in AtWork
        BY <4>2 DEF AtWork
      <4>6. objects \in [Engines -> {Stopped} \cup AtWork]
        BY <4>1, <4>5 DEF TypeOK
      <4> HIDE DEF objects, registered
      <4> QED
        BY <4>1, <4>3, <4>4, <4>6, LeaveTyped
    <3> QED
      BY <3>1, <3>2
  <2> QED
    BY <1>2, <2>1, <2>2 DEF TakeStopSync, TypeOK
<1>3. ASSUME NEW p \in Phone, PhoneUnpairs(p) PROVE TypeOK'
  <2> DEFINE e == handlers[p]
             objects == [engine EXCEPT ![e] = Stopped]
             registered == [syncEngines EXCEPT ![p] = 0]
  <2>1. inputs' \in 0..MaxInputs /\ paired' \in SUBSET Phone
    BY <1>3, <1>a DEF PhoneUnpairs, TypeOK
  <2>2. CASE e # 0 /\ OnUnpaired(e, p)
    <3>1. e \in Engines /\ registered \in [Phone -> {0} \cup Engines]
      BY <2>2 DEF TypeOK
    <3>2. objects \in [Engines -> {Stopped} \cup AtWork]
      BY <3>1 DEF TypeOK
    <3>3. LeavePairing(p, objects, registered)
      BY <2>2 DEF OnUnpaired
    <3>4. stalePairings' \in SUBSET Phone
      BY <2>2 DEF OnUnpaired, TypeOK
    <3> HIDE DEF objects, registered
    <3>5. /\ engine' \in [Engines -> {Stopped} \cup AtWork]
          /\ syncEngines' \in [Phone -> {0} \cup Engines]
          /\ transport' \in BOOLEAN /\ tokens' \in SUBSET Phone
          /\ handlers' \in [Phone -> {0} \cup Engines]
          /\ overlapped' \in SUBSET Phone
      BY <3>1, <3>2, <3>3, LeaveTyped
    <3> QED
      BY <1>3, <2>1, <3>4, <3>5 DEF PhoneUnpairs, TypeOK
  <2>3. CASE UNCHANGED pluginVars
    BY <1>3, <2>1, <2>3 DEF PhoneUnpairs, TypeOK
  <2> QED
    BY <1>3, <2>2, <2>3 DEF PhoneUnpairs
<1>4. ASSUME NEW ps \in SUBSET Phone, TakeRegisterStale(ps) PROVE TypeOK'
  BY <1>4, <1>b DEF TakeRegisterStale, TypeOK
<1>5. CASE TakeStopAll
  <2>1. requests' \in Seq(Requests)
    BY <1>5, <1>b DEF TakeStopAll
  <2>2. engine' \in [Engines -> {Stopped} \cup AtWork]
    <3>1. \A e \in Engines : ~IsAt(e, "stopped") => engine[e] \in AtWork
      BY EngineAtWork
    <3>2. ASSUME NEW e \in Engines, ~IsAt(e, "stopped")
          PROVE  /\ [engine[e] EXCEPT !.at = "leaving", !.wired = FALSE] \in AtWork
                 /\ [engine[e] EXCEPT !.wired = FALSE] \in AtWork
      BY <3>1, <3>2, EngineExcept
    <3>3. engine' = [e \in Engines |->
                     CASE IsAt(e, "stopped") -> Stopped
                       [] e \in {syncEngines[p] : p \in Phone}
                            -> [engine[e] EXCEPT !.at = "leaving", !.wired = FALSE]
                       [] OTHER -> [engine[e] EXCEPT !.wired = FALSE]]
      BY <1>5 DEF TakeStopAll
    <3>4. ASSUME NEW e \in Engines PROVE engine'[e] \in {Stopped} \cup AtWork
      <4>1. CASE IsAt(e, "stopped")
        <5>1. e \notin {syncEngines[p] : p \in Phone}
          BY <4>1, PairingBoundsAssumption DEF MapsInv, RunFor, IsAt
        <5> QED
          BY <3>3, <4>1, <5>1
      <4>2. CASE ~IsAt(e, "stopped")
        <5>1. engine'[e] \in {[engine[e] EXCEPT !.at = "leaving", !.wired = FALSE],
                              [engine[e] EXCEPT !.wired = FALSE]}
          BY <3>3, <4>2
        <5> QED
          BY <3>2, <4>2, <5>1
      <4> QED
        BY <4>1, <4>2
    <3> QED
      BY <3>3, <3>4
  <2>3. paired' \in SUBSET Phone /\ overlapped' \in SUBSET Phone
    BY <1>5, <1>d DEF TakeStopAll, TypeOK
  <2> QED
    BY <1>5, <1>c, <2>1, <2>2, <2>3 DEF TakeStopAll, TypeOK
<1>6. CASE TakeDeviceStatus
  BY <1>6, <1>b DEF TakeDeviceStatus, TypeOK
<1>7. CASE Crash
  <2>1. inputs' \in 0..MaxInputs /\ requests' \in Seq(Requests)
    BY <1>7, <1>a DEF Crash
  <2>2. engine' \in [Engines -> {Stopped} \cup AtWork]
    BY <1>7 DEF Crash
  <2> QED
    BY <1>7, <1>c, <2>1, <2>2 DEF Crash, TypeOK
<1>8. ASSUME NEW e \in Engines, EngineStarted(e) PROVE TypeOK'
  <2>1. engine[e] \in AtWork /\ engine[e].phone \in Phone
    BY <1>8, EngineAtWork DEF EngineStarted, IsAt
  <2>2. [engine[e] EXCEPT !.at = "running"] \in AtWork
    BY <2>1 DEF AtWork
  <2>3. engine' \in [Engines -> {Stopped} \cup AtWork]
    BY <1>8, <2>2 DEF EngineStarted, TypeOK
  <2>4. /\ handlers' \in [Phone -> {0} \cup Engines]
        /\ syncEngines' \in [Phone -> {0} \cup Engines]
    BY <1>8, <2>1 DEF EngineStarted, TypeOK
  <2> QED
    BY <1>8, <2>3, <2>4 DEF EngineStarted, TypeOK
<1>9. ASSUME NEW e \in Engines, EngineLeft(e) PROVE TypeOK'
  <2>1. engine[e] \in AtWork /\ engine[e].phone \in Phone
    BY <1>9, EngineAtWork DEF EngineLeft, IsAt
  <2>2. handlers' \in [Phone -> {0} \cup Engines]
    BY <1>9, <2>1 DEF EngineLeft, TypeOK
  <2>3. engine' \in [Engines -> {Stopped} \cup AtWork]
    BY <1>9 DEF EngineLeft, TypeOK
  <2> QED
    BY <1>9, <2>2, <2>3 DEF EngineLeft, TypeOK
<1> QED
  BY <1>1, <1>2, <1>3, <1>4, <1>5, <1>6, <1>7, <1>8, <1>9 DEF PluginStep
-----------------------------------------------------------------------------
(***************************************************************************)
(* The engines, the maps and the transport.                                *)
(***************************************************************************)

\* What one phone's leave does to the engines: only wires change.
LEMMA LeaveObjects ==
  ASSUME NEW p \in Phone,
         NEW objects \in [Engines -> {Stopped} \cup AtWork],
         NEW registered \in [Phone -> {0} \cup Engines],
         LeavePairing(p, objects, registered)
  PROVE  \A d \in Engines : /\ engine'[d].at = objects[d].at
                            /\ objects[d] # Stopped => engine'[d].phone = objects[d].phone
<1>1. SUFFICES ASSUME NEW d \in Engines
               PROVE  /\ engine'[d].at = objects[d].at
                      /\ objects[d] # Stopped => engine'[d].phone = objects[d].phone
  OBVIOUS
<1>2. CASE objects[d] = Stopped
  BY <1>2 DEF LeavePairing
<1>3. CASE objects[d] \in AtWork
  <2>1. /\ [objects[d] EXCEPT !.wired = FALSE].at = objects[d].at
        /\ [objects[d] EXCEPT !.wired = FALSE].phone = objects[d].phone
    BY <1>3 DEF AtWork
  <2>2. engine'[d] \in {objects[d], [objects[d] EXCEPT !.wired = FALSE]}
    BY <1>3, EngineTyped DEF LeavePairing
  <2> QED
    BY <2>1, <2>2
<1> QED
  BY <1>2, <1>3

\* The engines of q that start or stop are the same, if none of them changes.
LEMMA SameEngines ==
  ASSUME NEW q \in Phone,
         \A d \in Engines : engine'[d] # engine[d] =>
           /\ ~(engine[d].at \in {"starting", "leaving"} /\ engine[d].phone = q)
           /\ ~(engine'[d].at \in {"starting", "leaving"} /\ engine'[d].phone = q)
  PROVE  /\ EnginesAt(q, {"starting"})' = EnginesAt(q, {"starting"})
         /\ \A d \in EnginesAt(q, {"starting"}) : engine'[d] = engine[d]
         /\ Leaving(q)' = Leaving(q)
<1>1. \A d \in Engines : \A at \in {"starting", "leaving"} :
        (engine'[d].at = at /\ engine'[d].phone = q) <=> (engine[d].at = at /\ engine[d].phone = q)
  OBVIOUS
<1>2. \A d \in Engines : engine[d].at \in {"starting", "leaving"} /\ engine[d].phone = q
                           => engine'[d] = engine[d]
  OBVIOUS
<1>3. \A at \in {"starting", "leaving"} : EnginesAt(q, {at})' = EnginesAt(q, {at})
  BY <1>1 DEF EnginesAt
<1>4. \A at \in {"starting", "leaving"} : \A d \in EnginesAt(q, {at}) : engine'[d] = engine[d]
  BY <1>2 DEF EnginesAt
<1> QED
  BY <1>3, <1>4 DEF Leaving

\* An engine that runs for a phone stops, and the phone leaves the transport.
LEMMA StopOneInv ==
  ASSUME TypeOK, PluginInv, NEW p \in Phone, NEW e \in Engines,
         IsAt(e, "running"), engine[e].phone = p,
         NEW objects \in [Engines -> {Stopped} \cup AtWork],
         \A d \in Engines : d # e => objects[d] = engine[d],
         \/ objects[e] = Stopped
         \/ objects[e].at = "leaving" /\ objects[e].phone = p,
         LeavePairing(p, objects, [syncEngines EXCEPT ![p] = 0])
  PROVE  PluginInv'
<1> DEFINE registered == [syncEngines EXCEPT ![p] = 0]
<1>1. /\ syncEngines \in [Phone -> {0} \cup Engines]
      /\ handlers \in [Phone -> {0} \cup Engines]
      /\ registered \in [Phone -> {0} \cup Engines]
      /\ \A q \in Phone : registered[q] = IF q = p THEN 0 ELSE syncEngines[q]
      /\ tokens \in SUBSET Phone
  BY DEF TypeOK
<1>2. syncEngines' = registered
  BY DEF LeavePairing
<1>3. \A d \in Engines : /\ engine'[d].at = objects[d].at
                         /\ objects[d] # Stopped => engine'[d].phone = objects[d].phone
  <2> HIDE DEF registered
  <2> QED
    BY <1>1, LeaveObjects DEF registered
<1>4. \/ /\ registered = NoEngines
         /\ transport' = FALSE /\ tokens' = {} /\ handlers' = NoEngines
      \/ /\ registered # NoEngines
         /\ transport' = transport /\ tokens' = tokens \ {p}
         /\ handlers' = [handlers EXCEPT ![p] = 0]
  BY DEF LeavePairing
<1>5. objects[e].at \in {"stopped", "leaving"}
  BY DEF Stopped
<1>6. \A d \in Engines : engine[d] # Stopped => ~IsAt(d, "stopped")
  BY EngineTyped DEF TypeOK, IsAt
<1>7. \A d \in Engines : d # e => /\ engine'[d].at = engine[d].at
                                  /\ ~IsAt(d, "stopped") => engine'[d].phone = engine[d].phone
  BY <1>3, EngineTyped DEF IsAt, Stopped
<1>8. ~(engine'[e].at \in {"starting", "running"})
  BY <1>3, <1>5
<1> HIDE DEF registered
<1>9. MapsInv'
  <2>1. ASSUME NEW q \in Phone, NEW d, d = syncEngines[q] \/ d = handlers[q], d # 0, q # p
        PROVE  engine'[d].at = "running" /\ engine'[d].phone = q
    <3>1. d \in Engines /\ IsAt(d, "running") /\ engine[d].phone = q
      BY <1>1, <2>1 DEF PluginInv, MapsInv, RunFor
    <3> QED
      BY <1>7, <2>1, <3>1 DEF IsAt
  <2>2. ASSUME NEW q \in Phone, syncEngines'[q] # 0
        PROVE  q # p /\ syncEngines'[q] = syncEngines[q]
    BY <1>1, <1>2, <2>2
  <2>3. ASSUME NEW q \in Phone, handlers'[q] # 0
        PROVE  q # p /\ handlers'[q] = handlers[q]
    BY <1>1, <1>4, <2>3 DEF NoEngines
  <2> QED
    BY <2>1, <2>2, <2>3 DEF MapsInv, RunFor, IsAt
<1>10. ASSUME NEW q \in Phone, EnginesAt(q, {"starting"}) # {}
       PROVE  EnginesAt(q, {"starting"})' # {}
  <2>1. PICK d \in Engines : engine[d].at = "starting" /\ engine[d].phone = q
    BY <1>10 DEF EnginesAt
  <2>2. d # e
    BY <2>1 DEF IsAt
  <2> QED
    BY <1>7, <2>1, <2>2 DEF EnginesAt, IsAt
<1>11. JoinedIsServed'
  <2>1. CASE registered = NoEngines
    BY <1>4, <2>1 DEF JoinedIsServed
  <2>2. CASE registered # NoEngines
    <3>1. PICK q \in Phone : registered[q] # 0
      BY <1>1, <2>2 DEF NoEngines
    <3>2. syncEngines'[q] # 0
      BY <1>2, <3>1
    <3>3. ASSUME NEW r \in tokens' PROVE syncEngines'[r] # 0 \/ EnginesAt(r, {"starting"})' # {}
      <4>1. r \in tokens /\ r # p /\ r \in Phone
        BY <1>1, <1>4, <2>2, <3>3
      <4>2. syncEngines[r] # 0 \/ EnginesAt(r, {"starting"}) # {}
        BY <4>1 DEF PluginInv, JoinedIsServed
      <4> QED
        BY <1>1, <1>2, <1>10, <4>1, <4>2
    <3> QED
      BY <3>2, <3>3 DEF JoinedIsServed
  <2> QED
    BY <2>1, <2>2
<1>12. /\ overlapped \subseteq overlapped'
       /\ \A q \in Phone \ overlapped' :
            registered = NoEngines \/ q = p => EnginesAt(q, {"starting"}) = {}
  BY DEF LeavePairing, registered
<1>13. \A q \in Phone : EnginesAt(q, {"starting"})' \subseteq EnginesAt(q, {"starting"})
  BY <1>7, <1>8 DEF EnginesAt, IsAt
<1>14. ASSUME NEW q \in Phone \ overlapped'
       PROVE  StartsAlone(q)' /\ (Leaving(q)' # {} => syncEngines'[q] = 0)
  <2>1. CASE registered = NoEngines \/ q = p
    <3>1. EnginesAt(q, {"starting"})' = {}
      BY <1>12, <1>13, <1>14, <2>1
    <3>2. syncEngines'[q] = 0
      BY <1>1, <1>2, <2>1 DEF NoEngines
    <3> QED
      BY <3>1, <3>2 DEF StartsAlone
  <2>2. CASE registered # NoEngines /\ q # p
    <3>1. engine' = objects
      BY <2>2 DEF LeavePairing, registered
    <3>2. \A d \in Engines : engine'[d] # engine[d] => d = e
      BY <3>1
    <3>3. ~(engine'[e].at \in {"starting", "leaving"} /\ engine'[e].phone = q)
      BY <1>5, <2>2, <3>1 DEF Stopped
    <3>4. /\ EnginesAt(q, {"starting"})' = EnginesAt(q, {"starting"})
          /\ \A d \in EnginesAt(q, {"starting"}) : engine'[d] = engine[d]
          /\ Leaving(q)' = Leaving(q)
      BY <2>2, <3>2, <3>3, SameEngines
    <3>5. transport' = transport /\ (q \in tokens' <=> q \in tokens) /\ syncEngines'[q] = syncEngines[q]
      BY <1>1, <1>2, <1>4, <2>2
    <3>6. StartsAlone(q) /\ (Leaving(q) # {} => syncEngines[q] = 0)
      BY <1>12, <1>14 DEF PluginInv, AloneInv
    <3> QED
      BY <3>4, <3>5, <3>6 DEF StartsAlone
  <2> QED
    BY <2>1, <2>2
<1>15. HearsItsPhone'
  <2>1. SUFFICES ASSUME NEW q \in Phone \ overlapped', syncEngines'[q] # 0
                 PROVE  transport' /\ q \in tokens' /\ handlers'[q] = syncEngines'[q]
    BY DEF HearsItsPhone
  <2>2. q # p /\ syncEngines'[q] = syncEngines[q] /\ syncEngines[q] # 0
    BY <1>1, <1>2, <2>1
  <2>3. registered # NoEngines
    BY <1>2, <2>1 DEF NoEngines
  <2>4. transport /\ q \in tokens /\ handlers[q] = syncEngines[q]
    BY <1>12, <2>1, <2>2 DEF PluginInv, HearsItsPhone
  <2> QED
    BY <1>1, <1>4, <2>2, <2>3, <2>4
<1>16. AloneInv'
  BY <1>14 DEF AloneInv
<1> QED
  BY <1>9, <1>11, <1>15, <1>16 DEF PluginInv

\* No engine is registered and none will be heard.
LEMMA NothingRegistered ==
  ASSUME syncEngines' = NoEngines, handlers' = NoEngines, transport' = FALSE, tokens' = {},
         \A q \in Phone \ overlapped' : EnginesAt(q, {"starting"})' = {}
  PROVE  PluginInv'
<1>1. \A p \in Phone : syncEngines'[p] = 0 /\ handlers'[p] = 0
  BY DEF NoEngines
<1>2. MapsInv' /\ JoinedIsServed' /\ HearsItsPhone'
  BY <1>1 DEF MapsInv, RunFor, JoinedIsServed, HearsItsPhone
<1>3. AloneInv'
  BY <1>1 DEF AloneInv, StartsAlone
<1> QED
  BY <1>2, <1>3 DEF PluginInv

\* An engine starts.
LEMMA StartSyncInv ==
  ASSUME TypeOK, PluginInv, NEW p \in Phone, TakeStartSync(p)
  PROVE  PluginInv'
<1>1. /\ transport' = TRUE /\ tokens' = tokens \cup {p}
      /\ syncEngines' = syncEngines /\ handlers' = handlers
  BY DEF TakeStartSync
<1>2. CASE syncEngines[p] # 0
  <2>1. engine' = engine /\ overlapped' = overlapped
    BY <1>2 DEF TakeStartSync
  <2>2. MapsInv'
    BY <1>1, <2>1 DEF PluginInv, MapsInv, RunFor, IsAt
  <2>3. \A q \in Phone : EnginesAt(q, {"starting"})' = EnginesAt(q, {"starting"})
    BY <2>1 DEF EnginesAt
  <2>4. JoinedIsServed'
    <3>1. ASSUME NEW q \in tokens' PROVE syncEngines'[q] # 0 \/ EnginesAt(q, {"starting"})' # {}
      BY <1>1, <1>2, <2>3, <3>1 DEF PluginInv, JoinedIsServed, TypeOK
    <3> QED
      BY <1>1, <1>2, <3>1 DEF JoinedIsServed
  <2>5. AloneInv'
    BY <1>1, <2>1 DEF PluginInv, AloneInv, StartsAlone, EnginesAt, Leaving
  <2>6. HearsItsPhone'
    BY <1>1, <2>1 DEF PluginInv, HearsItsPhone
  <2> QED
    BY <2>2, <2>4, <2>5, <2>6 DEF PluginInv
<1>3. CASE syncEngines[p] = 0
  <2>1. PICK e \in Engines : /\ engine[e].at = "stopped"
                             /\ engine' = [engine EXCEPT ![e] = EngineFor(p, "starting", TRUE)]
    BY <1>3 DEF TakeStartSync, IsAt
  <2>2. /\ Leaving(p) # {} => overlapped' = overlapped \cup {p}
        /\ Leaving(p) = {} /\ EnginesAt(p, {"starting"}) = {} => overlapped' = overlapped \ {p}
        /\ Leaving(p) = {} /\ EnginesAt(p, {"starting"}) # {} => overlapped' = overlapped
    BY <1>3 DEF TakeStartSync
  <2>3. /\ engine'[e].at = "starting" /\ engine'[e].phone = p /\ engine'[e].wired = TRUE
        /\ \A d \in Engines : d # e => engine'[d] = engine[d]
    BY <2>1 DEF EngineFor, TypeOK
  <2>4. MapsInv'
    BY <1>1, <2>1, <2>3, PairingBoundsAssumption DEF PluginInv, MapsInv, RunFor, IsAt, TypeOK
  <2>5. \A q \in Phone : EnginesAt(q, {"starting"}) \subseteq EnginesAt(q, {"starting"})'
    BY <2>1, <2>3 DEF EnginesAt
  <2>6. e \in EnginesAt(p, {"starting"})'
    BY <2>3 DEF EnginesAt
  <2>7. JoinedIsServed'
    <3>1. ASSUME NEW q \in tokens' PROVE syncEngines'[q] # 0 \/ EnginesAt(q, {"starting"})' # {}
      <4>1. CASE q = p
        BY <2>6, <4>1
      <4>2. CASE q # p
        BY <1>1, <2>5, <3>1, <4>2 DEF PluginInv, JoinedIsServed, TypeOK
      <4> QED
        BY <4>1, <4>2
    <3> QED
      BY <2>6, <3>1 DEF JoinedIsServed
  <2>8. \A q \in Phone \ overlapped' : q # p => q \notin overlapped
    BY <2>2
  <2>9. (StartsAlone(p)' /\ Leaving(p)' = {}) \/ p \in overlapped'
    <3>1. SUFFICES ASSUME p \notin overlapped'
                   PROVE  StartsAlone(p)' /\ Leaving(p)' = {}
      OBVIOUS
    <3>2. Leaving(p) = {}
      BY <2>2, <3>1
    <3>3. Leaving(p)' = {}
      <4>1. \A d \in Engines : engine'[d].at = "leaving" => engine'[d] = engine[d]
        BY <2>3
      <4> QED
        BY <3>2, <4>1 DEF Leaving, EnginesAt
    <3>4. ASSUME NEW d \in EnginesAt(p, {"starting"})' PROVE engine'[d].wired
      <4>1. CASE d = e
        BY <2>3, <4>1
      <4>2. CASE d # e
        <5>1. d \in Engines /\ d \in EnginesAt(p, {"starting"}) /\ engine'[d] = engine[d]
          BY <2>3, <3>4, <4>2 DEF EnginesAt
        <5>2. p \notin overlapped
          BY <2>2, <3>1, <3>2, <5>1
        <5> QED
          BY <5>1, <5>2 DEF PluginInv, AloneInv, StartsAlone
      <4> QED
        BY <4>1, <4>2
    <3> QED
      BY <1>1, <3>3, <3>4 DEF StartsAlone
  <2>10. ASSUME NEW q \in Phone \ overlapped', q # p
         PROVE  StartsAlone(q)' /\ (Leaving(q)' # {} => syncEngines'[q] = 0)
    <3>1. \A d \in Engines : engine'[d] # engine[d] => d = e
      BY <2>3
    <3>2. /\ EnginesAt(q, {"starting"})' = EnginesAt(q, {"starting"})
          /\ \A d \in EnginesAt(q, {"starting"}) : engine'[d] = engine[d]
          /\ Leaving(q)' = Leaving(q)
      BY <2>1, <2>3, <2>10, <3>1, SameEngines
    <3> QED
      BY <1>1, <2>8, <2>10, <3>2 DEF PluginInv, AloneInv, StartsAlone
  <2>11. AloneInv'
    BY <2>9, <2>10 DEF AloneInv
  <2>12. HearsItsPhone'
    <3>1. ASSUME NEW q \in Phone \ overlapped', syncEngines'[q] # 0
          PROVE  transport' /\ q \in tokens' /\ handlers'[q] = syncEngines'[q]
      <4>1. q # p /\ q \notin overlapped
        BY <1>1, <1>3, <2>8, <3>1
      <4> QED
        BY <1>1, <3>1, <4>1 DEF PluginInv, HearsItsPhone
    <3> QED
      BY <3>1 DEF HearsItsPhone
  <2> QED
    BY <2>4, <2>7, <2>11, <2>12 DEF PluginInv
<1> QED
  BY <1>2, <1>3 DEF TypeOK

\* An engine has started.
LEMMA StartedInv ==
  ASSUME TypeOK, PluginInv, NEW e \in Engines, EngineStarted(e)
  PROVE  PluginInv'
<1> DEFINE p == engine[e].phone
<1>1. engine[e].at = "starting" /\ engine[e] \in AtWork /\ p \in Phone /\ e # 0
  BY EngineAtWork, PairingBoundsAssumption DEF EngineStarted, IsAt
<1>2. /\ engine' = [engine EXCEPT ![e].at = "running"]
      /\ handlers' = IF engine[e].wired THEN [handlers EXCEPT ![p] = e] ELSE handlers
      /\ syncEngines' = [syncEngines EXCEPT ![p] = e]
      /\ UNCHANGED <<transport, tokens, overlapped>>
  BY DEF EngineStarted
<1>3. /\ engine'[e].at = "running" /\ engine'[e].phone = p
      /\ \A d \in Engines : d # e => engine'[d] = engine[d]
      /\ \A d \in Engines : engine'[d].phone = engine[d].phone
  BY <1>1, <1>2 DEF TypeOK, AtWork
<1>4. /\ syncEngines'[p] = e /\ handlers'[p] \in {e, handlers[p]}
      /\ \A q \in Phone : q # p => syncEngines'[q] = syncEngines[q] /\ handlers'[q] = handlers[q]
      /\ engine[e].wired => handlers'[p] = e
  BY <1>1, <1>2 DEF TypeOK
<1> HIDE DEF p
<1>5. MapsInv'
  <2>1. ASSUME NEW q \in Phone, NEW d \in {syncEngines'[q], handlers'[q]}, d # 0
        PROVE  engine'[d].at = "running" /\ engine'[d].phone = q
    <3>1. CASE d = e /\ q = p
      BY <1>3, <3>1
    <3>2. CASE d \in {syncEngines[q], handlers[q]}
      <4>1. d \in Engines /\ engine[d].at = "running" /\ engine[d].phone = q
        BY <2>1, <3>2 DEF TypeOK, PluginInv, MapsInv, RunFor, IsAt
      <4> QED
        BY <1>1, <1>3, <4>1
    <3> QED
      BY <1>4, <2>1, <3>1, <3>2
  <2> QED
    BY <2>1 DEF MapsInv, RunFor, IsAt
<1>6. \A q \in Phone : q # p => EnginesAt(q, {"starting"}) \subseteq EnginesAt(q, {"starting"})'
  BY <1>3 DEF EnginesAt, p
<1>7. JoinedIsServed'
  <2>1. transport' => \E q \in Phone : syncEngines'[q] # 0
    BY <1>1, <1>4
  <2>2. ASSUME NEW q \in tokens' PROVE syncEngines'[q] # 0 \/ EnginesAt(q, {"starting"})' # {}
    <3>1. q \in tokens /\ q \in Phone
      BY <1>2, <2>2 DEF TypeOK
    <3>2. syncEngines[q] # 0 \/ EnginesAt(q, {"starting"}) # {}
      BY <3>1 DEF PluginInv, JoinedIsServed
    <3> QED
      BY <1>1, <1>4, <1>6, <3>1, <3>2
  <2> QED
    BY <2>1, <2>2 DEF JoinedIsServed
<1>8. p \notin overlapped => /\ engine[e].wired /\ transport /\ p \in tokens
                             /\ Leaving(p) = {}
  <2>1. e \in EnginesAt(p, {"starting"})
    BY <1>1 DEF EnginesAt, p
  <2> QED
    BY <1>1, <2>1 DEF PluginInv, AloneInv, StartsAlone
<1>9. AloneInv'
  <2>1. SUFFICES ASSUME NEW q \in Phone \ overlapped
                 PROVE  StartsAlone(q)' /\ (Leaving(q)' # {} => syncEngines'[q] = 0)
    BY <1>2 DEF AloneInv
  <2>2. StartsAlone(q) /\ (Leaving(q) # {} => syncEngines[q] = 0)
    BY <2>1 DEF PluginInv, AloneInv
  <2>3. \A d \in Engines : engine'[d].at \in {"starting", "leaving"} => engine'[d] = engine[d]
    BY <1>3
  <2>4. /\ EnginesAt(q, {"starting"})' \subseteq EnginesAt(q, {"starting"})
        /\ \A d \in EnginesAt(q, {"starting"})' : engine'[d] = engine[d]
        /\ Leaving(q)' \subseteq Leaving(q)
    BY <2>3 DEF EnginesAt, Leaving
  <2>5. StartsAlone(q)'
    BY <1>2, <2>2, <2>4 DEF StartsAlone
  <2>6. q # p => syncEngines'[q] = syncEngines[q]
    BY <1>4
  <2> QED
    BY <1>8, <2>1, <2>2, <2>4, <2>5, <2>6
<1>10. HearsItsPhone'
  <2>1. SUFFICES ASSUME NEW q \in Phone \ overlapped, syncEngines'[q] # 0
                 PROVE  transport' /\ q \in tokens' /\ handlers'[q] = syncEngines'[q]
    BY <1>2 DEF HearsItsPhone
  <2>2. CASE q = p
    BY <1>2, <1>4, <1>8, <2>1, <2>2
  <2>3. CASE q # p
    <3>1. syncEngines'[q] = syncEngines[q] /\ handlers'[q] = handlers[q]
      BY <1>4, <2>3
    <3> QED
      BY <1>2, <2>1, <3>1 DEF PluginInv, HearsItsPhone
  <2> QED
    BY <2>2, <2>3
<1> QED
  BY <1>5, <1>7, <1>9, <1>10 DEF PluginInv

\* A stopping engine has left.
LEMMA LeftInv ==
  ASSUME TypeOK, PluginInv, NEW e \in Engines, EngineLeft(e)
  PROVE  PluginInv'
<1> DEFINE p == engine[e].phone
<1>1. engine[e].at = "leaving" /\ p \in Phone
  BY EngineAtWork DEF EngineLeft, IsAt
<1>2. /\ engine' = [engine EXCEPT ![e] = Stopped]
      /\ handlers' = IF engine[e].wired THEN [handlers EXCEPT ![p] = 0] ELSE handlers
      /\ UNCHANGED <<syncEngines, transport, tokens, overlapped>>
  BY DEF EngineLeft
<1>3. engine'[e].at = "stopped" /\ \A d \in Engines : d # e => engine'[d] = engine[d]
  BY <1>2 DEF TypeOK, Stopped
<1>4. \A q \in Phone : handlers'[q] = handlers[q] \/ (q = p /\ handlers'[q] = 0)
  BY <1>1, <1>2 DEF TypeOK
<1> HIDE DEF p
<1>5. MapsInv'
  <2>1. ASSUME NEW q \in Phone, NEW d \in {syncEngines[q], handlers[q]}, d # 0
        PROVE  engine'[d].at = "running" /\ engine'[d].phone = q
    <3>1. d \in Engines /\ engine[d].at = "running" /\ engine[d].phone = q
      BY <2>1 DEF TypeOK, PluginInv, MapsInv, RunFor, IsAt
    <3> QED
      BY <1>1, <1>3, <3>1
  <2> QED
    BY <1>2, <1>4, <2>1 DEF MapsInv, RunFor, IsAt
<1>6. \A q \in Phone : EnginesAt(q, {"starting"}) \subseteq EnginesAt(q, {"starting"})'
  BY <1>1, <1>3 DEF EnginesAt
<1>7. JoinedIsServed'
  <2>1. tokens' \subseteq Phone
    BY <1>2 DEF TypeOK
  <2> QED
    BY <1>2, <1>6, <2>1 DEF PluginInv, JoinedIsServed
<1>8. AloneInv'
  <2>1. SUFFICES ASSUME NEW q \in Phone \ overlapped
                 PROVE  StartsAlone(q)' /\ (Leaving(q)' # {} => syncEngines'[q] = 0)
    BY <1>2 DEF AloneInv
  <2>2. StartsAlone(q) /\ (Leaving(q) # {} => syncEngines[q] = 0)
    BY <2>1 DEF PluginInv, AloneInv
  <2>3. \A d \in Engines : engine'[d].at \in {"starting", "leaving"} => engine'[d] = engine[d]
    BY <1>3
  <2>4. /\ EnginesAt(q, {"starting"})' \subseteq EnginesAt(q, {"starting"})
        /\ \A d \in EnginesAt(q, {"starting"})' : engine'[d] = engine[d]
        /\ Leaving(q)' \subseteq Leaving(q)
    BY <2>3 DEF EnginesAt, Leaving
  <2> QED
    BY <1>2, <2>2, <2>4 DEF StartsAlone
<1>9. HearsItsPhone'
  <2>1. engine[e].wired => e \in Leaving(p)
    BY <1>1 DEF Leaving, EnginesAt, p
  <2>2. p \notin overlapped /\ engine[e].wired => syncEngines[p] = 0
    BY <1>1, <2>1 DEF PluginInv, AloneInv
  <2>3. ~engine[e].wired => handlers' = handlers
    BY <1>2
  <2>4. ASSUME NEW q \in Phone \ overlapped, syncEngines[q] # 0
        PROVE  transport /\ q \in tokens /\ handlers[q] = syncEngines[q] /\ handlers'[q] = handlers[q]
    BY <1>4, <2>2, <2>3, <2>4 DEF PluginInv, HearsItsPhone
  <2> QED
    BY <1>2, <2>4 DEF HearsItsPhone
<1> QED
  BY <1>5, <1>7, <1>8, <1>9 DEF PluginInv

\* What is not seen of the plugin's variables leaves the invariant.
LEMMA PluginUntouched ==
  ASSUME PluginInv,
         UNCHANGED <<engine, syncEngines, transport, tokens, handlers, overlapped>>
  PROVE  PluginInv'
<1>1. MapsInv'
  BY DEF PluginInv, MapsInv, RunFor, IsAt
<1>2. JoinedIsServed'
  BY DEF PluginInv, JoinedIsServed, EnginesAt
<1>3. AloneInv'
  BY DEF PluginInv, AloneInv, StartsAlone, Leaving, EnginesAt
<1>4. HearsItsPhone'
  BY DEF PluginInv, HearsItsPhone
<1> QED
  BY <1>1, <1>2, <1>3, <1>4 DEF PluginInv

\* Every step of the plugin keeps its invariant.
LEMMA PluginInvStep ==
  ASSUME TypeOK, PluginInv, PluginStep
  PROVE  PluginInv'
<1> USE DEF pluginVars
<1>0. TypeOK'
  BY PluginTyped DEF PluginInv
<1>1. ASSUME NEW p \in Phone, TakeStopSync(p) PROVE PluginInv'
  <2> DEFINE e == syncEngines[p]
             objects == [engine EXCEPT ![e].at = "leaving"]
  <2>2. CASE e = 0
    BY <1>1, <2>2, PluginUntouched DEF TakeStopSync
  <2>3. CASE e # 0
    <3>1. e \in Engines /\ engine[e].at = "running" /\ engine[e].phone = p
      BY <2>3 DEF TypeOK, PluginInv, MapsInv, RunFor, IsAt
    <3>2. engine[e] \in AtWork
      BY <3>1, EngineAtWork DEF IsAt
    <3>3. [engine[e] EXCEPT !.at = "leaving"] \in AtWork
      BY <3>2 DEF AtWork
    <3>4. objects \in [Engines -> {Stopped} \cup AtWork]
      BY <3>1, <3>3 DEF TypeOK
    <3>5. /\ \A d \in Engines : d # e => objects[d] = engine[d]
          /\ objects[e].at = "leaving" /\ objects[e].phone = p
      BY <3>1, <3>2 DEF TypeOK, AtWork
    <3>6. LeavePairing(p, objects, [syncEngines EXCEPT ![p] = 0])
      BY <1>1, <2>3 DEF TakeStopSync
    <3> HIDE DEF e, objects
    <3> QED
      BY <3>1, <3>4, <3>5, <3>6, StopOneInv DEF IsAt
  <2> QED
    BY <2>2, <2>3
<1>2. ASSUME NEW p \in Phone, PhoneUnpairs(p) PROVE PluginInv'
  <2> DEFINE e == handlers[p]
             objects == [engine EXCEPT ![e] = Stopped]
  <2>1. CASE e # 0 /\ OnUnpaired(e, p)
    <3>1. e \in Engines /\ engine[e].at = "running" /\ engine[e].phone = p
      BY <2>1 DEF TypeOK, PluginInv, MapsInv, RunFor, IsAt
    <3>2. /\ objects \in [Engines -> {Stopped} \cup AtWork] /\ objects[e] = Stopped
          /\ \A d \in Engines : d # e => objects[d] = engine[d]
      BY <3>1 DEF TypeOK
    <3>3. LeavePairing(p, objects, [syncEngines EXCEPT ![p] = 0])
      BY <2>1 DEF OnUnpaired
    <3> HIDE DEF e, objects
    <3> QED
      BY <3>1, <3>2, <3>3, StopOneInv DEF IsAt
  <2>2. CASE UNCHANGED pluginVars
    BY <2>2, PluginUntouched
  <2> QED
    BY <1>2, <2>1, <2>2 DEF PhoneUnpairs
<1>3. CASE TakeStopAll
  <2>1. ASSUME NEW e \in Engines, engine'[e].at = "starting"
        PROVE  engine[e].at = "starting" /\ engine[e].phone = engine'[e].phone
    <3>1. CASE IsAt(e, "stopped")
      <4>1. e \notin {syncEngines[p] : p \in Phone}
        BY <3>1, PairingBoundsAssumption DEF PluginInv, MapsInv, RunFor, IsAt
      <4>2. engine'[e] = Stopped
        BY <1>3, <3>1, <4>1 DEF TakeStopAll
      <4> QED
        BY <2>1, <4>2 DEF Stopped
    <3>2. CASE ~IsAt(e, "stopped")
      <4>1. engine'[e] \in {[engine[e] EXCEPT !.at = "leaving", !.wired = FALSE],
                            [engine[e] EXCEPT !.wired = FALSE]}
        BY <1>3, <3>2 DEF TakeStopAll
      <4>2. engine[e] \in AtWork
        BY <3>2, EngineAtWork
      <4> QED
        BY <2>1, <4>1, <4>2 DEF AtWork
    <3> QED
      BY <3>1, <3>2
  <2>2. \A q \in Phone \ overlapped' : EnginesAt(q, {"starting"}) = {}
    BY <1>3 DEF TakeStopAll
  <2>3. \A q \in Phone \ overlapped' : EnginesAt(q, {"starting"})' = {}
    BY <2>1, <2>2 DEF EnginesAt
  <2> QED
    BY <1>3, <2>3, NothingRegistered DEF TakeStopAll
<1>4. CASE Crash
  <2>1. \A q \in Phone : EnginesAt(q, {"starting"})' = {}
    BY <1>4 DEF Crash, Stopped, EnginesAt
  <2> QED
    BY <1>4, <2>1, NothingRegistered DEF Crash
<1>5. ASSUME NEW ps \in SUBSET Phone, TakeRegisterStale(ps) PROVE PluginInv'
  BY <1>5, PluginUntouched DEF TakeRegisterStale
<1>6. CASE TakeDeviceStatus
  BY <1>6, PluginUntouched DEF TakeDeviceStatus
<1> QED
  BY <1>1, <1>2, <1>3, <1>4, <1>5, <1>6, StartSyncInv, StartedInv, LeftInv DEF PluginStep
-----------------------------------------------------------------------------
(***************************************************************************)
(* The requests under way and the engines.                                 *)
(***************************************************************************)

\* The requests that end the service of p are a stop for p and a stop for all.
LEMMA WhatEnds ==
  ASSUME NEW p \in Phone
  PROVE  /\ \A q \in Phone : ~Ends(p, StartSync(q)) /\ StartSync(q) # StopAll
         /\ \A q \in Phone : q # p => ~Ends(p, StopSync(q))
         /\ \A ps \in SUBSET Phone : ~Ends(p, RegisterStale(ps))
         /\ ~Ends(p, DeviceStatus)
         /\ Ends(p, StopSync(p)) /\ Ends(p, StopAll)
BY DEF Ends, StartSync, StopSync, StopAll, RegisterStale, DeviceStatus

\* Requests for different phones differ.
LEMMA StartsDiffer ==
  ASSUME NEW p \in Phone, NEW q \in Phone
  PROVE  /\ StartSync(p) = StartSync(q) => p = q
         /\ StartSync(p) # StopSync(q) /\ StartSync(p) # StopAll
         /\ \A ps \in SUBSET Phone : StartSync(p) # RegisterStale(ps)
         /\ StartSync(p) # DeviceStatus
BY DEF StartSync, StopSync, StopAll, RegisterStale, DeviceStatus

\* A request that does not end the service of p is sent.
LEMMA AppendKeeps ==
  ASSUME NEW p \in Phone, NEW s \in Seq(Requests), NEW msg \in Requests, ~Ends(p, msg)
  PROVE  /\ LastStarts(p, s) => LastStarts(p, Append(s, msg))
         /\ NoneEnds(p, s) => NoneEnds(p, Append(s, msg))
<1> DEFINE t == Append(s, msg)
<1>1. /\ Len(s) \in Nat /\ Len(t) = Len(s) + 1
      /\ \A i \in 1..Len(s) : t[i] = s[i]
      /\ t[Len(s) + 1] = msg
  BY AppendProperties
<1> HIDE DEF t
<1>2. ASSUME LastStarts(p, s) PROVE LastStarts(p, t)
  <2>1. PICK i \in 1..Len(s) : s[i] = StartSync(p) /\ \A j \in (i + 1)..Len(s) : ~Ends(p, s[j])
    BY <1>2 DEF LastStarts
  <2>2. ASSUME NEW j \in (i + 1)..Len(t) PROVE ~Ends(p, t[j])
    <3>1. j = Len(s) + 1 \/ (j \in 1..Len(s) /\ j \in (i + 1)..Len(s))
      BY <1>1, <2>1, <2>2
    <3> QED
      BY <1>1, <2>1, <3>1
  <2>3. i \in 1..Len(t) /\ t[i] = StartSync(p)
    BY <1>1, <2>1
  <2> QED
    BY <2>2, <2>3 DEF LastStarts
<1>3. ASSUME NoneEnds(p, s) PROVE NoneEnds(p, t)
  <2>1. ASSUME NEW j \in 1..Len(t) PROVE ~Ends(p, t[j])
    <3>1. j = Len(s) + 1 \/ j \in 1..Len(s)
      BY <1>1, <2>1
    <3> QED
      BY <1>1, <1>3, <3>1 DEF NoneEnds
  <2> QED
    BY <2>1 DEF NoneEnds
<1> QED
  BY <1>2, <1>3 DEF t

\* A start of p is sent.
LEMMA AppendStarts ==
  ASSUME NEW p \in Phone, NEW s \in Seq(Requests)
  PROVE  LastStarts(p, Append(s, StartSync(p)))
<1> DEFINE t == Append(s, StartSync(p))
<1>1. Len(s) \in Nat /\ Len(t) = Len(s) + 1 /\ t[Len(s) + 1] = StartSync(p)
  BY AppendProperties, RequestsTyped
<1> HIDE DEF t
<1>2. LastStarts(p, t)
  <2>1. Len(s) + 1 \in 1..Len(t) /\ (Len(s) + 1 + 1)..Len(t) = {}
    BY <1>1
  <2> QED
    BY <1>1, <2>1 DEF LastStarts
<1> QED
  BY <1>2 DEF t

\* A request is taken up.
LEMMA TakeKeeps ==
  ASSUME NEW p \in Phone, NEW s \in Seq(Requests), s # <<>>
  PROVE  /\ LastStarts(p, s) => \/ LastStarts(p, Tail(s))
                                \/ Head(s) = StartSync(p) /\ NoneEnds(p, Tail(s))
         /\ NoneEnds(p, s) => ~Ends(p, Head(s)) /\ NoneEnds(p, Tail(s))
<1> DEFINE t == Tail(s)
<1>1. /\ Len(s) \in Nat /\ Len(s) >= 1 /\ Len(t) = Len(s) - 1 /\ Head(s) = s[1]
      /\ \A i \in 1..Len(t) : t[i] = s[i + 1]
  BY HeadTailProperties, EmptySeq, LenProperties
<1> HIDE DEF t
<1>2. ASSUME LastStarts(p, s)
      PROVE  LastStarts(p, t) \/ (Head(s) = StartSync(p) /\ NoneEnds(p, t))
  <2>1. PICK i \in 1..Len(s) : s[i] = StartSync(p) /\ \A j \in (i + 1)..Len(s) : ~Ends(p, s[j])
    BY <1>2 DEF LastStarts
  <2>2. CASE i = 1
    <3>1. ASSUME NEW j \in 1..Len(t) PROVE ~Ends(p, t[j])
      <4>1. j + 1 \in (i + 1)..Len(s) /\ t[j] = s[j + 1]
        BY <1>1, <2>2
      <4> QED
        BY <2>1, <4>1
    <3> QED
      BY <1>1, <2>1, <2>2, <3>1 DEF NoneEnds
  <2>3. CASE i # 1
    <3>1. i - 1 \in 1..Len(t) /\ t[i - 1] = s[(i - 1) + 1] /\ (i - 1) + 1 = i
      BY <1>1, <2>3
    <3>2. ASSUME NEW j \in ((i - 1) + 1)..Len(t) PROVE ~Ends(p, t[j])
      <4>1. j + 1 \in (i + 1)..Len(s) /\ j \in 1..Len(t)
        BY <1>1, <2>1
      <4> QED
        BY <1>1, <2>1, <4>1
    <3>3. t[i - 1] = StartSync(p)
      BY <2>1, <3>1
    <3> QED
      BY <3>1, <3>2, <3>3 DEF LastStarts
  <2> QED
    BY <2>2, <2>3
<1>3. ASSUME NoneEnds(p, s) PROVE ~Ends(p, Head(s)) /\ NoneEnds(p, t)
  <2>1. ASSUME NEW j \in 1..Len(t) PROVE ~Ends(p, t[j])
    <3>1. j + 1 \in 1..Len(s)
      BY <1>1
    <3> QED
      BY <1>1, <1>3, <3>1 DEF NoneEnds
  <2>2. 1 \in 1..Len(s)
    BY <1>1
  <2> QED
    BY <1>1, <1>3, <2>1, <2>2 DEF NoneEnds
<1> QED
  BY <1>2, <1>3 DEF t

\* The places of the requests in two sequences one after the other.
LEMMA ConcatPlaces ==
  ASSUME NEW s \in Seq(Requests), NEW t \in Seq(Requests)
  PROVE  /\ s \o t \in Seq(Requests)
         /\ Len(s \o t) = Len(s) + Len(t) /\ Len(s) \in Nat /\ Len(t) \in Nat
         /\ \A i \in 1..Len(s) : (s \o t)[i] = s[i]
         /\ \A i \in 1..Len(t) : (s \o t)[Len(s) + i] = t[i]
<1>1. /\ s \o t \in Seq(Requests) /\ Len(s \o t) = Len(s) + Len(t)
      /\ \A i \in 1..Len(s) + Len(t) : (s \o t)[i] = IF i <= Len(s) THEN s[i] ELSE t[i - Len(s)]
  BY ConcatProperties
<1>2. Len(s) \in Nat /\ Len(t) \in Nat
  BY LenProperties
<1> DEFINE u == s \o t
<1> HIDE DEF u
<1>3. \A i \in 1..Len(s) : u[i] = s[i]
  BY <1>1, <1>2 DEF u
<1>4. \A i \in 1..Len(t) : u[Len(s) + i] = t[i]
  <2>1. SUFFICES ASSUME NEW i \in 1..Len(t) PROVE u[Len(s) + i] = t[i]
    OBVIOUS
  <2>2. Len(s) + i \in 1..Len(s) + Len(t) /\ ~(Len(s) + i <= Len(s)) /\ (Len(s) + i) - Len(s) = i
    BY <1>2
  <2> QED
    BY <1>1, <2>2 DEF u
<1> QED
  BY <1>1, <1>2, <1>3, <1>4 DEF u

\* When the client connects, every active pairing is started.
LEMMA ConnectedStarts ==
  ASSUME TypeOK, NEW order \in SetToSeqs(Rows("active")), NEW p \in Rows("active")
  PROVE  LastStarts(p, requests \o Named(order) \o StaleNamed)
<1> DEFINE s == requests \o Named(order)
           t == s \o StaleNamed
<1>1. /\ requests \in Seq(Requests) /\ Named(order) \in Seq(Requests)
      /\ StaleNamed \in Seq(Requests) /\ Len(Named(order)) = Len(order)
      /\ order \in Seq(Phone) /\ p \in Phone
  BY ConnectedTyped DEF TypeOK, Rows
<1>2. PICK i \in 1..Len(order) : order[i] = p
  BY ConnectedTyped
<1>3. /\ s \in Seq(Requests) /\ Len(s) = Len(requests) + Len(order)
      /\ \A j \in 1..Len(order) : s[Len(requests) + j] = Named(order)[j]
  <2>1. /\ s \in Seq(Requests) /\ Len(s) = Len(requests) + Len(Named(order))
        /\ \A j \in 1..Len(Named(order)) : s[Len(requests) + j] = Named(order)[j]
    BY <1>1, ConcatPlaces
  <2> QED
    BY <1>1, <2>1
<1>4. \A j \in 1..Len(order) : Named(order)[j] = StartSync(order[j]) /\ order[j] \in Phone
  BY <1>1 DEF Named
<1>5. \A j \in 1..Len(StaleNamed) : ~Ends(p, StaleNamed[j])
  <2>1. ~Ends(p, RegisterStale(Rows("stale")))
    BY <1>1, WhatEnds DEF Rows
  <2> QED
    BY <2>1 DEF StaleNamed
<1> HIDE DEF s
<1>6. /\ Len(t) = Len(s) + Len(StaleNamed)
      /\ \A j \in 1..Len(s) : t[j] = s[j]
      /\ \A j \in 1..Len(StaleNamed) : t[Len(s) + j] = StaleNamed[j]
  BY <1>1, <1>3, ConcatPlaces
<1>7. Len(requests) \in Nat /\ Len(order) \in Nat /\ Len(s) \in Nat /\ Len(StaleNamed) \in Nat
  BY <1>1, <1>3, LenProperties
<1> HIDE DEF t
<1> DEFINE k == Len(requests) + i
<1>8. k \in 1..Len(t) /\ t[k] = StartSync(p)
  <2>1. k \in 1..Len(s) /\ k \in 1..Len(t)
    BY <1>2, <1>3, <1>6, <1>7
  <2> QED
    BY <1>2, <1>3, <1>4, <1>6, <2>1
<1>9. ASSUME NEW j \in (k + 1)..Len(t) PROVE ~Ends(p, t[j])
  <2>1. CASE j <= Len(s)
    <3> DEFINE n == j - Len(requests)
    <3>1. n \in 1..Len(order) /\ j = Len(requests) + n
      <4>1. j \in Int /\ j >= Len(requests) + i + 1 /\ j <= Len(requests) + Len(order)
        BY <1>3, <1>6, <1>7, <1>9, <2>1
      <4>2. i \in Int /\ i >= 1
        BY <1>2, <1>7
      <4> QED
        BY <1>7, <4>1, <4>2
    <3> HIDE DEF n
    <3>2. j \in 1..Len(s)
      BY <1>7, <2>1, <1>3, <3>1
    <3>3. t[j] = StartSync(order[n])
      BY <1>3, <1>4, <1>6, <3>1, <3>2
    <3> QED
      BY <1>1, <1>4, <3>1, <3>3, WhatEnds
  <2>2. CASE j > Len(s)
    <3>1. j - Len(s) \in 1..Len(StaleNamed) /\ j = Len(s) + (j - Len(s))
      BY <1>6, <1>7, <2>2
    <3> QED
      BY <1>5, <1>6, <3>1
  <2>3. j \in Int
    BY <1>7
  <2> QED
    BY <1>7, <2>1, <2>2, <2>3
<1>10. LastStarts(p, t)
  BY <1>8, <1>9 DEF LastStarts
<1> QED
  BY <1>10 DEF t, s

\* An engine that runs for p stops: the other phones stay engaged.
LEMMA StopOneEngaged ==
  ASSUME TypeOK, NEW p \in Phone, NEW e \in Engines, IsAt(e, "running"),
         NEW objects \in [Engines -> {Stopped} \cup AtWork],
         \A d \in Engines : d # e => objects[d] = engine[d],
         LeavePairing(p, objects, [syncEngines EXCEPT ![p] = 0]),
         NEW q \in Phone, q # p
  PROVE  /\ syncEngines'[q] = syncEngines[q]
         /\ EnginesAt(q, {"starting"}) # {} => EnginesAt(q, {"starting"})' # {}
<1> DEFINE registered == [syncEngines EXCEPT ![p] = 0]
<1>1. registered \in [Phone -> {0} \cup Engines] /\ registered[q] = syncEngines[q]
  BY DEF TypeOK
<1>2. syncEngines' = registered
  BY DEF LeavePairing
<1>3. \A d \in Engines : /\ engine'[d].at = objects[d].at
                         /\ objects[d] # Stopped => engine'[d].phone = objects[d].phone
  <2> HIDE DEF registered
  <2> QED
    BY <1>1, LeaveObjects DEF registered
<1>4. ASSUME NEW d \in EnginesAt(q, {"starting"}) PROVE d \in EnginesAt(q, {"starting"})'
  <2>1. d \in Engines /\ engine[d].at = "starting" /\ engine[d].phone = q
    BY <1>4 DEF EnginesAt
  <2>2. objects[d] = engine[d] /\ objects[d] # Stopped
    BY <2>1 DEF IsAt, Stopped
  <2> QED
    BY <1>3, <2>1, <2>2 DEF EnginesAt
<1> QED
  BY <1>1, <1>2, <1>4

\* A request is taken up, and the engines of p do what it says.
LEMMA TakenServed ==
  ASSUME TypeOK, ServedInv, NEW msg, Take(msg), rpc' = rpc, row' = row, NEW p \in Phone,
         rpc, row[p] = "active",
         msg = StartSync(p) => Engaged(p)',
         ~Ends(p, msg) /\ Engaged(p) => Engaged(p)'
  PROVE  LastStarts(p, requests') \/ (NoneEnds(p, requests') /\ Engaged(p)')
<1>1. requests \in Seq(Requests) /\ requests # <<>> /\ Head(requests) = msg /\ requests' = Tail(requests)
  BY DEF Take, TypeOK
<1>2. LastStarts(p, requests) \/ (NoneEnds(p, requests) /\ Engaged(p))
  BY DEF ServedInv, Rows
<1>3. CASE LastStarts(p, requests)
  <2>1. LastStarts(p, Tail(requests)) \/ (Head(requests) = StartSync(p) /\ NoneEnds(p, Tail(requests)))
    BY <1>1, <1>3, TakeKeeps
  <2> QED
    BY <1>1, <2>1
<1>4. CASE NoneEnds(p, requests) /\ Engaged(p)
  <2>1. ~Ends(p, Head(requests)) /\ NoneEnds(p, Tail(requests))
    BY <1>1, <1>4, TakeKeeps
  <2> QED
    BY <1>1, <1>4, <2>1
<1> QED
  BY <1>2, <1>3, <1>4

\* What the plugin leaves alone keeps a phone engaged.
LEMMA EngagedKept ==
  ASSUME UNCHANGED <<engine, syncEngines>>, stalePairings \subseteq stalePairings', NEW p \in Phone,
         Engaged(p)
  PROVE  Engaged(p)'
BY DEF Engaged, EnginesAt

\* Every step of the plugin serves the active pairings.
LEMMA PluginServed ==
  ASSUME TypeOK, PluginInv, ServedInv, PluginStep
  PROVE  ServedInv'
<1> USE DEF desktopVars, fileVars, linkVars, pluginVars
<1>1. ASSUME NEW q \in Phone, TakeStartSync(q) PROVE ServedInv'
  <2>0. Take(StartSync(q)) /\ rpc' = rpc /\ row' = row
    BY <1>1 DEF TakeStartSync
  <2>1. SUFFICES ASSUME rpc, NEW p \in Phone, row[p] = "active"
                 PROVE  LastStarts(p, requests') \/ (NoneEnds(p, requests') /\ Engaged(p)')
    BY <2>0 DEF ServedInv, Rows
  <2>2. StartSync(q) = StartSync(p) => Engaged(p)'
    <3>1. CASE syncEngines[q] # 0
      BY <1>1, <3>1, StartsDiffer DEF TakeStartSync, Engaged
    <3>2. CASE syncEngines[q] = 0
      <4>1. PICK e \in Engines : engine' = [engine EXCEPT ![e] = EngineFor(q, "starting", TRUE)]
        BY <1>1, <3>2 DEF TakeStartSync
      <4>2. e \in EnginesAt(q, {"starting"})'
        BY <4>1 DEF EnginesAt, EngineFor, TypeOK
      <4> QED
        BY <4>2, StartsDiffer DEF Engaged
    <3> QED
      BY <3>1, <3>2
  <2>3. Engaged(p) => Engaged(p)'
    <3>1. \A d \in EnginesAt(p, {"starting"}) : engine'[d] = engine[d]
      BY <1>1 DEF TakeStartSync, EnginesAt, IsAt, TypeOK
    <3>2. EnginesAt(p, {"starting"}) \subseteq EnginesAt(p, {"starting"})'
      BY <3>1 DEF EnginesAt
    <3> QED
      BY <1>1, <3>2 DEF TakeStartSync, Engaged
  <2> QED
    BY <2>0, <2>1, <2>2, <2>3, TakenServed
<1>2. ASSUME NEW q \in Phone, TakeStopSync(q) PROVE ServedInv'
  <2>0. Take(StopSync(q)) /\ rpc' = rpc /\ row' = row /\ stalePairings' = stalePairings \ {q}
    BY <1>2 DEF TakeStopSync
  <2>1. SUFFICES ASSUME rpc, NEW p \in Phone, row[p] = "active"
                 PROVE  LastStarts(p, requests') \/ (NoneEnds(p, requests') /\ Engaged(p)')
    BY <2>0 DEF ServedInv, Rows
  <2>2. StopSync(q) # StartSync(p)
    BY StartsDiffer
  <2>3. ASSUME ~Ends(p, StopSync(q)), Engaged(p) PROVE Engaged(p)'
    <3>1. p # q
      BY <2>3, WhatEnds
    <3>2. CASE syncEngines[q] = 0
      BY <1>2, <2>0, <2>3, <3>1, <3>2 DEF TakeStopSync, Engaged, EnginesAt
    <3>3. CASE syncEngines[q] # 0
      <4> DEFINE e == syncEngines[q]
                 objects == [engine EXCEPT ![e].at = "leaving"]
      <4>1. e \in Engines /\ engine[e].at = "running"
        BY <3>3 DEF TypeOK, PluginInv, MapsInv, RunFor, IsAt
      <4>2. engine[e] \in AtWork
        BY <4>1, EngineAtWork DEF IsAt
      <4>3. [engine[e] EXCEPT !.at = "leaving"] \in AtWork
        BY <4>2 DEF AtWork
      <4>4. objects \in [Engines -> {Stopped} \cup AtWork] /\ \A d \in Engines : d # e => objects[d] = engine[d]
        BY <4>1, <4>3 DEF TypeOK
      <4>5. LeavePairing(q, objects, [syncEngines EXCEPT ![q] = 0])
        BY <1>2, <3>3 DEF TakeStopSync
      <4> HIDE DEF e, objects
      <4>6. /\ syncEngines'[p] = syncEngines[p]
            /\ EnginesAt(p, {"starting"}) # {} => EnginesAt(p, {"starting"})' # {}
        BY <3>1, <4>1, <4>4, <4>5, StopOneEngaged DEF IsAt
      <4> QED
        BY <2>0, <2>3, <3>1, <4>6 DEF Engaged
    <3> QED
      BY <3>2, <3>3
  <2> QED
    BY <2>0, <2>1, <2>2, <2>3, TakenServed
<1>3. ASSUME NEW q \in Phone, PhoneUnpairs(q) PROVE ServedInv'
  <2>0. rpc' = rpc /\ row' = row /\ requests' = requests
    BY <1>3 DEF PhoneUnpairs
  <2>1. ASSUME NEW p \in Phone, Engaged(p) PROVE Engaged(p)'
    <3>1. CASE UNCHANGED pluginVars
      BY <2>1, <3>1, EngagedKept
    <3>2. CASE handlers[q] # 0 /\ OnUnpaired(handlers[q], q)
      <4> DEFINE e == handlers[q]
                 objects == [engine EXCEPT ![e] = Stopped]
      <4>1. e \in Engines /\ engine[e].at = "running"
        BY <3>2 DEF TypeOK, PluginInv, MapsInv, RunFor, IsAt
      <4>2. /\ objects \in [Engines -> {Stopped} \cup AtWork]
            /\ \A d \in Engines : d # e => objects[d] = engine[d]
        BY <4>1 DEF TypeOK
      <4>3. LeavePairing(q, objects, [syncEngines EXCEPT ![q] = 0]) /\ stalePairings' = stalePairings \cup {q}
        BY <3>2 DEF OnUnpaired
      <4>4. CASE p = q
        BY <4>3, <4>4 DEF Engaged
      <4> HIDE DEF e, objects
      <4>5. CASE p # q
        <5>1. /\ syncEngines'[p] = syncEngines[p]
              /\ EnginesAt(p, {"starting"}) # {} => EnginesAt(p, {"starting"})' # {}
          BY <4>1, <4>2, <4>3, <4>5, StopOneEngaged DEF IsAt
        <5> QED
          BY <2>1, <4>3, <5>1 DEF Engaged
      <4> QED
        BY <4>4, <4>5
    <3> QED
      BY <1>3, <3>1, <3>2 DEF PhoneUnpairs
  <2> QED
    BY <2>0, <2>1 DEF ServedInv, Rows
<1>4. ASSUME NEW ps \in SUBSET Phone, TakeRegisterStale(ps) PROVE ServedInv'
  <2>0. /\ Take(RegisterStale(ps)) /\ rpc' = rpc /\ row' = row
        /\ UNCHANGED <<engine, syncEngines>> /\ stalePairings \subseteq stalePairings'
    BY <1>4 DEF TakeRegisterStale
  <2>1. \A p \in Phone : StartSync(p) # RegisterStale(ps)
    BY StartsDiffer
  <2> QED
    BY <2>0, <2>1, TakenServed, EngagedKept DEF ServedInv, Rows
<1>5. CASE TakeStopAll
  <2>0. Take(StopAll) /\ rpc' = rpc /\ row' = row
    BY <1>5 DEF TakeStopAll
  <2>1. \A p \in Phone : StartSync(p) # StopAll /\ Ends(p, StopAll)
    BY WhatEnds
  <2> QED
    BY <2>0, <2>1, TakenServed DEF ServedInv, Rows
<1>6. CASE TakeDeviceStatus
  <2>0. /\ Take(DeviceStatus) /\ rpc' = rpc /\ row' = row
        /\ UNCHANGED <<engine, syncEngines>> /\ stalePairings \subseteq stalePairings'
    BY <1>6 DEF TakeDeviceStatus
  <2>1. \A p \in Phone : StartSync(p) # DeviceStatus
    BY StartsDiffer
  <2> QED
    BY <2>0, <2>1, TakenServed, EngagedKept DEF ServedInv, Rows
<1>7. CASE Crash
  BY <1>7 DEF Crash, ServedInv
<1>8. ASSUME NEW e \in Engines, EngineStarted(e) PROVE ServedInv'
  <2>0. rpc' = rpc /\ row' = row /\ requests' = requests /\ stalePairings' = stalePairings
    BY <1>8 DEF EngineStarted
  <2>1. ASSUME NEW p \in Phone, Engaged(p) PROVE Engaged(p)'
    <3>1. engine[e].phone \in Phone /\ e # 0
      BY <1>8, EngineAtWork, PairingBoundsAssumption DEF EngineStarted, IsAt
    <3>2. CASE p = engine[e].phone
      BY <1>8, <3>1, <3>2 DEF EngineStarted, TypeOK, Engaged
    <3>3. CASE p # engine[e].phone
      <4>1. syncEngines'[p] = syncEngines[p]
        BY <1>8, <3>1, <3>3 DEF EngineStarted, TypeOK
      <4>2. \A d \in EnginesAt(p, {"starting"}) : d \in Engines /\ engine'[d] = engine[d]
        BY <1>8, <3>3 DEF EngineStarted, EnginesAt, TypeOK
      <4>3. EnginesAt(p, {"starting"}) \subseteq EnginesAt(p, {"starting"})'
        BY <4>2 DEF EnginesAt
      <4> QED
        BY <2>0, <2>1, <4>1, <4>3 DEF Engaged
    <3> QED
      BY <3>2, <3>3
  <2> QED
    BY <2>0, <2>1 DEF ServedInv, Rows
<1>9. ASSUME NEW e \in Engines, EngineLeft(e) PROVE ServedInv'
  <2>0. /\ rpc' = rpc /\ row' = row /\ requests' = requests
        /\ stalePairings' = stalePairings /\ syncEngines' = syncEngines
    BY <1>9 DEF EngineLeft
  <2>1. ASSUME NEW p \in Phone, Engaged(p) PROVE Engaged(p)'
    <3>1. \A d \in EnginesAt(p, {"starting"}) : d \in Engines /\ engine'[d] = engine[d]
      BY <1>9 DEF EngineLeft, IsAt, EnginesAt, TypeOK
    <3>2. EnginesAt(p, {"starting"}) \subseteq EnginesAt(p, {"starting"})'
      BY <3>1 DEF EnginesAt
    <3> QED
      BY <2>0, <2>1, <3>2 DEF Engaged
  <2> QED
    BY <2>0, <2>1 DEF ServedInv, Rows
<1> QED
  BY <1>1, <1>2, <1>3, <1>4, <1>5, <1>6, <1>7, <1>8, <1>9 DEF PluginStep

\* Every step of the desktop and of the link serves the active pairings.
DesktopStep ==
  \/ RequestPairingCode \/ CodeExpires \/ PollPairingStatus
  \/ \E p \in Phone : PhonePairs(p) \/ CompletePairing(p) \/ RemovePairing(p)
  \/ DisconnectAll \/ AskDeviceStatus \/ PersistStale
  \/ \E j \in Jobs : ReadAllowlist(j) \/ TruncateAllowlist(j) \/ FillAllowlist(j)
  \/ RpcConnected \/ RpcLost

LEMMA DesktopLeavesPlugin ==
  ASSUME DesktopStep
  PROVE  UNCHANGED <<engine, syncEngines, stalePairings, transport, tokens, handlers, overlapped>>
BY DEF DesktopStep, pluginVars, RequestPairingCode, CodeExpires, PollPairingStatus, PhonePairs,
       CompletePairing, RemovePairing, DisconnectAll, AskDeviceStatus, PersistStale,
       ReadAllowlist, TruncateAllowlist, FillAllowlist, RpcConnected, RpcLost

\* A request is sent that ends the service of no active pairing.
LEMMA SentServed ==
  ASSUME TypeOK, ServedInv, DesktopStep, NEW msg \in Requests, Send(msg), rpc' = rpc, rpc,
         NEW p \in Phone, row[p] = "active", ~Ends(p, msg)
  PROVE  LastStarts(p, requests') \/ (NoneEnds(p, requests') /\ Engaged(p)')
<1>1. requests \in Seq(Requests) /\ requests' = Append(requests, msg)
  BY DEF Send, TypeOK
<1>2. LastStarts(p, requests) \/ (NoneEnds(p, requests) /\ Engaged(p))
  BY DEF ServedInv, Rows
<1>3. Engaged(p) => Engaged(p)'
  BY DesktopLeavesPlugin, EngagedKept
<1> QED
  BY <1>1, <1>2, <1>3, AppendKeeps

LEMMA DesktopServed ==
  ASSUME TypeOK, ServedInv, DesktopStep
  PROVE  ServedInv'
<1> USE DEF desktopVars, fileVars, linkVars, pluginVars
<1>0. \A p \in Phone : Engaged(p) => Engaged(p)'
  BY DesktopLeavesPlugin, EngagedKept
<1>1. ASSUME rpc' = rpc, requests' = requests, \A p \in Phone : row'[p] = "active" => row[p] = "active"
      PROVE  ServedInv'
  BY <1>0, <1>1 DEF ServedInv, Rows
<1>2. ASSUME NEW p \in Phone, CompletePairing(p) PROVE ServedInv'
  <2>0. rpc' = rpc /\ Send(StartSync(p)) /\ row' = [row EXCEPT ![p] = "active"]
    BY <1>2 DEF CompletePairing
  <2>1. SUFFICES ASSUME rpc, NEW q \in Phone, row'[q] = "active"
                 PROVE  LastStarts(q, requests') \/ (NoneEnds(q, requests') /\ Engaged(q)')
    BY <2>0 DEF ServedInv, Rows
  <2>2. CASE q = p
    BY <2>0, <2>1, <2>2, AppendStarts DEF Send, TypeOK
  <2>3. CASE q # p
    <3>1. row[q] = "active"
      BY <2>0, <2>1, <2>3 DEF TypeOK
    <3> QED
      BY <2>0, <2>1, <3>1, SentServed, RequestsTyped, WhatEnds
  <2> QED
    BY <2>2, <2>3
<1>3. ASSUME NEW p \in Phone, RemovePairing(p) PROVE ServedInv'
  <2>0. rpc' = rpc /\ Send(StopSync(p)) /\ row' = [row EXCEPT ![p] = "absent"]
    BY <1>3 DEF RemovePairing
  <2>1. SUFFICES ASSUME rpc, NEW q \in Phone, row'[q] = "active"
                 PROVE  LastStarts(q, requests') \/ (NoneEnds(q, requests') /\ Engaged(q)')
    BY <2>0 DEF ServedInv, Rows
  <2>2. q # p /\ row[q] = "active"
    BY <2>0, <2>1 DEF TypeOK
  <2> QED
    BY <2>0, <2>1, <2>2, SentServed, RequestsTyped, WhatEnds
<1>4. CASE DisconnectAll
  BY <1>4 DEF DisconnectAll, ServedInv, Rows
<1>5. CASE AskDeviceStatus
  <2>0. rpc' = rpc /\ Send(DeviceStatus) /\ row' = row
    BY <1>5 DEF AskDeviceStatus
  <2>1. SUFFICES ASSUME rpc, NEW q \in Phone, row'[q] = "active"
                 PROVE  LastStarts(q, requests') \/ (NoneEnds(q, requests') /\ Engaged(q)')
    BY <2>0 DEF ServedInv, Rows
  <2> QED
    BY <2>0, <2>1, SentServed, RequestsTyped, WhatEnds
<1>6. CASE RpcConnected
  <2>1. PICK order \in SetToSeqs(Rows("active")) :
          requests' = requests \o Named(order) \o StaleNamed
    BY <1>6 DEF RpcConnected, Named, StaleNamed
  <2>2. row' = row
    BY <1>6 DEF RpcConnected
  <2>3. ASSUME NEW p \in Rows("active") PROVE LastStarts(p, requests')
    BY <2>1, ConnectedStarts
  <2> QED
    BY <2>2, <2>3 DEF ServedInv, Rows
<1>7. CASE RpcLost
  BY <1>7 DEF RpcLost, ServedInv
<1>8. CASE PersistStale
  <2>1. \A p \in Phone : row'[p] = "active" => row[p] = "active"
    BY <1>8 DEF PersistStale, TypeOK
  <2> QED
    BY <1>1, <1>8, <2>1 DEF PersistStale
<1>9. CASE RequestPairingCode \/ CodeExpires \/ PollPairingStatus \/ \E p \in Phone : PhonePairs(p)
  BY <1>1, <1>9 DEF RequestPairingCode, CodeExpires, PollPairingStatus, PhonePairs
<1>10. CASE \E j \in Jobs : ReadAllowlist(j) \/ TruncateAllowlist(j) \/ FillAllowlist(j)
  BY <1>1, <1>10 DEF ReadAllowlist, TruncateAllowlist, FillAllowlist
<1> QED
  BY <1>2, <1>3, <1>4, <1>5, <1>6, <1>7, <1>8, <1>9, <1>10 DEF DesktopStep
-----------------------------------------------------------------------------
(***************************************************************************)
(* The allowlist.                                                          *)
(***************************************************************************)

\* A change of the allowlist goes on, or ends.
LEMMA JobChanges ==
  ASSUME TypeOK, NEW j \in Jobs, jobs[j] \in Changes, NEW next \in {NoJob} \cup Changes,
         next # NoJob => next.phones = jobs[j].phones /\ next.do = jobs[j].do,
         jobs' = [jobs EXCEPT ![j] = next]
  PROVE  /\ jobs'[j] = next /\ \A k \in Jobs : k # j => jobs'[k] = jobs[k]
         /\ \A p \in Phone :
              UnderWay(p)' = IF next = NoJob THEN UnderWay(p) \ {j} ELSE UnderWay(p)
         /\ ClearsAll => ClearsAll'
<1>1. jobs'[j] = next /\ \A k \in Jobs : k # j => jobs'[k] = jobs[k]
  BY DEF TypeOK
<1>2. jobs[j] # NoJob
  BY ChangesTyped
<1>3. ASSUME NEW p \in Phone
      PROVE  UnderWay(p)' = IF next = NoJob THEN UnderWay(p) \ {j} ELSE UnderWay(p)
  BY <1>1, <1>2 DEF UnderWay
<1>4. ClearsAll => ClearsAll'
  BY <1>1, <1>2 DEF ClearsAll
<1> QED
  BY <1>1, <1>3, <1>4

\* What a change makes of the list it read.
LEMMA ChangedIs ==
  ASSUME NEW job \in Changes, NEW p \in Phone, NEW list
  PROVE  p \in Changed(job, list) <=> IF p \in job.phones THEN job.do = "add" ELSE p \in list
BY DEF Changed

\* A change of the allowlist begins.
LEMMA ChangeBegins ==
  ASSUME TypeOK, AllowlistInv, NEW do \in {"add", "remove", "clear"}, NEW ps \in SUBSET Phone,
         Change(do, ps), UNCHANGED <<allow, recipients, raced>>,
         \A p \in Phone : HasRow(p)' <=> IF p \in ps THEN do = "add" ELSE HasRow(p),
         do = "clear" => ps = Phone
  PROVE  AllowlistInv'
<1> DEFINE job == [do |-> do, phones |-> ps, at |-> "read", file |-> {}]
<1>1. PICK j \in Jobs : jobs[j] = NoJob /\ jobs' = [jobs EXCEPT ![j] = job]
  BY DEF Change
<1>2. jobs'[j] = job /\ \A k \in Jobs : k # j => jobs'[k] = jobs[k]
  BY <1>1 DEF TypeOK
<1>3. /\ job.do = do /\ job.phones = ps /\ job.at = "read" /\ job # NoJob
      /\ jobs[j].at = "none"
  BY <1>1 DEF NoJob
<1> HIDE DEF job
<1>4. InUse' = InUse /\ j \notin InUse
  BY <1>2, <1>3 DEF InUse
<1>5. \A k \in Jobs : jobs'[k].at = "fill" <=> jobs[k].at = "fill"
  BY <1>2, <1>3
<1>6. \A p \in Phone : UnderWay(p)' = UnderWay(p) \cup IF p \in ps THEN {j} ELSE {}
  BY <1>1, <1>2, <1>3 DEF UnderWay
<1>7. ClearsAll'
  BY <1>1, <1>2, <1>3 DEF AllowlistInv, ClearsAll
<1>8. ~raced' => FileInv'
  BY <1>4, <1>5 DEF AllowlistInv, FileInv
<1>9. ASSUME NEW p \in Phone
      PROVE  \A b \in BOOLEAN : Listed(p, b) => /\ (\E k \in Jobs : jobs'[k].at = "fill") \/ (p \in allow' <=> b)
                                              /\ \A k \in InUse' \ UnderWay(p)' : p \in jobs'[k].file <=> b
  <2>1. \A k \in InUse' \ UnderWay(p)' : k \in InUse \ UnderWay(p) /\ jobs'[k] = jobs[k]
    BY <1>2, <1>4, <1>6 DEF InUse
  <2> QED
    BY <1>5, <2>1 DEF Listed
<1>10. ASSUME NEW p \in Phone \ crossed' PROVE Settles(p)'
  <2>1. CASE p \notin ps
    <3>1. p \notin crossed /\ UnderWay(p)' = UnderWay(p) /\ (HasRow(p)' <=> HasRow(p))
      BY <1>6, <2>1 DEF Change
    <3>2. Settles(p)
      BY <3>1 DEF AllowlistInv
    <3>3. \A k \in UnderWay(p) : jobs'[k] = jobs[k]
      BY <1>1, <1>2 DEF UnderWay
    <3>4. HasSettled(p) => HasSettled(p)'
      BY <1>9, <3>1 DEF HasSettled, Listed, HasRow
    <3>5. \A k \in UnderWay(p) : WillSettle(p, k) => WillSettle(p, k)'
      BY <1>9, <3>1, <3>3 DEF WillSettle, Listed
    <3> QED
      BY <3>1, <3>2, <3>4, <3>5 DEF Settles
  <2>2. CASE p \in ps
    <3>1. UnderWay(p) = {} /\ UnderWay(p)' = {j}
      BY <1>6, <1>10, <2>2 DEF Change
    <3>2. do = "clear" => HasSettled(p)
      BY <1>10, <3>1 DEF Change, AllowlistInv, Settles
    <3>3. do = "clear" /\ ~raced => Listed(p, p \in recipients)
      BY <3>2 DEF HasSettled, Listed
    <3>4. WillSettle(p, j)'
      BY <1>2, <1>3, <1>9, <2>2, <3>3 DEF WillSettle, Listed
    <3> QED
      BY <3>1, <3>4 DEF Settles
  <2> QED
    BY <2>1, <2>2
<1> QED
  BY <1>7, <1>8, <1>10 DEF AllowlistInv

\* A change reads the list, and ends if there is nothing to write.
LEMMA ReadInv ==
  ASSUME TypeOK, AllowlistInv, NEW j \in Jobs, ReadAllowlist(j)
  PROVE  AllowlistInv'
<1> DEFINE file == Changed(jobs[j], allow)
<1>1. /\ jobs[j].at = "read" /\ jobs[j] \in Changes
      /\ UNCHANGED <<row, allow, crossed>> /\ raced' = (raced \/ InUse # {})
  BY JobsTyped DEF ReadAllowlist
<1>2. \A p \in Phone : p \in file <=> IF p \in jobs[j].phones THEN jobs[j].do = "add" ELSE p \in allow
  BY <1>1, ChangedIs
<1>3. \A p \in Phone : j \in UnderWay(p) <=> p \in jobs[j].phones
  BY <1>1, ChangesTyped DEF UnderWay
<1>4. ~raced' => ~raced /\ InUse = {} /\ \A k \in Jobs : jobs[k].at # "fill"
  BY <1>1 DEF InUse
<1>5. \A p \in Phone : HasRow(p)' <=> HasRow(p)
  BY <1>1 DEF HasRow
<1>6. ASSUME NEW p \in Phone \ crossed, j \in UnderWay(p)
      PROVE  UnderWay(p) = {j} /\ WillSettle(p, j)
  BY <1>6 DEF AllowlistInv, Settles
<1>7. jobs[j].do = "clear" => jobs[j].phones = Phone
  BY <1>1, ChangesTyped DEF AllowlistInv, ClearsAll
<1> HIDE DEF file
<1>8. CASE jobs[j].do # "clear" /\ file = allow
  <2>1. FinishChange(j)
    BY <1>8 DEF ReadAllowlist, file
  <2>2. /\ jobs'[j] = NoJob /\ \A k \in Jobs : k # j => jobs'[k] = jobs[k]
        /\ \A p \in Phone : UnderWay(p)' = UnderWay(p) \ {j}
        /\ ClearsAll'
    BY <1>1, <2>1, JobChanges DEF FinishChange, AllowlistInv
  <2>3. InUse' = InUse
    BY <1>1, <2>2 DEF InUse, NoJob
  <2>4. ~raced' => \A k \in Jobs : jobs'[k].at # "fill"
    BY <1>4, <2>2 DEF NoJob
  <2>5. \A p \in Phone : p \in recipients' <=> IF p \in jobs[j].phones THEN jobs[j].do = "add" ELSE p \in recipients
    BY <1>1, <1>8, <2>1, ChangesTyped DEF FinishChange
  <2>6. ASSUME NEW p \in Phone \ crossed PROVE Settles(p)'
    <3>1. CASE j \in UnderWay(p)
      <4>1. UnderWay(p)' = {}
        BY <1>6, <2>2, <2>6, <3>1
      <4>2. jobs[j].do = "add" <=> HasRow(p)
        BY <1>6, <2>6, <3>1 DEF WillSettle
      <4>3. HasSettled(p)'
        BY <1>1, <1>2, <1>3, <1>4, <1>5, <1>8, <2>3, <2>5, <3>1, <4>2 DEF HasSettled, Listed
      <4> QED
        BY <4>1, <4>3 DEF Settles
    <3>2. CASE j \notin UnderWay(p)
      <4>1. UnderWay(p)' = UnderWay(p) /\ \A k \in UnderWay(p) : jobs'[k] = jobs[k]
        BY <2>2, <3>2 DEF UnderWay
      <4>2. p \in recipients' <=> p \in recipients
        BY <1>3, <2>5, <3>2
      <4>3. Settles(p)
        BY <2>6 DEF AllowlistInv
      <4>4. HasSettled(p) => HasSettled(p)'
        BY <1>1, <1>4, <1>5, <2>3, <4>2 DEF HasSettled, Listed
      <4>5. \A k \in UnderWay(p) : WillSettle(p, k) => WillSettle(p, k)'
        BY <1>1, <1>4, <1>5, <2>3, <4>1, <4>2 DEF WillSettle, Listed
      <4> QED
        BY <4>1, <4>3, <4>4, <4>5 DEF Settles
    <3> QED
      BY <3>1, <3>2
  <2>7. ~raced' => FileInv'
    BY <1>4, <2>3, <2>4 DEF FileInv
  <2> QED
    BY <1>1, <2>2, <2>6, <2>7 DEF AllowlistInv
<1>9. CASE ~(jobs[j].do # "clear" /\ file = allow)
  <2> DEFINE next == [jobs[j] EXCEPT !.at = "write", !.file = file]
  <2>1. /\ jobs' = [jobs EXCEPT ![j] = next]
        /\ recipients' = IF jobs[j].do = "clear" THEN recipients \ allow ELSE recipients
    BY <1>9 DEF ReadAllowlist, file
  <2>2. next \in Changes
    <3>1. file \in SUBSET Phone
      BY <1>1, ChangesTyped DEF file, Changed, TypeOK
    <3> QED
      BY <1>1, <3>1 DEF Changes
  <2>3. /\ next.at = "write" /\ next.file = file /\ next # NoJob
        /\ next.phones = jobs[j].phones /\ next.do = jobs[j].do
    BY <1>1 DEF Changes, NoJob
  <2> HIDE DEF next
  <2>a. ClearsAll
    BY DEF AllowlistInv
  <2>4. /\ jobs'[j] = next /\ \A k \in Jobs : k # j => jobs'[k] = jobs[k]
        /\ \A p \in Phone : UnderWay(p)' = UnderWay(p)
        /\ ClearsAll'
    <3>1. next \in {NoJob} \cup Changes /\ (next # NoJob => next.phones = jobs[j].phones /\ next.do = jobs[j].do)
      BY <2>2, <2>3
    <3>2. /\ jobs'[j] = next /\ \A k \in Jobs : k # j => jobs'[k] = jobs[k]
          /\ \A p \in Phone :
               UnderWay(p)' = IF next = NoJob THEN UnderWay(p) \ {j} ELSE UnderWay(p)
          /\ ClearsAll => ClearsAll'
      BY <1>1, <2>1, <3>1, JobChanges
    <3> QED
      BY <2>a, <2>3, <3>2
  <2>5. ~raced' => InUse' = {j} /\ \A k \in Jobs : jobs'[k].at # "fill"
    BY <1>4, <2>3, <2>4 DEF InUse
  <2>6. ASSUME NEW p \in Phone \ crossed PROVE Settles(p)'
    <3>1. CASE j \in UnderWay(p)
      <4>1. UnderWay(p) = {j} /\ WillSettle(p, j)
        BY <1>6, <2>6, <3>1
      <4>2. jobs[j].do = "add" <=> HasRow(p)
        BY <4>1 DEF WillSettle
      <4>3. p \in file <=> HasRow(p)
        BY <1>2, <1>3, <3>1, <4>2
      <4>4. ~raced' /\ jobs[j].do = "clear" => (p \in allow <=> p \in recipients)
        BY <1>1, <1>4, <4>1 DEF WillSettle, Listed
      <4>5. ~raced' /\ jobs[j].do = "clear" => p \notin recipients'
        BY <2>1, <4>4
      <4>6. WillSettle(p, j)'
        BY <1>5, <2>3, <2>4, <4>2, <4>3, <4>5 DEF WillSettle
      <4> QED
        BY <2>4, <4>1, <4>6 DEF Settles
    <3>2. CASE j \notin UnderWay(p)
      <4>1. UnderWay(p)' = UnderWay(p) /\ \A k \in UnderWay(p) : jobs'[k] = jobs[k]
        BY <2>4, <3>2 DEF UnderWay
      <4>2. recipients' = recipients
        BY <1>3, <1>7, <2>1, <3>2
      <4>3. Settles(p)
        BY <2>6 DEF AllowlistInv
      <4>4. p \in file <=> p \in allow
        BY <1>2, <1>3, <3>2
      <4>5. ASSUME ~raced', NEW b \in BOOLEAN, Listed(p, b)
            PROVE  /\ p \in allow' <=> b
                   /\ \A k \in InUse' : p \in jobs'[k].file <=> b
        BY <1>1, <1>4, <2>3, <2>4, <2>5, <4>4, <4>5 DEF Listed
      <4>6. HasSettled(p) => HasSettled(p)'
        BY <1>4, <1>5, <4>2, <4>5 DEF HasSettled, Listed, HasRow
      <4>7. \A k \in UnderWay(p) : WillSettle(p, k) => WillSettle(p, k)'
        BY <1>4, <1>5, <4>1, <4>2, <4>5 DEF WillSettle, Listed
      <4> QED
        BY <4>1, <4>3, <4>6, <4>7 DEF Settles
    <3> QED
      BY <3>1, <3>2
  <2>7. ~raced' => FileInv'
    BY <2>5 DEF FileInv
  <2> QED
    BY <1>1, <2>4, <2>6, <2>7 DEF AllowlistInv
<1> QED
  BY <1>8, <1>9

\* The file is emptied.
LEMMA TruncateInv ==
  ASSUME TypeOK, AllowlistInv, NEW j \in Jobs, TruncateAllowlist(j)
  PROVE  AllowlistInv'
<1> DEFINE next == [jobs[j] EXCEPT !.at = "fill"]
<1>1. /\ jobs[j].at = "write" /\ jobs[j] \in Changes /\ jobs' = [jobs EXCEPT ![j] = next]
      /\ allow' = {} /\ UNCHANGED <<row, recipients, crossed, raced>>
  BY JobsTyped DEF TruncateAllowlist
<1>2. next \in Changes
  BY <1>1 DEF Changes
<1>3. /\ next.at = "fill" /\ next.file = jobs[j].file /\ next # NoJob
      /\ next.phones = jobs[j].phones /\ next.do = jobs[j].do
  BY <1>1 DEF Changes, NoJob
<1> HIDE DEF next
<1>a. ClearsAll
  BY DEF AllowlistInv
<1>4. /\ jobs'[j] = next /\ \A k \in Jobs : k # j => jobs'[k] = jobs[k]
      /\ \A p \in Phone : UnderWay(p)' = UnderWay(p)
      /\ ClearsAll'
  <2>1. next \in {NoJob} \cup Changes /\ (next # NoJob => next.phones = jobs[j].phones /\ next.do = jobs[j].do)
    BY <1>2, <1>3
  <2>2. /\ jobs'[j] = next /\ \A k \in Jobs : k # j => jobs'[k] = jobs[k]
        /\ \A p \in Phone :
             UnderWay(p)' = IF next = NoJob THEN UnderWay(p) \ {j} ELSE UnderWay(p)
        /\ ClearsAll => ClearsAll'
    BY <1>1, <2>1, JobChanges
  <2> QED
    BY <1>a, <1>3, <2>2
<1>5. /\ InUse' = InUse
      /\ \A k \in Jobs : /\ jobs'[k].file = jobs[k].file /\ jobs'[k].do = jobs[k].do
                         /\ jobs'[k].at = "read" <=> jobs[k].at = "read"
  BY <1>1, <1>3, <1>4 DEF InUse
<1>6. \E k \in Jobs : jobs'[k].at = "fill"
  BY <1>3, <1>4
<1>7. \A p \in Phone : HasRow(p)' <=> HasRow(p)
  BY <1>1 DEF HasRow
<1>8. ASSUME NEW p \in Phone \ crossed PROVE Settles(p)'
  <2>1. HasSettled(p) => HasSettled(p)'
    BY <1>1, <1>4, <1>5, <1>6, <1>7 DEF HasSettled, Listed
  <2>2. \A k \in UnderWay(p) : WillSettle(p, k) => WillSettle(p, k)'
    <3>1. \A k \in UnderWay(p) : k \in Jobs
      BY DEF UnderWay
    <3> QED
      BY <1>1, <1>4, <1>5, <1>6, <1>7, <3>1 DEF WillSettle, Listed
  <2> QED
    BY <1>4, <1>8, <2>1, <2>2 DEF AllowlistInv, Settles
<1>9. ~raced' => FileInv'
  BY <1>1, <1>5 DEF AllowlistInv, FileInv
<1> QED
  BY <1>1, <1>4, <1>8, <1>9 DEF AllowlistInv

\* The file is filled and the change ends.
LEMMA FillInv ==
  ASSUME TypeOK, AllowlistInv, NEW j \in Jobs, FillAllowlist(j)
  PROVE  AllowlistInv'
<1>1. /\ jobs[j].at = "fill" /\ jobs[j] \in Changes /\ FinishChange(j)
      /\ allow' = IF Cardinality(allow) > Cardinality(jobs[j].file) THEN {} ELSE jobs[j].file
      /\ UNCHANGED <<row, crossed, raced>>
  BY JobsTyped DEF FillAllowlist
<1>2. /\ jobs'[j] = NoJob /\ \A k \in Jobs : k # j => jobs'[k] = jobs[k]
      /\ \A p \in Phone : UnderWay(p)' = UnderWay(p) \ {j}
      /\ ClearsAll'
  BY <1>1, JobChanges DEF FinishChange, AllowlistInv
<1>3. ~raced => InUse = {j} /\ allow = {}
  BY <1>1 DEF AllowlistInv, FileInv, InUse
<1>4. ~raced => allow' = jobs[j].file
  <2>1. jobs[j].file \in SUBSET Phone
    BY <1>1, ChangesTyped
  <2>2. IsFiniteSet(jobs[j].file)
    BY <2>1, FS_Subset, PairingBoundsAssumption
  <2>3. Cardinality(jobs[j].file) \in Nat /\ Cardinality({}) = 0
    BY <2>2, FS_CardinalityType, FS_EmptySet
  <2> QED
    BY <1>1, <1>3, <2>3
<1>5. ~raced => InUse' = {} /\ \A k \in Jobs : jobs'[k].at # "fill"
  BY <1>2, <1>3 DEF InUse, NoJob
<1>6. \A p \in Phone : HasRow(p)' <=> HasRow(p)
  BY <1>1 DEF HasRow
<1>7. \A p \in Phone : j \in UnderWay(p) <=> p \in jobs[j].phones
  BY <1>1, ChangesTyped DEF UnderWay
<1>8. /\ jobs[j].do = "clear" => recipients' = recipients
      /\ jobs[j].do # "clear" => \A p \in Phone :
           p \in recipients' <=> IF p \in jobs[j].phones THEN jobs[j].do = "add" ELSE p \in recipients
  BY <1>1, ChangesTyped DEF FinishChange
<1>9. ASSUME NEW p \in Phone \ crossed PROVE Settles(p)'
  <2>1. CASE j \in UnderWay(p)
    <3>1. UnderWay(p)' = {} /\ WillSettle(p, j)
      BY <1>2, <1>9, <2>1 DEF AllowlistInv, Settles
    <3>2. /\ jobs[j].do = "add" <=> HasRow(p)
          /\ ~raced => /\ p \in jobs[j].file <=> HasRow(p)
                       /\ jobs[j].do = "clear" => p \notin recipients
      BY <1>1, <3>1 DEF WillSettle
    <3>3. HasSettled(p)'
      BY <1>1, <1>4, <1>5, <1>6, <1>7, <1>8, <2>1, <3>2 DEF HasSettled, Listed
    <3> QED
      BY <3>1, <3>3 DEF Settles
  <2>2. CASE j \notin UnderWay(p)
    <3>1. UnderWay(p)' = UnderWay(p) /\ \A k \in UnderWay(p) : jobs'[k] = jobs[k]
      BY <1>2, <2>2 DEF UnderWay
    <3>2. p \in recipients' <=> p \in recipients
      BY <1>7, <1>8, <2>2
    <3>3. ASSUME ~raced, NEW b \in BOOLEAN, Listed(p, b) PROVE p \in allow' <=> b
      BY <1>3, <1>4, <2>2, <3>3 DEF Listed
    <3>4. Settles(p)
      BY <1>9 DEF AllowlistInv
    <3>5. HasSettled(p) => HasSettled(p)'
      BY <1>1, <1>5, <1>6, <3>2, <3>3 DEF HasSettled, Listed, HasRow
    <3>6. \A k \in UnderWay(p) : WillSettle(p, k) => WillSettle(p, k)'
      BY <1>1, <1>5, <1>6, <3>1, <3>2, <3>3 DEF WillSettle, Listed
    <3> QED
      BY <3>1, <3>4, <3>5, <3>6 DEF Settles
  <2> QED
    BY <2>1, <2>2
<1>10. ~raced' => FileInv'
  BY <1>1, <1>5 DEF FileInv
<1> QED
  BY <1>1, <1>2, <1>9, <1>10 DEF AllowlistInv

\* What does not touch the allowlist leaves its invariant.
LEMMA AllowlistUntouched ==
  ASSUME AllowlistInv, UNCHANGED <<jobs, crossed, raced, allow, recipients>>,
         \A p \in Phone : HasRow(p)' <=> HasRow(p)
  PROVE  AllowlistInv'
<1>1. InUse' = InUse /\ \A p \in Phone : UnderWay(p)' = UnderWay(p)
  BY DEF InUse, UnderWay
<1>2. ASSUME NEW p \in Phone, Settles(p) PROVE Settles(p)'
  BY <1>1, <1>2 DEF Settles, HasSettled, WillSettle, Listed
<1> QED
  BY <1>1, <1>2 DEF AllowlistInv, ClearsAll, FileInv

\* Every step of the desktop and of the link keeps the allowlist's invariant.
LEMMA DesktopAllowlist ==
  ASSUME TypeOK, AllowlistInv, DesktopStep
  PROVE  AllowlistInv'
<1> USE DEF desktopVars, fileVars, linkVars, pluginVars
<1>1. ASSUME UNCHANGED <<jobs, crossed, raced, allow, recipients>>,
             \A p \in Phone : HasRow(p)' <=> HasRow(p)
      PROVE  AllowlistInv'
  BY <1>1, AllowlistUntouched
<1>2. ASSUME NEW p \in Phone, CompletePairing(p) PROVE AllowlistInv'
  <2>1. \A q \in Phone : HasRow(q)' <=> IF q \in {p} THEN TRUE ELSE HasRow(q)
    BY <1>2 DEF CompletePairing, HasRow, TypeOK
  <2>2. Change("add", {p}) /\ UNCHANGED <<allow, recipients, raced>>
    BY <1>2 DEF CompletePairing
  <2> QED
    BY <2>1, <2>2, ChangeBegins
<1>3. ASSUME NEW p \in Phone, RemovePairing(p) PROVE AllowlistInv'
  <2>1. \A q \in Phone : HasRow(q)' <=> IF q \in {p} THEN FALSE ELSE HasRow(q)
    BY <1>3 DEF RemovePairing, HasRow, TypeOK
  <2>2. Change("remove", {p}) /\ UNCHANGED <<allow, recipients, raced>>
    BY <1>3 DEF RemovePairing
  <2> QED
    BY <2>1, <2>2, ChangeBegins
<1>4. CASE DisconnectAll
  <2>1. \A q \in Phone : HasRow(q)' <=> IF q \in Phone THEN FALSE ELSE HasRow(q)
    BY <1>4 DEF DisconnectAll, HasRow
  <2>2. Change("clear", Phone) /\ UNCHANGED <<allow, recipients, raced>>
    BY <1>4 DEF DisconnectAll
  <2> QED
    BY <2>1, <2>2, ChangeBegins
<1>5. CASE PersistStale
  <2>1. \A p \in Phone : HasRow(p)' <=> HasRow(p)
    BY <1>5 DEF PersistStale, HasRow, TypeOK
  <2> QED
    BY <1>1, <1>5, <2>1 DEF PersistStale
<1>6. ASSUME NEW j \in Jobs, ReadAllowlist(j) \/ TruncateAllowlist(j) \/ FillAllowlist(j)
      PROVE  AllowlistInv'
  BY <1>6, ReadInv, TruncateInv, FillInv
<1>7. CASE \/ RequestPairingCode \/ CodeExpires \/ PollPairingStatus \/ \E p \in Phone : PhonePairs(p)
           \/ AskDeviceStatus \/ RpcConnected \/ RpcLost
  <2>1. UNCHANGED <<jobs, crossed, raced, allow, recipients, row>>
    BY <1>7 DEF RequestPairingCode, CodeExpires, PollPairingStatus, PhonePairs, AskDeviceStatus,
                RpcConnected, RpcLost
  <2> QED
    BY <1>1, <2>1 DEF HasRow
<1> QED
  BY <1>2, <1>3, <1>4, <1>5, <1>6, <1>7 DEF DesktopStep
-----------------------------------------------------------------------------
(***************************************************************************)
(* The invariant and what follows from it.                                 *)
(***************************************************************************)

LEMMA PairingInit == Init => PairingInv
<1> SUFFICES ASSUME Init PROVE PairingInv
  OBVIOUS
<1>1. TypeOK
  <2>1. 0 \in 0..MaxInputs
    BY PairingBoundsAssumption
  <2>2. <<>> \in Seq(Requests) /\ jobs \in [Jobs -> {NoJob} \cup Changes]
    BY DEF Init
  <2>3. engine \in [Engines -> {Stopped} \cup AtWork] /\ NoEngines \in [Phone -> {0} \cup Engines]
    BY DEF Init, NoEngines
  <2> QED
    BY <2>1, <2>2, <2>3 DEF Init, TypeOK
<1>2. PluginInv
  BY DEF Init, PluginInv, MapsInv, RunFor, JoinedIsServed, AloneInv, StartsAlone, HearsItsPhone,
         NoEngines, Leaving, EnginesAt, Stopped
<1>3. ServedInv
  BY DEF Init, ServedInv, Rows
<1>4. AllowlistInv
  BY DEF Init, AllowlistInv, ClearsAll, FileInv, Settles, HasSettled, Listed, UnderWay, InUse,
         HasRow, NoJob
<1> QED
  BY <1>1, <1>2, <1>3, <1>4 DEF PairingInv

LEMMA PairingStep == PairingInv /\ [Next]_vars => PairingInv'
<1> SUFFICES ASSUME PairingInv, [Next]_vars PROVE PairingInv'
  OBVIOUS
<1>0. TypeOK /\ PluginInv /\ MapsInv /\ ServedInv /\ AllowlistInv
  BY DEF PairingInv, PluginInv
<1>1. CASE DesktopStep
  <2>1. TypeOK'
    BY <1>0, <1>1, DesktopTyped DEF DesktopStep
  <2>2. PluginInv'
    BY <1>0, <1>1, DesktopLeavesPlugin, PluginUntouched
  <2>3. ServedInv' /\ AllowlistInv'
    BY <1>0, <1>1, DesktopServed, DesktopAllowlist
  <2> QED
    BY <2>1, <2>2, <2>3 DEF PairingInv
<1>2. CASE PluginStep
  <2>1. TypeOK' /\ PluginInv' /\ ServedInv'
    BY <1>0, <1>2, PluginTyped, PluginInvStep, PluginServed
  <2>2. UNCHANGED <<row, jobs, crossed, raced, allow, recipients>>
    BY <1>2 DEF PluginStep, desktopVars, fileVars, TakeStartSync, TakeStopSync, PhoneUnpairs,
                TakeRegisterStale, TakeStopAll, TakeDeviceStatus, Crash, EngineStarted, EngineLeft
  <2>3. AllowlistInv'
    BY <1>0, <2>2, AllowlistUntouched DEF HasRow
  <2> QED
    BY <2>1, <2>3 DEF PairingInv
<1>3. CASE UNCHANGED vars
  <2> USE <1>3 DEF vars, desktopVars, fileVars, linkVars, pluginVars
  <2>1. TypeOK'
    BY <1>0 DEF TypeOK
  <2>2. PluginInv'
    BY <1>0, PluginUntouched
  <2>3. ServedInv'
    BY <1>0, EngagedKept DEF ServedInv, Rows
  <2>4. AllowlistInv'
    BY <1>0, AllowlistUntouched DEF HasRow
  <2> QED
    BY <2>1, <2>2, <2>3, <2>4 DEF PairingInv
<1>4. DesktopStep \/ PluginStep \/ UNCHANGED vars
  BY DEF Next, DesktopStep, PluginStep
<1> QED
  BY <1>1, <1>2, <1>3, <1>4

(* The variables of the desktop, of the link and of the plugin keep their    *)
(* types, and what the rows, the requests, the engines, the transport and    *)
(* the allowlist owe one another holds in every state.                       *)
THEOREM PairingInvariant == Spec => []PairingInv
<1>1. Init => PairingInv
  BY PairingInit
<1>2. PairingInv /\ [Next]_vars => PairingInv'
  BY PairingStep
<1> QED
  BY <1>1, <1>2, PTL DEF Spec

(* The code, the rows, the requests and the maps keep their types: a map     *)
(* never names an engine that does not exist.                                *)
THEOREM PairingTypeCorrect == Spec => []TypeOK
<1>1. PairingInv => TypeOK
  BY DEF PairingInv
<1> QED
  BY <1>1, PairingInvariant, PTL

(* When the requests are handled and no engine starts or stops, every active *)
(* pairing has its engine, unless the phone has unpaired meanwhile.          *)
THEOREM PairingActiveIsServed == Spec => []ActiveIsServed
<1>1. PairingInv => ActiveIsServed
  <2>1. SUFFICES ASSUME PairingInv, rpc, Settled, NEW p \in Rows("active")
                 PROVE  syncEngines[p] # 0 \/ p \in stalePairings
    BY DEF ActiveIsServed
  <2>2. ~LastStarts(p, requests)
    <3>1. Len(requests) = 0
      BY <2>1, EmptySeq DEF Settled
    <3> QED
      BY <3>1 DEF LastStarts
  <2>3. Engaged(p)
    BY <2>1, <2>2 DEF PairingInv, ServedInv
  <2>4. EnginesAt(p, {"starting"}) = {}
    BY <2>1 DEF Settled, EnginesAt
  <2> QED
    BY <2>3, <2>4 DEF Engaged
<1> QED
  BY <1>1, PairingInvariant, PTL

(* The transport is open for phones somebody serves: every token it would    *)
(* rejoin belongs to an engine that runs or starts.                          *)
THEOREM PairingJoinedIsServed == Spec => []JoinedIsServed
<1>1. PairingInv => JoinedIsServed
  BY DEF PairingInv, PluginInv
<1> QED
  BY <1>1, PairingInvariant, PTL

(* A registered engine hears its phone, however many starts of it overlap,    *)
(* unless the start met the end of the phone's service or of the transport.  *)
THEOREM PairingHearsItsPhone == Spec => []HearsItsPhone
<1>1. PairingInv => HearsItsPhone
  BY DEF PairingInv, PluginInv
<1> QED
  BY <1>1, PairingInvariant, PTL

(* What the changes of the allowlist leave of a phone none of whose own      *)
(* changes overlapped: it stays a recipient while it has a row whatever the  *)
(* changes of other phones did to the file, and is in the file and among the *)
(* recipients just when it has a row while no two changes used the file at   *)
(* once.                                                                     *)
THEOREM PairingAllowlistSettles == Spec => []AllowlistSettles
<1>1. PairingInv => AllowlistSettles
  BY DEF PairingInv, AllowlistInv, Settles, HasSettled, Listed, HasRow, AllowlistSettles
<1> QED
  BY <1>1, PairingInvariant, PTL
=============================================================================
