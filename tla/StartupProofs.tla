--------------------------- MODULE StartupProofs ---------------------------
(***************************************************************************)
(* The safety properties of Startup, proved for every set of environments, *)
(* every set of event classes and every number of signals.                 *)
(***************************************************************************)
EXTENDS Startup, TLAPS

(* What the waiters of a test count: only what has completed, and a waiter *)
(* listens exactly as long as it has not seen enough.                      *)
WaitersCount ==
  /\ expected \in Counts /\ seen \in [EventClasses -> Nat]
  /\ \A c \in EventClasses : seen[c] <= completed[c]
  /\ \A c \in subscribed : seen[c] < expected[c]
  /\ pc \in {"close", "closed"} => Waited
  /\ pc \in {"configure", "context", "prepare"} => \A c \in EventClasses : seen[c] = 0

Channels == {"none", "connected", "disconnecting"}

TransportsFit ==
  /\ channel \in Channels
  /\ TransportsAgree

IInv == TypeOK /\ WaitersCount /\ TransportsFit /\ FactoryHasServices

(* The steps that neither configure, count nor answer.                     *)
Plain ==
  \/ OpenTransports \/ ContextFails \/ CreateContext \/ CreateContextInBrowser
  \/ InitContext \/ FillServices \/ FillServicesInBrowser \/ StartApp
  \/ InitFails \/ ServicesMissing \/ AppFails \/ StartClosing \/ Closed \/ CloseFails
  \/ Crash \/ Signal \/ Shutdown

-----------------------------------------------------------------------------
LEMMA InitEstablishes == Init => IInv
<1> SUFFICES ASSUME Init PROVE IInv
  OBVIOUS
<1>1. expected \in Counts /\ Zero \in [EventClasses -> Nat] /\ Zero \in Counts
  BY StartupAssumption DEF Init, Counts, Zero
<1>2. TypeOK
  <2>1. \A c \in EventClasses : expected[c] \in Nat /\ seen[c] = 0
    BY <1>1, StartupAssumption DEF Init, Counts, Zero
  <2>2. signals \in 0..MaxSignals /\ closing \in 0..signals
    BY StartupAssumption DEF Init
  <2>3. {open, services, onSignal} \subseteq BOOLEAN /\ completed \in Counts
    BY <1>1 DEF Init
  <2>4. \A c \in EventClasses : seen[c] \in 0..expected[c]
    BY <2>1
  <2> QED BY <2>2, <2>3, <2>4 DEF Init, TypeOK, Places
<1>3. WaitersCount
  BY <1>1 DEF Init, WaitersCount, Zero, Counts
<1>4. TransportsFit /\ FactoryHasServices
  BY DEF Init, TransportsFit, Channels, TransportsAgree,
         SelfContained, FactoryHasServices
<1> QED BY <1>2, <1>3, <1>4 DEF IInv

(* What the waiters are told and count are numbers.                        *)
LEMMA Numbers ==
  ASSUME IInv, NEW c \in EventClasses
  PROVE  /\ expected[c] \in Nat /\ completed[c] \in Nat /\ seen[c] \in Nat
         /\ seen[c] <= completed[c] /\ seen[c] <= expected[c]
         /\ c \in subscribed => seen[c] < expected[c]
<1>1. expected \in Counts /\ completed \in Counts
  BY DEF IInv, TypeOK, WaitersCount
<1>2. expected[c] \in 0..MaxCount /\ completed[c] \in 0..MaxCount
  BY <1>1 DEF Counts
<1>3. seen[c] \in Nat /\ seen[c] <= completed[c] /\ seen[c] \in 0..expected[c]
  BY DEF IInv, TypeOK, WaitersCount
<1>4. c \in subscribed => seen[c] < expected[c]
  BY DEF IInv, WaitersCount
<1> QED BY <1>2, <1>3, <1>4, StartupAssumption

(* What configuration makes of an environment it accepts.                  *)
LEMMA NodeTransports ==
  ASSUME NEW env, ValidOnNode(env), channel \in Channels
  PROVE  /\ EnabledTransports(env) \subseteq NodeKinds
         /\ ~({"ipc-child", "ipc-parent"} \subseteq EnabledTransports(env))
         /\ OutboxOptions(env) \in NodeKinds \cup {"undefined"}
         /\ OutboxOptions(env) = "electron-ipc-main"
              => "electron-ipc-main" \in EnabledTransports(env)
         /\ OutboxOptions(env) = "ipc-parent" /\ channel = "none"
              => "ipc-parent" \in EnabledTransports(env)
         /\ OutboxOptions(env) = "ipc-child" /\ channel = "connected"
              => "ipc-child" \in EnabledTransports(env)
<1>1. /\ HttpTransport(env) \subseteq {"http"} /\ WsTransport(env) \subseteq {"ws"}
      /\ IpcChild(env) = IF Asked(env, "ipc-child") /\ channel = "connected"
                         THEN {"ipc-child"} ELSE {}
      /\ IpcParent(env) = IF Asked(env, "ipc-parent") /\ channel = "none"
                          THEN {"ipc-parent"} ELSE {}
      /\ ElectronMain(env) = IF Asked(env, "electron-ipc-main")
                             THEN {"electron-ipc-main"} ELSE {}
  BY DEF HttpTransport, WsTransport, IpcChild, IpcParent, ElectronMain
<1>2. \A t \in EnabledTransports(env) :
        \/ t \in {"http", "ws", "electron-ipc-main"}
        \/ t = "ipc-child" /\ channel = "connected"
        \/ t = "ipc-parent" /\ channel = "none"
  BY <1>1 DEF EnabledTransports
<1>3. /\ OutboxOptions(env) \in NodeKinds \cup {"undefined"}
      /\ OutboxOptions(env) # "undefined" => Asked(env, OutboxOptions(env))
  BY DEF OutboxOptions, ValidOnNode, Asked, NodeKinds
<1>4. EnabledTransports(env) \subseteq NodeKinds
  BY <1>2 DEF NodeKinds
<1>5. ~({"ipc-child", "ipc-parent"} \subseteq EnabledTransports(env))
  BY <1>2
<1> QED BY <1>1, <1>3, <1>4, <1>5 DEF EnabledTransports

LEMMA BrowserTransports ==
  ASSUME NEW env, ValidInBrowser(env)
  PROVE  /\ EnabledBrowserTransports(env) \subseteq BrowserKinds
         /\ OutboxOptions(env) \in BrowserKinds \cup {"undefined"}
         /\ OutboxOptions(env) \in {"electron-ipc-renderer", "shared-worker-server"}
              => OutboxOptions(env) \in EnabledBrowserTransports(env)
<1>1. OutboxOptions(env) \in BrowserKinds \cup {"undefined"}
  BY DEF OutboxOptions, ValidInBrowser
<1>2. EnabledBrowserTransports(env) \subseteq BrowserKinds
  BY DEF EnabledBrowserTransports, BrowserKinds
<1>3. OutboxOptions(env) \in {"electron-ipc-renderer", "shared-worker-server"}
        => OutboxOptions(env) \in EnabledBrowserTransports(env)
  BY DEF OutboxOptions, EnabledBrowserTransports
<1> QED BY <1>1, <1>2, <1>3

LEMMA ConfigureKeeps == ASSUME IInv, Configure PROVE IInv'
<1>1. PICK env \in Environments :
        IF IF platform = "browser" THEN ValidInBrowser(env) ELSE ValidOnNode(env)
        THEN /\ pc' = "context"
             /\ transports' = IF platform = "browser" THEN EnabledBrowserTransports(env)
                                                      ELSE EnabledTransports(env)
             /\ outbox' = OutboxOptions(env)
        ELSE pc' = "rejected" /\ UNCHANGED config
  BY DEF Configure
<1>2. UNCHANGED <<fixed, open, services, onSignal, waiters, stopping, answer, exit>>
  BY DEF Configure
<1>3. /\ transports' \subseteq NodeKinds \cup BrowserKinds
      /\ outbox' \in NodeKinds \cup BrowserKinds \cup {"undefined"}
      /\ ~({"ipc-child", "ipc-parent"} \subseteq transports')
      /\ outbox' \in SelfContained => outbox' \in transports'
  <2>1. CASE platform = "browser" /\ ValidInBrowser(env)
    BY <1>1, <2>1, BrowserTransports DEF BrowserKinds, SelfContained
  <2>2. CASE platform # "browser" /\ ValidOnNode(env)
    <3>1. transports' = EnabledTransports(env) /\ outbox' = OutboxOptions(env)
      BY <1>1, <2>2
    <3>2. channel \in Channels
      BY DEF IInv, TransportsFit
    <3> QED BY <2>2, <3>1, <3>2, NodeTransports DEF SelfContained, Channels
  <2>3. CASE UNCHANGED config
    BY <2>3 DEF config, IInv, TypeOK, TransportsFit, TransportsAgree
  <2> QED BY <1>1, <2>1, <2>2, <2>3
<1>4. /\ pc' \in Places /\ pc' \notin {"close", "closed"}
      /\ pc = "configure"
  BY <1>1 DEF Places, Configure
<1>5. TypeOK'
  BY <1>2, <1>3, <1>4 DEF IInv, TypeOK, fixed, waiters, stopping, Waiters
<1>6. WaitersCount'
  BY <1>2, <1>4 DEF IInv, WaitersCount, fixed, waiters
<1>7. TransportsFit' /\ FactoryHasServices'
  BY <1>2, <1>3 DEF IInv, TransportsFit, FactoryHasServices, TransportsAgree,
                    SelfContained, fixed
<1> QED BY <1>5, <1>6, <1>7 DEF IInv

LEMMA PlainKeeps == ASSUME IInv, Plain PROVE IInv'
<1>1. UNCHANGED <<fixed, config, waiters, answer>>
  BY DEF Plain, OpenTransports, ContextFails, CreateContext, CreateContextInBrowser,
         InitContext, FillServices, FillServicesInBrowser, StartApp, InitFails,
         ServicesMissing, AppFails, StartClosing, Closed, CloseFails, Fail, Crash,
         Signal, Shutdown, Advance
<1>2. /\ pc' \in Places
      /\ pc' \in {"close", "closed"} => pc \in {"close", "closed"} \/ Waited
      /\ pc' \in {"configure", "context", "prepare"} => pc \in {"configure", "context", "prepare"}
  BY DEF Plain, OpenTransports, ContextFails, CreateContext, CreateContextInBrowser,
         InitContext, FillServices, FillServicesInBrowser, StartApp, InitFails,
         ServicesMissing, AppFails, StartClosing, Closed, CloseFails, Fail, Crash,
         Signal, Shutdown, Advance, Places, IInv, TypeOK
<1>3. {open, services, onSignal}' \subseteq BOOLEAN
  BY DEF Plain, OpenTransports, ContextFails, CreateContext, CreateContextInBrowser,
         InitContext, FillServices, FillServicesInBrowser, StartApp, InitFails,
         ServicesMissing, AppFails, StartClosing, Closed, CloseFails, Fail, Crash,
         Signal, Shutdown, Advance, IInv, TypeOK
<1>4. exit' \in {"running", "0", "1", "killed"}
  BY DEF Plain, OpenTransports, ContextFails, CreateContext, CreateContextInBrowser,
         InitContext, FillServices, FillServicesInBrowser, StartApp, InitFails,
         ServicesMissing, AppFails, StartClosing, Closed, CloseFails, Fail, Crash,
         Signal, Shutdown, Advance, IInv, TypeOK
<1>5. signals' \in 0..MaxSignals /\ closing' \in 0..signals'
  <2> signals \in 0..MaxSignals /\ closing \in 0..signals
    BY DEF IInv, TypeOK
  <2>1. CASE Signal
    <3>1. signals < MaxSignals /\ signals' = signals + 1 /\ closing' \in {closing, closing + 1}
      BY <2>1 DEF Signal
    <3> QED BY <3>1, StartupAssumption
  <2>2. CASE Shutdown
    <3>1. closing > 0 /\ closing' = closing - 1 /\ signals' = signals
      BY <2>2 DEF Shutdown
    <3> QED BY <3>1, StartupAssumption
  <2>3. CASE UNCHANGED stopping
    BY <2>3 DEF stopping, IInv, TypeOK
  <2> QED BY <2>1, <2>2, <2>3
          DEF Plain, OpenTransports, ContextFails, CreateContext, CreateContextInBrowser,
              InitContext, FillServices, FillServicesInBrowser, StartApp, InitFails,
              ServicesMissing, AppFails, StartClosing, Closed, CloseFails, Fail, Crash
<1>6. TypeOK'
  BY <1>1, <1>2, <1>3, <1>4, <1>5 DEF IInv, TypeOK, fixed, config, waiters, Waiters
<1>7. WaitersCount'
  BY <1>1, <1>2 DEF IInv, WaitersCount, Waited, Waiters, fixed, waiters
<1>8. TransportsFit' /\ FactoryHasServices'
  BY <1>1 DEF IInv, TransportsFit, TransportsAgree, SelfContained,
              FactoryHasServices, fixed, config
<1> QED BY <1>6, <1>7, <1>8 DEF IInv

LEMMA PrepareKeeps == ASSUME IInv, Prepare PROVE IInv'
<1>1. /\ pc = "prepare" /\ pc' = "init" /\ onSignal' \in BOOLEAN /\ subscribed' = Waiters
      /\ UNCHANGED <<fixed, config, open, services, seen, completed, stopping, answer, exit>>
  BY DEF Prepare, Advance
<1>2. TypeOK'
  BY <1>1 DEF IInv, TypeOK, Places, fixed, config, stopping, Waiters
<1>3. WaitersCount'
  BY <1>1 DEF IInv, WaitersCount, fixed, Waiters
<1>4. TransportsFit' /\ FactoryHasServices'
  BY <1>1 DEF IInv, TransportsFit, TransportsAgree, SelfContained,
              FactoryHasServices, fixed, config
<1> QED BY <1>2, <1>3, <1>4 DEF IInv

LEMMA HandlerCompletesKeeps ==
  ASSUME IInv, NEW c \in EventClasses, HandlerCompletes(c) PROVE IInv'
<1>1. /\ completed[c] < MaxCount /\ completed' = [completed EXCEPT ![c] = @ + 1]
      /\ pc \in {"app", "wait", "up"}
      /\ UNCHANGED <<fixed, pc, config, open, services, onSignal, stopping, answer, exit>>
  BY DEF HandlerCompletes
<1>2. completed' \in Counts /\ \A d \in EventClasses : completed'[d] >= completed[d]
  <2>1. completed \in [EventClasses -> 0..MaxCount] /\ completed[c] + 1 \in 0..MaxCount
    <3>1. completed[c] \in Nat
      BY Numbers
    <3>2. completed \in [EventClasses -> 0..MaxCount]
      BY DEF IInv, TypeOK, Counts
    <3>3. completed[c] + 1 \in 0..MaxCount
      BY <1>1, <3>1, StartupAssumption
    <3> QED BY <3>2, <3>3
  <2>2. completed' \in Counts
    BY <1>1, <2>1 DEF Counts
  <2>3. ASSUME NEW d \in EventClasses PROVE completed'[d] >= completed[d]
    <3>1. completed'[d] = IF d = c THEN completed[d] + 1 ELSE completed[d]
      BY <1>1, <2>1
    <3>2. completed[d] \in Nat
      BY Numbers
    <3> QED BY <3>1, <3>2
  <2> QED BY <2>2, <2>3
<1>3. /\ subscribed' \subseteq subscribed /\ subscribed \subseteq Waiters
      /\ seen' \in [EventClasses -> Nat]
      /\ \A d \in EventClasses : seen'[d] \in 0..expected[d] /\ seen'[d] <= completed'[d]
      /\ \A d \in subscribed' : seen'[d] < expected[d]
  <2> seen \in [EventClasses -> Nat] /\ subscribed \subseteq Waiters
    BY DEF IInv, TypeOK, WaitersCount
  <2>1. CASE c \in subscribed
    <3>1. /\ seen' = [seen EXCEPT ![c] = @ + 1]
          /\ subscribed' = IF seen'[c] >= expected[c] THEN subscribed \ {c} ELSE subscribed
      BY <2>1 DEF HandlerCompletes
    <3>2. /\ seen' \in [EventClasses -> Nat]
          /\ \A d \in EventClasses : seen'[d] = IF d = c THEN seen[d] + 1 ELSE seen[d]
      BY <3>1
    <3>3. ASSUME NEW d \in EventClasses
          PROVE  seen'[d] \in 0..expected[d] /\ seen'[d] <= completed'[d]
      <4>1. CASE d = c
        <5>1. completed'[c] = completed[c] + 1 /\ seen'[c] = seen[c] + 1
          BY <1>1, <3>2 DEF IInv, TypeOK, Counts
        <5> QED BY <2>1, <4>1, <5>1, Numbers
      <4>2. CASE d # c
        BY <1>2, <3>2, <4>2, Numbers DEF Counts
      <4> QED BY <4>1, <4>2
    <3>4. ASSUME NEW d \in subscribed' PROVE seen'[d] < expected[d]
      <4>1. d \in EventClasses /\ d \in subscribed /\ seen'[d] \in Nat /\ expected[d] \in Nat
        BY <3>1, <3>2, Numbers DEF Waiters
      <4>2. CASE d = c
        BY <3>1, <4>1, <4>2
      <4>3. CASE d # c
        BY <3>2, <4>1, <4>3, Numbers
      <4> QED BY <4>2, <4>3
    <3> QED BY <3>1, <3>2, <3>3, <3>4
  <2>2. CASE c \notin subscribed
    <3>1. seen' = seen /\ subscribed' = subscribed
      BY <2>2 DEF HandlerCompletes
    <3>2. ASSUME NEW d \in EventClasses
          PROVE  seen[d] \in 0..expected[d] /\ seen[d] <= completed'[d]
      <4>1. completed'[d] \in Nat
        BY <1>2, StartupAssumption DEF Counts
      <4> QED BY <4>1, <1>2, Numbers
    <3> QED BY <3>1, <3>2, Numbers DEF Waiters
  <2> QED BY <2>1, <2>2
<1>4. TypeOK'
  BY <1>1, <1>2, <1>3 DEF IInv, TypeOK, fixed, config, stopping, Waiters
<1>5. WaitersCount'
  BY <1>1, <1>2, <1>3 DEF IInv, WaitersCount, fixed
<1>6. TransportsFit' /\ FactoryHasServices'
  BY <1>1 DEF IInv, TransportsFit, TransportsAgree, SelfContained,
              FactoryHasServices, fixed, config
<1> QED BY <1>4, <1>5, <1>6 DEF IInv

LEMMA QueryKeeps == ASSUME IInv, Query PROVE IInv'
<1>1. /\ UNCHANGED <<fixed, pc, config, open, services, onSignal, waiters, stopping, exit>>
      /\ answer' \in {"none", "refused", "handled", "handled without services"}
      /\ answer' = "handled without services" => platform = "browser"
  BY DEF Query, GetServices
<1>2. TypeOK'
  BY <1>1 DEF IInv, TypeOK, fixed, config, waiters, stopping, Waiters
<1>3. WaitersCount'
  BY <1>1 DEF IInv, WaitersCount, Waited, Waiters, fixed, waiters
<1>4. TransportsFit' /\ FactoryHasServices'
  BY <1>1 DEF IInv, TransportsFit, TransportsAgree, SelfContained,
              FactoryHasServices, fixed, config
<1> QED BY <1>2, <1>3, <1>4 DEF IInv

LEMMA StutterKeeps == ASSUME IInv, UNCHANGED vars PROVE IInv'
BY DEF vars, fixed, config, waiters, stopping, IInv, TypeOK, WaitersCount, Waited, Waiters,
       TransportsFit, TransportsAgree, SelfContained, FactoryHasServices

LEMMA StepsKeep == IInv /\ [Next]_vars => IInv'
<1> SUFFICES ASSUME IInv, [Next]_vars PROVE IInv'
  OBVIOUS
<1>1. CASE Configure
  BY <1>1, ConfigureKeeps
<1>2. CASE Prepare
  BY <1>2, PrepareKeeps
<1>3. CASE \E c \in EventClasses : HandlerCompletes(c)
  BY <1>3, HandlerCompletesKeeps
<1>4. CASE Query
  BY <1>4, QueryKeeps
<1>5. CASE Plain
  BY <1>5, PlainKeeps
<1>6. CASE UNCHANGED vars
  BY <1>6, StutterKeeps
<1> QED BY <1>1, <1>2, <1>3, <1>4, <1>5, <1>6 DEF Next, Bootstrap, Plain

LEMMA Invariant == Spec => []IInv
BY InitEstablishes, StepsKeep, PTL DEF Spec

-----------------------------------------------------------------------------
(* Every variable keeps its kind, and no waiter of a test counts beyond    *)
(* what it waits for, whatever completes when.                             *)
THEOREM TypeCorrect == Spec => []TypeOK
<1>1. IInv => TypeOK
  BY DEF IInv
<1> QED BY <1>1, Invariant, PTL

(* An outbox that needs no setting but its kind has its transport, and no  *)
(* configuration makes a process the parent and the child of one channel.  *)
THEOREM TransportsAgreeHolds == Spec => []TransportsAgree
<1>1. IInv => TransportsAgree
  BY DEF IInv, TransportsFit
<1> QED BY <1>1, Invariant, PTL

(* No query that reaches a user's handler while a Node process starts     *)
(* finds the services reference empty.                                     *)
THEOREM FactoryHasServicesHolds == Spec => []FactoryHasServices
<1>1. IInv => FactoryHasServices
  BY DEF IInv
<1> QED BY <1>1, Invariant, PTL

-----------------------------------------------------------------------------
(* What is neither missed nor swallowed.                                   *)

Counted(c) == (c \in subscribed /\ seen[c] = completed[c]) \/ seen[c] >= expected[c]

NoneMissed ==
  /\ platform = "browser" => Waiters = {}
  /\ pc \in {"configure", "context", "prepare", "init", "services"}
       => \A c \in EventClasses : completed[c] = 0
  /\ pc \in {"init", "services", "app", "wait"} => \A c \in Waiters : Counted(c)

LEMMA InitMissesNone == Init => NoneMissed
BY DEF Init, NoneMissed, Zero, Waiters

(* The waiters subscribe while nothing has completed yet.                  *)
LEMMA PrepareMissesNone == ASSUME IInv, NoneMissed, Prepare PROVE NoneMissed'
<1>1. /\ pc = "prepare" /\ pc' = "init" /\ subscribed' = Waiters
      /\ UNCHANGED <<fixed, seen, completed>>
  BY DEF Prepare, Advance
<1>2. Waiters' = Waiters
  BY <1>1 DEF Waiters, fixed
<1>3. \A c \in Waiters : seen[c] = 0 /\ completed[c] = 0
  BY <1>1 DEF IInv, WaitersCount, NoneMissed, Waiters
<1> QED BY <1>1, <1>2, <1>3 DEF NoneMissed, Counted, fixed

(* A waiter counts what completes until it has seen enough.                *)
LEMMA HandlerMissesNone ==
  ASSUME IInv, NoneMissed, NEW c \in EventClasses, HandlerCompletes(c)
  PROVE  NoneMissed'
<1>1. /\ pc \in {"app", "wait", "up"} /\ UNCHANGED <<fixed, pc>>
      /\ completed' = [completed EXCEPT ![c] = @ + 1]
  BY DEF HandlerCompletes
<1>2. /\ completed \in [EventClasses -> 0..MaxCount] /\ seen \in [EventClasses -> Nat]
      /\ Waiters \subseteq EventClasses
  BY DEF IInv, TypeOK, WaitersCount, Counts, Waiters
<1>3. Waiters' = Waiters /\ expected' = expected
  BY <1>1 DEF Waiters, fixed
<1>4. ASSUME NEW d \in Waiters, Counted(d) PROVE Counted(d)'
  <2>1. CASE c \in subscribed
    <3>1. /\ seen' = [seen EXCEPT ![c] = @ + 1]
          /\ subscribed' = IF seen'[c] >= expected[c] THEN subscribed \ {c} ELSE subscribed
      BY <2>1 DEF HandlerCompletes
    <3>2. CASE d = c
      <4>1. seen'[c] = seen[c] + 1 /\ completed'[c] = completed[c] + 1
        BY <1>1, <1>2, <3>1
      <4>2. seen[c] < expected[c] /\ seen[c] \in Nat /\ expected[c] \in Nat
        BY <2>1, Numbers
      <4>3. seen[c] = completed[c]
        BY <1>4, <3>2, <4>2 DEF Counted
      <4> QED BY <1>3, <2>1, <3>1, <3>2, <4>1, <4>3 DEF Counted
    <3>3. CASE d # c
      <4>1. seen'[d] = seen[d] /\ completed'[d] = completed[d]
        BY <1>1, <1>2, <3>1, <3>3
      <4>2. d \in subscribed => d \in subscribed'
        BY <3>1, <3>3
      <4> QED BY <1>3, <1>4, <4>1, <4>2 DEF Counted
    <3> QED BY <3>2, <3>3
  <2>2. CASE c \notin subscribed
    <3>1. seen' = seen /\ subscribed' = subscribed
      BY <2>2 DEF HandlerCompletes
    <3>2. d # c => completed'[d] = completed[d]
      BY <1>1, <1>2
    <3>3. d = c => seen[d] >= expected[d]
      BY <1>4, <2>2 DEF Counted
    <3> QED BY <1>3, <1>4, <3>1, <3>2, <3>3 DEF Counted
  <2> QED BY <2>1, <2>2
<1>5. pc' \in {"init", "services", "app", "wait"} => \A d \in Waiters : Counted(d)'
  BY <1>1, <1>4 DEF NoneMissed
<1>6. platform' = platform /\ pc' \in {"app", "wait", "up"}
  BY <1>1 DEF fixed
<1> QED BY <1>3, <1>5, <1>6 DEF NoneMissed

(* What neither subscribes nor counts goes on only from where it may.      *)
LEMMA OthersMissNone ==
  ASSUME NoneMissed, Configure \/ Query \/ Plain \/ UNCHANGED vars
  PROVE  NoneMissed'
<1>1. UNCHANGED <<fixed, waiters>>
  BY DEF Configure, Query, Plain, OpenTransports, ContextFails, CreateContext,
         CreateContextInBrowser, InitContext, FillServices, FillServicesInBrowser, StartApp,
         InitFails, ServicesMissing, AppFails, StartClosing, Closed, CloseFails, Fail, Crash,
         Signal, Shutdown, Advance, vars
<1>2. /\ pc' \in {"configure", "context", "prepare", "init", "services"}
           => pc \in {"configure", "context", "prepare", "init", "services"}
      /\ pc' \in {"init", "services", "app", "wait"}
           => pc \in {"init", "services", "app", "wait"} \/ platform = "browser"
  BY DEF Configure, Query, Plain, OpenTransports, ContextFails, CreateContext,
         CreateContextInBrowser, InitContext, FillServices, FillServicesInBrowser, StartApp,
         InitFails, ServicesMissing, AppFails, StartClosing, Closed, CloseFails, Fail, Crash,
         Signal, Shutdown, Advance, vars
<1>3. /\ Waiters' = Waiters /\ completed' = completed /\ platform' = platform
      /\ seen' = seen /\ subscribed' = subscribed /\ expected' = expected
  BY <1>1 DEF Waiters, fixed, waiters
<1> QED BY <1>2, <1>3 DEF NoneMissed, Counted

(* bootstrap() of a test never closes the application before each handler  *)
(* it waits for has completed as often as it was told, and its waiters are *)
(* done when they have: they subscribe before the first event can be       *)
(* published, and each of them counts to the end.                          *)
THEOREM WaitersExactHolds == Spec => []WaitersExact
<1>1. IInv /\ NoneMissed /\ [Next]_vars => NoneMissed'
  BY PrepareMissesNone, HandlerMissesNone, OthersMissNone DEF Next, Bootstrap, Plain
<1>2. ASSUME IInv, pc \in {"close", "closed"} PROVE AllHandled
  <2> SUFFICES ASSUME NEW c \in EventClasses PROVE completed[c] >= expected[c]
    BY DEF AllHandled
  <2>1. expected[c] > 0 => seen[c] >= expected[c]
    BY <1>2 DEF IInv, WaitersCount, Waited, Waiters
  <2> QED BY <1>2, <2>1, Numbers
<1>3. ASSUME IInv, NoneMissed, pc = "wait", AllHandled PROVE Waited
  <2> SUFFICES ASSUME NEW c \in Waiters PROVE seen[c] >= expected[c]
    BY DEF Waited
  <2>1. c \in EventClasses /\ Counted(c)
    BY <1>3 DEF NoneMissed, Waiters
  <2> QED BY <1>3, <2>1 DEF Counted, AllHandled
<1>4. IInv /\ NoneMissed => WaitersExact
  BY <1>2, <1>3 DEF WaitersExact
<1> QED BY <1>1, <1>4, InitMissesNone, Invariant, PTL DEF Spec

(* A process that still runs after a signal is closing.                    *)
SignalHeld == Running /\ signals > 0 => closing > 0

(* The signal handlers: a process that was sent a signal either is at its  *)
(* end or has a close() under way that will end it, whatever it returns.   *)
THEOREM SignalHeldHolds == Spec => []SignalHeld
<1>1. Init => SignalHeld
  BY DEF Init, SignalHeld
<1>2. ASSUME IInv, SignalHeld, [Next]_vars PROVE SignalHeld'
  <2>1. signals \in Nat /\ closing \in Nat
    <3>1. signals \in 0..MaxSignals /\ closing \in 0..signals
      BY <1>2 DEF IInv, TypeOK
    <3> QED BY <3>1, StartupAssumption
  <2>2. CASE Signal
    BY <2>1, <2>2 DEF Signal, SignalHeld, Running
  <2>3. CASE Shutdown
    BY <2>3 DEF Shutdown, SignalHeld, Running
  <2>4. CASE UNCHANGED stopping
    <3>1. exit' = "running" => exit = "running"
      BY <1>2, <2>4 DEF Next, Bootstrap, Configure, Prepare, Query, HandlerCompletes,
             OpenTransports, ContextFails, CreateContext, CreateContextInBrowser, InitContext,
             FillServices, FillServicesInBrowser, StartApp, InitFails, ServicesMissing,
             AppFails, StartClosing, Closed, CloseFails, Fail, Crash, Signal, Shutdown,
             Advance, Running, vars
    <3> QED BY <1>2, <2>4, <3>1 DEF SignalHeld, Running, stopping
  <2>5. Signal \/ Shutdown \/ UNCHANGED stopping
    BY <1>2 DEF Next, Bootstrap, Configure, Prepare, Query, HandlerCompletes,
           OpenTransports, ContextFails, CreateContext, CreateContextInBrowser, InitContext,
           FillServices, FillServicesInBrowser, StartApp, InitFails, ServicesMissing,
           AppFails, StartClosing, Closed, CloseFails, Fail, Crash, Advance, vars, stopping
  <2> QED BY <2>2, <2>3, <2>4, <2>5
<1> QED BY <1>1, <1>2, Invariant, PTL DEF Spec
=============================================================================
