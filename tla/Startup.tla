------------------------------ MODULE Startup ------------------------------
(***************************************************************************)
(* One process from its environment to its end: what a configuration       *)
(* enables, the order in which bootstrap() makes the crawler ready, what   *)
(* queries meet meanwhile, and how signals, failures and the waiters of a  *)
(* test end it.  A platform is "server" (Node), "test" (Node with          *)
(* NODE_ENV=test) or "browser".                                            *)
(*                                                                         *)
(* The value of a variable is the class of strings it belongs to:          *)
(* "absent", "empty", "text", "zero", "negative", "port" for numbers.      *)
(* External: the Nest container, the transports, the CQRS event bus.       *)
(***************************************************************************)
EXTENDS Naturals, FiniteSets

CONSTANTS
  Environments,   (* environments a process may be started with            *)
  EventClasses,   (* classes of events a test may wait for                 *)
  MaxCount,       (* bound: completed handlers of a class                  *)
  MaxSignals      (* bound: signals sent to the process                    *)

ASSUME StartupAssumption == MaxCount \in Nat /\ MaxSignals \in Nat /\ IsFiniteSet(EventClasses)

VARIABLES
  platform,
  channel,      (* to a parent process: "none" (never had one, or gone),   *)
                (* "connected", "disconnecting" (closed, but still there)  *)
  tokens,       (* a user Provider registered the token 'ModelFactoryService' *)
  expected,     (* testing.handlerEventsToWait, by class                   *)
  pc,           (* where bootstrap() is                                    *)
  transports,   (* types given to NetworkTransportModule                   *)
  outbox,       (* kind given to it, or "undefined"                        *)
  open,         (* the transports accept queries                           *)
  services,     (* servicesRef.value is set                                *)
  onSignal,     (* handlers of SIGINT and SIGTERM are installed            *)
  seen,         (* what the waiters of the test have counted               *)
  subscribed,   (* classes whose waiter listens to the event bus           *)
  completed,    (* handlers that have completed, by class                  *)
  signals,      (* signals sent                                            *)
  closing,      (* calls of close() by signal handlers under way           *)
  answer,       (* what the last query of a factory handler got            *)
  exit          (* how the process ended: "running", "0", "1", "killed"    *)

fixed == <<platform, channel, tokens, expected>>
config == <<transports, outbox>>
waiters == <<seen, subscribed, completed>>
stopping == <<signals, closing>>
vars == <<fixed, pc, config, open, services, onSignal, waiters, stopping, answer, exit>>

-----------------------------------------------------------------------------
(* Configuration.                                                          *)

(* parseInt, with undefined for what is no number.                         *)
NumberOf(raw) == IF raw \in {"absent", "empty", "text"} THEN "undefined" ELSE raw

TextOf(raw) == IF raw \in {"absent", "empty"} THEN "undefined" ELSE raw

FlagOf(raw) ==
  CASE raw \in {"true", "1"} -> "1"
    [] raw \in {"false", "0"} -> "0"
    [] OTHER -> "undefined"

HttpSettings(env) == [http |-> NumberOf(env.http), webhook |-> TextOf(env.webhook)]

WsSettings(env) == [ws |-> NumberOf(env.ws), wsUrl |-> TextOf(env.wsUrl)]

OutboxSettings(env) ==
  [enable |-> FlagOf(env.enable), kind |-> TextOf(env.kind), ipc |-> TextOf(env.ipc)]

NodeKinds == {"http", "ws", "ipc-parent", "ipc-child", "electron-ipc-main", "electron-ipc-renderer"}

BrowserKinds == {"http", "ws", "electron-ipc-renderer", "shared-worker-server"}

(* What transformAndValidate accepts of these settings.                    *)
ValidOnNode(env) ==
  /\ HttpSettings(env).http # "negative" /\ WsSettings(env).ws # "negative"
  /\ OutboxSettings(env).kind \in NodeKinds \cup {"undefined"}
  /\ OutboxSettings(env).ipc \in {"ipc-parent", "ipc-child", "undefined"}

ValidInBrowser(env) == OutboxSettings(env).kind \in BrowserKinds \cup {"undefined"}

HttpTransport(env) == {"http" : x \in {HttpSettings(env).http} \ {"undefined", "zero", "negative"}}

WsTransport(env) == {"ws" : x \in {WsSettings(env).ws} \ {"undefined", "zero", "negative"}}

Asked(env, kind) == kind \in {OutboxSettings(env).kind, OutboxSettings(env).ipc}

IpcChild(env) == {k \in {"ipc-child"} : Asked(env, k) /\ channel = "connected"}

(* Mutant: a child may be a parent on the same channel.                    *)
IpcParentAnyway(env) == {k \in {"ipc-parent"} : Asked(env, k)}

IpcParent(env) == {k \in {"ipc-parent"} : Asked(env, k) /\ channel = "none"}

ElectronMain(env) == {k \in {"electron-ipc-main"} : Asked(env, k)}

EnabledTransports(env) ==
  HttpTransport(env) \cup WsTransport(env) \cup IpcChild(env) \cup IpcParent(env)
    \cup ElectronMain(env)

EnabledBrowserTransports(env) ==
  {"http" : x \in {HttpSettings(env).webhook} \ {"undefined"}}
    \cup {"ws" : x \in {WsSettings(env).wsUrl} \ {"undefined"}}
    \cup ({OutboxSettings(env).kind} \cap {"electron-ipc-renderer", "shared-worker-server"})

OutboxOptions(env) == IF OutboxSettings(env).enable = "1" THEN OutboxSettings(env).kind ELSE "undefined"

-----------------------------------------------------------------------------
Counts == [EventClasses -> 0..MaxCount]

Zero == [c \in EventClasses |-> 0]

Init ==
  /\ platform \in {"server", "test", "browser"}
  /\ channel \in (IF platform = "browser" THEN {"none"} ELSE {"none", "connected", "disconnecting"})
  /\ tokens \in (IF platform = "browser" THEN BOOLEAN ELSE {FALSE})
  /\ expected \in (IF platform = "test" THEN Counts ELSE {Zero})
  /\ pc = "configure" /\ transports = {} /\ outbox = "undefined"
  /\ open = FALSE /\ services = FALSE /\ onSignal = FALSE
  /\ seen = Zero /\ subscribed = {} /\ completed = Zero
  /\ signals = 0 /\ closing = 0 /\ answer = "none" /\ exit = "running"

Running == exit = "running"

(* A step of bootstrap() from one place to the next.                       *)
Advance(from, to) == Running /\ pc = from /\ pc' = to

(* The waiters of a test that has any: one for each class with a count.    *)
Waiters == {c \in EventClasses : expected[c] > 0}

(* AppModule.forRootAsync: the configuration is validated and used.  What  *)
(* fails here, or while the container is built, rejects bootstrap() before *)
(* its try block.                                                          *)
Configure ==
  /\ Running /\ pc = "configure"
  /\ \E env \in Environments :
       IF IF platform = "browser" THEN ValidInBrowser(env) ELSE ValidOnNode(env)
       THEN /\ pc' = "context"
            /\ transports' = IF platform = "browser" THEN EnabledBrowserTransports(env)
                                                     ELSE EnabledTransports(env)
            /\ outbox' = OutboxOptions(env)
       ELSE pc' = "rejected" /\ UNCHANGED config
  /\ UNCHANGED <<fixed, open, services, onSignal, waiters, stopping, answer, exit>>

(* A transport begins to listen while the modules are initialised, which   *)
(* is inside createApplicationContext on Node and inside init() in a       *)
(* browser; nothing orders it before or after the other modules.           *)
OpenTransports ==
  /\ Running /\ ~open /\ transports # {}
  /\ pc = IF platform = "browser" THEN "init" ELSE "context"
  /\ open' = TRUE
  /\ UNCHANGED <<fixed, pc, config, services, onSignal, waiters, stopping, answer, exit>>

ContextFails ==
  /\ Advance("context", "rejected")
  /\ UNCHANGED <<fixed, config, open, services, onSignal, waiters, stopping, answer, exit>>

CreateContext ==
  /\ platform # "browser" /\ open = (transports # {})
  /\ Advance("context", "prepare")
  /\ UNCHANGED <<fixed, config, open, services, onSignal, waiters, stopping, answer, exit>>

CreateContextInBrowser ==
  /\ platform = "browser"
  /\ Advance("context", "init")
  /\ UNCHANGED <<fixed, config, open, services, onSignal, waiters, stopping, answer, exit>>

(* Mutant: the waiters of the test never listen to the bus.                *)
PrepareWithoutWaiters ==
  /\ Advance("prepare", "init")
  /\ onSignal' = (platform = "server")
  /\ UNCHANGED <<fixed, config, open, services, waiters, stopping, answer, exit>>

(* Signal handlers outside tests, subscribers of the bus in tests.         *)
Prepare ==
  /\ Advance("prepare", "init")
  /\ onSignal' = (platform = "server")
  /\ subscribed' = Waiters
  /\ UNCHANGED <<fixed, config, open, services, seen, completed, stopping, answer, exit>>

(* init() of the context; on Node it has run already and returns.          *)
InitContext ==
  /\ platform = "browser" => open = (transports # {})
  /\ Advance("init", "services")
  /\ UNCHANGED <<fixed, config, open, services, onSignal, waiters, stopping, answer, exit>>

(* appContext.get(ModelFactoryService).                                    *)
FillServices ==
  /\ platform # "browser"
  /\ Advance("services", "app")
  /\ services' = TRUE
  /\ UNCHANGED <<fixed, config, open, onSignal, waiters, stopping, answer, exit>>

(* appContext.get('ModelFactoryService'): the module provides the class,   *)
(* and a container of Nest 10 does not find a class by its name.           *)
FillServicesInBrowser ==
  /\ platform = "browser" /\ tokens
  /\ Advance("services", "app")
  /\ services' = TRUE
  /\ UNCHANGED <<fixed, config, open, onSignal, waiters, stopping, answer, exit>>

(* AppService.init has sent the first command, and it has succeeded.       *)
StartApp ==
  /\ Advance("app", IF Waiters = {} THEN "up" ELSE "wait")
  /\ UNCHANGED <<fixed, config, open, services, onSignal, waiters, stopping, answer, exit>>

(* The catch blocks: a server exits, a test and a browser throw.           *)
Fail(place) ==
  /\ Advance(place, "failed")
  /\ exit' = IF platform = "server" THEN "1" ELSE exit
  /\ UNCHANGED <<fixed, config, open, services, onSignal, waiters, stopping, answer>>

InitFails == platform = "browser" /\ Fail("init")

ServicesMissing == platform = "browser" /\ ~tokens /\ Fail("services")

AppFails == Fail("app")

-----------------------------------------------------------------------------
(* The running crawler, as far as it concerns its start and stop.          *)

(* Mutant: a waiter that has counted enough goes on listening.             *)
HandlerCompletesUnsubscribesNone(c) ==
  /\ Running /\ pc \in {"app", "wait", "up"} /\ completed[c] < MaxCount
  /\ completed' = [completed EXCEPT ![c] = @ + 1]
  /\ seen' = IF c \in subscribed THEN [seen EXCEPT ![c] = @ + 1] ELSE seen
  /\ UNCHANGED <<fixed, pc, config, open, services, onSignal, subscribed, stopping, answer, exit>>

(* An event handler completes; the bus tells the subscribers.              *)
HandlerCompletes(c) ==
  /\ Running /\ pc \in {"app", "wait", "up"} /\ completed[c] < MaxCount
  /\ completed' = [completed EXCEPT ![c] = @ + 1]
  /\ IF c \in subscribed
     THEN /\ seen' = [seen EXCEPT ![c] = @ + 1]
          /\ subscribed' = IF seen'[c] >= expected[c] THEN subscribed \ {c} ELSE subscribed
     ELSE UNCHANGED <<seen, subscribed>>
  /\ UNCHANGED <<fixed, pc, config, open, services, onSignal, stopping, answer, exit>>

(* Mutant: the first waiter ends the wait, as Promise.race would.          *)
OneWaited == \E c \in Waiters : seen[c] >= expected[c]

(* Promise.all(testPromises).                                              *)
Waited == \A c \in Waiters : seen[c] >= expected[c]

StartClosing ==
  /\ Waited
  /\ Advance("wait", "close")
  /\ UNCHANGED <<fixed, config, open, services, onSignal, waiters, stopping, answer, exit>>

Closed ==
  /\ Advance("close", "closed")
  /\ open' = FALSE
  /\ UNCHANGED <<fixed, config, services, onSignal, waiters, stopping, answer, exit>>

CloseFails == Fail("close")

(* Mutant: the services reference is handed over as it is.                 *)
ServicesAsTheyAre == TRUE

(* getServices on Node throws while the reference is empty.                *)
GetServices == services \/ platform = "browser"

(* A query for a handler built from a factory.                             *)
Query ==
  /\ Running /\ open
  /\ answer' = CASE ~GetServices -> "refused"
                 [] GetServices /\ services -> "handled"
                 [] GetServices /\ ~services -> "handled without services"
  /\ UNCHANGED <<fixed, pc, config, open, services, onSignal, waiters, stopping, exit>>

(* ReadStateExceptionHandlerService: a failed event handler ends the       *)
(* process; in a browser there is none to end.                             *)
Crash ==
  /\ Running /\ platform # "browser" /\ pc \in {"app", "wait", "up"}
  /\ exit' = "1"
  /\ UNCHANGED <<fixed, pc, config, open, services, onSignal, waiters, stopping, answer>>

-----------------------------------------------------------------------------
(* Signals.                                                                *)

(* Without a handler a signal ends the process.  With one, each signal     *)
(* closes the application anew, whatever the first one has come to.        *)
Signal ==
  /\ Running /\ platform # "browser" /\ signals < MaxSignals
  /\ signals' = signals + 1
  /\ IF onSignal THEN closing' = closing + 1 /\ UNCHANGED exit
                 ELSE exit' = "killed" /\ UNCHANGED closing
  /\ UNCHANGED <<fixed, pc, config, open, services, onSignal, waiters, answer>>

(* Mutant: an error of close() is logged and nothing else.                 *)
ShutdownErrorIgnored ==
  \E ok \in BOOLEAN :
    /\ Running /\ closing > 0
    /\ closing' = closing - 1 /\ open' = FALSE
    /\ exit' = IF ok THEN "0" ELSE exit
    /\ UNCHANGED <<fixed, pc, config, services, onSignal, waiters, signals, answer>>

(* close() returns or throws, and the process exits.                       *)
Shutdown ==
  \E ok \in BOOLEAN :
    /\ Running /\ closing > 0
    /\ closing' = closing - 1 /\ open' = FALSE
    /\ exit' = IF ok THEN "0" ELSE "1"
    /\ UNCHANGED <<fixed, pc, config, services, onSignal, waiters, signals, answer>>

-----------------------------------------------------------------------------
Bootstrap ==
  \/ Configure \/ OpenTransports \/ ContextFails \/ CreateContext \/ CreateContextInBrowser
  \/ Prepare \/ InitContext \/ FillServices \/ FillServicesInBrowser \/ StartApp
  \/ InitFails \/ ServicesMissing \/ AppFails \/ StartClosing \/ Closed \/ CloseFails

Next ==
  \/ Bootstrap
  \/ \E c \in EventClasses : HandlerCompletes(c)
  \/ Query \/ Crash \/ Signal \/ Shutdown

Spec == Init /\ [][Next]_vars

(* bootstrap() and close() are asynchronous functions that go on when what *)
(* they await is there; nothing makes a handler complete, a query or a     *)
(* signal come.                                                            *)
FairSpec == Spec /\ WF_vars(Bootstrap) /\ WF_vars(Shutdown)

-----------------------------------------------------------------------------
Places == {"configure", "context", "prepare", "init", "services", "app", "wait", "up",
           "close", "closed", "failed", "rejected"}

(* The state of bootstrap(), and no waiter counts beyond what it waits for.*)
TypeOK ==
  /\ platform \in {"server", "test", "browser"} /\ pc \in Places
  /\ transports \subseteq NodeKinds \cup BrowserKinds
  /\ outbox \in NodeKinds \cup BrowserKinds \cup {"undefined"}
  /\ {open, services, onSignal} \subseteq BOOLEAN
  /\ completed \in Counts /\ subscribed \subseteq Waiters
  /\ \A c \in EventClasses : seen[c] \in 0..expected[c]
  /\ signals \in 0..MaxSignals /\ closing \in 0..signals
  /\ answer \in {"none", "refused", "handled", "handled without services"}
  /\ exit \in {"running", "0", "1", "killed"}

(* The kinds of outbox that need no setting but themselves.                *)
SelfContained ==
  CASE platform = "browser" -> {"electron-ipc-renderer", "shared-worker-server"}
    [] channel = "none" -> {"electron-ipc-main", "ipc-parent"}
    [] channel = "connected" -> {"electron-ipc-main", "ipc-child"}
    [] channel = "disconnecting" -> {"electron-ipc-main"}

(* Different methods of TransportConfig decide on the outbox and on each   *)
(* transport.  They agree: an outbox of such a kind has the transport it   *)
(* publishes on, and no outbox kind, IPC type and state of the channel     *)
(* make a process both ends of that channel.                               *)
TransportsAgree ==
  /\ outbox \in SelfContained => outbox \in transports
  /\ ~({"ipc-child", "ipc-parent"} \subseteq transports)

(* A query that arrives while a Node process starts is refused or handled  *)
(* with the services, never handed to the user's function without them.    *)
FactoryHasServices == platform # "browser" => answer # "handled without services"

(* The handlers a test waits for have completed, each as often as told.    *)
AllHandled == \A c \in EventClasses : completed[c] >= expected[c]

(* bootstrap() of a test closes the application only after that; and its   *)
(* waiters miss none: no handler completes, while the application starts   *)
(* or later, that a waiter still in need of it does not count.             *)
WaitersExact ==
  /\ pc \in {"close", "closed"} => AllHandled
  /\ pc = "wait" /\ AllHandled => Waited

(* So when they have completed, the wait ends.                             *)
WaitersResolve == (pc = "wait" /\ AllHandled) ~> (pc # "wait" \/ ~Running)

(* A signal ends the process, wherever bootstrap() is and whether or not   *)
(* closing the application succeeds.                                       *)
SignalEnds == (signals > 0) ~> ~Running
=============================================================================
