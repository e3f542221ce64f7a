----------------------------- MODULE Lifecycle -----------------------------
(***************************************************************************)
(* One process of the server: startServer of index.ts, which needs the     *)
(* database and goes on without MongoDB or RabbitMQ, the connections of    *)
(* config/database.ts, mongodb.ts and rabbitmq.ts, the health report, and  *)
(* gracefulShutdown.ts, whose handler of SIGTERM runs beside whatever      *)
(* startServer and the requests still have to do.                          *)
(***************************************************************************)
EXTENDS Naturals

CONSTANTS
    Consumers,     \* how many consumers and schedulers startServer starts
    BootRetries,    \* attempts of connectWithRetry and of connectMongoDB
    MaxRequests    \* bound: requests in flight

ASSUME LifecycleAssumption ==
    Consumers \in Nat \ {0} /\ BootRetries \in Nat \ {0} /\ MaxRequests \in Nat \ {0}

VARIABLES
    boot,         \* where startServer is
    tries,        \* the attempt at the connection it is making
    pool, mongo, channel,   \* are the Prisma clients, db and channel there
    begun,        \* consumers started so far, in the order of startServer
    subscribed,   \* those whose subscription is on the connection of now
    listener,     \* eventListenerHealth: "off" before start, "down" or "up"
    startupComplete, httpServer, serving,
    stopping,     \* where handleTermination is: "no" before a signal
    wasServing    \* the server listened when the signal came, for the property

lifeVars == <<boot, tries, pool, mongo, channel, begun, subscribed, listener, startupComplete,
              httpServer, serving, stopping, wasServing>>

Boot == {"database", "mongo", "rabbit", "consumers", "ready", "listen", "done", "exited"}
Stop == {"no", "server", "mongo", "rabbit", "prisma"}

(* Nothing is subscribed without a channel, and the listener starts last. *)
LifecycleTypeOK ==
    /\ boot \in Boot /\ stopping \in Stop
    /\ subscribed \subseteq 1..begun /\ begun \in 0..Consumers /\ (subscribed # {} => channel)
    /\ (listener # "off" => begun = Consumers)
    /\ serving \in 0..MaxRequests /\ tries \in 1..BootRetries

LifecycleInit ==
    /\ boot = "database" /\ tries = 1 /\ pool = FALSE /\ mongo = FALSE /\ channel = FALSE
    /\ begun = 0 /\ subscribed = {} /\ listener = "off"
    /\ startupComplete = FALSE /\ httpServer = FALSE /\ serving = 0
    /\ stopping = "no" /\ wasServing = FALSE

Alive        == boot # "exited"
Booting(l)   == boot = l
Services     == <<startupComplete, httpServer, serving>>
Queue        == <<channel, begun, subscribed, listener>>
Termination  == <<stopping, wasServing>>

-----------------------------------------------------------------------------
(* connectWithRetry: the last failure ends the process. *)
connectWithRetry ==
    /\ Booting("database")
    /\ \/ pool' = TRUE /\ boot' = "mongo" /\ tries' = 1
       \/ /\ IF tries < BootRetries
             THEN tries' = tries + 1 /\ UNCHANGED boot
             ELSE boot' = "exited" /\ UNCHANGED tries
          /\ UNCHANGED pool
    /\ UNCHANGED <<mongo, Queue, Services, Termination>>

(* connectMongoDB and the two indexes made after it; without MongoDB, or without  *)
(* its address, startServer goes on.                                              *)
connectMongoDB ==
    /\ Booting("mongo")
    /\ \/ mongo' = TRUE /\ boot' = "rabbit" /\ tries' = 1
       \/ /\ IF tries < BootRetries
             THEN tries' = tries + 1 /\ UNCHANGED boot
             ELSE boot' = "rabbit" /\ tries' = 1
          /\ UNCHANGED mongo
    /\ UNCHANGED <<pool, Queue, Services, Termination>>

(* connectRabbitMQ sets the channel before it asserts the exchange, so a failure  *)
(* may leave one behind; rabbitReady decides whether the consumers start.         *)
connectRabbitMQ ==
    /\ Booting("rabbit")
    /\ \/ channel' = TRUE /\ boot' = "consumers"
       \/ channel' \in {channel, TRUE} /\ boot' = "ready"
    /\ UNCHANGED <<tries, pool, mongo, begun, subscribed, listener, Services, Termination>>

(* The next consumer or scheduler, on the channel, or on a new one; an error in   *)
(* it ends the process.  The event listener starts after the last.                *)
StartConsumer ==
    /\ Booting("consumers")
    /\ IF begun < Consumers
       THEN \/ /\ channel' = TRUE /\ begun' = begun + 1
               /\ subscribed' = subscribed \cup {begun + 1}
               /\ UNCHANGED <<boot, listener>>
            \/ boot' = "exited" /\ UNCHANGED Queue
       ELSE boot' = "ready" /\ listener' = "down" /\ UNCHANGED <<channel, begun, subscribed>>
    /\ UNCHANGED <<tries, pool, mongo, Services, Termination>>

markStartupComplete ==
    /\ Booting("ready") /\ boot' = "listen" /\ startupComplete' = TRUE
    /\ UNCHANGED <<tries, pool, mongo, Queue, httpServer, serving, Termination>>

HttpListen ==
    /\ Booting("listen") /\ boot' = "done" /\ httpServer' = TRUE
    /\ UNCHANGED <<tries, pool, mongo, Queue, startupComplete, serving, Termination>>

-----------------------------------------------------------------------------
(* A request arrives, and ends; when the server is being closed, only one on a    *)
(* connection that is still busy.                                                 *)
AcceptRequest ==
    /\ Alive /\ httpServer /\ serving < MaxRequests
    /\ stopping = "server" /\ wasServing => serving > 0
    /\ serving' = serving + 1
    /\ UNCHANGED <<boot, tries, pool, mongo, Queue, startupComplete, httpServer, Termination>>

EndRequest ==
    /\ Alive /\ serving > 0 /\ serving' = serving - 1
    /\ UNCHANGED <<boot, tries, pool, mongo, Queue, startupComplete, httpServer, Termination>>

(* The broker closes the connection: the close handler clears the channel, and    *)
(* nothing subscribes the consumers again.                                        *)
ConnectionCloses ==
    /\ Alive /\ channel
    /\ channel' = FALSE /\ subscribed' = {}
    /\ UNCHANGED <<boot, tries, pool, mongo, begun, listener, Services, Termination>>

(* A publisher (enqueueWebhook, the rebalancing job, ...) opens a new channel. *)
PublisherConnects ==
    /\ Alive /\ ~channel /\ (serving > 0 \/ begun > 0)
    /\ channel' = TRUE
    /\ UNCHANGED <<boot, tries, pool, mongo, begun, subscribed, listener, Services, Termination>>

(* A poll of the event listener succeeds or fails. *)
PollListener ==
    /\ Alive /\ listener # "off"
    /\ listener' \in {"up", "down"} \ {listener}
    /\ UNCHANGED <<boot, tries, pool, mongo, channel, begun, subscribed, Services, Termination>>

(* Mutation: the event listener is not part of the report. *)
WithoutListener == pool /\ mongo /\ channel /\ startupComplete

(* getHealthReport, when the services answer: every detail is up. *)
getHealthReport == pool /\ mongo /\ channel /\ listener = "up" /\ startupComplete

-----------------------------------------------------------------------------
(* SIGTERM or SIGINT; a second one is ignored. *)
handleTermination ==
    /\ Alive /\ stopping = "no"
    /\ stopping' = "server" /\ wasServing' = httpServer
    /\ UNCHANGED <<boot, tries, pool, mongo, Queue, Services>>

(* Mutation: the server is closed, but not waited for. *)
ClosesAtOnce ==
    /\ Alive /\ stopping = "server"
    /\ httpServer' = FALSE /\ stopping' = "mongo"
    /\ UNCHANGED <<boot, tries, pool, mongo, Queue, startupComplete, serving, wasServing>>

(* closeServer: without a server there is nothing to wait for; with one, close    *)
(* answers when the last request has ended.                                       *)
closeServer ==
    /\ Alive /\ stopping = "server" /\ (httpServer => serving = 0)
    /\ httpServer' = FALSE /\ stopping' = "mongo"
    /\ UNCHANGED <<boot, tries, pool, mongo, Queue, startupComplete, serving, wasServing>>

disconnectMongoDB ==
    /\ Alive /\ stopping = "mongo"
    /\ \/ mongo' = FALSE /\ stopping' = "rabbit" /\ UNCHANGED boot
       \/ mongo /\ boot' = "exited" /\ UNCHANGED <<mongo, stopping>>   \* close threw
    /\ UNCHANGED <<tries, pool, Queue, Services, wasServing>>

(* disconnectRabbitMQ waits for the confirms and closes; the consumers are cut off *)
(* wherever they are.                                                              *)
disconnectRabbitMQ ==
    /\ Alive /\ stopping = "rabbit"
    /\ \/ channel' = FALSE /\ subscribed' = {} /\ stopping' = "prisma" /\ UNCHANGED boot
       \/ channel /\ boot' = "exited" /\ UNCHANGED <<channel, subscribed, stopping>>
    /\ UNCHANGED <<tries, pool, mongo, begun, listener, Services, wasServing>>

(* prisma.$disconnect, whose failure is logged, and process.exit. *)
disconnectPrisma ==
    /\ Alive /\ stopping = "prisma"
    /\ pool' = FALSE /\ boot' = "exited"
    /\ UNCHANGED <<tries, mongo, Queue, Services, Termination>>

(* uncaughtException and unhandledRejection. *)
ExitNow ==
    /\ Alive /\ boot' = "exited"
    /\ UNCHANGED <<tries, pool, mongo, Queue, Services, Termination>>

(* The process manager starts a new process. *)
RestartProcess ==
    /\ ~Alive
    /\ boot' = "database" /\ tries' = 1 /\ pool' = FALSE /\ mongo' = FALSE /\ channel' = FALSE
    /\ begun' = 0 /\ subscribed' = {} /\ listener' = "off"
    /\ startupComplete' = FALSE /\ httpServer' = FALSE /\ serving' = 0
    /\ stopping' = "no" /\ wasServing' = FALSE

LifecycleNext ==
    \/ connectWithRetry \/ connectMongoDB \/ connectRabbitMQ \/ StartConsumer \/ markStartupComplete
    \/ HttpListen \/ AcceptRequest \/ EndRequest \/ ConnectionCloses \/ PublisherConnects \/ PollListener
    \/ handleTermination \/ closeServer \/ disconnectMongoDB \/ disconnectRabbitMQ \/ disconnectPrisma
    \/ ExitNow \/ RestartProcess

LifecycleSpec == LifecycleInit /\ [][LifecycleNext]_lifeVars

-----------------------------------------------------------------------------
(* A process that reports itself healthy has started every consumer: one that     *)
(* came up without its broker never does, though a request may open a channel     *)
(* later.  (That they are still subscribed is not so: see ConnectionCloses.)  And *)
(* once a serving process begins to close its connections, no request is left     *)
(* that could need them, though startServer, the broker and the requests go on.   *)
OrderlyLifecycle ==
    /\ LifecycleTypeOK
    /\ Alive /\ getHealthReport => begun = Consumers
    /\ Alive /\ wasServing /\ stopping \in {"mongo", "rabbit", "prisma"} => serving = 0
=============================================================================
