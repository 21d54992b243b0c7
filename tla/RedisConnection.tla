--------------------------- MODULE RedisConnection ---------------------------
(***************************************************************************)
(* RedisConnectionService: the one Redis client that the cache, the rate   *)
(* limiter, the vector store and the health checks share.  A call that     *)
(* finds no client starts a connection attempt in the background; attempts *)
(* are single-flight and a failed one is not repeated before a cooldown.   *)
(* Shutdown may come in the middle of an attempt.                          *)
(*                                                                         *)
(* The client library is external: its status follows from how the service *)
(* uses it (lazyConnect, a retryStrategy that never gives up, two retries  *)
(* per command).  A client that was never created, was disconnected or has *)
(* quit is "end".                                                          *)
(***************************************************************************)
EXTENDS Naturals

CONSTANTS
    Clients,      \* identities of client objects
    NoClient,     \* the null of this.client
    RetryTicks    \* RECONNECT_COOLDOWN_MS in ticks

ASSUME ClientsAssumption == NoClient \notin Clients
ASSUME RetryAssumption == RetryTicks \in Nat

VARIABLES
    client,       \* this.client
    status,       \* status[c]: ioredis' status of the client object c
    connecting,   \* connectInFlight: "no", or what establishConnection awaits
    connectOf,    \* the client object that establishConnection awaits
    retryIn,      \* ticks left before nextRetryAtMs
    closed,       \* this.closed
    shutdown      \* onModuleDestroy: "running", "quitting", "done" or "threw"

redisVars == <<client, status, connecting, connectOf, retryIn, closed, shutdown>>

RedisTypeOK ==
    /\ client \in Clients \cup {NoClient}
    /\ status \in [Clients -> {"connecting", "ready", "reconnecting", "end"}]
    /\ connecting \in {"no", "connect", "ping"}
    /\ connectOf \in Clients \cup {NoClient}
    /\ retryIn \in 0 .. RetryTicks
    /\ closed \in BOOLEAN
    /\ shutdown \in {"running", "quitting", "done", "threw"}

RedisInit ==
    /\ client = NoClient
    /\ status = [c \in Clients |-> "end"]
    /\ connecting = "no"
    /\ connectOf = NoClient
    /\ retryIn = 0
    /\ closed = FALSE
    /\ shutdown = "running"

isReady == ~closed /\ client # NoClient /\ status[client] = "ready"

\* What remains of the statuses when this.client is disconnected.
Disposed == [c \in Clients |-> IF c = client THEN "end" ELSE status[c]]

FaultConnectsWhenClosed ==
    /\ client # NoClient => status[client] = "end"
    /\ connecting = "no"
    /\ retryIn = 0

\* The early returns of ensureConnected; a client that is ready, or that the
\* library is still connecting, is left alone.
mayConnect ==
    /\ ~closed
    /\ client # NoClient => status[client] = "end"
    /\ connecting = "no"
    /\ retryIn = 0

\* establishConnection up to its first await.
establishConnection ==
    /\ \E c \in Clients :
          /\ Disposed[c] = "end"
          /\ client' = c
          /\ status' = [Disposed EXCEPT ![c] = "connecting"]
          /\ connectOf' = c
    /\ connecting' = "connect"
    /\ UNCHANGED <<retryIn, closed, shutdown>>

ensureConnected ==
    IF mayConnect THEN establishConnection ELSE UNCHANGED redisVars

\* getClient and isReady schedule an attempt only while there is no client.
AskForClient ==
    IF client = NoClient THEN ensureConnected ELSE UNCHANGED redisVars

\* The catch of establishConnection: whatever client is held is let go.
AttemptFails ==
    /\ status' = Disposed
    /\ client' = NoClient
    /\ retryIn' = RetryTicks
    /\ connecting' = "no"
    /\ connectOf' = NoClient
    /\ UNCHANGED <<closed, shutdown>>

ConnectResolves ==
    /\ connecting = "connect"
    /\ status[connectOf] = "connecting"
    /\ status' = [status EXCEPT ![connectOf] = "ready"]
    /\ connecting' = "ping"
    /\ UNCHANGED <<client, connectOf, retryIn, closed, shutdown>>

ConnectRejects == connecting = "connect" /\ AttemptFails

PingResolves ==
    /\ connecting = "ping"
    /\ status[connectOf] = "ready"
    /\ connecting' = "no"
    /\ connectOf' = NoClient
    /\ retryIn' = 0
    /\ UNCHANGED <<client, status, closed, shutdown>>

PingRejects == connecting = "ping" /\ AttemptFails

\* The library loses its connection and regains it by its retryStrategy.
Drop ==
    \E c \in Clients :
        /\ status[c] = "ready"
        /\ status' = [status EXCEPT ![c] = "reconnecting"]
        /\ UNCHANGED <<client, connecting, connectOf, retryIn, closed, shutdown>>

Reconnect ==
    \E c \in Clients :
        /\ status[c] = "reconnecting"
        /\ status' = [status EXCEPT ![c] = "ready"]
        /\ UNCHANGED <<client, connecting, connectOf, retryIn, closed, shutdown>>

\* The finally of onModuleDestroy after its quit() has settled.
LetGo ==
    /\ status' = Disposed
    /\ client' = NoClient
    /\ shutdown' = "done"

\* onModuleDestroy.  quit() on a client that is not connected and has nothing
\* queued disconnects it at once; any other quit() waits for its turn.
CloseWithoutClient ==
    /\ ~closed
    /\ client = NoClient
    /\ closed' = TRUE
    /\ shutdown' = "done"
    /\ UNCHANGED <<client, status, connecting, connectOf, retryIn>>

CloseAtOnce ==
    /\ ~closed
    /\ client # NoClient
    /\ status[client] \in {"connecting", "reconnecting"}
    /\ closed' = TRUE
    /\ LetGo
    /\ UNCHANGED <<connecting, connectOf, retryIn>>

Quit ==
    /\ ~closed
    /\ client # NoClient
    /\ closed' = TRUE
    /\ shutdown' = "quitting"
    /\ UNCHANGED <<client, status, connecting, connectOf, retryIn>>

QuitResolves ==
    /\ shutdown = "quitting"
    /\ client # NoClient
    /\ status[client] = "ready"
    /\ LetGo
    /\ UNCHANGED <<connecting, connectOf, retryIn, closed>>

\* A refused quit() is followed by disconnect().  If the failing attempt let the
\* client go meanwhile, this.client is null there and the hook throws.
QuitRejects ==
    /\ shutdown = "quitting"
    /\ IF client = NoClient
       THEN shutdown' = "threw" /\ UNCHANGED <<client, status>>
       ELSE LetGo
    /\ UNCHANGED <<connecting, connectOf, retryIn, closed>>

RedisSteps ==
    \/ ConnectResolves \/ ConnectRejects \/ PingResolves \/ PingRejects
    \/ Drop \/ Reconnect
    \/ CloseWithoutClient \/ CloseAtOnce \/ Quit \/ QuitResolves \/ QuitRejects

\* No connection is ever held by a client the service has lost sight of: every
\* live client is the one in this.client, however attempts, failures and the
\* two shutdown hooks interleave, and none is left once shutdown is over.
NoStrayClient ==
    /\ \A c \in Clients : status[c] # "end" => client = c
    /\ shutdown \in {"done", "threw"} => client = NoClient
==============================================================================
