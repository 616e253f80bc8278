----------------------------- MODULE Replication -----------------------------
(***************************************************************************)
(* The replication of a server's entities to its clients, and the way of   *)
(* the clients' events back: GameServer and GameClient (net/), the entity  *)
(* lists of the applications that own them, and the connections of         *)
(* MemNetworker.  Server and clients run concurrently.                     *)
(*                                                                         *)
(* GameServer::sync is a sequence of loops, and pc says which one it is in;*)
(* each turn of a loop is a step, and a client may do anything between two *)
(* steps.  The rest of the server application runs in the same thread, so  *)
(* only while pc is "idle".  Packages travel whole and in order            *)
(* (PackageStream).                                                        *)
(***************************************************************************)
EXTENDS Integers, Sequences, FiniteSets, SequencesExt, Lists

CONSTANTS Conn,         \* connections; each has a client application of its own
          ClientIds,    \* values of a PackedClientId (2^16)
          Value,        \* values assigned to NetSync fields
          Default,      \* the value the entity type's constructor sets
          MaxEntities,  \* bound: entities the server creates
          MaxAssigns,   \* bound: assignments to NetSync fields
          MaxEvents,    \* bound: events of one client's user
          MayStop,      \* whether the server application may end
          None          \* std::nullopt

ASSUME ReplicationAssumption ==
  /\ ClientIds \in Nat \ {0}
  /\ MaxEntities \in Nat /\ MaxAssigns \in Nat /\ MaxEvents \in Nat
  /\ None \notin Nat

VARIABLES              \* the server application
  pc,                  \* the loop of sync it is in, "idle" outside sync,
                       \* "stopped" once the application ended
  turn,                \* the client a loop over m_clients has come to
  entities,            \* m_app.entities(), in list order
  created,             \* s_nextId: ids given out so far
  value, dirty,        \* the NetSync field of each entity
  assigns,             \* assignments made so far
  m_entityAddEventQueue, m_entityRemoveEventQueue,
  m_connectionQueue,   \* MemServer: connections not pulled yet
  m_clients,           \* GameServer: sequence of [id, conn]
  m_nextClientId,
  m_eventQueue         \* GameServer: events not pulled yet

VARIABLES              \* the connections and the client applications
  client,              \* per connection, the client application's state
  toClient, toServer   \* per connection, the packages in flight

VARIABLES              \* history
  accepted,            \* connections the server has taken
  serial,              \* per connection, which one it was, 0 for none
  left,                \* connections whose clientDisconnected was emitted
  since,               \* per connection, the entities written since it joined
  handled              \* events the server application has pulled

entityVars == <<entities, created, value, dirty, assigns,
                m_entityAddEventQueue, m_entityRemoveEventQueue>>
acceptVars == <<m_connectionQueue, m_clients, m_nextClientId>>
historyVars == <<accepted, serial, left, since, handled>>
vars == <<pc, turn, entityVars, acceptVars, m_eventQueue, client, toClient,
          toServer, historyVars>>

EntityId == 1 .. MaxEntities
FieldValue == Value \cup {Default}
Quit == 0

Init ==
  /\ pc = "idle" /\ turn = 1
  /\ entities = <<>> /\ created = 0 /\ assigns = 0
  /\ value = [e \in EntityId |-> Default]
  /\ dirty = [e \in EntityId |-> TRUE]
  /\ m_entityAddEventQueue = <<>> /\ m_entityRemoveEventQueue = <<>>
  /\ m_connectionQueue = <<>> /\ m_clients = <<>> /\ m_nextClientId = 0
  /\ m_eventQueue = <<>>
  /\ client = [c \in Conn |->
       [socket |-> "new", id |-> None, replicas |-> <<>>, destroys |-> <<>>,
        provider |-> <<>>, made |-> 0, quitting |-> FALSE, notFound |-> FALSE]]
  /\ toClient = [c \in Conn |-> <<>>]
  /\ toServer = [c \in Conn |-> <<>>]
  /\ accepted = 0 /\ serial = [c \in Conn |-> 0]
  /\ left = {} /\ handled = <<>>
  /\ since = [c \in Conn |-> {}]

-----------------------------------------------------------------------------
(* Connections *)

Accepted == {m_clients[i].conn : i \in DOMAIN m_clients}

\* Slip: a socket does not notice that the client's is gone.
isConnected_oneSided(c) == c \in Accepted \cup Range(m_connectionQueue)

\* MemSocket::isConnected at either end: both sockets still exist.
isConnected(c) ==
  /\ client[c].socket = "open"
  /\ c \in Accepted \cup Range(m_connectionQueue)

\* WritePackage::push to every client that is connected.
Broadcast(package) ==
  toClient' = [c \in Conn |-> IF c \in Accepted /\ isConnected(c)
                                THEN Append(toClient[c], package) ELSE toClient[c]]

AddEntity(e) == [type |-> "AddEntity", id |-> e]
RemoveEntity(e) == [type |-> "RemoveEntity", id |-> e]
SyncEntity(e) == [type |-> "SyncEntity", id |-> e, value |-> value[e]]

-----------------------------------------------------------------------------
(* The server application outside sync *)

\* Slip: the server does not observe the list.
Create_unobserved ==
  /\ created < MaxEntities
  /\ created' = created + 1
  /\ entities' = Append(entities, created + 1)
  /\ UNCHANGED m_entityAddEventQueue

\* GameApplication::addEntity: the new entity joins the list, and the server,
\* an observer of the list, queues it.
Create ==
  /\ created < MaxEntities
  /\ created' = created + 1
  /\ entities' = Append(entities, created + 1)
  /\ m_entityAddEventQueue' = Append(m_entityAddEventQueue, created + 1)

\* Entity e was written while these clients were there to see it.
NoteWritten(e, watchers) ==
  since' = [c \in Conn |-> IF c \in watchers THEN since[c] \cup {e} ELSE since[c]]

addEntity ==
  /\ pc = "idle"
  /\ Create
  /\ NoteWritten(created + 1, Accepted)
  /\ UNCHANGED <<pc, turn, value, dirty, assigns, m_entityRemoveEventQueue,
                 acceptVars, m_eventQueue, client, toClient, toServer,
                 accepted, serial, left, handled>>

\* Slip: an assignment does not mark the field.
assign_unmarked(e, v) ==
  /\ pc = "idle" /\ assigns < MaxAssigns
  /\ assigns' = assigns + 1
  /\ value' = [value EXCEPT ![e] = v]
  /\ NoteWritten(e, Accepted)
  /\ UNCHANGED <<pc, turn, entities, created, dirty, m_entityAddEventQueue,
                 m_entityRemoveEventQueue, acceptVars, m_eventQueue, client,
                 toClient, toServer, accepted, serial, left, handled>>

\* NetSync::operator=
assign(e, v) ==
  /\ pc = "idle" /\ assigns < MaxAssigns
  /\ assigns' = assigns + 1
  /\ value' = [value EXCEPT ![e] = v]
  /\ dirty' = [dirty EXCEPT ![e] = TRUE]
  /\ NoteWritten(e, Accepted)
  /\ UNCHANGED <<pc, turn, entities, created, m_entityAddEventQueue,
                 m_entityRemoveEventQueue, acceptVars, m_eventQueue, client,
                 toClient, toServer, accepted, serial, left, handled>>

\* The application handles a DestroyEntity message for the i-th entity and
\* tells its observers.
destroyEntity(i) ==
  /\ pc = "idle"
  /\ entities' = RemoveAt(entities, i)
  /\ m_entityRemoveEventQueue' = Append(m_entityRemoveEventQueue, entities[i])
  /\ UNCHANGED <<pc, turn, created, value, dirty, assigns,
                 m_entityAddEventQueue, acceptVars, m_eventQueue, client,
                 toClient, toServer, historyVars>>

\* EventHandler::update pulls the server's events.
pullEvent ==
  /\ pc = "idle" /\ m_eventQueue # <<>>
  /\ handled' = Append(handled, Head(m_eventQueue))
  /\ m_eventQueue' = Tail(m_eventQueue)
  /\ UNCHANGED <<pc, turn, entityVars, acceptVars, client, toClient, toServer,
                 accepted, serial, left, since>>

\* The application ends and its GameServer with it.  The MemServer belongs to
\* the networker: it and what waits in it stay.
serverStop ==
  /\ pc = "idle" /\ MayStop
  /\ pc' = "stopped"
  /\ m_clients' = <<>>
  /\ toClient' = [c \in Conn |-> IF c \in Accepted THEN <<>> ELSE toClient[c]]
  /\ toServer' = [c \in Conn |-> IF c \in Accepted THEN <<>> ELSE toServer[c]]
  /\ UNCHANGED <<turn, entityVars, m_connectionQueue, m_nextClientId,
                 m_eventQueue, client, historyVars>>

-----------------------------------------------------------------------------
(* GameServer::sync *)

startSync ==
  /\ pc = "idle"
  /\ pc' = "refresh" /\ turn' = 1
  /\ UNCHANGED <<entityVars, acceptVars, m_eventQueue, client, toClient,
                 toServer, historyVars>>

\* refreshSockets, first loop: forget the clients that are gone.
refreshOne ==
  /\ pc = "refresh" /\ turn \in DOMAIN m_clients
  /\ LET c == m_clients[turn].conn IN
     \/ /\ isConnected(c)
        /\ turn' = turn + 1
        /\ UNCHANGED <<m_clients, left>>
     \/ /\ ~isConnected(c)
        /\ m_clients' = RemoveAt(m_clients, turn)
        /\ left' = left \cup {c}
        /\ UNCHANGED turn
  /\ UNCHANGED <<pc, entityVars, m_connectionQueue, m_nextClientId,
                 m_eventQueue, client, toClient, toServer, accepted, serial,
                 since, handled>>

\* Slip: the counter does not count.
nextId_same == m_nextClientId

nextId == (m_nextClientId + 1) % ClientIds

\* Slips: a client is not told what is there already, or who it is.
Hello_idOnly == <<[type |-> "Init", id |-> m_nextClientId]>>
Hello_entitiesOnly == [i \in DOMAIN entities |-> AddEntity(entities[i])]

\* What a new client is sent.
Hello == <<[type |-> "Init", id |-> m_nextClientId]>>
           \o [i \in DOMAIN entities |-> AddEntity(entities[i])]

accepting == pc = "accept" \/ (pc = "refresh" /\ turn \notin DOMAIN m_clients)

\* refreshSockets, second loop: a connection is told its id and every entity
\* on the list; the clientConnected callback may then add an entity.
acceptOne ==
  /\ accepting /\ m_connectionQueue # <<>>
  /\ pc' = "accept"
  /\ LET c == Head(m_connectionQueue)
     IN /\ m_clients' = Append(m_clients, [id |-> m_nextClientId, conn |-> c])
        /\ toClient' = [toClient EXCEPT ![c] = IF isConnected(c) THEN Hello ELSE @]
        /\ serial' = [serial EXCEPT ![c] = accepted + 1]
        /\ \/ Create /\ NoteWritten(created + 1, Accepted \cup {c})
           \/ UNCHANGED <<created, entities, m_entityAddEventQueue, since>>
  /\ accepted' = accepted + 1
  /\ m_connectionQueue' = Tail(m_connectionQueue)
  /\ m_nextClientId' = nextId
  /\ UNCHANGED <<turn, value, dirty, assigns, m_entityRemoveEventQueue,
                 m_eventQueue, client, toServer, left, handled>>

\* Without a client sync returns, and the queues stay as they are.
acceptedAll ==
  /\ accepting /\ m_connectionQueue = <<>>
  /\ pc' = IF m_clients = <<>> THEN "idle" ELSE "send"
  /\ UNCHANGED <<turn, entityVars, acceptVars, m_eventQueue, client, toClient,
                 toServer, historyVars>>

\* The queue holds pointers: one to an entity destroyed meanwhile is skipped.
broadcastAdd ==
  /\ pc = "send" /\ m_entityAddEventQueue # <<>>
  /\ LET e == Head(m_entityAddEventQueue) IN
     \/ e \in Range(entities) /\ Broadcast(AddEntity(e))
     \/ e \notin Range(entities) /\ UNCHANGED toClient
  /\ m_entityAddEventQueue' = Tail(m_entityAddEventQueue)
  /\ UNCHANGED <<pc, turn, entities, created, value, dirty, assigns,
                 m_entityRemoveEventQueue, acceptVars, m_eventQueue, client,
                 toServer, historyVars>>

broadcastRemove ==
  /\ pc = "send" /\ m_entityAddEventQueue = <<>>
  /\ m_entityRemoveEventQueue # <<>>
  /\ Broadcast(RemoveEntity(Head(m_entityRemoveEventQueue)))
  /\ m_entityRemoveEventQueue' = Tail(m_entityRemoveEventQueue)
  /\ UNCHANGED <<pc, turn, entities, created, value, dirty, assigns,
                 m_entityAddEventQueue, acceptVars, m_eventQueue, client,
                 toServer, historyVars>>

QueuesEmpty == m_entityAddEventQueue = <<>> /\ m_entityRemoveEventQueue = <<>>

\* The next entity on the list that needSyncNet is written once, for all
\* clients, and washed.
broadcastValue(i) ==
  /\ pc = "send" /\ QueuesEmpty
  /\ dirty[entities[i]] /\ \A j \in 1 .. i - 1 : ~dirty[entities[j]]
  /\ Broadcast(SyncEntity(entities[i]))
  /\ dirty' = [dirty EXCEPT ![entities[i]] = FALSE]
  /\ UNCHANGED <<pc, turn, entities, created, value, assigns,
                 m_entityAddEventQueue, m_entityRemoveEventQueue, acceptVars,
                 m_eventQueue, client, toServer, historyVars>>

sentAll ==
  /\ pc = "send" /\ QueuesEmpty /\ \A e \in Range(entities) : ~dirty[e]
  /\ pc' = "receive" /\ turn' = 1
  /\ UNCHANGED <<entityVars, acceptVars, m_eventQueue, client, toClient,
                 toServer, historyVars>>

\* Each client's packages are pulled until none comes.
receiveOne ==
  /\ pc = "receive" /\ turn \in DOMAIN m_clients
  /\ LET c == m_clients[turn].conn IN
     \/ /\ toServer[c] # <<>>
        /\ m_eventQueue' = Append(m_eventQueue, Head(toServer[c]))
        /\ toServer' = [toServer EXCEPT ![c] = Tail(@)]
        /\ UNCHANGED turn
     \/ /\ toServer[c] = <<>>
        /\ turn' = turn + 1
        /\ UNCHANGED <<m_eventQueue, toServer>>
  /\ UNCHANGED <<pc, entityVars, acceptVars, client, toClient, historyVars>>

endSync ==
  /\ pc = "receive" /\ turn \notin DOMAIN m_clients
  /\ pc' = "idle"
  /\ UNCHANGED <<turn, entityVars, acceptVars, m_eventQueue, client, toClient,
                 toServer, historyVars>>

sync == \/ startSync \/ refreshOne \/ acceptOne \/ acceptedAll
        \/ broadcastAdd \/ broadcastRemove
        \/ \E i \in DOMAIN entities : broadcastValue(i)
        \/ sentAll \/ receiveOne \/ endSync

-----------------------------------------------------------------------------
(* The client applications *)

\* Networker::connect on a port the server listens to.
connect(c) ==
  /\ client[c].socket = "new"
  /\ client' = [client EXCEPT ![c].socket = "open"]
  /\ m_connectionQueue' = Append(m_connectionQueue, c)
  /\ UNCHANGED <<pc, turn, entityVars, m_clients, m_nextClientId, m_eventQueue,
                 toClient, toServer, historyVars>>

\* The user does something, or closes the window.
userEvent(c) ==
  /\ client[c].socket = "open" /\ ~client[c].quitting
  /\ client[c].made < MaxEvents
  /\ \E event \in {client[c].made + 1, Quit} :
       client' = [client EXCEPT ![c].made = @ + 1,
                                ![c].provider = Append(@, event)]
  /\ UNCHANGED <<pc, turn, entityVars, acceptVars, m_eventQueue, toClient,
                 toServer, historyVars>>

\* The application loop calls sync again only after it has handled the
\* messages of the last call, and not once it must quit.
mayStartSync(c) == client[c].destroys = <<>> /\ ~client[c].quitting

\* Slip: the event is looked at and stays.
pulledFromProvider_not(c) == client

\* AbstractEventProvider::pullEvent
pulledFromProvider(c) == [client EXCEPT ![c].provider = Tail(@)]

\* GameClient::sync, first loop: send an event tagged with the client's id;
\* Quit ends the call and the application.
clientSend(c) ==
  /\ isConnected(c) /\ mayStartSync(c)
  /\ client[c].id # None /\ client[c].provider # <<>>
  /\ LET event == Head(client[c].provider) IN
     \/ /\ event = Quit
        /\ client' = [pulledFromProvider(c) EXCEPT ![c].quitting = TRUE]
        /\ UNCHANGED toServer
     \/ /\ event # Quit
        /\ client' = pulledFromProvider(c)
        /\ toServer' = [toServer EXCEPT ![c] =
                          Append(@, [client |-> client[c].id, event |-> event])]
  /\ UNCHANGED <<pc, turn, entityVars, acceptVars, m_eventQueue, toClient,
                 historyVars>>

\* entityById and destroyEntity take the first match on the list.
IsFirst(replicas, i, e) ==
  replicas[i].id = e /\ \A j \in 1 .. i - 1 : replicas[j].id # e

\* The process*Package functions: what a package makes of the client's state.
processInit(c, p) == client' = [client EXCEPT ![c].id = p.id]
processAddEntity(c, p) ==
  client' = [client EXCEPT ![c].replicas =
              Append(@, [id |-> p.id, value |-> Default])]
\* Removing is left to the application loop.
processRemoveEntity(c, p) ==
  client' = [client EXCEPT ![c].destroys = Append(@, p.id)]
processSyncEntity(c, p) ==
  \/ \E i \in DOMAIN client[c].replicas :
       /\ IsFirst(client[c].replicas, i, p.id)
       /\ client' = [client EXCEPT ![c].replicas[i].value = p.value]
  \/ /\ \A i \in DOMAIN client[c].replicas : client[c].replicas[i].id # p.id
     /\ client' = [client EXCEPT ![c].notFound = TRUE]

\* GameClient::sync, second loop: pull a package.  The loop ends when none
\* has arrived, which with packages under way may be after any of them; the
\* order of the two loops in one call is left open.
clientPull(c) ==
  /\ isConnected(c) /\ ~client[c].quitting /\ toClient[c] # <<>>
  /\ LET p == Head(toClient[c]) IN
     \/ p.type = "Init" /\ processInit(c, p)
     \/ p.type = "AddEntity" /\ processAddEntity(c, p)
     \/ p.type = "RemoveEntity" /\ processRemoveEntity(c, p)
     \/ p.type = "SyncEntity" /\ processSyncEntity(c, p)
  /\ toClient' = [toClient EXCEPT ![c] = Tail(@)]
  /\ UNCHANGED <<pc, turn, entityVars, acceptVars, m_eventQueue, toServer,
                 historyVars>>

\* Slip: only a client that knows its id looks at the connection.
clientNotices_joined(c) ==
  /\ client[c].socket = "open" /\ ~isConnected(c) /\ mayStartSync(c)
  /\ client[c].id # None
  /\ client' = [client EXCEPT ![c].socket = "null"]
  /\ UNCHANGED <<pc, turn, entityVars, acceptVars, m_eventQueue, toClient,
                 toServer, historyVars>>

\* GameClient::sync on a connection that is down.
clientNotices(c) ==
  /\ client[c].socket = "open" /\ ~isConnected(c) /\ mayStartSync(c)
  /\ client' = [client EXCEPT ![c].socket = "null"]
  /\ UNCHANGED <<pc, turn, entityVars, acceptVars, m_eventQueue, toClient,
                 toServer, historyVars>>

\* Slip: the last replica goes instead of the one found.
clientLoop_last(c) ==
  /\ client[c].destroys # <<>>
  /\ client' = [client EXCEPT ![c].destroys = Tail(@),
                             ![c].replicas = IF @ = <<>> THEN @ ELSE Front(@)]
  /\ UNCHANGED <<pc, turn, entityVars, acceptVars, m_eventQueue, toClient,
                 toServer, historyVars>>

\* The application loop pops a DestroyEntity message.
clientLoop(c) ==
  /\ client[c].destroys # <<>>
  /\ LET replicas == client[c].replicas
         e == Head(client[c].destroys)
     IN \/ \E i \in DOMAIN replicas :
             /\ IsFirst(replicas, i, e)
             /\ client' = [client EXCEPT ![c].destroys = Tail(@),
                                         ![c].replicas = RemoveAt(@, i)]
        \/ /\ \A i \in DOMAIN replicas : replicas[i].id # e
           /\ client' = [client EXCEPT ![c].destroys = Tail(@)]
  /\ UNCHANGED <<pc, turn, entityVars, acceptVars, m_eventQueue, toClient,
                 toServer, historyVars>>

\* The client application ends.  What was in flight is out of reach.
clientClose(c) ==
  /\ client[c].socket = "open"
  /\ client' = [client EXCEPT ![c].socket = "null", ![c].replicas = <<>>,
                             ![c].destroys = <<>>, ![c].provider = <<>>]
  /\ toClient' = [toClient EXCEPT ![c] = <<>>]
  /\ toServer' = [toServer EXCEPT ![c] = <<>>]
  /\ UNCHANGED <<pc, turn, entityVars, acceptVars, m_eventQueue, historyVars>>

clientSync(c) == clientSend(c) \/ clientPull(c) \/ clientNotices(c)

Next ==
  \/ addEntity
  \/ \E e \in Range(entities), v \in Value : assign(e, v)
  \/ \E i \in DOMAIN entities : destroyEntity(i)
  \/ pullEvent
  \/ serverStop
  \/ sync
  \/ \E c \in Conn : \/ connect(c) \/ userEvent(c) \/ clientSync(c)
                     \/ clientLoop(c) \/ clientClose(c)

(***************************************************************************)
(* Both ends call sync at equal intervals (the doc comments of sync ask    *)
(* for it, and scheduleRepeated does it), every call runs both loops of a  *)
(* client, and a client's application loop goes on.                        *)
(***************************************************************************)
Fairness ==
  /\ WF_vars(sync)
  /\ \A c \in Conn : /\ WF_vars(clientSend(c)) /\ WF_vars(clientPull(c))
                     /\ WF_vars(clientNotices(c)) /\ WF_vars(clientLoop(c))

Spec == Init /\ [][Next]_vars /\ Fairness

-----------------------------------------------------------------------------
(* Types *)

Package ==
  [type : {"Init"}, id : 0 .. ClientIds - 1]
    \cup [type : {"AddEntity", "RemoveEntity"}, id : EntityId]
    \cup [type : {"SyncEntity"}, id : EntityId, value : FieldValue]

UserEvent == Quit .. MaxEvents
NetEvent == [client : 0 .. ClientIds - 1, event : UserEvent \ {Quit}]

ClientState ==
  [socket : {"new", "open", "null"}, id : 0 .. ClientIds - 1 \cup {None},
   replicas : Seq([id : EntityId, value : FieldValue]), destroys : Seq(EntityId),
   provider : Seq(UserEvent), made : 0 .. MaxEvents, quitting : BOOLEAN,
   notFound : BOOLEAN]

ServerTypeOK ==
  /\ pc \in {"idle", "refresh", "accept", "send", "receive", "stopped"}
  /\ turn \in Nat \ {0}
  /\ entities \in Seq(EntityId)
  /\ created \in 0 .. MaxEntities /\ assigns \in 0 .. MaxAssigns
  /\ value \in [EntityId -> FieldValue] /\ dirty \in [EntityId -> BOOLEAN]
  /\ m_entityAddEventQueue \in Seq(EntityId)
  /\ m_entityRemoveEventQueue \in Seq(EntityId)
  /\ m_connectionQueue \in Seq(Conn)
  /\ m_clients \in Seq([id : 0 .. ClientIds - 1, conn : Conn])
  /\ m_nextClientId \in 0 .. ClientIds - 1
  /\ m_eventQueue \in Seq(NetEvent)

ClientTypeOK ==
  /\ client \in [Conn -> ClientState]
  /\ toClient \in [Conn -> Seq(Package)]
  /\ toServer \in [Conn -> Seq(NetEvent)]

HistoryTypeOK ==
  /\ accepted \in Nat /\ serial \in [Conn -> 0 .. accepted]
  /\ left \subseteq Conn
  /\ since \in [Conn -> SUBSET EntityId]
  /\ handled \in Seq(NetEvent)

TypeOK == ServerTypeOK /\ ClientTypeOK /\ HistoryTypeOK

-----------------------------------------------------------------------------
(* Safety *)

(***************************************************************************)
(* The ids under which the server knows two clients differ, and a client   *)
(* that has been told an id was told the one the server knows it by, as    *)
(* long as the counter has not gone round.                                 *)
(***************************************************************************)
IdsAgree ==
  accepted <= ClientIds =>
    \A i, j \in DOMAIN m_clients :
      /\ m_clients[i].id = m_clients[j].id => i = j
      /\ client[m_clients[i].conn].id \in {None, m_clients[i].id}

(***************************************************************************)
(* A client never receives values for an entity it does not have ("entity  *)
(* with id ... not found", gameclient.cpp:168): the package that adds the  *)
(* entity always precedes them, and the one that removes it follows them.  *)
(***************************************************************************)
NothingNotFound == \A c \in Conn : ~client[c].notFound

\* Nothing is left to tell connection c.
UpToDate(c) ==
  /\ pc = "idle" /\ c \in Accepted /\ isConnected(c)
  /\ QueuesEmpty /\ \A e \in Range(entities) : ~dirty[e]
  /\ toClient[c] = <<>> /\ client[c].destroys = <<>>

Replicas(c) == Range(client[c].replicas)
ReplicaIds(c) == {r.id : r \in Replicas(c)}

(***************************************************************************)
(* A client that is up to date has a replica of every entity of the        *)
(* server, whenever it connected and in whatever step the entity was made. *)
(***************************************************************************)
NoEntityMissing ==
  \A c \in Conn : UpToDate(c) => Range(entities) \subseteq ReplicaIds(c)

(***************************************************************************)
(* A client that is up to date shows, in the replica found by id, the      *)
(* value of every entity written since it joined.                          *)
(***************************************************************************)
WrittenValuesArrive ==
  \A c \in Conn : UpToDate(c) =>
    \A e \in Range(entities) \cap since[c], i \in DOMAIN client[c].replicas :
      IsFirst(client[c].replicas, i, e) => client[c].replicas[i].value = value[e]

(***************************************************************************)
(* A running client only loses replicas of entities the server removed.    *)
(***************************************************************************)
OnlyRemovedVanish ==
  [][\A c \in Conn : client'[c].socket = "open" =>
       (ReplicaIds(c) \ ReplicaIds(c)') \cap Range(entities) = {}]_vars

\* The events of client id that reached the server, in the order they did.
ReachedServer(id) ==
  Select(handled \o m_eventQueue, [client : {id}, event : UserEvent \ {Quit}])

(***************************************************************************)
(* What the server gets from a client are the client's own first events,   *)
(* each once and in order, none before the server knew the client by the   *)
(* id they carry.                                                          *)
(***************************************************************************)
EventsInOrder ==
  accepted <= ClientIds =>
    \A c \in Conn : serial[c] # 0 =>
      LET events == ReachedServer(serial[c] - 1)
      IN /\ \A k \in DOMAIN events : events[k].event = k
         /\ Len(events) <= client[c].made

-----------------------------------------------------------------------------
(* Liveness *)

(***************************************************************************)
(* A client that goes is noticed: the server, once it had accepted the     *)
(* client, emits clientDisconnected for it.                                *)
(***************************************************************************)
DisconnectSignalled ==
  \A c \in Conn :
    (client[c].socket = "null" /\ c \in Accepted) ~> (c \in left \/ pc = "stopped")

(***************************************************************************)
(* A client the server had accepted finds out that the server is gone.     *)
(***************************************************************************)
StopNoticed ==
  \A c \in Conn :
    (pc = "stopped" /\ serial[c] # 0)
      ~> (client[c].socket = "null" \/ client[c].quitting)

(***************************************************************************)
(* An event of a client whose connection stays up reaches the server, also *)
(* when it was made before the client knew its id.                         *)
(***************************************************************************)
EventsArrive ==
  \A c \in Conn, k \in 1 .. MaxEvents :
    (\E i \in DOMAIN client[c].provider : client[c].provider[i] = k)
      ~> \/ client[c].socket = "null" \/ client[c].quitting \/ pc = "stopped"
         \/ \E i \in DOMAIN m_eventQueue : m_eventQueue[i] =
                [client |-> client[c].id, event |-> k]

-----------------------------------------------------------------------------
(* What the documentation says *)

(***************************************************************************)
(* "NetSync class - wraps T to be auto synchronized with network"          *)
(* (net/netsync.h:51): a client that is up to date shows every entity's    *)
(* value.                                                                  *)
(***************************************************************************)
ValuesSynchronized ==
  \A c \in Conn : UpToDate(c) =>
    \A e \in Range(entities) : \E r \in Replicas(c) :
      r.id = e /\ r.value = value[e]

(***************************************************************************)
(* A field of an entity is "suppoused to be synchonized with network"      *)
(* (net/netsync.h:12): every replica of an entity written since the client *)
(* joined shows the entity's value.                                        *)
(***************************************************************************)
EveryReplicaSynchronized ==
  \A c \in Conn : UpToDate(c) =>
    \A r \in Replicas(c) :
      r.id \in Range(entities) \cap since[c] => r.value = value[r.id]
=============================================================================
