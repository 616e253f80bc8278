------------------------- MODULE Replication_proofs -------------------------
(***************************************************************************)
(* Theorems about Replication, for any number of connections, entities,    *)
(* values and events: types, ids, the order of events, and that what a     *)
(* client is told suffices: no client misses an entity, receives a value   *)
(* for one it does not have, or loses one that still exists, and one that  *)
(* is up to date shows the values written since it joined.                 *)
(***************************************************************************)
EXTENDS Replication, Lists_proofs

-----------------------------------------------------------------------------
(* Types *)

Replica == [id : EntityId, value : FieldValue]

\* The types of a client's sequences.
LEMMA ClientFields ==
  ASSUME ClientTypeOK, NEW c \in Conn
  PROVE  /\ client[c] \in ClientState
         /\ client[c].replicas \in Seq(Replica)
         /\ client[c].destroys \in Seq(EntityId)
         /\ client[c].provider \in Seq(UserEvent)
         /\ client[c].id \in 0 .. ClientIds - 1 \cup {None}
         /\ client[c].made \in 0 .. MaxEvents
         /\ toClient[c] \in Seq(Package) /\ toServer[c] \in Seq(NetEvent)
  BY DEF ClientTypeOK, ClientState, Replica

\* A client keeps its type when a step gives it another state.
LEMMA ClientUpdate ==
  ASSUME ClientTypeOK, NEW c \in Conn, NEW s \in ClientState,
         client' = [client EXCEPT ![c] = s]
  PROVE  client' \in [Conn -> ClientState]
  BY DEF ClientTypeOK

\* What a package makes of the client's state.
LEMMA PullKeepsType ==
  ASSUME ClientTypeOK, NEW c \in Conn, clientPull(c)
  PROVE  ClientTypeOK'
<1> DEFINE p == Head(toClient[c])
<1>1. toClient[c] \in Seq(Package) /\ toClient[c] # <<>>
  BY ClientFields DEF clientPull
<1>2. p \in Package /\ Tail(toClient[c]) \in Seq(Package)
  BY <1>1, HeadAndTail
<1>3. /\ client[c] \in ClientState /\ client[c].replicas \in Seq(Replica)
      /\ client[c].destroys \in Seq(EntityId)
  BY ClientFields
<1>4. \/ p.type = "Init" /\ processInit(c, p)
      \/ p.type = "AddEntity" /\ processAddEntity(c, p)
      \/ p.type = "RemoveEntity" /\ processRemoveEntity(c, p)
      \/ p.type = "SyncEntity" /\ processSyncEntity(c, p)
  BY DEF clientPull
<1> HIDE DEF p
<1>5. ASSUME p.type = "Init" /\ processInit(c, p)
      PROVE  client' \in [Conn -> ClientState]
  <2>1. p.id \in 0 .. ClientIds - 1
    BY <1>2, <1>5 DEF Package
  <2>2. [client[c] EXCEPT !.id = p.id] \in ClientState
    BY <1>3, <2>1 DEF ClientState
  <2>3. client' = [client EXCEPT ![c] = [client[c] EXCEPT !.id = p.id]]
    BY <1>5 DEF processInit
  <2> QED
    BY <2>2, <2>3, ClientUpdate
<1>6. ASSUME p.type = "AddEntity" /\ processAddEntity(c, p)
      PROVE  client' \in [Conn -> ClientState]
  <2> DEFINE replicas == Append(client[c].replicas,
                                [id |-> p.id, value |-> Default])
  <2>1. [id |-> p.id, value |-> Default] \in Replica
    BY <1>2, <1>6 DEF Package, Replica, FieldValue
  <2>2. replicas \in Seq(Replica)
    BY <1>3, <2>1
  <2>3. client' = [client EXCEPT ![c] = [client[c] EXCEPT !.replicas = replicas]]
    BY <1>6 DEF processAddEntity
  <2> HIDE DEF replicas
  <2>4. [client[c] EXCEPT !.replicas = replicas] \in ClientState
    BY <1>3, <2>2 DEF ClientState, Replica
  <2> QED
    BY <2>3, <2>4, ClientUpdate
<1>7. ASSUME p.type = "RemoveEntity" /\ processRemoveEntity(c, p)
      PROVE  client' \in [Conn -> ClientState]
  <2> DEFINE destroys == Append(client[c].destroys, p.id)
  <2>1. p.id \in EntityId
    BY <1>2, <1>7 DEF Package
  <2>2. destroys \in Seq(EntityId)
    BY <1>3, <2>1
  <2>3. client' = [client EXCEPT ![c] = [client[c] EXCEPT !.destroys = destroys]]
    BY <1>7 DEF processRemoveEntity
  <2> HIDE DEF destroys
  <2>4. [client[c] EXCEPT !.destroys = destroys] \in ClientState
    BY <1>3, <2>2 DEF ClientState
  <2> QED
    BY <2>3, <2>4, ClientUpdate
<1>8. ASSUME p.type = "SyncEntity" /\ processSyncEntity(c, p)
      PROVE  client' \in [Conn -> ClientState]
  <2>1. p.value \in FieldValue
    BY <1>2, <1>8 DEF Package
  <2>2. ASSUME NEW i \in DOMAIN client[c].replicas,
               client' = [client EXCEPT ![c].replicas[i].value = p.value]
        PROVE  client' \in [Conn -> ClientState]
    <3> DEFINE r == [client[c].replicas[i] EXCEPT !.value = p.value]
               replicas == [client[c].replicas EXCEPT ![i] = r]
    <3>1. client[c].replicas[i] \in Replica
      BY <1>3, ElementOfSeq, LenProperties
    <3>2. r \in Replica
      BY <2>1, <3>1 DEF Replica
    <3>3. client' = [client EXCEPT ![c] = [client[c] EXCEPT !.replicas = replicas]]
      BY <2>2
    <3> HIDE DEF r
    <3>4. replicas \in Seq(Replica)
      BY <1>3, <3>2, ExceptSeq
    <3> HIDE DEF replicas
    <3>5. [client[c] EXCEPT !.replicas = replicas] \in ClientState
      BY <1>3, <3>4 DEF ClientState, Replica
    <3> QED
      BY <3>3, <3>5, ClientUpdate
  <2>3. ASSUME client' = [client EXCEPT ![c].notFound = TRUE]
        PROVE  client' \in [Conn -> ClientState]
    <3>1. [client[c] EXCEPT !.notFound = TRUE] \in ClientState
      BY <1>3 DEF ClientState
    <3>2. client' = [client EXCEPT ![c] = [client[c] EXCEPT !.notFound = TRUE]]
      BY <2>3
    <3> QED
      BY <3>1, <3>2, ClientUpdate
  <2> QED
    BY <1>8, <2>2, <2>3 DEF processSyncEntity
<1>9. client' \in [Conn -> ClientState]
  BY <1>4, <1>5, <1>6, <1>7, <1>8
<1>10. toClient' \in [Conn -> Seq(Package)] /\ toServer' = toServer
  BY <1>2 DEF clientPull, ClientTypeOK
<1> QED
  BY <1>9, <1>10 DEF ClientTypeOK

\* Sending an event, or the end of the application instead.
LEMMA SendKeepsType ==
  ASSUME ClientTypeOK, NEW c \in Conn, clientSend(c)
  PROVE  ClientTypeOK'
<1> DEFINE event == Head(client[c].provider)
           provider == Tail(client[c].provider)
           message == [client |-> client[c].id, event |-> event]
<1>1. /\ client[c] \in ClientState /\ client[c].id \in 0 .. ClientIds - 1
      /\ client[c].provider \in Seq(UserEvent) /\ client[c].provider # <<>>
  BY ClientFields DEF clientSend
<1>2. event \in UserEvent /\ provider \in Seq(UserEvent)
  BY <1>1, HeadAndTail
<1>3. \/ /\ client' = [client EXCEPT ![c].provider = provider,
                                     ![c].quitting = TRUE]
         /\ toServer' = toServer
      \/ /\ event # Quit
         /\ client' = [client EXCEPT ![c].provider = provider]
         /\ toServer' = [toServer EXCEPT ![c] = Append(@, message)]
  BY DEF clientSend, pulledFromProvider
<1>4. event # Quit => message \in NetEvent
  BY <1>1, <1>2 DEF NetEvent
<1> HIDE DEF event, provider, message
<1>5. /\ [client[c] EXCEPT !.provider = provider] \in ClientState
      /\ [client[c] EXCEPT !.provider = provider, !.quitting = TRUE] \in ClientState
  BY <1>1, <1>2 DEF ClientState
<1>6. client' \in [Conn -> ClientState]
  <2>1. \/ client' = [client EXCEPT ![c] = [client[c] EXCEPT
                        !.provider = provider, !.quitting = TRUE]]
        \/ client' = [client EXCEPT ![c] = [client[c] EXCEPT
                        !.provider = provider]]
    BY <1>3
  <2> QED
    BY <1>5, <2>1, ClientUpdate
<1>7. toServer' \in [Conn -> Seq(NetEvent)]
  <2>1. event # Quit => Append(toServer[c], message) \in Seq(NetEvent)
    BY <1>4, ClientFields
  <2> QED
    BY <1>3, <2>1 DEF ClientTypeOK
<1> QED
  BY <1>6, <1>7 DEF ClientTypeOK, clientSend

\* The application loop of a client removes a replica.
LEMMA LoopKeepsType ==
  ASSUME ClientTypeOK, NEW c \in Conn, clientLoop(c)
  PROVE  ClientTypeOK'
<1> DEFINE destroys == Tail(client[c].destroys)
<1>1. /\ client[c] \in ClientState /\ client[c].replicas \in Seq(Replica)
      /\ client[c].destroys \in Seq(EntityId) /\ client[c].destroys # <<>>
  BY ClientFields DEF clientLoop
<1>2. destroys \in Seq(EntityId)
  BY <1>1, HeadAndTail
<1>3. \/ \E i \in DOMAIN client[c].replicas :
           client' = [client EXCEPT ![c].destroys = destroys,
                                    ![c].replicas = RemoveAt(@, i)]
      \/ client' = [client EXCEPT ![c].destroys = destroys]
  BY DEF clientLoop
<1> HIDE DEF destroys
<1>4. ASSUME NEW i \in DOMAIN client[c].replicas,
             client' = [client EXCEPT ![c].destroys = destroys,
                                      ![c].replicas = RemoveAt(@, i)]
      PROVE  client' \in [Conn -> ClientState]
  <2> DEFINE replicas == RemoveAt(client[c].replicas, i)
  <2>1. replicas \in Seq(Replica)
    BY <1>1, RemoveAtProperties
  <2>2. client' = [client EXCEPT ![c] = [client[c] EXCEPT
                     !.destroys = destroys, !.replicas = replicas]]
    BY <1>4
  <2> HIDE DEF replicas
  <2>3. [client[c] EXCEPT !.destroys = destroys, !.replicas = replicas]
           \in ClientState
    BY <1>1, <1>2, <2>1 DEF ClientState, Replica
  <2> QED
    BY <2>2, <2>3, ClientUpdate
<1>5. ASSUME client' = [client EXCEPT ![c].destroys = destroys]
      PROVE  client' \in [Conn -> ClientState]
  <2>1. [client[c] EXCEPT !.destroys = destroys] \in ClientState
    BY <1>1, <1>2 DEF ClientState
  <2>2. client' = [client EXCEPT ![c] = [client[c] EXCEPT !.destroys = destroys]]
    BY <1>5
  <2> QED
    BY <2>1, <2>2, ClientUpdate
<1>6. client' \in [Conn -> ClientState]
  BY <1>3, <1>4, <1>5
<1> QED
  BY <1>6 DEF ClientTypeOK, clientLoop

\* The steps of a client that only start or end something.
LEMMA EndsKeepType ==
  ASSUME ClientTypeOK, NEW c \in Conn,
         connect(c) \/ clientNotices(c) \/ clientClose(c)
  PROVE  ClientTypeOK'
<1>1. client[c] \in ClientState
  BY ClientFields
<1>2. CASE connect(c)
  <2>1. [client[c] EXCEPT !.socket = "open"] \in ClientState
    BY <1>1 DEF ClientState
  <2>2. client' \in [Conn -> ClientState]
    BY <1>2, <2>1 DEF connect, ClientTypeOK
  <2> QED
    BY <1>2, <2>2 DEF connect, ClientTypeOK
<1>3. CASE clientNotices(c)
  <2>1. [client[c] EXCEPT !.socket = "null"] \in ClientState
    BY <1>1 DEF ClientState
  <2>2. client' \in [Conn -> ClientState]
    BY <1>3, <2>1 DEF clientNotices, ClientTypeOK
  <2> QED
    BY <1>3, <2>2 DEF clientNotices, ClientTypeOK
<1>4. CASE clientClose(c)
  <2> DEFINE s == [client[c] EXCEPT !.socket = "null", !.replicas = <<>>,
                                    !.destroys = <<>>, !.provider = <<>>]
  <2>1. s \in ClientState
    <3>1. <<>> \in Seq(Replica) /\ <<>> \in Seq(EntityId) /\ <<>> \in Seq(UserEvent)
      OBVIOUS
    <3> QED
      BY <1>1, <3>1 DEF ClientState, Replica
  <2>2. client' = [client EXCEPT ![c] = s]
    BY <1>4 DEF clientClose
  <2> HIDE DEF s
  <2>3. client' \in [Conn -> ClientState]
    BY <2>1, <2>2, ClientUpdate
  <2>4. /\ toClient' \in [Conn -> Seq(Package)]
        /\ toServer' \in [Conn -> Seq(NetEvent)]
    BY <1>4 DEF clientClose, ClientTypeOK
  <2> QED
    BY <2>3, <2>4 DEF ClientTypeOK
<1> QED
  BY <1>2, <1>3, <1>4

\* The user of a client.
LEMMA UserKeepsType ==
  ASSUME ClientTypeOK, NEW c \in Conn, userEvent(c)
  PROVE  ClientTypeOK'
<1>1. PICK event \in {client[c].made + 1, Quit} :
        client' = [client EXCEPT ![c].made = @ + 1,
                                 ![c].provider = Append(@, event)]
  BY DEF userEvent
<1>2. /\ client[c] \in ClientState /\ client[c].provider \in Seq(UserEvent)
      /\ client[c].made \in 0 .. MaxEvents /\ client[c].made < MaxEvents
  BY ClientFields DEF userEvent
<1>3. event \in UserEvent /\ client[c].made + 1 \in 0 .. MaxEvents
  BY <1>2, ReplicationAssumption DEF UserEvent, Quit
<1> DEFINE provider == Append(client[c].provider, event)
           made == client[c].made + 1
<1>4. provider \in Seq(UserEvent)
  BY <1>2, <1>3
<1>5. client' = [client EXCEPT ![c] = [client[c] EXCEPT
                   !.made = made, !.provider = provider]]
  BY <1>1
<1>6. made \in 0 .. MaxEvents
  BY <1>3
<1> HIDE DEF provider, made
<1>7. [client[c] EXCEPT !.made = made, !.provider = provider] \in ClientState
  BY <1>2, <1>4, <1>6 DEF ClientState
<1>8. client' \in [Conn -> ClientState]
  BY <1>5, <1>7, ClientUpdate
<1> QED
  BY <1>8 DEF ClientTypeOK, userEvent

\* A broadcast of a package.
LEMMA BroadcastKeepsType ==
  ASSUME ClientTypeOK, NEW p \in Package, Broadcast(p),
         UNCHANGED <<client, toServer>>
  PROVE  ClientTypeOK'
<1>1. \A c \in Conn : Append(toClient[c], p) \in Seq(Package)
  BY ClientFields
<1> QED
  BY <1>1 DEF Broadcast, ClientTypeOK

\* What a new client is sent, package by package.
LEMMA HelloPackages ==
  ASSUME ServerTypeOK
  PROVE  /\ Hello \in Seq(Package)
         /\ DOMAIN entities = 1 .. Len(entities) /\ Len(entities) \in Nat
         /\ DOMAIN Hello = 1 .. Len(entities) + 1
         /\ Hello[1] = [type |-> "Init", id |-> m_nextClientId]
         /\ \A i \in 1 .. Len(entities) : Hello[i + 1] = AddEntity(entities[i])
<1> DEFINE n == Len(entities)
           adds == [i \in DOMAIN entities |-> AddEntity(entities[i])]
           init == <<[type |-> "Init", id |-> m_nextClientId]>>
<1>1. DOMAIN entities = 1 .. n /\ n \in Nat
  BY LenProperties DEF ServerTypeOK
<1>2. adds \in Seq(Package) /\ Len(adds) = n
  <2>1. ASSUME NEW i \in 1 .. n
        PROVE  AddEntity(entities[i]) \in Package
    <3>1. entities[i] \in EntityId
      BY ElementOfSeq DEF ServerTypeOK
    <3> QED
      BY <3>1 DEF AddEntity, Package
  <2>2. adds \in Seq(Package)
    BY <1>1, <2>1, IsASeq
  <2>3. adds \in [1 .. n -> Package]
    BY <1>1, <2>1
  <2> QED
    BY <1>1, <2>2, <2>3
<1>3. init \in Seq(Package) /\ Len(init) = 1
      /\ init[1] = [type |-> "Init", id |-> m_nextClientId]
  <2>1. [type |-> "Init", id |-> m_nextClientId] \in Package
    BY DEF Package, ServerTypeOK
  <2> QED
    BY <2>1
<1>4. \A i \in 1 .. n : adds[i] = AddEntity(entities[i])
  BY <1>1
<1>5. Hello = init \o adds
  BY DEF Hello
<1> HIDE DEF adds, init, n
<1>6. /\ Hello \in Seq(Package) /\ Len(Hello) = 1 + n
      /\ \A k \in 1 .. 1 + n : Hello[k] = IF k <= 1 THEN init[k] ELSE adds[k - 1]
  <2>1. /\ init \o adds \in Seq(Package)
        /\ Len(init \o adds) = Len(init) + Len(adds)
        /\ \A k \in 1 .. Len(init) + Len(adds) :
             (init \o adds)[k] = IF k <= Len(init) THEN init[k] ELSE adds[k - Len(init)]
    BY <1>2, <1>3, ConcatProperties
  <2> QED
    BY <1>2, <1>3, <1>5, <2>1
<1>7. DOMAIN Hello = 1 .. n + 1
  BY <1>1, <1>6, LenProperties
<1>8. Hello[1] = init[1]
  BY <1>1, <1>6
<1>9. ASSUME NEW i \in 1 .. n
      PROVE  Hello[i + 1] = adds[i]
  <2>1. i + 1 \in 1 .. 1 + n /\ ~(i + 1 <= 1) /\ (i + 1) - 1 = i
    BY <1>1
  <2> QED
    BY <1>6, <2>1
<1> QED
  BY <1>1, <1>3, <1>4, <1>6, <1>7, <1>8, <1>9 DEF n

\* A client is taken in.
LEMMA AcceptKeepsType ==
  ASSUME TypeOK, acceptOne
  PROVE  TypeOK'
<1> DEFINE c == Head(m_connectionQueue)
<1> USE DEF TypeOK
<1>1. c \in Conn /\ Tail(m_connectionQueue) \in Seq(Conn)
  BY HeadAndTail DEF acceptOne, ServerTypeOK
<1>2. Hello \in Seq(Package)
  BY HelloPackages
<1>5. toClient' = [toClient EXCEPT ![c] = IF isConnected(c) THEN Hello ELSE @]
  BY DEF acceptOne
<1>6. ClientTypeOK'
  <2> HIDE DEF c
  <2>1. toClient' \in [Conn -> Seq(Package)]
    BY <1>1, <1>2, <1>5 DEF ClientTypeOK
  <2> QED
    BY <2>1 DEF acceptOne, ClientTypeOK
<1>7. /\ created' \in 0 .. MaxEntities /\ entities' \in Seq(EntityId)
      /\ m_entityAddEventQueue' \in Seq(EntityId)
      /\ since' \in [Conn -> SUBSET EntityId]
  <2>1. CASE Create /\ NoteWritten(created + 1, Accepted \cup {c})
    <3>1. created + 1 \in EntityId /\ created + 1 \in 0 .. MaxEntities
      BY <2>1, ReplicationAssumption DEF Create, ServerTypeOK, EntityId
    <3> QED
      BY <2>1, <3>1 DEF Create, NoteWritten, ServerTypeOK, HistoryTypeOK
  <2>2. CASE UNCHANGED <<created, entities, m_entityAddEventQueue, since>>
    BY <2>2 DEF ServerTypeOK, HistoryTypeOK
  <2> QED
    BY <2>1, <2>2 DEF acceptOne
<1>8. m_nextClientId' \in 0 .. ClientIds - 1
  BY ReplicationAssumption DEF acceptOne, nextId, ServerTypeOK
<1>9. m_clients' \in Seq([id : 0 .. ClientIds - 1, conn : Conn])
  <2>1. [id |-> m_nextClientId, conn |-> c] \in [id : 0 .. ClientIds - 1, conn : Conn]
    BY <1>1 DEF ServerTypeOK
  <2>2. m_clients' = Append(m_clients, [id |-> m_nextClientId, conn |-> c])
    BY DEF acceptOne
  <2> QED
    BY <2>1, <2>2 DEF ServerTypeOK
<1>10. ServerTypeOK'
  BY <1>1, <1>7, <1>8, <1>9 DEF acceptOne, ServerTypeOK
<1>11. serial' \in [Conn -> 0 .. accepted'] /\ accepted' \in Nat
  BY <1>1 DEF acceptOne, HistoryTypeOK
<1> QED
  BY <1>6, <1>7, <1>10, <1>11 DEF acceptOne, HistoryTypeOK

\* The server drops a client, or goes on to the next.
LEMMA RefreshKeepsType ==
  ASSUME TypeOK, refreshOne
  PROVE  TypeOK'
<1> DEFINE c == m_clients[turn].conn
<1> USE DEF TypeOK
<1>1. turn \in DOMAIN m_clients /\ m_clients[turn] \in [id : 0 .. ClientIds - 1, conn : Conn]
  BY ElementOfSeq, LenProperties DEF refreshOne, ServerTypeOK
<1>2. c \in Conn
  BY <1>1
<1>3. RemoveAt(m_clients, turn) \in Seq([id : 0 .. ClientIds - 1, conn : Conn])
  BY <1>1, RemoveAtProperties DEF ServerTypeOK
<1>4. \/ turn' = turn + 1 /\ m_clients' = m_clients /\ left' = left
      \/ turn' = turn /\ m_clients' = RemoveAt(m_clients, turn) /\ left' = left \cup {c}
  BY DEF refreshOne
<1> HIDE DEF c
<1>5. ServerTypeOK'
  <2>1. m_clients' \in Seq([id : 0 .. ClientIds - 1, conn : Conn]) /\ turn' \in Nat \ {0}
    BY <1>3, <1>4 DEF ServerTypeOK
  <2> QED
    BY <2>1 DEF refreshOne, ServerTypeOK, entityVars
<1>6. ClientTypeOK' /\ HistoryTypeOK'
  BY <1>2, <1>4 DEF refreshOne, ClientTypeOK, HistoryTypeOK
<1> QED
  BY <1>5, <1>6

\* The server receives a client's event, or goes on to the next client.
LEMMA ReceiveKeepsType ==
  ASSUME TypeOK, receiveOne
  PROVE  TypeOK'
<1> DEFINE c == m_clients[turn].conn
<1> USE DEF TypeOK
<1>1. turn \in DOMAIN m_clients /\ m_clients[turn] \in [id : 0 .. ClientIds - 1, conn : Conn]
  BY ElementOfSeq, LenProperties DEF receiveOne, ServerTypeOK
<1>2. c \in Conn
  BY <1>1
<1>3. \/ /\ toServer[c] # <<>> /\ turn' = turn
         /\ m_eventQueue' = Append(m_eventQueue, Head(toServer[c]))
         /\ toServer' = [toServer EXCEPT ![c] = Tail(@)]
      \/ turn' = turn + 1 /\ UNCHANGED <<m_eventQueue, toServer>>
  BY DEF receiveOne
<1> HIDE DEF c
<1>4. toServer[c] # <<>> =>
        Head(toServer[c]) \in NetEvent /\ Tail(toServer[c]) \in Seq(NetEvent)
  BY <1>2, ClientFields, HeadAndTail
<1>5. m_eventQueue' \in Seq(NetEvent) /\ turn' \in Nat \ {0}
  <2>1. toServer[c] # <<>> => Append(m_eventQueue, Head(toServer[c])) \in Seq(NetEvent)
    BY <1>4 DEF ServerTypeOK
  <2>2. turn \in Nat \ {0} /\ turn + 1 \in Nat \ {0} /\ m_eventQueue \in Seq(NetEvent)
    BY DEF ServerTypeOK
  <2> QED
    BY <1>3, <2>1, <2>2
<1>6. toServer' \in [Conn -> Seq(NetEvent)]
  BY <1>2, <1>3, <1>4 DEF ClientTypeOK
<1> QED
  BY <1>5, <1>6 DEF receiveOne, ServerTypeOK, ClientTypeOK, HistoryTypeOK,
     entityVars, acceptVars, historyVars

(***************************************************************************)
(* Every variable of the server, the connections and the clients keeps its *)
(* type, whatever the application and its users do.                        *)
(***************************************************************************)
LEMMA TypeStep ==
  ASSUME TypeOK, [Next]_vars
  PROVE  TypeOK'
<1> USE DEF TypeOK, ServerTypeOK, HistoryTypeOK, entityVars, acceptVars, historyVars
<1>1. CASE UNCHANGED vars
  BY <1>1 DEF vars, ClientTypeOK
<1>2. CASE addEntity
  <2>1. created + 1 \in EntityId /\ created' \in 0 .. MaxEntities
    BY <1>2, ReplicationAssumption DEF addEntity, Create, EntityId
  <2>2. ServerTypeOK'
    BY <1>2, <2>1 DEF addEntity, Create
  <2>3. HistoryTypeOK'
    BY <1>2, <2>1 DEF addEntity, NoteWritten
  <2> QED
    BY <1>2, <2>2, <2>3 DEF addEntity, ClientTypeOK
<1>3. ASSUME NEW e \in Range(entities), NEW v \in Value, assign(e, v)
      PROVE  TypeOK'
  <2>1. e \in EntityId /\ v \in FieldValue
    BY DEF Range, FieldValue
  <2>2. assigns' \in 0 .. MaxAssigns
    BY <1>3, ReplicationAssumption DEF assign
  <2>3. HistoryTypeOK'
    BY <1>3, <2>1 DEF assign, NoteWritten
  <2> QED
    BY <1>3, <2>1, <2>2, <2>3 DEF assign, ClientTypeOK
<1>4. ASSUME NEW i \in DOMAIN entities, destroyEntity(i)
      PROVE  TypeOK'
  <2>1. RemoveAt(entities, i) \in Seq(EntityId) /\ entities[i] \in EntityId
    BY RemoveAtProperties, ElementOfSeq, LenProperties
  <2> QED
    BY <1>4, <2>1 DEF destroyEntity, ClientTypeOK
<1>5. CASE pullEvent
  <2>1. Head(m_eventQueue) \in NetEvent /\ Tail(m_eventQueue) \in Seq(NetEvent)
    BY <1>5, HeadAndTail DEF pullEvent
  <2> QED
    BY <1>5, <2>1 DEF pullEvent, ClientTypeOK
<1>6. CASE serverStop
  BY <1>6 DEF serverStop, ClientTypeOK
<1>7. CASE startSync
  <2>1. pc' \in {"idle", "refresh", "accept", "send", "receive", "stopped"}
        /\ turn' \in Nat \ {0}
    BY <1>7 DEF startSync
  <2> QED
    BY <1>7, <2>1 DEF startSync, ClientTypeOK
<1>8. CASE acceptedAll
  BY <1>8 DEF acceptedAll, ClientTypeOK
<1>9. CASE broadcastAdd
  <2> DEFINE e == Head(m_entityAddEventQueue)
  <2>1. e \in EntityId /\ Tail(m_entityAddEventQueue) \in Seq(EntityId)
    BY <1>9, HeadAndTail DEF broadcastAdd
  <2>2. AddEntity(e) \in Package
    BY <2>1 DEF AddEntity, Package
  <2>3. ClientTypeOK'
    <3>1. Broadcast(AddEntity(e)) \/ UNCHANGED toClient
      BY <1>9 DEF broadcastAdd
    <3>2. UNCHANGED <<client, toServer>>
      BY <1>9 DEF broadcastAdd
    <3> HIDE DEF e
    <3> QED
      BY <2>2, <3>1, <3>2, BroadcastKeepsType DEF ClientTypeOK
  <2>4. ServerTypeOK'
    BY <1>9, <2>1 DEF broadcastAdd
  <2>5. HistoryTypeOK'
    BY <1>9 DEF broadcastAdd
  <2> QED
    BY <2>3, <2>4, <2>5
<1>10. CASE broadcastRemove
  <2>1. /\ Head(m_entityRemoveEventQueue) \in EntityId
        /\ Tail(m_entityRemoveEventQueue) \in Seq(EntityId)
    BY <1>10, HeadAndTail DEF broadcastRemove
  <2>2. RemoveEntity(Head(m_entityRemoveEventQueue)) \in Package
    BY <2>1 DEF RemoveEntity, Package
  <2>3. ClientTypeOK'
    BY <1>10, <2>2, BroadcastKeepsType DEF broadcastRemove
  <2> QED
    BY <1>10, <2>1, <2>3 DEF broadcastRemove
<1>11. ASSUME NEW i \in DOMAIN entities, broadcastValue(i)
       PROVE  TypeOK'
  <2>1. entities[i] \in EntityId
    BY ElementOfSeq, LenProperties
  <2>2. SyncEntity(entities[i]) \in Package
    BY <2>1 DEF SyncEntity, Package
  <2>3. ClientTypeOK'
    BY <1>11, <2>2, BroadcastKeepsType DEF broadcastValue
  <2> QED
    BY <1>11, <2>1, <2>3 DEF broadcastValue
<1>12. CASE sentAll
  <2>1. pc' \in {"idle", "refresh", "accept", "send", "receive", "stopped"}
        /\ turn' \in Nat \ {0}
    BY <1>12 DEF sentAll
  <2> QED
    BY <1>12, <2>1 DEF sentAll, ClientTypeOK
<1>13. CASE endSync
  BY <1>13 DEF endSync, ClientTypeOK
<1>14. ASSUME NEW c \in Conn, connect(c)
       PROVE  TypeOK'
  <2>1. m_connectionQueue' \in Seq(Conn)
    BY <1>14 DEF connect
  <2> QED
    BY <1>14, <2>1, EndsKeepType DEF connect
<1>15. ASSUME NEW c \in Conn, userEvent(c)
       PROVE  TypeOK'
  BY <1>15, UserKeepsType DEF userEvent
<1>16. ASSUME NEW c \in Conn, clientSend(c)
       PROVE  TypeOK'
  BY <1>16, SendKeepsType DEF clientSend
<1>17. ASSUME NEW c \in Conn, clientPull(c)
       PROVE  TypeOK'
  BY <1>17, PullKeepsType DEF clientPull
<1>18. ASSUME NEW c \in Conn, clientNotices(c)
       PROVE  TypeOK'
  BY <1>18, EndsKeepType DEF clientNotices
<1>19. ASSUME NEW c \in Conn, clientLoop(c)
       PROVE  TypeOK'
  BY <1>19, LoopKeepsType DEF clientLoop
<1>20. ASSUME NEW c \in Conn, clientClose(c)
       PROVE  TypeOK'
  BY <1>20, EndsKeepType DEF clientClose
<1> QED
  BY <1>1, <1>2, <1>3, <1>4, <1>5, <1>6, <1>7, <1>8, <1>9, <1>10, <1>11, <1>12,
     <1>13, <1>14, <1>15, <1>16, <1>17, <1>18, <1>19, <1>20,
     AcceptKeepsType, RefreshKeepsType, ReceiveKeepsType
     DEF Next, sync, clientSync

LEMMA TypeInit == Init => TypeOK
  BY ReplicationAssumption DEF Init, TypeOK, ServerTypeOK, ClientTypeOK,
     HistoryTypeOK, ClientState, EntityId, FieldValue

(***************************************************************************)
(* In every behaviour of server and clients the variables have their types.*)
(***************************************************************************)
THEOREM TypeCorrect == Spec => []TypeOK
  BY TypeInit, TypeStep, PTL DEF Spec

-----------------------------------------------------------------------------
(* Who a client is: the ids of clients, and the events that carry them *)

-----------------------------------------------------------------------------
(* The inductive invariant *)

\* A connection that may still carry events: it was not made yet or is up,
\* and its client goes on sending.
Live(c) == (client[c].socket = "new" \/ isConnected(c)) /\ ~client[c].quitting

(***************************************************************************)
(* A connection waits or is accepted, once; the server counts each one it  *)
(* accepts.                                                                *)
(***************************************************************************)
ConnectionsSound ==
  /\ \A i, j \in DOMAIN m_connectionQueue :
       m_connectionQueue[i] = m_connectionQueue[j] => i = j
  /\ \A i, j \in DOMAIN m_clients : m_clients[i].conn = m_clients[j].conn => i = j
  /\ \A c \in Range(m_connectionQueue) :
       serial[c] = 0 /\ client[c].socket # "new"
  /\ \A c \in Accepted : serial[c] # 0
  /\ \A c \in Conn : client[c].socket = "new" => serial[c] = 0
  /\ \A c, d \in Conn : serial[c] = serial[d] /\ serial[c] # 0 => c = d

(***************************************************************************)
(* As long as the counter has not gone round, the n-th connection has the  *)
(* id n - 1, on the server, at the client and in the packages between.     *)
(***************************************************************************)
ServerIdsSound ==
  /\ accepted < ClientIds => m_nextClientId = accepted
  /\ \A i \in DOMAIN m_clients : m_clients[i].id = serial[m_clients[i].conn] - 1

ClientIdsSound(c) ==
  /\ client[c].id # None => serial[c] # 0 /\ client[c].id = serial[c] - 1
  /\ \A p \in Range(toClient[c]) :
       p.type = "Init" => serial[c] # 0 /\ p.id = serial[c] - 1

IdsSound ==
  accepted <= ClientIds => ServerIdsSound /\ \A c \in Conn : ClientIdsSound(c)

\* The client's events that reached the server, and those that left it.
Reached(c) == IF serial[c] = 0 THEN <<>> ELSE ReachedServer(serial[c] - 1)
Sent(c) == Reached(c) \o toServer[c]

\* What the user did last waits in the provider, numbered.
InProvider(c) ==
  \A i \in DOMAIN client[c].provider :
    \/ client[c].provider[i] = Quit
    \/ client[c].provider[i] = client[c].made - Len(client[c].provider) + i

(***************************************************************************)
(* The events that left a client are its first ones, in order; while its   *)
(* connection is up, all those that its provider holds no more.            *)
(***************************************************************************)
EventsSound(c) ==
  /\ serial[c] = 0 => toServer[c] = <<>>
  /\ \A e \in Range(toServer[c]) : e.client = serial[c] - 1
  /\ \A k \in DOMAIN Sent(c) : Sent(c)[k].event = k
  /\ Len(Sent(c)) + Len(client[c].provider) <= client[c].made
  /\ Live(c) => Len(Sent(c)) + Len(client[c].provider) = client[c].made
  /\ InProvider(c)

AllEventsSound ==
  accepted <= ClientIds =>
    /\ \A e \in Range(handled \o m_eventQueue) : e.client < accepted
    /\ \A c \in Conn : EventsSound(c)

-----------------------------------------------------------------------------
(* What a step does *)

\* To a connection's client, as far as its user and its id go.
LEMMA ClientEffect ==
  ASSUME ClientTypeOK, [Next]_vars, NEW c \in Conn
  PROVE  LET old == client[c]
             new == client'[c]
         IN \/ /\ new.socket = old.socket /\ new.id = old.id
               /\ new.provider = old.provider /\ new.made = old.made
               /\ new.quitting = old.quitting
            \/ /\ connect(c)
               /\ old.socket = "new" /\ new.socket = "open" /\ new.id = old.id
               /\ new.provider = old.provider /\ new.made = old.made
               /\ new.quitting = old.quitting
            \/ /\ userEvent(c)
               /\ old.socket = "open" /\ new.socket = "open" /\ new.id = old.id
               /\ new.made = old.made + 1
               /\ \E event \in {old.made + 1, Quit} :
                    new.provider = Append(old.provider, event)
               /\ new.quitting = old.quitting
            \/ /\ clientSend(c)
               /\ new.socket = old.socket /\ new.id = old.id
               /\ new.provider = Tail(old.provider) /\ new.made = old.made
               /\ \/ Head(old.provider) = Quit /\ new.quitting
                  \/ Head(old.provider) # Quit /\ new.quitting = old.quitting
            \/ /\ clientPull(c)
               /\ Head(toClient[c]).type = "Init" /\ new.id = Head(toClient[c]).id
               /\ new.socket = old.socket
               /\ new.provider = old.provider /\ new.made = old.made
               /\ new.quitting = old.quitting
            \/ /\ clientNotices(c)
               /\ new.socket = "null" /\ new.id = old.id
               /\ new.provider = old.provider /\ new.made = old.made
               /\ new.quitting = old.quitting
            \/ /\ clientClose(c)
               /\ new.socket = "null" /\ new.id = old.id
               /\ new.provider = <<>> /\ new.made = old.made
               /\ new.quitting = old.quitting
<1>1. client \in [Conn -> ClientState] /\ client[c] \in ClientState
  BY DEF ClientTypeOK
<1>2. CASE client'[c] = client[c]
  BY <1>2
<1>3. ASSUME NEW d \in Conn, d # c,
             connect(d) \/ userEvent(d) \/ clientSync(d) \/ clientLoop(d) \/ clientClose(d)
      PROVE  client'[c] = client[c]
  BY <1>1, <1>3 DEF connect, userEvent, clientSync, clientSend, clientPull,
     clientNotices, clientLoop, clientClose, pulledFromProvider, processInit,
     processAddEntity, processRemoveEntity, processSyncEntity
<1>4. CASE connect(c)
  BY <1>1, <1>4 DEF connect, ClientState
<1>5. CASE userEvent(c)
  BY <1>1, <1>5 DEF userEvent, ClientState
<1>6. CASE clientSend(c)
  <2>1. \/ /\ Head(client[c].provider) = Quit
           /\ client' = [client EXCEPT ![c].provider = Tail(@), ![c].quitting = TRUE]
        \/ /\ Head(client[c].provider) # Quit
           /\ client' = [client EXCEPT ![c].provider = Tail(@)]
    BY <1>1, <1>6 DEF clientSend, pulledFromProvider
  <2> QED
    BY <1>1, <1>6, <2>1 DEF ClientState
<1>7. CASE clientNotices(c)
  BY <1>1, <1>7 DEF clientNotices, ClientState
<1>8. CASE clientClose(c)
  BY <1>1, <1>8 DEF clientClose, ClientState
<1>9. CASE clientLoop(c)
  BY <1>1, <1>9 DEF clientLoop, ClientState
<1>10. CASE clientPull(c)
  <2> DEFINE p == Head(toClient[c])
  <2>1. CASE p.type = "Init" /\ processInit(c, p)
    BY <1>1, <1>10, <2>1 DEF processInit, ClientState
  <2>2. CASE processAddEntity(c, p) \/ processRemoveEntity(c, p) \/ processSyncEntity(c, p)
    BY <1>1, <2>2 DEF processAddEntity, processRemoveEntity, processSyncEntity, ClientState
  <2> QED
    BY <1>10, <2>1, <2>2 DEF clientPull
<1>11. CASE UNCHANGED client
  BY <1>2, <1>11
<1>12. UNCHANGED client \/ \E d \in Conn : connect(d) \/ userEvent(d)
                            \/ clientSync(d) \/ clientLoop(d) \/ clientClose(d)
  BY DEF vars, Next, addEntity, assign, destroyEntity, pullEvent, serverStop, sync,
     startSync, refreshOne, acceptOne, acceptedAll, broadcastAdd, broadcastRemove,
     broadcastValue, sentAll, receiveOne, endSync
<1>13. PICK d \in Conn : UNCHANGED client \/ connect(d) \/ userEvent(d)
                            \/ clientSync(d) \/ clientLoop(d) \/ clientClose(d)
  BY <1>12
<1>14. CASE d = c /\ (connect(c) \/ userEvent(c) \/ clientSync(c) \/ clientLoop(c)
                       \/ clientClose(c))
  BY <1>4, <1>5, <1>6, <1>7, <1>8, <1>9, <1>10, <1>14 DEF clientSync
<1> QED
  BY <1>2, <1>3, <1>11, <1>13, <1>14

\* To the connections the server knows of.
LEMMA ServerEffect ==
  ASSUME [Next]_vars
  PROVE  \/ UNCHANGED <<m_connectionQueue, m_clients, m_nextClientId, accepted, serial>>
         \/ \E c \in Conn : connect(c)
         \/ \E i \in DOMAIN m_clients :
              /\ m_clients' = RemoveAt(m_clients, i)
              /\ UNCHANGED <<m_connectionQueue, m_nextClientId, accepted, serial>>
         \/ acceptOne
         \/ serverStop
  BY ZenonT(30) DEF vars, acceptVars, historyVars, Next, addEntity, assign, destroyEntity,
     pullEvent, sync, startSync, refreshOne, acceptedAll, broadcastAdd,
     broadcastRemove, broadcastValue, sentAll, receiveOne, endSync, clientSync,
     userEvent, clientSend, clientPull, clientNotices, clientLoop, clientClose

-----------------------------------------------------------------------------
(* Connections *)

\* No client goes back to a connection it has not made.
LEMMA MadeStaysMade ==
  ASSUME ClientTypeOK, [Next]_vars, NEW c \in Conn
  PROVE  /\ client'[c].socket = "new" => client[c].socket = "new"
         /\ client[c].socket = "new" => client'[c].socket = "new" \/ connect(c)
  BY ClientEffect DEF userEvent, clientSend, clientPull, isConnected, clientNotices,
     clientClose

LEMMA AcceptedByPlace ==
  /\ Accepted = {k.conn : k \in Range(m_clients)}
  /\ Accepted' = {k.conn : k \in Range(m_clients')}
  BY DEF Accepted, Range

\* A connection that is accepted was waiting before.
LEMMA AcceptMoves ==
  ASSUME TypeOK, acceptOne
  PROVE  Accepted' \cup Range(m_connectionQueue') = Accepted \cup Range(m_connectionQueue)
<1> DEFINE K == [id : 0 .. ClientIds - 1, conn : Conn]
           c == Head(m_connectionQueue)
           k == [id |-> m_nextClientId, conn |-> c]
<1>1. m_clients \in Seq(K) /\ m_connectionQueue \in Seq(Conn)
  BY DEF TypeOK, ServerTypeOK
<1>2. /\ m_connectionQueue # <<>> /\ m_connectionQueue' = Tail(m_connectionQueue)
      /\ m_clients' = Append(m_clients, k)
  BY DEF acceptOne
<1>3. c \in Conn /\ Range(m_connectionQueue) = Range(m_connectionQueue') \cup {c}
  BY <1>1, <1>2, HeadAndTail, RangeTail
<1>4. k \in K /\ k.conn = c
  BY <1>3 DEF TypeOK, ServerTypeOK
<1> HIDE DEF K, k, c
<1>5. Range(m_clients') = Range(m_clients) \cup {k}
  BY <1>1, <1>2, <1>4, RangeAppend
<1>6. Accepted' = Accepted \cup {c}
  BY <1>4, <1>5, AcceptedByPlace
<1> QED
  BY <1>3, <1>6

LEMMA ConnectionsStep ==
  ASSUME TypeOK, ConnectionsSound, [Next]_vars
  PROVE  ConnectionsSound'
<1> USE DEF TypeOK
<1> DEFINE K == [id : 0 .. ClientIds - 1, conn : Conn]
<1>1. /\ m_connectionQueue \in Seq(Conn) /\ m_clients \in Seq(K)
      /\ Range(m_connectionQueue) \subseteq Conn
      /\ serial \in [Conn -> 0 .. accepted] /\ accepted \in Nat
      /\ \A k \in Range(m_clients) : k \in K
  BY RangeOfSeq DEF ServerTypeOK, HistoryTypeOK
<1>2. Accepted \subseteq Conn /\ Accepted = {k.conn : k \in Range(m_clients)}
      /\ Accepted' = {k.conn : k \in Range(m_clients')}
  <2>1. Accepted = {k.conn : k \in Range(m_clients)}
        /\ Accepted' = {k.conn : k \in Range(m_clients')}
    BY DEF Accepted, Range
  <2> QED
    BY <1>1, <2>1
<1>3. \A c \in Conn : client'[c].socket = "new" => client[c].socket = "new"
  BY MadeStaysMade
<1>4. CASE UNCHANGED <<m_connectionQueue, m_clients, m_nextClientId, accepted, serial>>
  BY <1>1, <1>3, <1>4 DEF ConnectionsSound, Accepted
<1>5. ASSUME NEW c \in Conn, connect(c)
      PROVE  ConnectionsSound'
  <2>1. /\ client[c].socket = "new" /\ serial[c] = 0
        /\ m_connectionQueue' = Append(m_connectionQueue, c)
        /\ UNCHANGED <<m_clients, accepted, serial>>
    BY <1>5 DEF connect, ConnectionsSound, historyVars
  <2>2. client'[c].socket # "new"
    BY <1>5 DEF connect, ClientTypeOK, ClientState
  <2>3. c \notin Range(m_connectionQueue)
    BY <2>1 DEF ConnectionsSound
  <2>4. /\ Range(m_connectionQueue') = Range(m_connectionQueue) \cup {c}
        /\ \A i, j \in DOMAIN m_connectionQueue' :
             m_connectionQueue'[i] = m_connectionQueue'[j] => i = j
    <3>1. \A i, j \in DOMAIN m_connectionQueue :
            m_connectionQueue[i] = m_connectionQueue[j] => i = j
      BY DEF ConnectionsSound
    <3>2. Range(m_connectionQueue') = Range(m_connectionQueue) \cup {c}
      BY <1>1, <2>1, RangeAppend
    <3>3. \A i, j \in DOMAIN Append(m_connectionQueue, c) :
            Append(m_connectionQueue, c)[i] = Append(m_connectionQueue, c)[j] => i = j
      BY <1>1, <2>3, <3>1, DistinctAfterAppend
    <3> QED
      BY <2>1, <3>2, <3>3
  <2>5. Accepted' = Accepted
    BY <1>2, <2>1
  <2>6. \A d \in Range(m_connectionQueue') : serial'[d] = 0 /\ client'[d].socket # "new"
    BY <1>1, <1>3, <2>1, <2>2, <2>4 DEF ConnectionsSound
  <2> QED
    BY <1>3, <2>1, <2>4, <2>5, <2>6 DEF ConnectionsSound
<1>6. ASSUME NEW i \in DOMAIN m_clients, m_clients' = RemoveAt(m_clients, i),
             UNCHANGED <<m_connectionQueue, m_nextClientId, accepted, serial>>
      PROVE  ConnectionsSound'
  <2>1. Range(m_clients') \subseteq Range(m_clients)
    BY <1>1, <1>6, RangeRemoveAt
  <2>2. Accepted' \subseteq Accepted
    BY <1>2, <2>1
  <2>3. \A j, k \in DOMAIN m_clients' : m_clients'[j].conn = m_clients'[k].conn => j = k
    <3>1. /\ DOMAIN m_clients = 1 .. Len(m_clients) /\ Len(m_clients) \in Nat \ {0}
          /\ i \in 1 .. Len(m_clients)
          /\ DOMAIN m_clients' = 1 .. Len(m_clients) - 1
          /\ \A k \in 1 .. Len(m_clients) - 1 :
               m_clients'[k] = IF k < i THEN m_clients[k] ELSE m_clients[k + 1]
      BY <1>1, <1>6, RemovedDomain
    <3> DEFINE n == Len(m_clients)
               at(k) == IF k < i THEN k ELSE k + 1
    <3>2. n \in Nat \ {0} /\ i \in 1 .. n
      BY <3>1
    <3> HIDE DEF n
    <3>3. \A k \in 1 .. n - 1 : at(k) \in 1 .. n
      BY <3>2
    <3>4. \A j, k \in 1 .. n - 1 : at(j) = at(k) => j = k
      BY <3>2
    <3>5. \A k \in 1 .. n - 1 : m_clients'[k] = m_clients[at(k)]
      BY <3>1 DEF n
    <3> HIDE DEF at
    <3>6. DOMAIN m_clients = 1 .. n /\ DOMAIN m_clients' = 1 .. n - 1
      BY <3>1 DEF n
    <3> QED
      BY <3>3, <3>4, <3>5, <3>6 DEF ConnectionsSound
  <2> QED
    BY <1>1, <1>3, <1>6, <2>2, <2>3 DEF ConnectionsSound
<1>7. CASE acceptOne
  <2> DEFINE c == Head(m_connectionQueue)
             k == [id |-> m_nextClientId, conn |-> c]
  <2>1. /\ m_connectionQueue # <<>> /\ m_connectionQueue' = Tail(m_connectionQueue)
        /\ m_clients' = Append(m_clients, k)
        /\ serial' = [serial EXCEPT ![c] = accepted + 1] /\ accepted' = accepted + 1
        /\ UNCHANGED client
    BY <1>7 DEF acceptOne
  <2>2. /\ c \in Conn /\ c \in Range(m_connectionQueue) /\ k \in K
        /\ Range(m_connectionQueue) = Range(m_connectionQueue') \cup {c}
    <3>1. c \in Conn
      BY <1>1, <2>1, HeadAndTail
    <3> QED
      BY <1>1, <2>1, <3>1, RangeTail DEF ServerTypeOK
  <2> HIDE DEF c
  <2>3. k.conn = c
    OBVIOUS
  <2> HIDE DEF k, K
  <2>4. Accepted' = Accepted \cup {c}
    BY <1>1, <1>2, <2>1, <2>2, <2>3, RangeAppend
  <2>5. c \notin Accepted /\ serial[c] = 0 /\ client[c].socket # "new"
    BY <2>2 DEF ConnectionsSound
  <2>6. c \notin Range(m_connectionQueue')
        /\ \A i, j \in DOMAIN m_connectionQueue' :
             m_connectionQueue'[i] = m_connectionQueue'[j] => i = j
    <3> DEFINE q == m_connectionQueue
               r == m_connectionQueue'
    <3>1. /\ DOMAIN q = 1 .. Len(q) /\ Len(q) \in Nat \ {0}
          /\ DOMAIN r = 1 .. Len(q) - 1
          /\ \A i \in 1 .. Len(q) - 1 : r[i] = q[i + 1]
          /\ q[1] = c
      BY <1>1, <2>1, HeadTailProperties, LenProperties, EmptySeq DEF c
    <3>2. \A i, j \in DOMAIN q : q[i] = q[j] => i = j
      BY DEF ConnectionsSound
    <3> HIDE DEF q, r
    <3>3. \A i, j \in DOMAIN r : r[i] = r[j] => i = j
      <4> DEFINE n == Len(q)
      <4>1. \A i \in 1 .. n - 1 : i + 1 \in DOMAIN q /\ r[i] = q[i + 1]
        BY <3>1
      <4>2. DOMAIN r = 1 .. n - 1
        BY <3>1
      <4> HIDE DEF n
      <4> QED
        BY <3>2, <4>1, <4>2
    <3>4. \A i \in DOMAIN r : r[i] # c
      BY <3>1, <3>2
    <3> QED
      BY <3>3, <3>4 DEF r, Range
  <2>7. \A i, j \in DOMAIN m_clients' : m_clients'[i].conn = m_clients'[j].conn => i = j
    <3>1. /\ DOMAIN m_clients = 1 .. Len(m_clients) /\ Len(m_clients) \in Nat
          /\ DOMAIN m_clients' = 1 .. Len(m_clients) + 1
          /\ \A i \in 1 .. Len(m_clients) : m_clients'[i] = m_clients[i]
          /\ m_clients'[Len(m_clients) + 1] = k
      BY <1>1, <2>1, <2>2, AppendProperties, LenProperties
    <3>2. \A i \in DOMAIN m_clients : m_clients[i].conn # c
      BY <2>5 DEF Accepted
    <3>3. \A i, j \in DOMAIN m_clients : m_clients[i].conn = m_clients[j].conn => i = j
      BY DEF ConnectionsSound
    <3> DEFINE n == Len(m_clients)
    <3> HIDE DEF n
    <3> QED
      BY <2>3, <3>1, <3>2, <3>3 DEF n
  <2>8. /\ serial'[c] = accepted + 1
        /\ \A d \in Conn \ {c} : serial'[d] = serial[d] /\ serial[d] <= accepted
    BY <1>1, <2>1, <2>2
  <2>9. \A d, e \in Conn : serial'[d] = serial'[e] /\ serial'[d] # 0 => d = e
    <3>1. \A d, e \in Conn : serial[d] = serial[e] /\ serial[d] # 0 => d = e
      BY DEF ConnectionsSound
    <3> QED
      BY <1>1, <2>8, <3>1
  <2>10. \A d \in Accepted' : serial'[d] # 0
    <3>1. \A d \in Accepted : serial[d] # 0 /\ d \in Conn \ {c}
      BY <1>2, <2>5 DEF ConnectionsSound
    <3>2. serial'[c] # 0
      BY <1>1, <2>8
    <3> QED
      BY <2>4, <2>8, <3>1, <3>2
  <2>11. \A d \in Range(m_connectionQueue') : serial'[d] = 0 /\ client'[d].socket # "new"
    BY <1>1, <2>1, <2>2, <2>6, <2>8 DEF ConnectionsSound
  <2>12. \A d \in Conn : client'[d].socket = "new" => serial'[d] = 0
    BY <2>1, <2>5, <2>8 DEF ConnectionsSound
  <2> QED
    BY <2>6, <2>7, <2>9, <2>10, <2>11, <2>12 DEF ConnectionsSound
<1>8. CASE serverStop
  <2>1. m_clients' = <<>> /\ UNCHANGED <<m_connectionQueue, serial, client>>
    BY <1>8 DEF serverStop, historyVars
  <2>2. DOMAIN m_clients' = {}
    BY <2>1
  <2>3. Accepted' = {}
    BY <2>2 DEF Accepted
  <2> QED
    BY <2>1, <2>2, <2>3 DEF ConnectionsSound
<1> QED
  BY <1>4, <1>5, <1>6, <1>7, <1>8, ServerEffect

-----------------------------------------------------------------------------
(* Ids *)

\* What a step does to the packages under way to a client.
LEMMA ToClientEffect ==
  ASSUME TypeOK, [Next]_vars, NEW c \in Conn
  PROVE  \/ toClient'[c] = toClient[c] \/ toClient'[c] = <<>>
         \/ /\ clientPull(c) /\ toClient[c] # <<>>
            /\ toClient'[c] = Tail(toClient[c])
         \/ \E p \in Package : /\ p.type # "Init"
                               /\ toClient'[c] = Append(toClient[c], p)
         \/ /\ acceptOne /\ c = Head(m_connectionQueue)
            /\ toClient'[c] = Hello
<1> USE DEF TypeOK
<1>1. toClient \in [Conn -> Seq(Package)]
  BY DEF ClientTypeOK
<1>2. CASE UNCHANGED toClient
  BY <1>2
<1>3. ASSUME NEW p \in Package, Broadcast(p), p.type # "Init"
      PROVE  \/ toClient'[c] = toClient[c]
             \/ \E q \in Package : /\ q.type # "Init"
                                   /\ toClient'[c] = Append(toClient[c], q)
  BY <1>3 DEF Broadcast
<1>4. CASE broadcastAdd
  <2> DEFINE e == Head(m_entityAddEventQueue)
  <2>1. e \in EntityId
    BY <1>4, HeadAndTail DEF broadcastAdd, ServerTypeOK
  <2>2. AddEntity(e) \in Package /\ AddEntity(e).type # "Init"
    BY <2>1 DEF AddEntity, Package
  <2>3. Broadcast(AddEntity(e)) \/ UNCHANGED toClient
    BY <1>4 DEF broadcastAdd
  <2> HIDE DEF e
  <2> QED
    BY <1>2, <1>3, <2>2, <2>3
<1>5. CASE broadcastRemove
  <2> DEFINE e == Head(m_entityRemoveEventQueue)
  <2>1. e \in EntityId
    BY <1>5, HeadAndTail DEF broadcastRemove, ServerTypeOK
  <2>2. RemoveEntity(e) \in Package /\ RemoveEntity(e).type # "Init"
    BY <2>1 DEF RemoveEntity, Package
  <2>3. Broadcast(RemoveEntity(e))
    BY <1>5 DEF broadcastRemove
  <2> HIDE DEF e
  <2> QED
    BY <1>3, <2>2, <2>3
<1>6. ASSUME NEW i \in DOMAIN entities, broadcastValue(i)
      PROVE  \/ toClient'[c] = toClient[c]
             \/ \E q \in Package : /\ q.type # "Init"
                                   /\ toClient'[c] = Append(toClient[c], q)
  <2> DEFINE e == entities[i]
  <2>1. e \in EntityId
    BY ElementOfSeq, LenProperties DEF ServerTypeOK
  <2>2. SyncEntity(e) \in Package /\ SyncEntity(e).type # "Init"
    BY <2>1 DEF SyncEntity, Package, ServerTypeOK
  <2>3. Broadcast(SyncEntity(e))
    BY <1>6 DEF broadcastValue
  <2> HIDE DEF e
  <2> QED
    BY <1>3, <2>2, <2>3
<1>7. CASE acceptOne
  <2> DEFINE d == Head(m_connectionQueue)
  <2>1. d \in Conn
    BY <1>7, HeadAndTail DEF acceptOne, ServerTypeOK
  <2>2. toClient' = [toClient EXCEPT ![d] = IF isConnected(d) THEN Hello ELSE @]
    BY <1>7 DEF acceptOne
  <2> HIDE DEF d
  <2>3. CASE c = d
    <3>1. toClient'[c] = IF isConnected(d) THEN Hello ELSE toClient[c]
      BY <1>1, <2>1, <2>2, <2>3
    <3> QED
      BY <1>7, <2>3, <3>1 DEF d
  <2> QED
    BY <1>1, <2>1, <2>2, <2>3
<1>8. CASE serverStop
  BY <1>1, <1>8 DEF serverStop
<1>9. ASSUME NEW d \in Conn, clientPull(d)
      PROVE  \/ toClient'[c] = toClient[c]
             \/ /\ clientPull(c) /\ toClient[c] # <<>>
                /\ toClient'[c] = Tail(toClient[c])
  <2>1. CASE c = d
    BY <1>1, <1>9, <2>1 DEF clientPull
  <2> QED
    BY <1>1, <1>9, <2>1 DEF clientPull
<1>10. ASSUME NEW d \in Conn, clientClose(d)
       PROVE  toClient'[c] = toClient[c] \/ toClient'[c] = <<>>
  BY <1>1, <1>10 DEF clientClose
<1>11. \/ UNCHANGED toClient \/ broadcastAdd \/ broadcastRemove
       \/ \E i \in DOMAIN entities : broadcastValue(i)
       \/ acceptOne \/ serverStop
       \/ \E d \in Conn : clientPull(d) \/ clientClose(d)
  BY DEF vars, Next, addEntity, assign, destroyEntity, pullEvent, sync, startSync,
     refreshOne, acceptedAll, sentAll, receiveOne, endSync, connect, userEvent,
     clientSync, clientSend, clientNotices, clientLoop
<1> QED
  BY <1>2, <1>4, <1>5, <1>6, <1>7, <1>8, <1>9, <1>10, <1>11

\* What is accepted is counted, and stays accepted under its number.
LEMMA SerialEffect ==
  ASSUME TypeOK, ConnectionsSound, [Next]_vars
  PROVE  /\ accepted' \in Nat /\ accepted <= accepted'
         /\ \A c \in Conn : serial[c] # 0 => serial'[c] = serial[c]
         /\ UNCHANGED <<accepted, serial>> \/ acceptOne
<1>1. serial \in [Conn -> 0 .. accepted] /\ accepted \in Nat
  BY DEF TypeOK, HistoryTypeOK
<1>2. UNCHANGED <<accepted, serial>> \/ acceptOne
  BY ServerEffect DEF connect, serverStop, historyVars
<1>3. ASSUME acceptOne
      PROVE  /\ accepted' \in Nat /\ accepted <= accepted'
             /\ \A c \in Conn : serial[c] # 0 => serial'[c] = serial[c]
  <2> DEFINE d == Head(m_connectionQueue)
  <2>1. d \in Conn /\ d \in Range(m_connectionQueue)
    <3>1. d \in Conn
      BY <1>3, HeadAndTail DEF acceptOne, TypeOK, ServerTypeOK
    <3> QED
      BY <1>3, <3>1, RangeTail DEF acceptOne, TypeOK, ServerTypeOK
  <2>2. serial[d] = 0
    BY <2>1 DEF ConnectionsSound
  <2>3. accepted' = accepted + 1 /\ serial' = [serial EXCEPT ![d] = accepted + 1]
    BY <1>3 DEF acceptOne
  <2> QED
    BY <1>1, <2>1, <2>2, <2>3
<1> QED
  BY <1>1, <1>2, <1>3

LEMMA Modulo ==
  ASSUME NEW m \in Nat, NEW n \in 0 .. m - 1
  PROVE  n % m = n
  OBVIOUS

\* The connection accepted next, which nobody has told an id yet.
LEMMA AcceptedNext ==
  ASSUME TypeOK, ConnectionsSound, acceptOne
  PROVE  LET c == Head(m_connectionQueue)
         IN /\ c \in Conn /\ serial[c] = 0
            /\ serial' = [serial EXCEPT ![c] = accepted + 1]
            /\ accepted' = accepted + 1 /\ UNCHANGED <<client, toServer>>
            /\ m_clients' = Append(m_clients, [id |-> m_nextClientId, conn |-> c])
            /\ c \notin Accepted
<1> DEFINE c == Head(m_connectionQueue)
<1>1. c \in Conn
  BY HeadAndTail DEF acceptOne, TypeOK, ServerTypeOK
<1>2. c \in Range(m_connectionQueue)
  BY <1>1, RangeTail DEF acceptOne, TypeOK, ServerTypeOK
<1> QED
  BY <1>1, <1>2 DEF acceptOne, ConnectionsSound

LEMMA ServerIdsStep ==
  ASSUME TypeOK, ConnectionsSound, IdsSound, [Next]_vars, accepted' <= ClientIds
  PROVE  ServerIdsSound'
<1> USE DEF TypeOK
<1> DEFINE K == [id : 0 .. ClientIds - 1, conn : Conn]
<1>1. /\ m_clients \in Seq(K) /\ accepted \in Nat /\ ClientIds \in Nat \ {0}
      /\ serial \in [Conn -> 0 .. accepted] /\ m_nextClientId \in 0 .. ClientIds - 1
  BY ReplicationAssumption DEF ServerTypeOK, HistoryTypeOK
<1>2. ServerIdsSound
  BY <1>1, SerialEffect DEF IdsSound
<1>3. CASE UNCHANGED <<m_connectionQueue, m_clients, m_nextClientId, accepted, serial>>
  BY <1>2, <1>3 DEF ServerIdsSound
<1>4. CASE \E c \in Conn : connect(c)
  BY <1>2, <1>4 DEF ServerIdsSound, connect, historyVars
<1>5. ASSUME NEW i \in DOMAIN m_clients, m_clients' = RemoveAt(m_clients, i),
             UNCHANGED <<m_connectionQueue, m_nextClientId, accepted, serial>>
      PROVE  ServerIdsSound'
  <2>1. Range(m_clients') \subseteq Range(m_clients)
    BY <1>1, <1>5, RangeRemoveAt
  <2>2. \A k \in Range(m_clients) : k.id = serial[k.conn] - 1
    BY <1>2 DEF ServerIdsSound, Range
  <2>3. \A j \in DOMAIN m_clients' : m_clients'[j] \in Range(m_clients')
    BY DEF Range
  <2> QED
    BY <1>2, <1>5, <2>1, <2>2, <2>3 DEF ServerIdsSound
<1>6. CASE acceptOne
  <2> DEFINE c == Head(m_connectionQueue)
             k == [id |-> m_nextClientId, conn |-> c]
  <2>1. /\ c \in Conn /\ c \notin Accepted /\ serial[c] = 0
        /\ serial' = [serial EXCEPT ![c] = accepted + 1] /\ accepted' = accepted + 1
        /\ m_clients' = Append(m_clients, k)
    BY <1>6, AcceptedNext
  <2>2. m_nextClientId = accepted
    BY <1>1, <1>2, <2>1 DEF ServerIdsSound
  <2>3. accepted' < ClientIds => m_nextClientId' = accepted'
    <3>1. m_nextClientId' = (m_nextClientId + 1) % ClientIds
      BY <1>6 DEF acceptOne, nextId
    <3>2. accepted + 1 < ClientIds => accepted + 1 \in 0 .. ClientIds - 1
      BY <1>1
    <3> QED
      BY <1>1, <2>1, <2>2, <3>1, <3>2, Modulo
  <2>4. k \in K /\ k.conn = c /\ k.id = accepted
    BY <1>1, <2>1, <2>2
  <2> HIDE DEF c, k, K
  <2>5. serial'[c] = accepted + 1 /\ \A d \in Conn \ {c} : serial'[d] = serial[d]
    BY <1>1, <2>1
  <2>6. Range(m_clients') = Range(m_clients) \cup {k}
    BY <1>1, <2>1, <2>4, RangeAppend
  <2>7. ASSUME NEW j \in Range(m_clients)
        PROVE  j.id = serial'[j.conn] - 1
    <3>1. j.id = serial[j.conn] - 1 /\ j.conn \in Accepted
      BY <1>2 DEF ServerIdsSound, Range, Accepted
    <3>2. j.conn \in Conn
      <4>1. j \in K
        BY <1>1, RangeOfSeq
      <4> QED
        BY <4>1 DEF K
    <3> QED
      BY <2>1, <2>5, <3>1, <3>2
  <2>8. k.id = serial'[k.conn] - 1
    BY <1>1, <2>4, <2>5
  <2>9. \A j \in DOMAIN m_clients' : m_clients'[j] \in Range(m_clients')
    BY DEF Range
  <2> QED
    BY <2>3, <2>6, <2>7, <2>8, <2>9 DEF ServerIdsSound
<1>7. CASE serverStop
  <2>1. m_clients' = <<>> /\ UNCHANGED <<m_nextClientId, accepted>>
    BY <1>7 DEF serverStop, historyVars
  <2>2. DOMAIN m_clients' = {}
    BY <2>1
  <2> QED
    BY <1>2, <2>1, <2>2 DEF ServerIdsSound
<1> QED
  BY <1>3, <1>4, <1>5, <1>6, <1>7, ServerEffect

LEMMA ClientIdsStep ==
  ASSUME TypeOK, ConnectionsSound, IdsSound, [Next]_vars, accepted' <= ClientIds,
         NEW c \in Conn
  PROVE  ClientIdsSound(c)'
<1> DEFINE Told(p) == p.type = "Init" => serial[c] # 0 /\ p.id = serial[c] - 1
<1>1. /\ accepted \in Nat /\ ClientIds \in Nat \ {0} /\ toClient[c] \in Seq(Package)
      /\ serial \in [Conn -> 0 .. accepted] /\ ServerTypeOK
  BY ReplicationAssumption DEF TypeOK, ClientTypeOK, HistoryTypeOK
<1>2. ServerIdsSound /\ ClientIdsSound(c)
  BY <1>1, SerialEffect DEF IdsSound
<1>3. \A p \in Range(toClient[c]) : Told(p)
  BY <1>2 DEF ClientIdsSound
<1>4. serial[c] # 0 => serial'[c] = serial[c]
  BY SerialEffect
<1>5. client'[c].id # None => serial'[c] # 0 /\ client'[c].id = serial'[c] - 1
  <2>1. CASE client'[c].id = client[c].id
    BY <1>2, <1>4, <2>1 DEF ClientIdsSound
  <2>2. CASE client'[c].id # client[c].id
    <3>1. /\ toClient[c] # <<>> /\ Head(toClient[c]).type = "Init"
          /\ client'[c].id = Head(toClient[c]).id
      BY <2>2, ClientEffect DEF TypeOK, clientPull
    <3>2. Head(toClient[c]) \in Range(toClient[c])
      BY <1>1, <3>1, RangeTail
    <3> QED
      BY <1>3, <1>4, <3>1, <3>2
  <2> QED
    BY <2>1, <2>2
<1>6. ASSUME Range(toClient'[c]) \subseteq Range(toClient[c])
      PROVE  ClientIdsSound(c)'
  BY <1>3, <1>4, <1>5, <1>6 DEF ClientIdsSound
<1>7. CASE toClient'[c] = toClient[c]
  BY <1>6, <1>7
<1>8. CASE toClient'[c] = <<>>
  <2>1. Range(toClient'[c]) = {}
    BY <1>8 DEF Range
  <2> QED
    BY <1>6, <2>1
<1>9. CASE toClient[c] # <<>> /\ toClient'[c] = Tail(toClient[c])
  BY <1>1, <1>6, <1>9, RangeTail
<1>10. ASSUME NEW p \in Package, p.type # "Init",
              toClient'[c] = Append(toClient[c], p)
       PROVE  ClientIdsSound(c)'
  <2>1. Range(toClient'[c]) = Range(toClient[c]) \cup {p}
    BY <1>1, <1>10, RangeAppend
  <2> QED
    BY <1>3, <1>4, <1>5, <1>10, <2>1 DEF ClientIdsSound
<1>11. ASSUME acceptOne, c = Head(m_connectionQueue), toClient'[c] = Hello
       PROVE  ClientIdsSound(c)'
  <2>1. serial'[c] = accepted + 1 /\ accepted' = accepted + 1
    BY <1>1, <1>11, AcceptedNext
  <2>2. m_nextClientId = accepted
    BY <1>1, <1>2, <2>1 DEF ServerIdsSound
  <2>3. ASSUME NEW i \in DOMAIN Hello, Hello[i].type = "Init"
        PROVE  Hello[i].id = accepted
    <3>1. /\ DOMAIN Hello = 1 .. Len(entities) + 1 /\ Len(entities) \in Nat
          /\ Hello[1] = [type |-> "Init", id |-> m_nextClientId]
          /\ \A k \in 1 .. Len(entities) : Hello[k + 1] = AddEntity(entities[k])
      BY <1>1, HelloPackages
    <3>2. CASE i = 1
      BY <2>2, <3>1, <3>2
    <3>3. CASE i # 1
      <4>1. i - 1 \in 1 .. Len(entities) /\ (i - 1) + 1 = i
        BY <3>1, <3>3
      <4>2. Hello[i] = AddEntity(entities[i - 1])
        BY <3>1, <4>1
      <4> QED
        BY <2>3, <4>2 DEF AddEntity
    <3> QED
      BY <3>2, <3>3
  <2>4. \A p \in Range(toClient'[c]) : p.type = "Init" => p.id = accepted
    BY <1>11, <2>3 DEF Range
  <2> QED
    BY <1>1, <1>5, <2>1, <2>4 DEF ClientIdsSound
<1> QED
  BY <1>7, <1>8, <1>9, <1>10, <1>11, ToClientEffect

IdsInv == TypeOK /\ ConnectionsSound /\ IdsSound

LEMMA IdsStep ==
  ASSUME IdsInv, [Next]_vars
  PROVE  IdsInv'
  BY TypeStep, ConnectionsStep, ServerIdsStep, ClientIdsStep DEF IdsInv, IdsSound

LEMMA IdsInit == Init => IdsInv
<1> SUFFICES ASSUME Init PROVE IdsInv
  OBVIOUS
<1>1. TypeOK
  BY TypeInit
<1>2. /\ DOMAIN m_connectionQueue = {} /\ DOMAIN m_clients = {} /\ Accepted = {}
      /\ Range(m_connectionQueue) = {} /\ \A c \in Conn : Range(toClient[c]) = {}
  BY DEF Init, Accepted, Range
<1>3. ConnectionsSound
  BY <1>2 DEF Init, ConnectionsSound
<1>4. IdsSound
  BY <1>2 DEF Init, IdsSound, ServerIdsSound, ClientIdsSound
<1> QED
  BY <1>1, <1>3, <1>4 DEF IdsInv

(***************************************************************************)
(* The server and a client agree on who the client is, for any number of   *)
(* ids and connections, as long as the counter has not gone round.         *)
(***************************************************************************)
THEOREM IdsAlwaysAgree == Spec => []IdsAgree
<1>1. IdsInv /\ [Next]_vars => IdsInv'
  BY IdsStep
<1>2. IdsInv => IdsAgree
  <2> SUFFICES ASSUME IdsInv, accepted <= ClientIds,
                      NEW i \in DOMAIN m_clients, NEW j \in DOMAIN m_clients
               PROVE  /\ m_clients[i].id = m_clients[j].id => i = j
                      /\ client[m_clients[i].conn].id \in {None, m_clients[i].id}
    BY DEF IdsAgree
  <2>1. /\ m_clients[i].conn \in Conn /\ m_clients[j].conn \in Conn
        /\ m_clients[i].conn \in Accepted /\ m_clients[j].conn \in Accepted
    <3>1. /\ m_clients[i] \in [id : 0 .. ClientIds - 1, conn : Conn]
          /\ m_clients[j] \in [id : 0 .. ClientIds - 1, conn : Conn]
      BY ElementOfSeq, LenProperties DEF IdsInv, TypeOK, ServerTypeOK
    <3> QED
      BY <3>1 DEF Accepted
  <2>2. /\ m_clients[i].id = serial[m_clients[i].conn] - 1
        /\ m_clients[j].id = serial[m_clients[j].conn] - 1
        /\ client[m_clients[i].conn].id # None =>
             client[m_clients[i].conn].id = serial[m_clients[i].conn] - 1
    BY <2>1 DEF IdsInv, IdsSound, ServerIdsSound, ClientIdsSound
  <2>3. /\ serial[m_clients[i].conn] \in Nat /\ serial[m_clients[j].conn] \in Nat
        /\ serial[m_clients[i].conn] # 0
    BY <2>1 DEF IdsInv, TypeOK, HistoryTypeOK, ConnectionsSound
  <2>4. m_clients[i].id = m_clients[j].id => m_clients[i].conn = m_clients[j].conn
    BY <2>1, <2>2, <2>3 DEF IdsInv, ConnectionsSound
  <2> QED
    BY <2>2, <2>4 DEF IdsInv, ConnectionsSound
<1> QED
  BY IdsInit, <1>1, <1>2, PTL DEF Spec

-----------------------------------------------------------------------------
(* Events *)

Log == handled \o m_eventQueue

LEMMA LogType ==
  ASSUME TypeOK
  PROVE  /\ Log \in Seq(NetEvent)
         /\ \A id : /\ ReachedServer(id) \in Seq(NetEvent)
                    /\ ReachedServer(id) = Select(Log, [client : {id}, event : UserEvent \ {Quit}])
<1>1. Log \in Seq(NetEvent)
  BY ConcatProperties DEF TypeOK, ServerTypeOK, HistoryTypeOK, Log
<1>2. ASSUME NEW S PROVE Select(Log, S) \in Seq(NetEvent)
  <2>1. Select(Log, S) \in Seq(NetEvent \cap S)
    BY <1>1, SelectPicks
  <2>2. NetEvent \cap S \subseteq NetEvent
    OBVIOUS
  <2> QED
    BY <2>1, <2>2, SeqMonotonic
<1> QED
  BY <1>1, <1>2 DEF ReachedServer, Log

\* One more event on its way into the application.
LEMMA ReachedAppend ==
  ASSUME TypeOK, NEW e \in NetEvent, Log' = Append(Log, e), NEW id
  PROVE  ReachedServer(id)' = IF e.client = id THEN Append(ReachedServer(id), e)
                                               ELSE ReachedServer(id)
<1> DEFINE S == [client : {id}, event : UserEvent \ {Quit}]
<1>1. e \in S <=> e.client = id
  BY DEF NetEvent
<1> HIDE DEF S
<1>2. Select(Append(Log, e), S) = IF e \in S THEN Append(Select(Log, S), e)
                                             ELSE Select(Log, S)
  BY LogType, SelectAppend
<1>3. ReachedServer(id) = Select(Log, S) /\ ReachedServer(id)' = Select(Log', S)
  BY DEF ReachedServer, Log, S
<1> QED
  BY <1>1, <1>2, <1>3

\* Where events go in a step.
LEMMA LogEffect ==
  ASSUME TypeOK, [Next]_vars
  PROVE  \/ /\ Log' = Log
            /\ \A c \in Conn :
                 \/ toServer'[c] = toServer[c]
                 \/ /\ clientSend(c) /\ Head(client[c].provider) # Quit
                    /\ toServer'[c] = Append(toServer[c],
                         [client |-> client[c].id, event |-> Head(client[c].provider)])
                 \/ clientClose(c) /\ toServer'[c] = <<>>
                 \/ serverStop /\ c \in Accepted /\ toServer'[c] = <<>>
         \/ \E c \in Conn :
              /\ toServer[c] # <<>> /\ Log' = Append(Log, Head(toServer[c]))
              /\ toServer' = [toServer EXCEPT ![c] = Tail(@)]
              /\ UNCHANGED <<client, accepted, serial, m_clients, m_connectionQueue>>
<1>1. /\ toServer \in [Conn -> Seq(NetEvent)]
      /\ handled \in Seq(NetEvent) /\ m_eventQueue \in Seq(NetEvent)
  BY DEF TypeOK, ServerTypeOK, ClientTypeOK, HistoryTypeOK
<1>2. CASE UNCHANGED <<handled, m_eventQueue, toServer>>
  BY <1>2 DEF Log
<1>3. CASE pullEvent
  <2>1. Log' = Log /\ UNCHANGED toServer
    BY <1>1, <1>3, HeadMoves DEF pullEvent, Log
  <2> QED
    BY <2>1
<1>4. CASE serverStop
  <2>1. UNCHANGED <<handled, m_eventQueue>>
        /\ toServer' = [c \in Conn |-> IF c \in Accepted THEN <<>> ELSE toServer[c]]
    BY <1>4 DEF serverStop, historyVars
  <2> QED
    BY <1>4, <2>1 DEF Log
<1>5. CASE receiveOne
  <2> DEFINE c == m_clients[turn].conn
  <2>1. c \in Conn
    <3>1. m_clients[turn] \in [id : 0 .. ClientIds - 1, conn : Conn]
      BY <1>5, ElementOfSeq, LenProperties DEF receiveOne, TypeOK, ServerTypeOK
    <3> QED
      BY <3>1
  <2>2. UNCHANGED <<handled, client, accepted, serial, m_clients, m_connectionQueue>>
    BY <1>5 DEF receiveOne, acceptVars, historyVars
  <2>3. \/ /\ toServer[c] # <<>>
           /\ m_eventQueue' = Append(m_eventQueue, Head(toServer[c]))
           /\ toServer' = [toServer EXCEPT ![c] = Tail(@)]
        \/ UNCHANGED <<m_eventQueue, toServer>>
    BY <1>5 DEF receiveOne
  <2> HIDE DEF c
  <2>4. ASSUME toServer[c] # <<>>, m_eventQueue' = Append(m_eventQueue, Head(toServer[c]))
        PROVE  Log' = Append(Log, Head(toServer[c]))
    <3>1. Head(toServer[c]) \in NetEvent
      BY <1>1, <2>1, <2>4, HeadAndTail
    <3> QED
      BY <1>1, <2>2, <2>4, <3>1, AppendBehind DEF Log
  <2> QED
    BY <1>2, <2>1, <2>2, <2>3, <2>4
<1>6. ASSUME NEW d \in Conn, clientSend(d)
      PROVE  /\ Log' = Log
             /\ \A c \in Conn :
                  \/ toServer'[c] = toServer[c]
                  \/ /\ clientSend(c) /\ Head(client[c].provider) # Quit
                     /\ toServer'[c] = Append(toServer[c],
                         [client |-> client[c].id, event |-> Head(client[c].provider)])
  <2>1. UNCHANGED <<handled, m_eventQueue>>
    BY <1>6 DEF clientSend, historyVars
  <2>2. \/ UNCHANGED toServer
        \/ /\ Head(client[d].provider) # Quit
           /\ toServer' = [toServer EXCEPT ![d] = Append(@,
                [client |-> client[d].id, event |-> Head(client[d].provider)])]
    BY <1>6 DEF clientSend
  <2>3. ASSUME NEW c \in Conn
        PROVE  \/ toServer'[c] = toServer[c]
               \/ /\ clientSend(c) /\ Head(client[c].provider) # Quit
                  /\ toServer'[c] = Append(toServer[c],
                       [client |-> client[c].id, event |-> Head(client[c].provider)])
    <3>1. CASE c = d
      BY <1>1, <1>6, <2>2, <3>1
    <3>2. CASE c # d
      BY <1>1, <2>2, <3>2
    <3> QED
      BY <3>1, <3>2
  <2> QED
    BY <2>1, <2>3 DEF Log
<1>7. ASSUME NEW d \in Conn, clientClose(d)
      PROVE  /\ Log' = Log
             /\ \A c \in Conn : \/ toServer'[c] = toServer[c]
                                \/ clientClose(c) /\ toServer'[c] = <<>>
  <2>1. UNCHANGED <<handled, m_eventQueue>> /\ toServer' = [toServer EXCEPT ![d] = <<>>]
    BY <1>7 DEF clientClose, historyVars
  <2> QED
    BY <1>1, <1>7, <2>1 DEF Log
<1>8. \/ UNCHANGED <<handled, m_eventQueue, toServer>>
      \/ pullEvent \/ serverStop \/ receiveOne
      \/ \E d \in Conn : clientSend(d) \/ clientClose(d)
  BY DEF vars, historyVars, Next, addEntity, assign, destroyEntity, sync, startSync,
     refreshOne, acceptOne, acceptedAll, broadcastAdd, broadcastRemove,
     broadcastValue, sentAll, endSync, connect, userEvent, clientSync, clientPull,
     clientNotices, clientLoop
<1> QED
  BY <1>2, <1>3, <1>4, <1>5, <1>6, <1>7, <1>8

\* No connection comes back.
LEMMA LiveEffect ==
  ASSUME TypeOK, [Next]_vars, NEW c \in Conn, Live(c)'
  PROVE  Live(c)
<1>1. client[c].quitting => client'[c].quitting
  BY ClientEffect DEF TypeOK
<1>2. client'[c].socket = "new" => client[c].socket = "new"
  BY MadeStaysMade DEF TypeOK
<1>3. ASSUME isConnected(c)', client[c].socket # "new"
      PROVE  isConnected(c)
  <2>1. client[c].socket = "open"
    BY <1>3, ClientEffect DEF TypeOK, isConnected
  <2>2. Accepted' \cup Range(m_connectionQueue') \subseteq
          Accepted \cup Range(m_connectionQueue) \/ connect(c)
        \/ \E d \in Conn \ {c} : connect(d)
    <3>1. CASE UNCHANGED <<m_connectionQueue, m_clients, m_nextClientId, accepted, serial>>
      BY <3>1 DEF Accepted
    <3>2. ASSUME NEW i \in DOMAIN m_clients, m_clients' = RemoveAt(m_clients, i),
                 UNCHANGED m_connectionQueue
          PROVE  Accepted' \cup Range(m_connectionQueue') \subseteq
                   Accepted \cup Range(m_connectionQueue)
      <4>1. Range(m_clients') \subseteq Range(m_clients)
        BY <3>2, RangeRemoveAt DEF TypeOK, ServerTypeOK
      <4> QED
        BY <3>2, <4>1, AcceptedByPlace
    <3>3. CASE acceptOne
      BY <3>3, AcceptMoves
    <3>4. CASE serverStop
      <4>1. m_clients' = <<>> /\ UNCHANGED m_connectionQueue
        BY <3>4 DEF serverStop
      <4>2. Accepted' = {}
        BY <4>1 DEF Accepted
      <4> QED
        BY <4>1, <4>2
    <3> QED
      BY <3>1, <3>2, <3>3, <3>4, ServerEffect
  <2>3. ~connect(c)
    BY <1>3 DEF connect
  <2>4. ASSUME NEW d \in Conn \ {c}, connect(d)
        PROVE  isConnected(c)
    <3>1. Range(m_connectionQueue') = Range(m_connectionQueue) \cup {d} /\ Accepted' = Accepted
      BY <2>4, RangeAppend DEF connect, Accepted, TypeOK, ServerTypeOK
    <3> QED
      BY <1>3, <2>1, <3>1 DEF isConnected
  <2> QED
    BY <1>3, <2>1, <2>2, <2>3, <2>4 DEF isConnected
<1> QED
  BY <1>1, <1>2, <1>3 DEF Live

LEMMA SentType ==
  ASSUME TypeOK, NEW c \in Conn
  PROVE  /\ toServer[c] \in Seq(NetEvent) /\ Reached(c) \in Seq(NetEvent)
         /\ Sent(c) \in Seq(NetEvent)
         /\ Len(Reached(c)) \in Nat /\ Len(Sent(c)) \in Nat
         /\ Len(Reached(c)) <= Len(Sent(c))
         /\ \A k \in 1 .. Len(Reached(c)) : Sent(c)[k] = Reached(c)[k]
<1>1. toServer[c] \in Seq(NetEvent)
  BY ClientFields DEF TypeOK
<1>2. Reached(c) \in Seq(NetEvent)
  <2>1. ReachedServer(serial[c] - 1) \in Seq(NetEvent)
    BY LogType
  <2>2. <<>> \in Seq(NetEvent)
    OBVIOUS
  <2> QED
    BY <2>1, <2>2 DEF Reached
<1>3. Sent(c) = Reached(c) \o toServer[c]
  BY DEF Sent
<1> DEFINE r == Reached(c)
           t == toServer[c]
<1> HIDE DEF r, t
<1>4. /\ r \o t \in Seq(NetEvent) /\ Len(r \o t) = Len(r) + Len(t)
      /\ Len(r) \in Nat /\ Len(t) \in Nat
      /\ \A k \in 1 .. Len(r) + Len(t) : (r \o t)[k] = IF k <= Len(r) THEN r[k] ELSE t[k - Len(r)]
  BY <1>1, <1>2, ConcatProperties, LenProperties DEF r, t
<1>5. \A k \in 1 .. Len(r) : (r \o t)[k] = r[k]
  BY <1>4
<1> QED
  BY <1>1, <1>2, <1>3, <1>4, <1>5 DEF r, t

\* What a step makes of the events that left a client.
LEMMA SentEffect ==
  ASSUME TypeOK, ConnectionsSound, IdsSound, AllEventsSound, [Next]_vars,
         accepted' <= ClientIds, NEW c \in Conn
  PROVE  \/ /\ ~(clientSend(c) /\ Head(client[c].provider) # Quit)
            /\ Sent(c)' = Sent(c)
         \/ /\ ~(clientSend(c) /\ Head(client[c].provider) # Quit)
            /\ Sent(c)' = Reached(c) /\ ~Live(c)'
         \/ /\ clientSend(c) /\ Head(client[c].provider) # Quit
            /\ Sent(c)' = Append(Sent(c),
                 [client |-> client[c].id, event |-> Head(client[c].provider)])
<1>1. /\ accepted <= ClientIds /\ accepted \in Nat /\ ClientIds \in Nat
      /\ \A d \in Conn : serial[d] \in 0 .. accepted
  BY SerialEffect, ReplicationAssumption DEF TypeOK, HistoryTypeOK
<1>2. /\ \A d \in Conn : EventsSound(d) /\ ClientIdsSound(d)
      /\ \A e \in Range(Log) : e.client < accepted
  BY <1>1 DEF AllEventsSound, IdsSound, Log
<1>3. toServer[c] \in Seq(NetEvent) /\ Reached(c) \in Seq(NetEvent)
  BY SentType
<1>4. CASE clientSend(c) /\ Head(client[c].provider) # Quit
  <2> DEFINE e == [client |-> client[c].id, event |-> Head(client[c].provider)]
  <2>1. /\ toServer' = [toServer EXCEPT ![c] = Append(@, e)]
        /\ UNCHANGED <<handled, m_eventQueue, serial>>
    BY <1>4 DEF clientSend, historyVars
  <2>2. Reached(c)' = Reached(c)
    BY <2>1 DEF Reached, ReachedServer
  <2>3. toServer'[c] = Append(toServer[c], e)
    BY <2>1 DEF TypeOK, ClientTypeOK
  <2>4. e \in NetEvent
    <3>1. /\ client[c].id \in 0 .. ClientIds - 1
          /\ client[c].provider \in Seq(UserEvent) /\ client[c].provider # <<>>
      BY <1>4, ClientFields DEF clientSend, TypeOK
    <3>2. Head(client[c].provider) \in UserEvent
      BY <3>1, HeadAndTail
    <3> QED
      BY <1>4, <3>1, <3>2 DEF NetEvent
  <2> HIDE DEF e
  <2>5. Reached(c) \o Append(toServer[c], e) = Append(Reached(c) \o toServer[c], e)
    BY <1>3, <2>4, AppendBehind
  <2>6. Sent(c)' = Append(Sent(c), e)
    BY <2>2, <2>3, <2>5 DEF Sent
  <2> QED
    BY <1>4, <2>6 DEF e
<1>5. CASE acceptOne /\ ~(clientSend(c) /\ Head(client[c].provider) # Quit)
  <2> DEFINE d == Head(m_connectionQueue)
  <2>1. /\ d \in Conn /\ serial[d] = 0 /\ serial' = [serial EXCEPT ![d] = accepted + 1]
        /\ UNCHANGED <<handled, m_eventQueue, toServer>>
    BY <1>5, AcceptedNext DEF acceptOne
  <2> HIDE DEF d
  <2>2. Log' = Log
    BY <2>1 DEF Log
  <2>3. CASE c = d
    <3>1. serial[c] = 0 /\ serial'[c] = accepted + 1 /\ (accepted + 1) - 1 = accepted
      BY <1>1, <2>1, <2>3 DEF TypeOK, HistoryTypeOK
    <3> DEFINE S == [client : {accepted}, event : UserEvent \ {Quit}]
    <3>2. Reached(c)' = Select(Log, S)
      <4>1. serial'[c] # 0 /\ serial'[c] - 1 = accepted
        BY <1>1, <3>1
      <4>2. Reached(c)' = Select(Log', [client : {serial'[c] - 1},
                                        event : UserEvent \ {Quit}])
        BY <4>1 DEF Reached, ReachedServer, Log
      <4> QED
        BY <2>2, <4>1, <4>2
    <3>3. \A e \in Range(Log) : e \notin S
      BY <1>1, <1>2
    <3> HIDE DEF S
    <3>4. Select(Log, S) = <<>>
      <4>1. Log \in Seq(NetEvent)
        BY LogType
      <4>2. \A i \in 1 .. Len(Log) : Log[i] \in Range(Log)
        BY <4>1, LenProperties DEF Range
      <4> QED
        BY <3>3, <4>1, <4>2, SelectNothing
    <3>5. Reached(c) = <<>>
      BY <3>1 DEF Reached
    <3>6. Sent(c)' = Sent(c)
      BY <2>1, <3>2, <3>4, <3>5 DEF Sent
    <3> QED
      BY <1>5, <3>6
  <2>4. CASE c # d
    <3>1. serial'[c] = serial[c]
      BY <2>1, <2>4 DEF TypeOK, HistoryTypeOK
    <3>2. Reached(c)' = Reached(c)
      BY <2>2, <3>1 DEF Reached, ReachedServer, Log
    <3>3. Sent(c)' = Sent(c)
      BY <2>1, <3>2 DEF Sent
    <3> QED
      BY <1>5, <3>3
  <2> QED
    BY <2>3, <2>4
<1>6. CASE UNCHANGED serial /\ Log' = Log
           /\ ~(clientSend(c) /\ Head(client[c].provider) # Quit)
           /\ \/ toServer'[c] = toServer[c]
              \/ clientClose(c) /\ toServer'[c] = <<>>
              \/ serverStop /\ c \in Accepted /\ toServer'[c] = <<>>
  <2>1. Reached(c)' = Reached(c)
    BY <1>6 DEF Reached, ReachedServer, Log
  <2>2. CASE toServer'[c] = toServer[c]
    <3>1. Sent(c)' = Sent(c)
      BY <2>1, <2>2 DEF Sent
    <3> QED
      BY <1>6, <3>1
  <2>3. ASSUME toServer'[c] = <<>>
        PROVE  Sent(c)' = Reached(c)
    <3>1. Reached(c) \o <<>> = Reached(c)
      BY <1>3, ConcatEmptySeq
    <3> QED
      BY <2>1, <2>3, <3>1 DEF Sent
  <2>4. CASE clientClose(c) /\ toServer'[c] = <<>>
    <3>1. client'[c].socket = "null"
      BY <2>4 DEF clientClose, TypeOK, ClientTypeOK, ClientState
    <3>2. ~Live(c)'
      BY <3>1 DEF Live, isConnected
    <3> QED
      BY <1>6, <2>3, <2>4, <3>2
  <2>5. CASE serverStop /\ c \in Accepted /\ toServer'[c] = <<>>
    <3>1. /\ serial[c] # 0 /\ client[c].socket # "new"
          /\ c \notin Range(m_connectionQueue)
      BY <2>5 DEF ConnectionsSound
    <3>2. UNCHANGED <<client, m_connectionQueue>> /\ m_clients' = <<>>
      BY <2>5 DEF serverStop
    <3>3. Accepted' = {}
      BY <3>2 DEF Accepted
    <3>4. ~Live(c)'
      BY <3>1, <3>2, <3>3 DEF Live, isConnected
    <3> QED
      BY <1>6, <2>3, <2>5, <3>4
  <2> QED
    BY <1>6, <2>2, <2>4, <2>5
<1>7. ASSUME NEW d \in Conn, toServer[d] # <<>>, Log' = Append(Log, Head(toServer[d])),
             toServer' = [toServer EXCEPT ![d] = Tail(@)], UNCHANGED serial,
             ~(clientSend(c) /\ Head(client[c].provider) # Quit)
      PROVE  Sent(c)' = Sent(c)
  <2> DEFINE e == Head(toServer[d])
  <2>1. /\ e \in NetEvent /\ e.client = serial[d] - 1 /\ serial[d] # 0
    <3>1. toServer[d] \in Seq(NetEvent)
      BY SentType
    <3>2. e \in NetEvent
      BY <1>7, <3>1, HeadAndTail
    <3>3. e \in Range(toServer[d])
      BY <1>7, <3>1, RangeTail
    <3> QED
      BY <1>2, <1>7, <3>2, <3>3 DEF EventsSound
  <2>2. \A id : ReachedServer(id)' = IF e.client = id THEN Append(ReachedServer(id), e)
                                                      ELSE ReachedServer(id)
    <3> HIDE DEF e
    <3>1. Log' = Append(Log, e)
      BY <1>7 DEF e
    <3> QED
      BY <2>1, <3>1, ReachedAppend
  <2>3. CASE c = d
    <3>1. Reached(c)' = Append(Reached(c), e)
      BY <1>7, <2>1, <2>2, <2>3 DEF Reached
    <3>2. toServer'[c] = Tail(toServer[c])
      BY <1>7, <2>3 DEF TypeOK, ClientTypeOK
    <3>3. Append(Reached(c), Head(toServer[c])) \o Tail(toServer[c])
            = Reached(c) \o toServer[c]
      BY <1>3, <1>7, <2>3, HeadMoves
    <3> QED
      BY <2>3, <3>1, <3>2, <3>3 DEF Sent
  <2>4. CASE c # d
    <3>1. toServer'[c] = toServer[c]
      BY <1>7, <2>4 DEF TypeOK, ClientTypeOK
    <3>2. serial[c] # 0 => e.client # serial[c] - 1
      BY <1>1, <2>1, <2>4 DEF ConnectionsSound
    <3>3. Reached(c)' = Reached(c)
      BY <1>7, <2>2, <3>2 DEF Reached
    <3> QED
      BY <3>1, <3>3 DEF Sent
  <2> QED
    BY <2>3, <2>4
<1>8. UNCHANGED serial \/ acceptOne
  BY SerialEffect
<1> QED
  BY <1>4, <1>5, <1>6, <1>7, <1>8, LogEffect

\* The events under way carry the ids of those who sent them.
LEMMA TagsStep ==
  ASSUME TypeOK, ConnectionsSound, IdsSound, AllEventsSound, [Next]_vars,
         accepted' <= ClientIds
  PROVE  /\ \A e \in Range(Log') : e.client < accepted'
         /\ \A c \in Conn : /\ serial'[c] = 0 => toServer'[c] = <<>>
                            /\ \A e \in Range(toServer'[c]) : e.client = serial'[c] - 1
<1>1. /\ accepted <= ClientIds /\ accepted \in Nat /\ ClientIds \in Nat
      /\ accepted' \in Nat /\ accepted <= accepted'
      /\ \A c \in Conn : /\ serial[c] \in 0 .. accepted
                         /\ serial[c] # 0 => serial'[c] = serial[c]
  BY SerialEffect, ReplicationAssumption DEF TypeOK, HistoryTypeOK
<1>2. /\ \A c \in Conn : EventsSound(c) /\ ClientIdsSound(c)
      /\ \A e \in Range(Log) : e.client < accepted
  BY <1>1 DEF AllEventsSound, IdsSound, Log
<1>3. \A c \in Conn : toServer[c] \in Seq(NetEvent)
  BY SentType
<1>4. ASSUME NEW c \in Conn, Range(toServer'[c]) \subseteq Range(toServer[c]),
             toServer[c] = <<>> => toServer'[c] = <<>>
      PROVE  /\ serial'[c] = 0 => toServer'[c] = <<>>
             /\ \A e \in Range(toServer'[c]) : e.client = serial'[c] - 1
  <2>1. CASE serial[c] = 0
    <3>1. toServer'[c] = <<>>
      BY <1>2, <1>4, <2>1 DEF EventsSound
    <3>2. Range(toServer'[c]) = {}
      BY <3>1 DEF Range
    <3> QED
      BY <3>1, <3>2
  <2>2. CASE serial[c] # 0
    BY <1>1, <1>2, <1>4, <2>2 DEF EventsSound
  <2> QED
    BY <2>1, <2>2
<1>5. Range(<<>>) = {}
  BY DEF Range
<1>6. ASSUME NEW c \in Conn, clientSend(c),
             toServer'[c] = Append(toServer[c],
               [client |-> client[c].id, event |-> Head(client[c].provider)]),
             Head(client[c].provider) # Quit
      PROVE  /\ serial'[c] = 0 => toServer'[c] = <<>>
             /\ \A e \in Range(toServer'[c]) : e.client = serial'[c] - 1
  <2> DEFINE n == [client |-> client[c].id, event |-> Head(client[c].provider)]
  <2>1. serial[c] # 0 /\ client[c].id = serial[c] - 1
    BY <1>2, <1>6 DEF clientSend, ClientIdsSound
  <2>2. n \in NetEvent
    <3>1. /\ client[c].id \in 0 .. ClientIds - 1
          /\ client[c].provider \in Seq(UserEvent) /\ client[c].provider # <<>>
      BY <1>6, ClientFields DEF clientSend, TypeOK
    <3>2. Head(client[c].provider) \in UserEvent
      BY <3>1, HeadAndTail
    <3> QED
      BY <1>6, <3>1, <3>2 DEF NetEvent
  <2>3. n.client = client[c].id
    OBVIOUS
  <2>4. toServer'[c] = Append(toServer[c], n)
    BY <1>6
  <2> HIDE DEF n
  <2>5. Range(toServer'[c]) = Range(toServer[c]) \cup {n}
    BY <1>3, <2>2, <2>4, RangeAppend
  <2> QED
    BY <1>1, <1>2, <2>1, <2>3, <2>5 DEF EventsSound
<1>7. ASSUME NEW d \in Conn, toServer[d] # <<>>, Log' = Append(Log, Head(toServer[d])),
             toServer' = [toServer EXCEPT ![d] = Tail(@)]
      PROVE  /\ \A e \in Range(Log') : e.client < accepted'
             /\ \A c \in Conn : /\ Range(toServer'[c]) \subseteq Range(toServer[c])
                                /\ toServer[c] = <<>> => toServer'[c] = <<>>
  <2>1. Range(toServer[d]) = Range(Tail(toServer[d])) \cup {Head(toServer[d])}
        /\ Head(toServer[d]) \in NetEvent
    BY <1>3, <1>7, RangeTail, HeadAndTail
  <2>2. Head(toServer[d]).client < accepted
    <3>1. Head(toServer[d]).client = serial[d] - 1
      BY <1>2, <2>1 DEF EventsSound
    <3> QED
      BY <1>1, <3>1
  <2>3. Range(Log') = Range(Log) \cup {Head(toServer[d])}
    BY <1>7, <2>1, LogType, RangeAppend
  <2>4. ASSUME NEW e \in Range(Log')
        PROVE  e.client < accepted'
    <3>1. e \in NetEvent
      BY <2>1, <2>3, LogType, RangeOfSeq
    <3>2. e.client \in Nat /\ e.client < accepted
      BY <1>1, <1>2, <2>2, <2>3, <3>1 DEF NetEvent
    <3> QED
      BY <1>1, <3>2
  <2>5. ASSUME NEW c \in Conn
        PROVE  /\ Range(toServer'[c]) \subseteq Range(toServer[c])
               /\ toServer[c] = <<>> => toServer'[c] = <<>>
    <3>1. toServer'[c] = IF c = d THEN Tail(toServer[c]) ELSE toServer[c]
      BY <1>7 DEF TypeOK, ClientTypeOK
    <3> QED
      BY <1>7, <2>1, <3>1
  <2> QED
    BY <2>4, <2>5
<1>8. ASSUME Log' = Log
      PROVE  \A e \in Range(Log') : e.client < accepted'
  <2>1. \A e \in Range(Log) : e \in NetEvent
    BY LogType, RangeOfSeq
  <2>2. \A e \in Range(Log) : e.client \in Nat /\ e.client < accepted
    BY <1>1, <1>2, <2>1 DEF NetEvent
  <2> QED
    BY <1>1, <1>8, <2>2
<1> QED
  BY <1>4, <1>5, <1>6, <1>7, <1>8, LogEffect

LEMMA ProviderStep ==
  ASSUME NEW c \in Conn, TypeOK, InProvider(c), [Next]_vars
  PROVE  InProvider(c)'
<1> DEFINE s == client[c].provider
           n == Len(s)
           m == client[c].made
<1>1. /\ s \in Seq(UserEvent) /\ n \in Nat /\ DOMAIN s = 1 .. n /\ m \in Nat
  BY ClientFields, LenProperties, ReplicationAssumption DEF TypeOK
<1>2. \A i \in 1 .. n : s[i] = Quit \/ s[i] = m - n + i
  BY <1>1 DEF InProvider
<1>3. CASE client'[c].provider = s /\ client'[c].made = m
  BY <1>3 DEF InProvider
<1>4. ASSUME NEW event \in {m + 1, Quit}, client'[c].provider = Append(s, event),
             client'[c].made = m + 1
      PROVE  InProvider(c)'
  <2> DEFINE a == Append(s, event)
  <2>1. event \in Nat
    BY <1>1 DEF Quit
  <2>2. s \in Seq(Nat)
    BY <1>1, SeqMonotonic, ReplicationAssumption DEF UserEvent, Quit
  <2>3. /\ DOMAIN a = 1 .. n + 1 /\ Len(a) = n + 1
        /\ \A i \in 1 .. n : a[i] = s[i]
        /\ a[n + 1] = event
    BY <2>1, <2>2, AppendProperties, LenProperties
  <2> HIDE DEF a, s, n, m
  <2>4. ASSUME NEW i \in 1 .. n + 1
        PROVE  a[i] = Quit \/ a[i] = (m + 1) - (n + 1) + i
    <3>1. CASE i \in 1 .. n
      BY <1>1, <1>2, <2>3, <3>1
    <3>2. CASE i = n + 1
      BY <1>1, <2>3, <3>2
    <3> QED
      BY <1>1, <3>1, <3>2
  <2>5. client'[c].provider = a /\ client'[c].made = m + 1
    BY <1>4 DEF a
  <2> QED
    BY <2>3, <2>4, <2>5 DEF InProvider
<1>5. ASSUME s # <<>>, client'[c].provider = Tail(s), client'[c].made = m
      PROVE  InProvider(c)'
  <2> DEFINE r == Tail(s)
  <2>1. /\ DOMAIN r = 1 .. n - 1 /\ Len(r) = n - 1 /\ n \in Nat \ {0}
        /\ \A i \in 1 .. n - 1 : r[i] = s[i + 1]
    BY <1>1, <1>5, HeadTailProperties, LenProperties, EmptySeq
  <2> HIDE DEF r, s, n, m
  <2>2. ASSUME NEW i \in 1 .. n - 1
        PROVE  r[i] = Quit \/ r[i] = m - (n - 1) + i
    <3>1. i + 1 \in 1 .. n
      BY <2>1
    <3>2. m - n + (i + 1) = m - (n - 1) + i
      BY <1>1
    <3> QED
      BY <1>2, <2>1, <3>1, <3>2
  <2>3. client'[c].provider = r /\ client'[c].made = m
    BY <1>5 DEF r
  <2> QED
    BY <2>1, <2>2, <2>3 DEF InProvider
<1>6. CASE client'[c].provider = <<>>
  <2>1. DOMAIN client'[c].provider = {}
    BY <1>6
  <2> QED
    BY <2>1 DEF InProvider
<1> QED
  BY <1>3, <1>4, <1>5, <1>6, ClientEffect DEF TypeOK, clientSend

LEMMA ClientEventsStep ==
  ASSUME TypeOK, ConnectionsSound, IdsSound, AllEventsSound, [Next]_vars,
         accepted' <= ClientIds, NEW c \in Conn
  PROVE  EventsSound(c)'
<1> DEFINE s == client[c].provider
           p == Len(s)
           m == client[c].made
           n == Len(Sent(c))
           p2 == Len(client'[c].provider)
           m2 == client'[c].made
           n2 == Len(Sent(c)')
<1>1. EventsSound(c)
  <2>1. accepted \in Nat /\ ClientIds \in Nat /\ accepted' \in Nat /\ accepted <= accepted'
    BY SerialEffect, ReplicationAssumption DEF TypeOK, HistoryTypeOK
  <2> QED
    BY <2>1 DEF AllEventsSound
<1>2. /\ s \in Seq(UserEvent) /\ p \in Nat /\ DOMAIN s = 1 .. p /\ m \in Nat
      /\ n \in Nat /\ Sent(c) \in Seq(NetEvent) /\ DOMAIN Sent(c) = 1 .. n
      /\ Len(Reached(c)) \in Nat /\ Len(Reached(c)) <= n
      /\ Reached(c) \in Seq(NetEvent) /\ DOMAIN Reached(c) = 1 .. Len(Reached(c))
      /\ \A k \in 1 .. Len(Reached(c)) : Sent(c)[k] = Reached(c)[k]
  BY ClientFields, SentType, LenProperties, ReplicationAssumption DEF TypeOK
<1>3. /\ n + p <= m
      /\ Live(c) => n + p = m
      /\ \A k \in 1 .. n : Sent(c)[k].event = k
      /\ \A i \in 1 .. p : s[i] = Quit \/ s[i] = m - p + i
  BY <1>1, <1>2 DEF EventsSound, InProvider
<1>4. Live(c)' => Live(c)
  BY LiveEffect
<1>5. s # <<>> => p # 0 /\ Head(s) = s[1] /\ Len(Tail(s)) = p - 1
  BY <1>2, HeadTailProperties, EmptySeq
<1>6. CASE clientSend(c) /\ Head(s) # Quit
  <2> DEFINE e == [client |-> client[c].id, event |-> Head(s)]
  <2>1. /\ s # <<>> /\ isConnected(c) /\ ~client[c].quitting
    BY <1>6 DEF clientSend, mayStartSync
  <2>2. Sent(c)' = Append(Sent(c), e)
    BY <1>6, SentEffect
  <2>3. client'[c].provider = Tail(s) /\ m2 = m
    <3>1. client' = pulledFromProvider(c)
      BY <1>6 DEF clientSend
    <3>2. c \in DOMAIN client /\ {"provider", "made"} \subseteq DOMAIN client[c]
      BY DEF TypeOK, ClientTypeOK, ClientState
    <3> QED
      BY <3>1, <3>2 DEF pulledFromProvider
  <2>4. Head(s) = n + 1
    <3>1. n + p = m /\ 1 \in 1 .. p
      BY <1>2, <1>3, <1>5, <2>1 DEF Live
    <3>2. s[1] = m - p + 1
      BY <1>3, <1>5, <1>6, <2>1, <3>1
    <3> HIDE DEF s, p, m, n
    <3> QED
      BY <1>2, <1>5, <2>1, <3>1, <3>2
  <2>5. e \in NetEvent
    <3>1. client[c].id \in 0 .. ClientIds - 1
      BY <1>6, ClientFields DEF clientSend, TypeOK
    <3>2. Head(s) \in UserEvent
      BY <1>2, <2>1, HeadAndTail
    <3> QED
      BY <1>6, <3>1, <3>2 DEF NetEvent
  <2>6. e.event = n + 1
    BY <2>4
  <2> HIDE DEF e
  <2>7. /\ n2 = n + 1 /\ DOMAIN Sent(c)' = 1 .. n + 1
        /\ \A k \in 1 .. n : Sent(c)'[k] = Sent(c)[k]
        /\ Sent(c)'[n + 1] = e
    BY <1>2, <2>2, <2>5, AppendProperties, LenProperties
  <2>8. p2 = p - 1
    BY <1>5, <2>1, <2>3
  <2> HIDE DEF s, p, m, n, p2, m2, n2
  <2>9. \A k \in 1 .. n + 1 : Sent(c)'[k].event = k
    <3>1. ASSUME NEW k \in 1 .. n + 1 PROVE Sent(c)'[k].event = k
      <4>1. CASE k \in 1 .. n
        BY <1>3, <2>7, <4>1
      <4>2. CASE k = n + 1
        BY <2>6, <2>7, <4>2
      <4> QED
        BY <1>2, <4>1, <4>2
    <3> QED
      BY <3>1
  <2>10. n2 + p2 <= m2 /\ (Live(c)' => n2 + p2 = m2)
    <3>1. n \in Nat /\ p \in Nat /\ m \in Nat /\ n2 = n + 1 /\ m2 = m
      BY <1>2, <2>3, <2>7
    <3>2. n + p <= m /\ (Live(c) => n + p = m)
      BY <1>3
    <3>3. n2 + p2 = n + p
      BY <2>8, <3>1
    <3> QED
      BY <1>4, <3>1, <3>2, <3>3
  <2> QED
    BY <1>1, <2>7, <2>9, <2>10, TagsStep, ProviderStep DEF EventsSound, m2, p2, n2
<1>7. CASE ~(clientSend(c) /\ Head(s) # Quit)
  <2>1. Sent(c)' = Sent(c) \/ (Sent(c)' = Reached(c) /\ ~Live(c)')
    BY <1>7, SentEffect
  <2>2. /\ n2 \in Nat /\ n2 <= n /\ (Live(c)' => n2 = n)
        /\ DOMAIN Sent(c)' = 1 .. n2
        /\ \A k \in 1 .. n2 : Sent(c)'[k] = Sent(c)[k]
    BY <1>2, <2>1
  <2>3. \A k \in 1 .. n2 : Sent(c)'[k].event = k
    <3> HIDE DEF n, n2
    <3>1. \A k \in 1 .. n2 : k \in 1 .. n
      BY <1>2, <2>2
    <3> QED
      BY <1>3, <2>2, <3>1
  <2>4. p2 \in Nat /\ m2 \in Nat /\ m2 - p2 >= m - p /\ (Live(c)' => m2 - p2 = m - p)
    <3>1. CASE client'[c].provider = s /\ m2 = m
      BY <1>2, <3>1
    <3>2. ASSUME NEW event \in {m + 1, Quit}, client'[c].provider = Append(s, event),
                 m2 = m + 1
          PROVE  p2 \in Nat /\ m2 \in Nat /\ m2 - p2 = m - p
      <4>1. s \in Seq(Nat) /\ event \in Nat
        BY <1>2, SeqMonotonic, ReplicationAssumption DEF UserEvent, Quit
      <4>2. p2 = p + 1
        BY <3>2, <4>1, AppendProperties
      <4> HIDE DEF s, p, m, p2, m2
      <4> QED
        BY <1>2, <3>2, <4>2
    <3>3. CASE clientSend(c)
      <4>1. Head(s) = Quit /\ s # <<>>
        BY <1>7, <3>3 DEF clientSend
      <4>2. client'[c].provider = Tail(s) /\ m2 = m /\ client'[c].quitting
        <5>1. client' = [pulledFromProvider(c) EXCEPT ![c].quitting = TRUE]
          BY <3>3, <4>1 DEF clientSend
        <5>2. c \in DOMAIN client /\ {"provider", "made", "quitting"} \subseteq DOMAIN client[c]
          BY DEF TypeOK, ClientTypeOK, ClientState
        <5> QED
          BY <5>1, <5>2 DEF pulledFromProvider
      <4>3. ~Live(c)' /\ p2 = p - 1 /\ p # 0
        BY <1>5, <4>1, <4>2 DEF Live
      <4> HIDE DEF s, p, m, p2, m2
      <4> QED
        BY <1>2, <4>2, <4>3
    <3>4. CASE client'[c].socket = "null" /\ client'[c].provider = <<>> /\ m2 = m
      <4>1. ~Live(c)' /\ p2 = 0
        BY <3>4 DEF Live, isConnected
      <4> HIDE DEF s, p, m, p2, m2
      <4> QED
        BY <1>2, <3>4, <4>1
    <3> QED
      BY <3>1, <3>2, <3>3, <3>4, ClientEffect DEF TypeOK
  <2>5. n2 + p2 <= m2 /\ (Live(c)' => n2 + p2 = m2)
    <3> HIDE DEF s, p, m, n, p2, m2, n2
    <3> QED
      BY <1>2, <1>3, <1>4, <2>2, <2>4
  <2> HIDE DEF s, p, m, n
  <2> QED
    BY <1>1, <2>2, <2>3, <2>5, TagsStep, ProviderStep DEF EventsSound
<1> QED
  BY <1>6, <1>7

EventsInv == IdsInv /\ AllEventsSound

LEMMA EventsInit == Init => EventsInv
<1> SUFFICES ASSUME Init PROVE EventsInv
  OBVIOUS
<1>1. Log = <<>>
  BY DEF Init, Log
<1>2. Range(Log) = {}
  BY <1>1 DEF Range
<1>3. ASSUME NEW c \in Conn
      PROVE  EventsSound(c)
  <2>1. /\ toServer[c] = <<>> /\ serial[c] = 0 /\ client[c].provider = <<>>
        /\ client[c].made = 0
    BY DEF Init
  <2>2. Sent(c) = <<>>
    BY <2>1 DEF Sent, Reached
  <2> QED
    BY <2>1, <2>2 DEF EventsSound, InProvider, Range
<1> QED
  BY <1>2, <1>3, IdsInit DEF EventsInv, AllEventsSound, Log

LEMMA EventsStep ==
  ASSUME EventsInv, [Next]_vars
  PROVE  EventsInv'
<1>1. IdsInv'
  BY IdsStep DEF EventsInv
<1>2. ASSUME accepted' <= ClientIds
      PROVE  /\ \A e \in Range(Log') : e.client < accepted'
             /\ \A c \in Conn : EventsSound(c)'
  BY <1>2, TagsStep, ClientEventsStep DEF EventsInv, IdsInv
<1> QED
  BY <1>1, <1>2 DEF EventsInv, AllEventsSound, Log

(***************************************************************************)
(* Whatever the order of calls, closures and stops, the server gets of     *)
(* each client its own first events, each once and in order, for any       *)
(* number of clients, ids and events.                                      *)
(***************************************************************************)
THEOREM EventsStayInOrder == Spec => []EventsInOrder
<1>1. EventsInv => EventsInOrder
  <2> SUFFICES ASSUME EventsInv, accepted <= ClientIds, NEW c \in Conn, serial[c] # 0
               PROVE  LET events == ReachedServer(serial[c] - 1)
                      IN /\ \A k \in DOMAIN events : events[k].event = k
                         /\ Len(events) <= client[c].made
    BY DEF EventsInOrder
  <2>1. TypeOK /\ EventsSound(c)
    BY DEF EventsInv, IdsInv, AllEventsSound
  <2>2. Reached(c) = ReachedServer(serial[c] - 1)
    BY DEF Reached
  <2>3. /\ Reached(c) \in Seq(NetEvent) /\ Sent(c) \in Seq(NetEvent)
        /\ DOMAIN Reached(c) = 1 .. Len(Reached(c)) /\ DOMAIN Sent(c) = 1 .. Len(Sent(c))
        /\ Len(Reached(c)) \in Nat /\ Len(Sent(c)) \in Nat
        /\ Len(Reached(c)) <= Len(Sent(c))
        /\ \A k \in 1 .. Len(Reached(c)) : Sent(c)[k] = Reached(c)[k]
    BY <2>1, SentType, LenProperties
  <2>4. Len(client[c].provider) \in Nat /\ client[c].made \in Nat
    BY <2>1, ClientFields, LenProperties, ReplicationAssumption DEF TypeOK
  <2> DEFINE r == Len(Reached(c))
             n == Len(Sent(c))
             p == Len(client[c].provider)
             m == client[c].made
  <2>5. n + p <= m /\ \A k \in 1 .. n : Sent(c)[k].event = k
    BY <2>1, <2>3 DEF EventsSound
  <2> HIDE DEF r, n, p, m
  <2>6. r <= m /\ \A k \in 1 .. r : k \in 1 .. n
    BY <2>3, <2>4, <2>5 DEF r, n, p, m
  <2>7. \A k \in 1 .. r : Reached(c)[k].event = k
    BY <2>3, <2>5, <2>6 DEF r
  <2> QED
    BY <2>2, <2>3, <2>6, <2>7 DEF r, m
<1> QED
  BY <1>1, EventsInit, EventsStep, PTL DEF Spec

-----------------------------------------------------------------------------
(* What a client is told: the inductive invariant *)

\* The entities the packages of type t in q are about.
Told(q, t) == {q[j].id : j \in {k \in DOMAIN q : q[k].type = t}}

(***************************************************************************)
(* Every value in q finds its replica at a client that has replicas ids and*)
(* is about to remove gone: the entity is there or added before the value, *)
(* and nothing removes it before.                                          *)
(***************************************************************************)
Fit(q, ids, gone) ==
  \A k \in DOMAIN q : q[k].type = "SyncEntity" =>
    /\ q[k].id \notin gone
    /\ \A j \in 1 .. k - 1 : q[j].type = "RemoveEntity" => q[j].id # q[k].id
    /\ \/ q[k].id \in ids
       \/ \E j \in 1 .. k - 1 : q[j].type = "AddEntity" /\ q[j].id = q[k].id

\* Entities that were removed from the list.
Gone == (1 .. created) \ Range(entities)

\* Connections that packages are broadcast to.
Joined(c) == c \in Accepted /\ client[c].socket = "open"

ListSound ==
  /\ \A i, j \in DOMAIN entities : entities[i] = entities[j] => i = j
  /\ Range(entities) \subseteq 1 .. created
  /\ Range(m_entityRemoveEventQueue) \subseteq Gone

\* A connection the server knows of was made.
SocketsSound ==
  \A c \in Accepted \cup Range(m_connectionQueue) : client[c].socket # "new"

\* An entity is a replica of the client, or on the way to be one.
Complete(c) ==
  Joined(c) => Range(entities) \subseteq
    Range(m_entityAddEventQueue) \cup Told(toClient[c], "AddEntity")
      \cup ReplicaIds(c)

ChannelSound(c) ==
  /\ Range(client[c].destroys) \subseteq Gone
  /\ Told(toClient[c], "RemoveEntity") \subseteq Gone
  /\ Fit(toClient[c], ReplicaIds(c), Range(client[c].destroys))
  /\ Complete(c)
  /\ ~client[c].notFound

Sound == ListSound /\ SocketsSound /\ \A c \in Conn : ChannelSound(c)

IInv == TypeOK /\ Sound

-----------------------------------------------------------------------------
(* What is told *)

LEMMA ToldEmpty == \A t : Told(<<>>, t) = {}
  BY DEF Told

\* A package that is written adds its entity to what its type tells.
LEMMA ToldAppend ==
  ASSUME NEW S, NEW q \in Seq(S), NEW p \in S, NEW t
  PROVE  Told(Append(q, p), t) = Told(q, t) \cup (IF p.type = t THEN {p.id} ELSE {})
<1> DEFINE a == Append(q, p)
<1>1. /\ DOMAIN q = 1 .. Len(q) /\ DOMAIN a = 1 .. Len(q) + 1 /\ Len(q) \in Nat
      /\ \A k \in 1 .. Len(q) : a[k] = q[k]
      /\ a[Len(q) + 1] = p
  BY AppendProperties, LenProperties
<1> HIDE DEF a
<1>2. ASSUME NEW e PROVE e \in Told(a, t) <=> \E k \in 1 .. Len(q) + 1 : a[k].type = t /\ a[k].id = e
  BY <1>1 DEF Told
<1>3. ASSUME NEW e PROVE e \in Told(q, t) <=> \E k \in 1 .. Len(q) : q[k].type = t /\ q[k].id = e
  BY <1>1 DEF Told
<1>4. ASSUME NEW e
      PROVE  e \in Told(a, t) <=> e \in Told(q, t) \/ (p.type = t /\ p.id = e)
  BY <1>1, <1>2, <1>3
<1> QED
  BY <1>4 DEF a

\* What is told is told by the first package or by those behind it.
LEMMA ToldTail ==
  ASSUME NEW S, NEW q \in Seq(S), q # <<>>, NEW t
  PROVE  Told(q, t) = Told(Tail(q), t)
                        \cup (IF Head(q).type = t THEN {Head(q).id} ELSE {})
<1> DEFINE r == Tail(q)
<1>1. /\ DOMAIN q = 1 .. Len(q) /\ Len(q) \in Nat \ {0}
      /\ DOMAIN r = 1 .. Len(q) - 1
      /\ \A k \in 1 .. Len(q) - 1 : r[k] = q[k + 1]
      /\ Head(q) = q[1]
  BY HeadTailProperties, LenProperties, EmptySeq
<1> HIDE DEF r
<1>2. ASSUME NEW e PROVE e \in Told(q, t) <=> \E k \in 1 .. Len(q) : q[k].type = t /\ q[k].id = e
  BY <1>1 DEF Told
<1>3. ASSUME NEW e PROVE e \in Told(r, t) <=> \E k \in 1 .. Len(q) - 1 : r[k].type = t /\ r[k].id = e
  BY <1>1 DEF Told
<1>4. ASSUME NEW e, e \in Told(q, t)
      PROVE  e \in Told(r, t) \/ (q[1].type = t /\ q[1].id = e)
  <2>1. PICK k \in 1 .. Len(q) : q[k].type = t /\ q[k].id = e
    BY <1>2, <1>4
  <2>2. k = 1 \/ (k - 1 \in 1 .. Len(q) - 1 /\ r[k - 1] = q[k])
    BY <1>1
  <2> QED
    BY <1>3, <2>1, <2>2
<1>5. ASSUME NEW e, e \in Told(r, t) \/ (q[1].type = t /\ q[1].id = e)
      PROVE  e \in Told(q, t)
  BY <1>1, <1>2, <1>3, <1>5
<1> QED
  BY <1>1, <1>4, <1>5 DEF r

-----------------------------------------------------------------------------
(* Values find their replicas *)

LEMMA FitEmpty == \A ids, gone : Fit(<<>>, ids, gone)
  BY DEF Fit

\* Another package than a value may always be written.
LEMMA FitAppendOther ==
  ASSUME NEW S, NEW q \in Seq(S), NEW p \in S, p.type # "SyncEntity",
         NEW ids, NEW gone, Fit(q, ids, gone)
  PROVE  Fit(Append(q, p), ids, gone)
<1> DEFINE a == Append(q, p)
<1>1. /\ DOMAIN q = 1 .. Len(q) /\ DOMAIN a = 1 .. Len(q) + 1 /\ Len(q) \in Nat
      /\ \A k \in 1 .. Len(q) : a[k] = q[k]
      /\ a[Len(q) + 1] = p
  BY AppendProperties, LenProperties
<1> HIDE DEF a
<1>2. Fit(a, ids, gone)
  BY <1>1 DEF Fit
<1> QED
  BY <1>2 DEF a

\* A value may be written for an entity that is or will be there, and that
\* nothing removes.
LEMMA FitAppendSync ==
  ASSUME NEW S, NEW q \in Seq(S), NEW p \in S,
         NEW ids, NEW gone, Fit(q, ids, gone), p.id \notin gone,
         p.id \notin Told(q, "RemoveEntity"),
         p.id \in ids \cup Told(q, "AddEntity")
  PROVE  Fit(Append(q, p), ids, gone)
<1> DEFINE a == Append(q, p)
<1>1. /\ DOMAIN q = 1 .. Len(q) /\ DOMAIN a = 1 .. Len(q) + 1 /\ Len(q) \in Nat
      /\ \A k \in 1 .. Len(q) : a[k] = q[k]
      /\ a[Len(q) + 1] = p
  BY AppendProperties, LenProperties
<1>2. \A j \in 1 .. Len(q) : q[j].type = "RemoveEntity" => q[j].id # p.id
  BY <1>1 DEF Told
<1>3. p.id \in ids \/ \E j \in 1 .. Len(q) : q[j].type = "AddEntity" /\ q[j].id = p.id
  BY <1>1 DEF Told
<1> HIDE DEF a
<1>4. Fit(a, ids, gone)
  BY <1>1, <1>2, <1>3 DEF Fit
<1> QED
  BY <1>4 DEF a

\* The first package has been handled: it made the entities ids2 of ids, and
\* those to remove gone2 of gone.
LEMMA FitTail ==
  ASSUME NEW S, NEW q \in Seq(S), q # <<>>,
         NEW ids, NEW gone, Fit(q, ids, gone), NEW ids2, NEW gone2,
         ids \subseteq ids2, Head(q).type = "AddEntity" => Head(q).id \in ids2,
         \A e \in gone2 : e \in gone \/ (Head(q).type = "RemoveEntity" /\ e = Head(q).id)
  PROVE  Fit(Tail(q), ids2, gone2)
<1> DEFINE r == Tail(q)
<1>1. /\ DOMAIN q = 1 .. Len(q) /\ Len(q) \in Nat \ {0}
      /\ DOMAIN r = 1 .. Len(q) - 1
      /\ \A k \in 1 .. Len(q) - 1 : r[k] = q[k + 1]
      /\ Head(q) = q[1]
  BY HeadTailProperties, LenProperties, EmptySeq
<1> HIDE DEF r
<1>2. ASSUME NEW k \in 1 .. Len(q) - 1, r[k].type = "SyncEntity"
      PROVE  /\ r[k].id \notin gone2
             /\ \A j \in 1 .. k - 1 : r[j].type = "RemoveEntity" => r[j].id # r[k].id
             /\ \/ r[k].id \in ids2
                \/ \E j \in 1 .. k - 1 : r[j].type = "AddEntity" /\ r[j].id = r[k].id
  <2>1. k + 1 \in DOMAIN q /\ r[k] = q[k + 1]
    BY <1>1
  <2>2. /\ r[k].id \notin gone
        /\ \A j \in 1 .. k : q[j].type = "RemoveEntity" => q[j].id # r[k].id
        /\ \/ r[k].id \in ids
           \/ \E j \in 1 .. k : q[j].type = "AddEntity" /\ q[j].id = r[k].id
    BY <1>2, <2>1 DEF Fit
  <2>3. 1 \in 1 .. k /\ \A j \in 1 .. k - 1 : r[j] = q[j + 1] /\ j + 1 \in 1 .. k
    BY <1>1
  <2>4. r[k].id \notin gone2
    BY <1>1, <2>2, <2>3
  <2>5. ASSUME NEW j \in 1 .. k, q[j].type = "AddEntity", q[j].id = r[k].id
        PROVE  \/ r[k].id \in ids2
               \/ \E i \in 1 .. k - 1 : r[i].type = "AddEntity" /\ r[i].id = r[k].id
    <3>1. j = 1 \/ (j - 1 \in 1 .. k - 1 /\ r[j - 1] = q[j])
      BY <1>1
    <3> QED
      BY <1>1, <2>5, <3>1
  <2> QED
    BY <2>2, <2>3, <2>4, <2>5
<1>3. Fit(r, ids2, gone2)
  BY <1>1, <1>2 DEF Fit
<1> QED
  BY <1>3 DEF r

\* The value at the head finds its replica.
LEMMA FitHead ==
  ASSUME NEW S, NEW q \in Seq(S), q # <<>>, NEW ids, NEW gone,
         Fit(q, ids, gone), Head(q).type = "SyncEntity"
  PROVE  Head(q).id \in ids
<1>1. 1 \in DOMAIN q /\ Head(q) = q[1]
  BY HeadTailProperties, LenProperties, EmptySeq
<1> QED
  BY <1>1 DEF Fit

\* A replica to be removed is not missed.
LEMMA FitFewer ==
  ASSUME NEW q, NEW ids, NEW gone, Fit(q, ids, gone), NEW ids2, NEW gone2,
         gone2 \subseteq gone, ids \ gone \subseteq ids2
  PROVE  Fit(q, ids2, gone2)
  BY DEF Fit

-----------------------------------------------------------------------------
(* Lists *)

\* Clients the server knows of after one has been dropped or taken in.
LEMMA AcceptedAfterRemoveAt ==
  ASSUME TypeOK, NEW i \in DOMAIN m_clients, m_clients' = RemoveAt(m_clients, i)
  PROVE  Accepted' \subseteq Accepted
<1>1. Accepted = {k.conn : k \in Range(m_clients)}
      /\ Accepted' = {k.conn : k \in Range(m_clients')}
  BY DEF Accepted, Range
<1>2. Range(m_clients') \subseteq Range(m_clients)
  BY RangeRemoveAt DEF TypeOK, ServerTypeOK
<1> QED
  BY <1>1, <1>2

LEMMA AcceptedAfterAppend ==
  ASSUME TypeOK, NEW k \in [id : 0 .. ClientIds - 1, conn : Conn],
         m_clients' = Append(m_clients, k)
  PROVE  Accepted' = Accepted \cup {k.conn}
<1>1. Accepted = {j.conn : j \in Range(m_clients)}
      /\ Accepted' = {j.conn : j \in Range(m_clients')}
  BY DEF Accepted, Range
<1> DEFINE C == [id : 0 .. ClientIds - 1, conn : Conn]
<1>2. m_clients \in Seq(C) /\ k \in C
  BY DEF TypeOK, ServerTypeOK
<1> HIDE DEF C
<1>3. Range(Append(m_clients, k)) = Range(m_clients) \cup {k}
  BY <1>2, RangeAppend
<1> QED
  BY <1>1, <1>3

\* One more replica.
LEMMA ReplicaIdsAfterAppend ==
  ASSUME NEW s \in Seq(Replica), NEW r \in Replica
  PROVE  {k.id : k \in Range(Append(s, r))} = {k.id : k \in Range(s)} \cup {r.id}
<1>1. Range(Append(s, r)) = Range(s) \cup {r}
  BY RangeAppend
<1> QED
  BY <1>1

\* A new value leaves the replicas' ids alone.
LEMMA ReplicaIdsAfterUpdate ==
  ASSUME NEW s \in Seq(Replica), NEW i \in DOMAIN s, NEW v \in FieldValue
  PROVE  {k.id : k \in Range([s EXCEPT ![i].value = v])} = {k.id : k \in Range(s)}
<1> DEFINE u == [s EXCEPT ![i].value = v]
<1>1. s[i] \in Replica
  BY ElementOfSeq, LenProperties
<1>2. [s[i] EXCEPT !.value = v].id = s[i].id
  BY <1>1 DEF Replica
<1>3. u = [s EXCEPT ![i] = [s[i] EXCEPT !.value = v]]
  OBVIOUS
<1>4. DOMAIN u = DOMAIN s /\ \A j \in DOMAIN s : u[j].id = s[j].id
  BY <1>2, <1>3
<1> HIDE DEF u
<1>5. {k.id : k \in Range(u)} = {u[j].id : j \in DOMAIN u}
      /\ {k.id : k \in Range(s)} = {s[j].id : j \in DOMAIN s}
  BY DEF Range
<1>6. {u[j].id : j \in DOMAIN u} = {s[j].id : j \in DOMAIN s}
  BY <1>4
<1>7. {k.id : k \in Range(u)} = {k.id : k \in Range(s)}
  BY <1>5, <1>6
<1> QED
  BY <1>7 DEF u

\* Removing the first replica of entity e.
LEMMA ReplicaIdsAfterRemoveAt ==
  ASSUME NEW s \in Seq(Replica), NEW i \in DOMAIN s
  PROVE  {k.id : k \in Range(s)} \ {s[i].id} \subseteq {k.id : k \in Range(RemoveAt(s, i))}
<1>1. Range(s) \subseteq Range(RemoveAt(s, i)) \cup {s[i]}
  BY RangeRemoveAt
<1> QED
  BY <1>1

-----------------------------------------------------------------------------
(* One channel *)

(***************************************************************************)
(* A step that leaves the client's replicas and the packages on the way to *)
(* it alone: entities may come, queued for the clients, and go.            *)
(***************************************************************************)
LEMMA QuietChannel ==
  ASSUME NEW c, ChannelSound(c),
         toClient'[c] = toClient[c],
         client'[c].replicas = client[c].replicas,
         client'[c].destroys = client[c].destroys,
         client'[c].notFound = client[c].notFound,
         Gone \subseteq Gone',
         Joined(c)' => Joined(c),
         Range(entities') \subseteq Range(entities) \cup Range(m_entityAddEventQueue'),
         Range(m_entityAddEventQueue) \subseteq Range(m_entityAddEventQueue')
  PROVE  ChannelSound(c)'
<1>1. ReplicaIds(c)' = ReplicaIds(c)
  BY DEF ReplicaIds, Replicas
<1>2. Complete(c)'
  BY <1>1 DEF ChannelSound, Complete
<1>3. Fit(toClient'[c], ReplicaIds(c)', Range(client'[c].destroys))
  BY <1>1 DEF ChannelSound
<1> QED
  BY <1>2, <1>3 DEF ChannelSound

\* A step that ends the connection and drops what is in flight.
LEMMA ClosedChannel ==
  ASSUME NEW c, ChannelSound(c),
         toClient'[c] = <<>>,
         Range(client'[c].destroys) \subseteq Range(client[c].destroys),
         client'[c].notFound = client[c].notFound,
         Gone' = Gone, ~Joined(c)'
  PROVE  ChannelSound(c)'
<1>1. Fit(toClient'[c], ReplicaIds(c)', Range(client'[c].destroys))
  BY FitEmpty
<1>2. Told(toClient'[c], "RemoveEntity") = {}
  BY ToldEmpty
<1> QED
  BY <1>1, <1>2 DEF ChannelSound, Complete

\* A client that stays as it is, is told something else than a value.
LEMMA TellChannel ==
  ASSUME TypeOK, NEW c \in Conn, ChannelSound(c), NEW p \in Package,
         toClient'[c] = Append(toClient[c], p),
         client' = client, Accepted' = Accepted,
         UNCHANGED <<entities, created>>,
         p.type # "SyncEntity",
         p.type = "RemoveEntity" => p.id \in Gone,
         Range(m_entityAddEventQueue) \subseteq
           Range(m_entityAddEventQueue') \cup (IF p.type = "AddEntity" THEN {p.id} ELSE {})
  PROVE  ChannelSound(c)'
<1>1. toClient[c] \in Seq(Package)
  BY ClientFields DEF TypeOK
<1>2. /\ Gone' = Gone /\ ReplicaIds(c)' = ReplicaIds(c) /\ Joined(c)' = Joined(c)
      /\ client'[c] = client[c] /\ entities' = entities
  BY DEF Gone, ReplicaIds, Replicas, Joined
<1>3. \A t : Told(toClient'[c], t) =
        Told(toClient[c], t) \cup (IF p.type = t THEN {p.id} ELSE {})
  BY <1>1, ToldAppend
<1>4. Fit(toClient'[c], ReplicaIds(c), Range(client[c].destroys))
  BY <1>1, FitAppendOther DEF ChannelSound
<1>5. Complete(c)'
  BY <1>2, <1>3 DEF ChannelSound, Complete
<1>6. Told(toClient'[c], "RemoveEntity") \subseteq Gone
  BY <1>3 DEF ChannelSound
<1> QED
  BY <1>2, <1>4, <1>5, <1>6 DEF ChannelSound

\* A joined client is told a value after everything that was queued.
LEMMA ValueChannel ==
  ASSUME TypeOK, NEW c \in Conn, ChannelSound(c), NEW p \in Package,
         toClient'[c] = Append(toClient[c], p),
         client' = client, Accepted' = Accepted,
         UNCHANGED <<entities, created, m_entityAddEventQueue>>,
         Joined(c), p.type = "SyncEntity", p.id \in Range(entities),
         m_entityAddEventQueue = <<>>
  PROVE  ChannelSound(c)'
<1>1. toClient[c] \in Seq(Package)
  BY ClientFields DEF TypeOK
<1>2. /\ Gone' = Gone /\ ReplicaIds(c)' = ReplicaIds(c) /\ Joined(c)' = Joined(c)
      /\ client'[c] = client[c] /\ entities' = entities
      /\ m_entityAddEventQueue' = m_entityAddEventQueue
  BY DEF Gone, ReplicaIds, Replicas, Joined
<1>3. /\ Told(toClient'[c], "AddEntity") = Told(toClient[c], "AddEntity")
      /\ Told(toClient'[c], "RemoveEntity") = Told(toClient[c], "RemoveEntity")
  <2>1. \A t : Told(toClient'[c], t) =
          Told(toClient[c], t) \cup (IF p.type = t THEN {p.id} ELSE {})
    BY <1>1, ToldAppend
  <2> QED
    BY <2>1
<1>4. p.id \notin Gone
  BY DEF Gone
<1>5. p.id \in ReplicaIds(c) \cup Told(toClient[c], "AddEntity")
  <2>1. Range(m_entityAddEventQueue) = {}
    BY DEF Range
  <2> QED
    BY <2>1 DEF ChannelSound, Complete
<1>6. p.id \notin Range(client[c].destroys) /\ p.id \notin Told(toClient[c], "RemoveEntity")
  BY <1>4 DEF ChannelSound
<1>7. Fit(toClient'[c], ReplicaIds(c), Range(client[c].destroys))
  BY <1>1, <1>5, <1>6, FitAppendSync DEF ChannelSound
<1>8. Complete(c)'
  BY <1>2, <1>3 DEF ChannelSound, Complete
<1> QED
  BY <1>2, <1>3, <1>7, <1>8 DEF ChannelSound

-----------------------------------------------------------------------------
(* A client handles a package *)

LEMMA PulledPackage ==
  ASSUME TypeOK, NEW c \in Conn, clientPull(c)
  PROVE  /\ toClient[c] \in Seq(Package) /\ toClient[c] # <<>>
         /\ Head(toClient[c]) \in Package
         /\ client[c] \in ClientState /\ client[c].replicas \in Seq(Replica)
         /\ client[c].destroys \in Seq(EntityId)
         /\ toClient' = [toClient EXCEPT ![c] = Tail(toClient[c])]
         /\ toClient'[c] = Tail(toClient[c])
<1>1. toClient[c] \in Seq(Package) /\ toClient[c] # <<>>
  BY ClientFields DEF clientPull, TypeOK
<1>2. client[c] \in ClientState /\ client[c].replicas \in Seq(Replica)
      /\ client[c].destroys \in Seq(EntityId)
  BY ClientFields DEF TypeOK
<1> QED
  BY <1>1, <1>2, HeadAndTail DEF clientPull, TypeOK, ClientTypeOK

(***************************************************************************)
(* The client with the first package handled: the one of an entity that is *)
(* added makes a replica, the one of an entity that is removed makes it    *)
(* one to remove, and every other leaves both alone.                       *)
(***************************************************************************)
LEMMA HandledPackage ==
  ASSUME TypeOK, NEW c \in Conn, ChannelSound(c),
         toClient[c] # <<>>, toClient'[c] = Tail(toClient[c]),
         Gone' = Gone, Joined(c)' => Joined(c), NEW p, p = Head(toClient[c]),
         UNCHANGED <<entities, m_entityAddEventQueue>>,
         ReplicaIds(c)' = ReplicaIds(c) \cup (IF p.type = "AddEntity" THEN {p.id} ELSE {}),
         Range(client'[c].destroys) = Range(client[c].destroys)
           \cup (IF p.type = "RemoveEntity" THEN {p.id} ELSE {}),
         ~client'[c].notFound
  PROVE  ChannelSound(c)'
<1>1. toClient[c] \in Seq(Package)
  BY ClientFields DEF TypeOK
<1>2. \A t : Told(toClient[c], t) =
        Told(toClient'[c], t) \cup (IF p.type = t THEN {p.id} ELSE {})
  BY <1>1, ToldTail
<1>3. Fit(toClient'[c], ReplicaIds(c)', Range(client'[c].destroys))
  BY <1>1, FitTail DEF ChannelSound
<1>4. Complete(c)'
  BY <1>2 DEF ChannelSound, Complete
<1>5. Told(toClient'[c], "RemoveEntity") \subseteq Gone
  BY <1>2 DEF ChannelSound
<1>6. Range(client'[c].destroys) \subseteq Gone
  BY <1>2 DEF ChannelSound
<1> QED
  BY <1>3, <1>4, <1>5, <1>6 DEF ChannelSound

LEMMA PullChannel ==
  ASSUME TypeOK, NEW c \in Conn, ChannelSound(c), clientPull(c)
  PROVE  ChannelSound(c)' /\ ReplicaIds(c) \subseteq ReplicaIds(c)'
<1> DEFINE p == Head(toClient[c])
<1>1. /\ toClient[c] \in Seq(Package) /\ toClient[c] # <<>> /\ p \in Package
      /\ client[c] \in ClientState /\ client[c].replicas \in Seq(Replica)
      /\ client[c].destroys \in Seq(EntityId)
      /\ toClient'[c] = Tail(toClient[c])
  BY PulledPackage
<1>2. /\ UNCHANGED <<entities, created, m_entityAddEventQueue, m_clients>>
      /\ Gone' = Gone /\ Accepted' = Accepted
  BY DEF clientPull, entityVars, acceptVars, Gone, Accepted
<1>3. \/ p.type = "Init" /\ processInit(c, p)
      \/ p.type = "AddEntity" /\ processAddEntity(c, p)
      \/ p.type = "RemoveEntity" /\ processRemoveEntity(c, p)
      \/ p.type = "SyncEntity" /\ processSyncEntity(c, p)
  BY DEF clientPull
<1>4. client \in [Conn -> ClientState] /\ ~client[c].notFound
  BY DEF TypeOK, ClientTypeOK, ChannelSound
<1> DEFINE s == client'[c]
<1>5. /\ s.socket = client[c].socket /\ ~s.notFound
      /\ ReplicaIds(c)' = ReplicaIds(c) \cup (IF p.type = "AddEntity" THEN {p.id} ELSE {})
      /\ Range(s.destroys) = Range(client[c].destroys)
           \cup (IF p.type = "RemoveEntity" THEN {p.id} ELSE {})
  <2>1. ReplicaIds(c)' = {r.id : r \in Range(s.replicas)}
        /\ ReplicaIds(c) = {r.id : r \in Range(client[c].replicas)}
    BY DEF ReplicaIds, Replicas
  <2>2. CASE p.type = "Init" /\ processInit(c, p)
    <3>1. s = [client[c] EXCEPT !.id = p.id]
      BY <1>4, <2>2 DEF processInit
    <3>2. /\ s.socket = client[c].socket /\ s.notFound = client[c].notFound
          /\ s.replicas = client[c].replicas /\ s.destroys = client[c].destroys
      BY <1>1, <3>1 DEF ClientState
    <3> QED
      BY <1>4, <2>1, <2>2, <3>2
  <2>3. CASE p.type = "AddEntity" /\ processAddEntity(c, p)
    <3> DEFINE r == [id |-> p.id, value |-> Default]
               replicas == Append(client[c].replicas, r)
    <3>1. r \in Replica /\ r.id = p.id
      BY <1>1, <2>3 DEF Package, Replica, FieldValue
    <3> HIDE DEF r
    <3>2. {k.id : k \in Range(replicas)} =
            {k.id : k \in Range(client[c].replicas)} \cup {p.id}
      BY <1>1, <3>1, ReplicaIdsAfterAppend
    <3>3. s = [client[c] EXCEPT !.replicas = replicas]
      BY <1>4, <2>3 DEF processAddEntity, r
    <3> HIDE DEF replicas
    <3>4. /\ s.socket = client[c].socket /\ s.notFound = client[c].notFound
          /\ s.replicas = replicas /\ s.destroys = client[c].destroys
      BY <1>1, <3>3 DEF ClientState
    <3> QED
      BY <1>4, <2>1, <2>3, <3>2, <3>4
  <2>4. CASE p.type = "RemoveEntity" /\ processRemoveEntity(c, p)
    <3> DEFINE destroys == Append(client[c].destroys, p.id)
    <3>1. p.id \in EntityId
      BY <1>1, <2>4 DEF Package
    <3>2. Range(destroys) = Range(client[c].destroys) \cup {p.id}
      BY <1>1, <3>1, RangeAppend
    <3>3. s = [client[c] EXCEPT !.destroys = destroys]
      BY <1>4, <2>4 DEF processRemoveEntity
    <3> HIDE DEF destroys
    <3>4. /\ s.socket = client[c].socket /\ s.notFound = client[c].notFound
          /\ s.replicas = client[c].replicas /\ s.destroys = destroys
      BY <1>1, <3>3 DEF ClientState
    <3> QED
      BY <1>4, <2>1, <2>4, <3>2, <3>4
  <2>5. CASE p.type = "SyncEntity" /\ processSyncEntity(c, p)
    <3>1. p.id \in ReplicaIds(c) /\ p.value \in FieldValue
      BY <1>1, <2>5, FitHead DEF ChannelSound, Package
    <3>2. PICK j \in DOMAIN client[c].replicas : client[c].replicas[j].id = p.id
      BY <2>1, <3>1 DEF Range
    <3>3. PICK i \in DOMAIN client[c].replicas :
            client' = [client EXCEPT ![c].replicas[i].value = p.value]
      BY <2>5, <3>2 DEF processSyncEntity
    <3> DEFINE replicas == [client[c].replicas EXCEPT ![i].value = p.value]
    <3>4. {k.id : k \in Range(replicas)} = {k.id : k \in Range(client[c].replicas)}
      BY <1>1, <3>1, ReplicaIdsAfterUpdate
    <3>5. s = [client[c] EXCEPT !.replicas = replicas]
      BY <1>4, <3>3
    <3> HIDE DEF replicas
    <3>6. /\ s.socket = client[c].socket /\ s.notFound = client[c].notFound
          /\ s.replicas = replicas /\ s.destroys = client[c].destroys
      BY <1>1, <3>5 DEF ClientState
    <3> QED
      BY <1>4, <2>1, <2>5, <3>4, <3>6
  <2> QED
    BY <1>3, <2>2, <2>3, <2>4, <2>5
<1>6. Joined(c)' => Joined(c)
  BY <1>2, <1>5 DEF Joined
<1> HIDE DEF p, s
<1> QED
  BY <1>1, <1>2, <1>5, <1>6, HandledPackage DEF p, s

\* The application loop of a client removes a replica of an entity that is gone.
LEMMA LoopChannel ==
  ASSUME TypeOK, NEW c \in Conn, ChannelSound(c), clientLoop(c)
  PROVE  /\ ChannelSound(c)'
         /\ ReplicaIds(c) \ ReplicaIds(c)' \subseteq Gone
<1> DEFINE e == Head(client[c].destroys)
           destroys == Tail(client[c].destroys)
           s == client'[c]
<1>1. /\ client[c] \in ClientState /\ client[c].replicas \in Seq(Replica)
      /\ client[c].destroys \in Seq(EntityId) /\ client[c].destroys # <<>>
      /\ client \in [Conn -> ClientState]
  BY ClientFields DEF clientLoop, TypeOK, ClientTypeOK
<1>2. Range(client[c].destroys) = Range(destroys) \cup {e}
  BY <1>1, RangeTail
<1>3. /\ UNCHANGED <<entities, created, m_entityAddEventQueue, m_clients, toClient>>
      /\ Gone' = Gone /\ Accepted' = Accepted /\ toClient'[c] = toClient[c]
  BY DEF clientLoop, entityVars, acceptVars, Gone, Accepted
<1>4. ReplicaIds(c)' = {r.id : r \in Range(s.replicas)}
      /\ ReplicaIds(c) = {r.id : r \in Range(client[c].replicas)}
  BY DEF ReplicaIds, Replicas
<1>5. \/ \E i \in DOMAIN client[c].replicas :
           /\ client[c].replicas[i].id = e
           /\ client' = [client EXCEPT ![c].destroys = destroys,
                                       ![c].replicas = RemoveAt(@, i)]
      \/ client' = [client EXCEPT ![c].destroys = destroys]
  BY DEF clientLoop, IsFirst
<1> HIDE DEF e, destroys
<1>6. /\ s.socket = client[c].socket /\ s.notFound = client[c].notFound
      /\ s.destroys = destroys
      /\ ReplicaIds(c) \ {e} \subseteq ReplicaIds(c)'
  <2>1. ASSUME NEW i \in DOMAIN client[c].replicas, client[c].replicas[i].id = e,
               client' = [client EXCEPT ![c].destroys = destroys,
                                        ![c].replicas = RemoveAt(@, i)]
        PROVE  <1>6!:
    <3> DEFINE replicas == RemoveAt(client[c].replicas, i)
    <3>1. {k.id : k \in Range(client[c].replicas)} \ {e}
            \subseteq {k.id : k \in Range(replicas)}
      BY <1>1, <2>1, ReplicaIdsAfterRemoveAt
    <3>2. s = [client[c] EXCEPT !.destroys = destroys, !.replicas = replicas]
      BY <1>1, <2>1
    <3> HIDE DEF replicas
    <3>3. /\ s.socket = client[c].socket /\ s.notFound = client[c].notFound
          /\ s.destroys = destroys /\ s.replicas = replicas
      BY <1>1, <3>2 DEF ClientState
    <3> QED
      BY <1>4, <3>1, <3>3
  <2>2. ASSUME client' = [client EXCEPT ![c].destroys = destroys]
        PROVE  <1>6!:
    <3>1. s = [client[c] EXCEPT !.destroys = destroys]
      BY <1>1, <2>2
    <3>2. /\ s.socket = client[c].socket /\ s.notFound = client[c].notFound
          /\ s.destroys = destroys /\ s.replicas = client[c].replicas
      BY <1>1, <3>1 DEF ClientState
    <3> QED
      BY <1>4, <3>2
  <2> QED
    BY <1>5, <2>1, <2>2
<1> HIDE DEF s
<1>7. e \in Gone
  BY <1>2 DEF ChannelSound
<1>8. Fit(toClient'[c], ReplicaIds(c)', Range(destroys))
  BY <1>2, <1>3, <1>6, FitFewer DEF ChannelSound
<1>9. Complete(c)'
  <2>1. Joined(c)' => Joined(c)
    BY <1>3, <1>6 DEF Joined, s
  <2>2. e \notin Range(entities)
    BY <1>7 DEF Gone
  <2> QED
    BY <1>3, <1>6, <2>1, <2>2 DEF ChannelSound, Complete
<1> QED
  BY <1>2, <1>3, <1>6, <1>7, <1>8, <1>9 DEF ChannelSound, s

\* A client is taken in and greeted, and an entity may be added on the way.
LEMMA HelloTells ==
  ASSUME TypeOK
  PROVE  /\ \A ids, gone : Fit(Hello, ids, gone)
         /\ Told(Hello, "RemoveEntity") = {}
         /\ Range(entities) \subseteq Told(Hello, "AddEntity")
<1>1. /\ DOMAIN entities = 1 .. Len(entities) /\ Len(entities) \in Nat
      /\ DOMAIN Hello = 1 .. Len(entities) + 1
      /\ Hello[1] = [type |-> "Init", id |-> m_nextClientId]
      /\ \A i \in 1 .. Len(entities) : Hello[i + 1] = AddEntity(entities[i])
  BY HelloPackages DEF TypeOK
<1>2. \A k \in DOMAIN Hello : Hello[k].type \in {"Init", "AddEntity"}
  <2>1. ASSUME NEW k \in DOMAIN Hello, k # 1
        PROVE  Hello[k].type = "AddEntity"
    <3>1. k - 1 \in 1 .. Len(entities) /\ (k - 1) + 1 = k
      BY <1>1, <2>1
    <3>2. Hello[k] = AddEntity(entities[k - 1])
      BY <1>1, <3>1
    <3> QED
      BY <3>2 DEF AddEntity
  <2>2. Hello[1].type = "Init"
    BY <1>1
  <2> QED
    BY <2>1, <2>2
<1>3. ASSUME NEW i \in DOMAIN entities
      PROVE  entities[i] \in Told(Hello, "AddEntity")
  <2>1. i + 1 \in DOMAIN Hello
    BY <1>1
  <2>2. Hello[i + 1] = AddEntity(entities[i])
    BY <1>1
  <2>3. Hello[i + 1].type = "AddEntity" /\ Hello[i + 1].id = entities[i]
    BY <2>2 DEF AddEntity
  <2> QED
    BY <2>1, <2>3 DEF Told
<1>4. \A ids, gone : Fit(Hello, ids, gone)
  BY <1>2 DEF Fit
<1>5. Told(Hello, "RemoveEntity") = {}
  BY <1>2 DEF Told
<1> QED
  BY <1>3, <1>4, <1>5 DEF Range

LEMMA GreetedChannel ==
  ASSUME TypeOK, NEW c, ChannelSound(c),
         toClient'[c] = Hello, client' = client,
         Gone \subseteq Gone',
         Range(entities') \subseteq Range(entities) \cup Range(m_entityAddEventQueue')
  PROVE  ChannelSound(c)'
<1>1. Fit(toClient'[c], ReplicaIds(c)', Range(client'[c].destroys))
  BY HelloTells
<1>2. Complete(c)'
  BY HelloTells DEF Complete
<1> QED
  BY <1>1, <1>2, HelloTells DEF ChannelSound

-----------------------------------------------------------------------------
(* The list of entities *)

\* A new entity: nothing is said to be gone that is there.
LEMMA CreateSound ==
  ASSUME TypeOK, ListSound, Create, UNCHANGED m_entityRemoveEventQueue
  PROVE  /\ ListSound' /\ Gone \subseteq Gone'
         /\ Range(entities') \subseteq Range(entities) \cup Range(m_entityAddEventQueue')
         /\ Range(m_entityAddEventQueue) \subseteq Range(m_entityAddEventQueue')
<1>1. /\ entities \in Seq(EntityId) /\ m_entityAddEventQueue \in Seq(EntityId)
      /\ created \in Nat /\ created + 1 \in EntityId
  BY ReplicationAssumption DEF TypeOK, ServerTypeOK, Create, EntityId
<1>2. /\ entities' = Append(entities, created + 1) /\ created' = created + 1
      /\ m_entityAddEventQueue' = Append(m_entityAddEventQueue, created + 1)
  BY DEF Create
<1>3. /\ Range(entities') = Range(entities) \cup {created + 1}
      /\ Range(m_entityAddEventQueue') = Range(m_entityAddEventQueue) \cup {created + 1}
  BY <1>1, <1>2, RangeAppend
<1>4. created + 1 \notin Range(entities)
  BY <1>1 DEF ListSound
<1>5. \A i, j \in DOMAIN entities' : entities'[i] = entities'[j] => i = j
  <2> DEFINE a == Append(entities, created + 1)
  <2>1. \A i, j \in DOMAIN a : a[i] = a[j] => i = j
    BY <1>1, <1>4, DistinctAfterAppend DEF ListSound
  <2> HIDE DEF a
  <2> QED
    BY <1>2, <2>1 DEF a
<1>6. Range(entities') \subseteq 1 .. created' /\ Gone \subseteq Gone'
  BY <1>1, <1>2, <1>3 DEF ListSound, Gone
<1> QED
  BY <1>3, <1>5, <1>6 DEF ListSound

\* An entity goes: it was on the list once, so it is not there any more.
LEMMA DestroySound ==
  ASSUME TypeOK, ListSound, NEW i \in DOMAIN entities, destroyEntity(i)
  PROVE  ListSound' /\ Gone \subseteq Gone' /\ Range(entities') \subseteq Range(entities)
<1>1. /\ entities \in Seq(EntityId) /\ entities[i] \in EntityId
      /\ m_entityRemoveEventQueue \in Seq(EntityId)
  BY ElementOfSeq, LenProperties DEF TypeOK, ServerTypeOK
<1>2. /\ entities' = RemoveAt(entities, i) /\ created' = created
      /\ m_entityRemoveEventQueue' = Append(m_entityRemoveEventQueue, entities[i])
  BY DEF destroyEntity
<1>3. Range(entities') \subseteq Range(entities)
  BY <1>1, <1>2, RangeRemoveAt
<1>4. Range(m_entityRemoveEventQueue') = Range(m_entityRemoveEventQueue) \cup {entities[i]}
  BY <1>1, <1>2, RangeAppend
<1>5. /\ \A j, k \in DOMAIN entities' : entities'[j] = entities'[k] => j = k
      /\ entities[i] \notin Range(entities')
  BY <1>1, <1>2, DistinctAfterRemoveAt DEF ListSound
<1>6. Gone \subseteq Gone' /\ entities[i] \in Gone'
  BY <1>2, <1>3, <1>5 DEF Gone, ListSound, Range
<1> QED
  BY <1>2, <1>3, <1>4, <1>5, <1>6 DEF ListSound

-----------------------------------------------------------------------------
(* The invariant is inductive *)

\* Clients the server knows of, and connections that wait, are connections.
LEMMA KnownConnections ==
  ASSUME TypeOK
  PROVE  Accepted \subseteq Conn /\ Range(m_connectionQueue) \subseteq Conn
<1>1. \A i \in DOMAIN m_clients : m_clients[i] \in [id : 0 .. ClientIds - 1, conn : Conn]
  BY ElementOfSeq, LenProperties DEF TypeOK, ServerTypeOK
<1>2. Range(m_connectionQueue) \subseteq Conn
  BY RangeOfSeq DEF TypeOK, ServerTypeOK
<1> QED
  BY <1>1, <1>2 DEF Accepted

\* A step of the server that tells the clients nothing.
LEMMA QuietServer ==
  ASSUME Sound, UNCHANGED <<client, toClient>>,
         Accepted' \subseteq Accepted,
         Range(m_connectionQueue') \subseteq Range(m_connectionQueue),
         ListSound', Gone \subseteq Gone',
         Range(entities') \subseteq Range(entities) \cup Range(m_entityAddEventQueue'),
         Range(m_entityAddEventQueue) \subseteq Range(m_entityAddEventQueue')
  PROVE  Sound'
<1>1. SocketsSound'
  BY DEF Sound, SocketsSound
<1>2. ASSUME NEW c \in Conn PROVE ChannelSound(c)'
  BY QuietChannel DEF Sound, Joined
<1> QED
  BY <1>1, <1>2 DEF Sound

\* The same, when the lists and queues stay as they are.
LEMMA IdleServer ==
  ASSUME Sound, UNCHANGED <<client, toClient, entityVars, m_connectionQueue>>,
         Accepted' \subseteq Accepted
  PROVE  Sound'
<1>1. ListSound' /\ Gone' = Gone
  BY DEF Sound, ListSound, Gone, entityVars
<1>2. /\ Range(entities') = Range(entities)
      /\ Range(m_entityAddEventQueue') = Range(m_entityAddEventQueue)
      /\ Range(m_connectionQueue') = Range(m_connectionQueue)
  BY DEF entityVars
<1> QED
  BY <1>1, <1>2, QuietServer

\* A step of one client.
LEMMA OneClient ==
  ASSUME TypeOK, Sound, NEW c \in Conn,
         UNCHANGED <<entityVars, m_clients>>,
         \A d \in Conn \ {c} : client'[d] = client[d] /\ toClient'[d] = toClient[d],
         client'[c].socket # "new" \/ client[c].socket = "new",
         client'[c].socket # "new" \/ m_connectionQueue' = m_connectionQueue,
         Range(m_connectionQueue') \subseteq Range(m_connectionQueue) \cup {c},
         ChannelSound(c)'
  PROVE  Sound'
<1>1. /\ ListSound' /\ Gone' = Gone /\ Accepted' = Accepted
      /\ entities' = entities /\ m_entityAddEventQueue' = m_entityAddEventQueue
  BY DEF Sound, ListSound, Gone, entityVars, Accepted
<1>2. ASSUME NEW d \in Conn, d # c PROVE ChannelSound(d)'
  BY <1>1, <1>2, QuietChannel DEF Sound, Joined
<1>3. SocketsSound'
  BY <1>1, KnownConnections DEF Sound, SocketsSound
<1> QED
  BY <1>1, <1>2, <1>3 DEF Sound

\* A package is broadcast.
LEMMA ToldToAll ==
  ASSUME TypeOK, NEW p, Broadcast(p), NEW c \in Conn
  PROVE  toClient'[c] = IF Joined(c) THEN Append(toClient[c], p) ELSE toClient[c]
  BY DEF Broadcast, Joined, isConnected

LEMMA BroadcastSound ==
  ASSUME TypeOK, Sound, NEW p \in Package, Broadcast(p),
         UNCHANGED <<client, m_clients, m_connectionQueue, entities, created>>,
         ListSound',
         \/ /\ p.type = "AddEntity"
            /\ Range(m_entityAddEventQueue) \subseteq
                 Range(m_entityAddEventQueue') \cup {p.id}
         \/ /\ p.type = "RemoveEntity" /\ p.id \in Gone
            /\ UNCHANGED m_entityAddEventQueue
         \/ /\ p.type = "SyncEntity" /\ p.id \in Range(entities)
            /\ UNCHANGED m_entityAddEventQueue /\ m_entityAddEventQueue = <<>>
  PROVE  Sound'
<1>1. Accepted' = Accepted /\ Gone' = Gone /\ SocketsSound'
  BY DEF Accepted, Gone, Sound, SocketsSound
<1>2. ASSUME NEW c \in Conn, Joined(c) PROVE ChannelSound(c)'
  <2>1. toClient'[c] = Append(toClient[c], p)
    BY <1>2, ToldToAll
  <2>2. ChannelSound(c)
    BY DEF Sound
  <2>3. CASE p.type = "SyncEntity"
    BY <1>1, <1>2, <2>1, <2>2, <2>3, ValueChannel
  <2>4. CASE p.type = "RemoveEntity"
    BY <1>1, <2>1, <2>2, <2>4, TellChannel
  <2>5. CASE p.type = "AddEntity"
    BY <1>1, <2>1, <2>2, <2>5, TellChannel
  <2> QED
    BY <2>3, <2>4, <2>5
<1>3. ASSUME NEW c \in Conn, ~Joined(c) PROVE ChannelSound(c)'
  <2>1. toClient'[c] = toClient[c] /\ ~Joined(c)'
    BY <1>1, <1>3, ToldToAll DEF Joined
  <2> QED
    BY <1>1, <2>1 DEF Sound, ChannelSound, Complete, ReplicaIds, Replicas
<1> QED
  BY <1>1, <1>2, <1>3 DEF Sound

LEMMA AcceptSound ==
  ASSUME TypeOK, Sound, acceptOne
  PROVE  Sound'
<1> DEFINE c == Head(m_connectionQueue)
<1>1. /\ m_connectionQueue \in Seq(Conn) /\ m_connectionQueue # <<>>
      /\ c \in Conn /\ client' = client
      /\ m_connectionQueue' = Tail(m_connectionQueue)
      /\ UNCHANGED m_entityRemoveEventQueue
      /\ toClient \in [Conn -> Seq(Package)]
  BY HeadAndTail DEF acceptOne, TypeOK, ServerTypeOK, ClientTypeOK
<1>2. Range(m_connectionQueue) = Range(m_connectionQueue') \cup {c}
  BY <1>1, RangeTail
<1>3. Accepted' = Accepted \cup {c}
  <2> DEFINE k == [id |-> m_nextClientId, conn |-> c]
  <2>1. k \in [id : 0 .. ClientIds - 1, conn : Conn] /\ k.conn = c
    BY <1>1 DEF TypeOK, ServerTypeOK
  <2>2. m_clients' = Append(m_clients, k)
    BY DEF acceptOne
  <2> HIDE DEF k, c
  <2> QED
    BY <2>1, <2>2, AcceptedAfterAppend
<1>4. SocketsSound'
  BY <1>1, <1>2, <1>3 DEF Sound, SocketsSound
<1>5. /\ ListSound' /\ Gone \subseteq Gone'
      /\ Range(entities') \subseteq Range(entities) \cup Range(m_entityAddEventQueue')
      /\ Range(m_entityAddEventQueue) \subseteq Range(m_entityAddEventQueue')
  <2>1. CASE Create
    BY <1>1, <2>1, CreateSound DEF Sound
  <2>2. CASE UNCHANGED <<created, entities, m_entityAddEventQueue, since>>
    BY <1>1, <2>2 DEF Sound, ListSound, Gone
  <2> QED
    BY <2>1, <2>2 DEF acceptOne
<1>6. toClient' = [toClient EXCEPT ![c] = IF isConnected(c) THEN Hello ELSE @]
  BY DEF acceptOne
<1> HIDE DEF c
<1>7. ASSUME NEW d \in Conn, d # c \/ client[c].socket # "open"
      PROVE  ChannelSound(d)'
  <2>1. toClient'[d] = toClient[d]
    BY <1>1, <1>6, <1>7 DEF isConnected
  <2>2. Joined(d)' => Joined(d)
    BY <1>1, <1>3, <1>7 DEF Joined
  <2> QED
    BY <1>1, <1>5, <2>1, <2>2, QuietChannel DEF Sound
<1>8. ASSUME NEW d \in Conn, d = c, client[c].socket = "open"
      PROVE  ChannelSound(d)'
  <2>1. isConnected(c)
    BY <1>2, <1>8 DEF isConnected
  <2>2. toClient'[d] = Hello
    BY <1>1, <1>6, <1>8, <2>1
  <2>3. ChannelSound(d)
    BY DEF Sound
  <2> QED
    BY <1>1, <1>5, <2>2, <2>3, GreetedChannel
<1>9. \A d \in Conn : ChannelSound(d)'
  BY <1>7, <1>8
<1> QED
  BY <1>4, <1>5, <1>9 DEF Sound

\* The steps of the server application outside sync.
LEMMA ApplicationSound ==
  ASSUME TypeOK, Sound,
         \/ addEntity
         \/ \E e \in Range(entities), v \in Value : assign(e, v)
         \/ \E i \in DOMAIN entities : destroyEntity(i)
         \/ pullEvent \/ serverStop
  PROVE  Sound'
<1>1. CASE addEntity
  <2>1. /\ Create /\ Accepted' = Accepted
        /\ UNCHANGED <<client, toClient, m_connectionQueue, m_entityRemoveEventQueue>>
    BY <1>1 DEF addEntity, acceptVars, Accepted
  <2>2. Sound => ListSound
    BY DEF Sound
  <2> QED
    BY <2>1, <2>2, CreateSound, QuietServer
<1>2. ASSUME NEW e \in Range(entities), NEW v \in Value, assign(e, v)
      PROVE  Sound'
  <2>1. /\ Accepted' = Accepted
        /\ UNCHANGED <<client, toClient, m_connectionQueue, created, entities,
                       m_entityAddEventQueue, m_entityRemoveEventQueue>>
    BY <1>2 DEF assign, acceptVars, Accepted
  <2>2. ListSound' /\ Gone' = Gone
    BY <2>1 DEF Sound, ListSound, Gone
  <2> QED
    BY <2>1, <2>2, QuietServer
<1>3. ASSUME NEW i \in DOMAIN entities, destroyEntity(i)
      PROVE  Sound'
  <2>1. /\ Accepted' = Accepted
        /\ UNCHANGED <<client, toClient, m_connectionQueue, m_entityAddEventQueue>>
    BY <1>3 DEF destroyEntity, acceptVars, Accepted
  <2>2. ListSound' /\ Gone \subseteq Gone' /\ Range(entities') \subseteq Range(entities)
    BY <1>3, DestroySound DEF Sound
  <2> QED
    BY <2>1, <2>2, QuietServer
<1>4. CASE pullEvent
  <2>1. /\ UNCHANGED <<client, toClient, entityVars, m_connectionQueue, m_clients>>
    BY <1>4 DEF pullEvent, acceptVars
  <2> QED
    BY <2>1, IdleServer DEF Accepted
<1>5. CASE serverStop
  <2>1. /\ UNCHANGED <<client, entityVars, m_connectionQueue>> /\ m_clients' = <<>>
        /\ toClient' = [d \in Conn |-> IF d \in Accepted THEN <<>> ELSE toClient[d]]
    BY <1>5 DEF serverStop
  <2>2. Accepted' = {}
    BY <2>1 DEF Accepted
  <2>3. ListSound' /\ Gone' = Gone /\ SocketsSound' /\ entities' = entities
        /\ m_entityAddEventQueue' = m_entityAddEventQueue
    BY <2>1, <2>2 DEF Sound, ListSound, Gone, SocketsSound, entityVars
  <2>4. ASSUME NEW c \in Conn PROVE ChannelSound(c)'
    <3>1. CASE c \in Accepted
      <4>1. toClient'[c] = <<>> /\ ~Joined(c)' /\ client'[c] = client[c]
        BY <2>1, <2>2, <3>1 DEF Joined
      <4> QED
        BY <2>3, <4>1, ClosedChannel DEF Sound
    <3>2. CASE c \notin Accepted
      <4>1. toClient'[c] = toClient[c] /\ ~Joined(c)' /\ client'[c] = client[c]
        BY <2>1, <2>2, <3>2 DEF Joined
      <4> QED
        BY <2>3, <4>1, QuietChannel DEF Sound
    <3> QED
      BY <3>1, <3>2
  <2> QED
    BY <2>3, <2>4 DEF Sound
<1> QED
  BY <1>1, <1>2, <1>3, <1>4, <1>5

\* The steps of sync.
LEMMA SyncSound ==
  ASSUME TypeOK, Sound, sync
  PROVE  Sound'
<1>1. CASE startSync \/ acceptedAll \/ sentAll \/ receiveOne \/ endSync
  <2>1. UNCHANGED <<client, toClient, entityVars, m_connectionQueue, m_clients>>
    BY <1>1 DEF startSync, acceptedAll, sentAll, receiveOne, endSync, acceptVars
  <2> QED
    BY <2>1, IdleServer DEF Accepted
<1>2. CASE refreshOne
  <2>1. UNCHANGED <<client, toClient, entityVars, m_connectionQueue>>
    BY <1>2 DEF refreshOne
  <2>2. turn \in DOMAIN m_clients /\
          (m_clients' = m_clients \/ m_clients' = RemoveAt(m_clients, turn))
    BY <1>2 DEF refreshOne
  <2>3. Accepted' \subseteq Accepted
    <3>1. CASE m_clients' = m_clients
      BY <3>1 DEF Accepted
    <3>2. CASE m_clients' = RemoveAt(m_clients, turn)
      BY <2>2, <3>2, AcceptedAfterRemoveAt
    <3> QED
      BY <2>2, <3>1, <3>2
  <2> QED
    BY <2>1, <2>3, IdleServer
<1>3. CASE acceptOne
  BY <1>3, AcceptSound
<1>4. CASE broadcastAdd
  <2> DEFINE e == Head(m_entityAddEventQueue)
  <2>1. /\ UNCHANGED <<client, m_clients, m_connectionQueue, entities, created,
                       m_entityRemoveEventQueue>>
        /\ m_entityAddEventQueue \in Seq(EntityId) /\ e \in EntityId
        /\ m_entityAddEventQueue # <<>>
        /\ m_entityAddEventQueue' = Tail(m_entityAddEventQueue)
    BY <1>4, HeadAndTail DEF broadcastAdd, acceptVars, TypeOK, ServerTypeOK
  <2>2. Range(m_entityAddEventQueue) = Range(m_entityAddEventQueue') \cup {e}
    BY <2>1, RangeTail
  <2>3. ListSound' /\ Gone' = Gone /\ Accepted' = Accepted
    BY <2>1 DEF Sound, ListSound, Gone, Accepted
  <2>4. \/ Broadcast(AddEntity(e))
        \/ e \notin Range(entities) /\ UNCHANGED toClient
    BY <1>4 DEF broadcastAdd
  <2> HIDE DEF e
  <2>5. CASE Broadcast(AddEntity(e))
    <3>1. /\ AddEntity(e) \in Package /\ AddEntity(e).type = "AddEntity"
          /\ AddEntity(e).id = e
      BY <2>1 DEF AddEntity, Package
    <3> QED
      BY <2>1, <2>2, <2>3, <2>5, <3>1, BroadcastSound
  <2>6. CASE e \notin Range(entities) /\ UNCHANGED toClient
    <3>1. ASSUME NEW c \in Conn PROVE ChannelSound(c)'
      <4>1. Range(entities) \cap Range(m_entityAddEventQueue) \subseteq
              Range(m_entityAddEventQueue')
        BY <2>2, <2>6
      <4>2. ChannelSound(c)
        BY DEF Sound
      <4> QED
        BY <2>1, <2>3, <2>6, <4>1, <4>2
           DEF ChannelSound, Complete, Joined, ReplicaIds, Replicas
    <3>2. SocketsSound'
      BY <2>1, <2>3 DEF Sound, SocketsSound
    <3> QED
      BY <2>3, <3>1, <3>2 DEF Sound
  <2> QED
    BY <2>4, <2>5, <2>6
<1>5. CASE broadcastRemove
  <2> DEFINE e == Head(m_entityRemoveEventQueue)
  <2>1. /\ UNCHANGED <<client, m_clients, m_connectionQueue, entities, created,
                       m_entityAddEventQueue>>
        /\ m_entityRemoveEventQueue \in Seq(EntityId) /\ e \in EntityId
        /\ m_entityRemoveEventQueue # <<>>
        /\ m_entityRemoveEventQueue' = Tail(m_entityRemoveEventQueue)
        /\ Broadcast(RemoveEntity(e))
    BY <1>5, HeadAndTail DEF broadcastRemove, acceptVars, TypeOK, ServerTypeOK
  <2>2. Range(m_entityRemoveEventQueue) = Range(m_entityRemoveEventQueue') \cup {e}
    BY <2>1, RangeTail
  <2> HIDE DEF e
  <2>3. ListSound' /\ e \in Gone
    BY <2>1, <2>2 DEF Sound, ListSound, Gone
  <2>4. /\ RemoveEntity(e) \in Package /\ RemoveEntity(e).type = "RemoveEntity"
        /\ RemoveEntity(e).id = e
    BY <2>1 DEF RemoveEntity, Package
  <2> QED
    BY <2>1, <2>3, <2>4, BroadcastSound
<1>6. ASSUME NEW i \in DOMAIN entities, broadcastValue(i)
      PROVE  Sound'
  <2>1. /\ UNCHANGED <<client, m_clients, m_connectionQueue, entities, created,
                       m_entityAddEventQueue, m_entityRemoveEventQueue>>
        /\ m_entityAddEventQueue = <<>> /\ Broadcast(SyncEntity(entities[i]))
    BY <1>6 DEF broadcastValue, acceptVars, QueuesEmpty
  <2>2. ListSound'
    BY <2>1 DEF Sound, ListSound, Gone
  <2>3. entities[i] \in EntityId /\ entities[i] \in Range(entities)
    BY ElementOfSeq, LenProperties DEF TypeOK, ServerTypeOK, Range
  <2>4. /\ SyncEntity(entities[i]) \in Package
        /\ SyncEntity(entities[i]).type = "SyncEntity"
        /\ SyncEntity(entities[i]).id = entities[i]
    BY <2>3 DEF SyncEntity, Package, TypeOK, ServerTypeOK
  <2> QED
    BY <2>1, <2>2, <2>3, <2>4, BroadcastSound
<1> QED
  BY <1>1, <1>2, <1>3, <1>4, <1>5, <1>6 DEF sync

\* The steps of a client.
LEMMA ClientSound ==
  ASSUME TypeOK, Sound, NEW c \in Conn,
         \/ connect(c) \/ userEvent(c) \/ clientSync(c) \/ clientLoop(c)
         \/ clientClose(c)
  PROVE  Sound'
<1>1. /\ client \in [Conn -> ClientState] /\ client[c] \in ClientState
      /\ toClient \in [Conn -> Seq(Package)] /\ ChannelSound(c)
  BY DEF TypeOK, ClientTypeOK, Sound
<1>2. ASSUME UNCHANGED <<entityVars, m_clients, toClient>>,
             \A d \in Conn \ {c} : client'[d] = client[d],
             client'[c].replicas = client[c].replicas,
             client'[c].destroys = client[c].destroys,
             client'[c].notFound = client[c].notFound,
             \/ client'[c].socket = client[c].socket /\ UNCHANGED m_connectionQueue
             \/ client'[c].socket = "null" /\ UNCHANGED m_connectionQueue
             \/ /\ client[c].socket = "new" /\ client'[c].socket = "open"
                /\ m_connectionQueue' = Append(m_connectionQueue, c)
      PROVE  Sound'
  <2>1. /\ Gone' = Gone /\ Accepted' = Accepted /\ entities' = entities
        /\ m_entityAddEventQueue' = m_entityAddEventQueue
    BY <1>2 DEF Gone, Accepted, entityVars
  <2>2. Joined(c)' => Joined(c)
    BY <1>2, <2>1 DEF Joined, Sound, SocketsSound
  <2>3. ChannelSound(c)'
    BY <1>1, <1>2, <2>1, <2>2, QuietChannel
  <2>4. Range(m_connectionQueue') \subseteq Range(m_connectionQueue) \cup {c}
    <3>1. m_connectionQueue \in Seq(Conn)
      BY DEF TypeOK, ServerTypeOK
    <3>2. Range(Append(m_connectionQueue, c)) = Range(m_connectionQueue) \cup {c}
      BY <3>1, RangeAppend
    <3> QED
      BY <1>2, <3>2
  <2> QED
    BY <1>2, <2>3, <2>4, OneClient
<1>3. CASE connect(c)
  <2>1. client' = [client EXCEPT ![c] = [client[c] EXCEPT !.socket = "open"]]
    BY <1>3 DEF connect
  <2>2. /\ UNCHANGED <<entityVars, m_clients, toClient>> /\ client[c].socket = "new"
        /\ m_connectionQueue' = Append(m_connectionQueue, c)
    BY <1>3 DEF connect
  <2>3. /\ client'[c].replicas = client[c].replicas
        /\ client'[c].destroys = client[c].destroys
        /\ client'[c].notFound = client[c].notFound
        /\ client'[c].socket = "open"
        /\ \A d \in Conn \ {c} : client'[d] = client[d]
    BY <1>1, <2>1 DEF ClientState
  <2> QED
    BY <1>2, <2>2, <2>3
<1>4. CASE userEvent(c)
  <2>1. UNCHANGED <<entityVars, m_clients, toClient, m_connectionQueue>>
    BY <1>4 DEF userEvent, acceptVars
  <2>2. PICK event : client' = [client EXCEPT ![c].made = @ + 1,
                                              ![c].provider = Append(@, event)]
    BY <1>4 DEF userEvent
  <2>3. /\ client'[c].replicas = client[c].replicas
        /\ client'[c].destroys = client[c].destroys
        /\ client'[c].notFound = client[c].notFound
        /\ client'[c].socket = client[c].socket
        /\ \A d \in Conn \ {c} : client'[d] = client[d]
    BY <1>1, <2>2 DEF ClientState
  <2> QED
    BY <1>2, <2>1, <2>3
<1>5. CASE clientSend(c)
  <2>1. UNCHANGED <<entityVars, m_clients, toClient, m_connectionQueue>>
    BY <1>5 DEF clientSend, acceptVars
  <2>2. \/ client' = [client EXCEPT ![c].provider = Tail(@), ![c].quitting = TRUE]
        \/ client' = [client EXCEPT ![c].provider = Tail(@)]
    BY <1>5 DEF clientSend, pulledFromProvider
  <2>3. /\ client'[c].replicas = client[c].replicas
        /\ client'[c].destroys = client[c].destroys
        /\ client'[c].notFound = client[c].notFound
        /\ client'[c].socket = client[c].socket
        /\ \A d \in Conn \ {c} : client'[d] = client[d]
    BY <1>1, <2>2 DEF ClientState
  <2> QED
    BY <1>2, <2>1, <2>3
<1>6. CASE clientPull(c)
  <2>1. UNCHANGED <<entityVars, m_clients, m_connectionQueue>>
    BY <1>6 DEF clientPull, acceptVars
  <2>2. \A d \in Conn \ {c} : client'[d] = client[d] /\ toClient'[d] = toClient[d]
    BY <1>1, <1>6 DEF clientPull, processInit, processAddEntity,
       processRemoveEntity, processSyncEntity
  <2>3. client'[c].socket = client[c].socket
    BY <1>1, <1>6 DEF clientPull, processInit, processAddEntity,
       processRemoveEntity, processSyncEntity, ClientState
  <2>4. ChannelSound(c)'
    BY <1>1, <1>6, PullChannel
  <2> QED
    BY <2>1, <2>2, <2>3, <2>4, OneClient
<1>7. CASE clientNotices(c)
  <2>1. UNCHANGED <<entityVars, m_clients, toClient, m_connectionQueue>>
    BY <1>7 DEF clientNotices, acceptVars
  <2>2. client' = [client EXCEPT ![c] = [client[c] EXCEPT !.socket = "null"]]
    BY <1>7 DEF clientNotices
  <2>3. /\ client'[c].replicas = client[c].replicas
        /\ client'[c].destroys = client[c].destroys
        /\ client'[c].notFound = client[c].notFound
        /\ client'[c].socket = "null"
        /\ \A d \in Conn \ {c} : client'[d] = client[d]
    BY <1>1, <2>2 DEF ClientState
  <2> QED
    BY <1>2, <2>1, <2>3
<1>8. CASE clientLoop(c)
  <2>1. UNCHANGED <<entityVars, m_clients, m_connectionQueue, toClient>>
    BY <1>8 DEF clientLoop, acceptVars
  <2>2. \A d \in Conn \ {c} : client'[d] = client[d] /\ toClient'[d] = toClient[d]
    BY <1>1, <1>8 DEF clientLoop
  <2>3. client'[c].socket = client[c].socket
    BY <1>1, <1>8 DEF clientLoop, ClientState
  <2>4. ChannelSound(c)'
    BY <1>1, <1>8, LoopChannel
  <2> QED
    BY <2>1, <2>2, <2>3, <2>4, OneClient
<1>9. CASE clientClose(c)
  <2>1. /\ UNCHANGED <<entityVars, m_clients, m_connectionQueue>>
        /\ toClient' = [toClient EXCEPT ![c] = <<>>]
        /\ client' = [client EXCEPT ![c] = [client[c] EXCEPT
             !.socket = "null", !.replicas = <<>>, !.destroys = <<>>,
             !.provider = <<>>]]
    BY <1>9 DEF clientClose, acceptVars
  <2>2. /\ client'[c].destroys = <<>> /\ client'[c].socket = "null"
        /\ client'[c].notFound = client[c].notFound
        /\ toClient'[c] = <<>>
        /\ \A d \in Conn \ {c} : client'[d] = client[d] /\ toClient'[d] = toClient[d]
    BY <1>1, <2>1 DEF ClientState
  <2>3. Gone' = Gone /\ ~Joined(c)' /\ Range(client'[c].destroys) = {}
    BY <2>1, <2>2 DEF Gone, Joined, entityVars, Range
  <2>4. ChannelSound(c)'
    BY <1>1, <2>2, <2>3, ClosedChannel
  <2> QED
    BY <2>1, <2>2, <2>4, OneClient
<1> QED
  BY <1>3, <1>4, <1>5, <1>6, <1>7, <1>8, <1>9 DEF clientSync

LEMMA SoundStep ==
  ASSUME TypeOK, Sound, [Next]_vars
  PROVE  Sound'
<1>1. CASE UNCHANGED vars
  <2>1. UNCHANGED <<client, toClient, entityVars, m_connectionQueue, m_clients>>
    BY <1>1 DEF vars, acceptVars
  <2> QED
    BY <2>1, IdleServer DEF Accepted
<1>2. CASE Next
  BY <1>2, ApplicationSound, SyncSound, ClientSound DEF Next
<1> QED
  BY <1>1, <1>2

LEMMA SoundInit == Init => Sound
<1> SUFFICES ASSUME Init PROVE Sound
  OBVIOUS
<1>1. /\ Range(entities) = {} /\ Range(m_entityRemoveEventQueue) = {}
      /\ Range(m_connectionQueue) = {} /\ Accepted = {} /\ entities = <<>>
  BY DEF Init, Range, Accepted
<1>2. ASSUME NEW c \in Conn PROVE ChannelSound(c)
  <2>1. /\ client[c].destroys = <<>> /\ ~client[c].notFound /\ toClient[c] = <<>>
    BY DEF Init
  <2> QED
    BY <1>1, <2>1, ToldEmpty, FitEmpty DEF ChannelSound, Complete, Range
<1> QED
  BY <1>1, <1>2 DEF Sound, ListSound, SocketsSound

(***************************************************************************)
(* The invariant holds for any number of connections and entities.         *)
(***************************************************************************)
THEOREM SoundInvariant == Spec => []IInv
<1>1. Init => IInv
  BY SoundInit, TypeInit DEF IInv
<1>2. IInv /\ [Next]_vars => IInv'
  BY SoundStep, TypeStep DEF IInv
<1> QED
  BY <1>1, <1>2, PTL DEF Spec

(***************************************************************************)
(* No client ever receives values for an entity it does not have.          *)
(***************************************************************************)
THEOREM AlwaysFound == Spec => []NothingNotFound
<1>1. IInv => NothingNotFound
  BY DEF IInv, Sound, ChannelSound, NothingNotFound
<1> QED
  BY <1>1, SoundInvariant, PTL

(***************************************************************************)
(* A client that is up to date has a replica of every entity.              *)
(***************************************************************************)
THEOREM NoneMissing == Spec => []NoEntityMissing
<1>1. ASSUME IInv, NEW c \in Conn, UpToDate(c)
      PROVE  Range(entities) \subseteq ReplicaIds(c)
  <2>1. Joined(c) /\ Range(m_entityAddEventQueue) = {}
    BY <1>1 DEF UpToDate, Joined, isConnected, QueuesEmpty, Range
  <2>2. Told(toClient[c], "AddEntity") = {}
    BY <1>1, ToldEmpty DEF UpToDate
  <2> QED
    BY <1>1, <2>1, <2>2 DEF IInv, Sound, ChannelSound, Complete
<1>2. IInv => NoEntityMissing
  BY <1>1 DEF NoEntityMissing
<1> QED
  BY <1>2, SoundInvariant, PTL

\* Only the application loop of a client takes a replica from it.
LEMMA ReplicasStay ==
  ASSUME TypeOK, Sound, [Next]_vars, NEW c \in Conn, client'[c].socket = "open"
  PROVE  ReplicaIds(c) \ ReplicaIds(c)' \subseteq Gone
<1>1. /\ client \in [Conn -> ClientState] /\ client[c] \in ClientState
      /\ ChannelSound(c)
  BY DEF TypeOK, ClientTypeOK, Sound
<1>2. ASSUME client'[c].replicas = client[c].replicas
      PROVE  ReplicaIds(c) \ ReplicaIds(c)' \subseteq Gone
  BY <1>2 DEF ReplicaIds, Replicas
<1>3. CASE UNCHANGED client
  BY <1>2, <1>3
<1>4. ASSUME NEW d \in Conn, d # c,
             connect(d) \/ userEvent(d) \/ clientSync(d) \/ clientLoop(d) \/ clientClose(d)
      PROVE  ReplicaIds(c) \ ReplicaIds(c)' \subseteq Gone
  <2>1. client'[c] = client[c]
    BY <1>1, <1>4 DEF connect, userEvent, clientSync, clientSend, clientPull,
       clientNotices, clientLoop, clientClose, processInit, processAddEntity,
       processRemoveEntity, processSyncEntity, pulledFromProvider
  <2> QED
    BY <1>2, <2>1
<1>5. CASE connect(c) \/ userEvent(c) \/ clientSend(c) \/ clientNotices(c)
  <2>1. client'[c].replicas = client[c].replicas
    BY <1>1, <1>5 DEF connect, userEvent, clientSend, clientNotices,
       pulledFromProvider, ClientState
  <2> QED
    BY <1>2, <2>1
<1>6. CASE clientPull(c)
  <2>1. ReplicaIds(c) \subseteq ReplicaIds(c)'
    BY <1>1, <1>6, PullChannel
  <2> QED
    BY <2>1
<1>7. CASE clientLoop(c)
  BY <1>1, <1>7, LoopChannel
<1>8. CASE clientClose(c)
  BY <1>1, <1>8 DEF clientClose, ClientState
<1>9. CASE UNCHANGED vars
  BY <1>3, <1>9 DEF vars
<1>10. CASE \/ addEntity \/ \E e \in Range(entities), v \in Value : assign(e, v)
            \/ \E i \in DOMAIN entities : destroyEntity(i)
            \/ pullEvent \/ serverStop
  BY <1>3, <1>10 DEF addEntity, assign, destroyEntity, pullEvent, serverStop
<1>11. CASE sync
  BY <1>3, <1>11 DEF sync, startSync, refreshOne, acceptOne, acceptedAll,
     broadcastAdd, broadcastRemove, broadcastValue, sentAll, receiveOne, endSync
<1> QED
  BY <1>4, <1>5, <1>6, <1>7, <1>8, <1>9, <1>10, <1>11 DEF Next, clientSync

(***************************************************************************)
(* A running client only loses replicas of entities the server removed.    *)
(***************************************************************************)
THEOREM RemovedOnly == Spec => OnlyRemovedVanish
<1>1. ASSUME IInv, [Next]_vars
      PROVE  \A c \in Conn : client'[c].socket = "open" =>
               (ReplicaIds(c) \ ReplicaIds(c)') \cap Range(entities) = {}
  BY <1>1, ReplicasStay DEF IInv, Gone
<1>2. IInv /\ [Next]_vars =>
        [\A c \in Conn : client'[c].socket = "open" =>
           (ReplicaIds(c) \ ReplicaIds(c)') \cap Range(entities) = {}]_vars
  BY <1>1
<1> QED
  BY <1>2, SoundInvariant, PTL DEF Spec, OnlyRemovedVanish

-----------------------------------------------------------------------------
(* Values *)

\* The client that finds replicas shows v for entity e.
Shows(replicas, e, v) ==
  \E i \in DOMAIN replicas : IsFirst(replicas, i, e) /\ replicas[i].value = v

\* The last value on its way for entity e is v.
LastTold(q, e, v) ==
  \E k \in DOMAIN q :
    /\ q[k].type = "SyncEntity" /\ q[k].id = e /\ q[k].value = v
    /\ \A j \in DOMAIN q : j > k /\ q[j].type = "SyncEntity" => q[j].id # e

\* A client with these replicas, and q on its way, will show v for entity e.
WillShow(q, replicas, e, v) ==
  \/ LastTold(q, e, v)
  \/ e \notin Told(q, "SyncEntity") /\ Shows(replicas, e, v)

(***************************************************************************)
(* What was written for a client is still marked, on its way or shown.     *)
(***************************************************************************)
ValuesSound ==
  /\ \A e \in EntityId : e > created => dirty[e]
  /\ \A c \in Conn : serial[c] = 0 => since[c] = {}
  /\ \A c \in Conn : Joined(c) =>
       \A e \in Range(entities) \cap since[c] :
         dirty[e] \/ WillShow(toClient[c], client[c].replicas, e, value[e])

\* One more replica hides none.
LEMMA ShowsAfterAppend ==
  ASSUME NEW s \in Seq(Replica), NEW r \in Replica, NEW e, NEW v, Shows(s, e, v)
  PROVE  Shows(Append(s, r), e, v)
<1> DEFINE a == Append(s, r)
<1>1. /\ DOMAIN s = 1 .. Len(s) /\ DOMAIN a = 1 .. Len(s) + 1 /\ Len(s) \in Nat
      /\ \A k \in 1 .. Len(s) : a[k] = s[k]
  BY AppendProperties, LenProperties
<1> HIDE DEF a
<1>2. PICK i \in DOMAIN s : IsFirst(s, i, e) /\ s[i].value = v
  BY DEF Shows
<1>3. i \in DOMAIN a /\ IsFirst(a, i, e) /\ a[i].value = v
  BY <1>1, <1>2 DEF IsFirst
<1> QED
  BY <1>3 DEF Shows, a

\* A value that is handled is shown, and changes no other entity.
LEMMA ShowsAfterUpdate ==
  ASSUME NEW s \in Seq(Replica), NEW i \in DOMAIN s, NEW d, IsFirst(s, i, d), NEW w
  PROVE  /\ Shows([s EXCEPT ![i].value = w], d, w)
         /\ \A e, v : e # d /\ Shows(s, e, v) => Shows([s EXCEPT ![i].value = w], e, v)
<1> DEFINE u == [s EXCEPT ![i].value = w]
<1>1. s[i] \in Replica /\ DOMAIN s = 1 .. Len(s)
  BY ElementOfSeq, LenProperties
<1>2. [s[i] EXCEPT !.value = w].id = s[i].id /\ [s[i] EXCEPT !.value = w].value = w
  BY <1>1 DEF Replica
<1>3. u = [s EXCEPT ![i] = [s[i] EXCEPT !.value = w]]
  OBVIOUS
<1>4. /\ DOMAIN u = DOMAIN s /\ \A j \in DOMAIN s : u[j].id = s[j].id
      /\ u[i].value = w /\ \A j \in DOMAIN s \ {i} : u[j] = s[j]
  BY <1>2, <1>3
<1> HIDE DEF u
<1>5. ASSUME NEW j \in DOMAIN s, NEW e, IsFirst(s, j, e)
      PROVE  IsFirst(u, j, e)
  BY <1>1, <1>4, <1>5 DEF IsFirst
<1>6. Shows(u, d, w)
  BY <1>4, <1>5 DEF Shows
<1>7. ASSUME NEW e, NEW v, e # d, Shows(s, e, v)
      PROVE  Shows(u, e, v)
  <2>1. PICK j \in DOMAIN s : IsFirst(s, j, e) /\ s[j].value = v
    BY <1>7 DEF Shows
  <2>2. j # i
    BY <1>7, <2>1 DEF IsFirst
  <2> QED
    BY <1>4, <1>5, <2>1, <2>2 DEF Shows
<1> QED
  BY <1>6, <1>7 DEF u

\* Removing the first replica of an entity changes no other entity.
LEMMA ShowsAfterRemoveAt ==
  ASSUME NEW s \in Seq(Replica), NEW i \in DOMAIN s, NEW e, s[i].id # e, NEW v,
         Shows(s, e, v)
  PROVE  Shows(RemoveAt(s, i), e, v)
<1> DEFINE r == RemoveAt(s, i)
           n == Len(s)
<1>1. /\ DOMAIN s = 1 .. n /\ n \in Nat \ {0} /\ i \in 1 .. n
      /\ DOMAIN r = 1 .. n - 1
      /\ \A k \in 1 .. n - 1 : r[k] = IF k < i THEN s[k] ELSE s[k + 1]
  BY RemovedDomain
<1> HIDE DEF r, n
<1>2. PICK j \in 1 .. n : IsFirst(s, j, e) /\ s[j].value = v
  BY <1>1 DEF Shows
<1>3. j # i
  BY <1>2 DEF IsFirst
<1> DEFINE k == IF j < i THEN j ELSE j - 1
<1>4. k \in 1 .. n - 1 /\ r[k] = s[j]
  BY <1>1, <1>3
<1>5. ASSUME NEW l \in 1 .. k - 1
      PROVE  r[l].id # e
  <2>1. l \in 1 .. n - 1
    BY <1>1, <1>4
  <2>2. (l < i => l \in 1 .. j - 1) /\ (~(l < i) => l + 1 \in 1 .. j - 1)
    BY <1>1, <1>3
  <2> QED
    BY <1>1, <1>2, <2>1, <2>2 DEF IsFirst
<1> HIDE DEF k
<1>6. IsFirst(r, k, e)
  BY <1>2, <1>4, <1>5 DEF IsFirst
<1> QED
  BY <1>1, <1>2, <1>4, <1>6 DEF Shows, r

\* A package about anything but the value of e changes nothing for e.
LEMMA WillShowAfterAppend ==
  ASSUME NEW S, NEW q \in Seq(S), NEW p \in S,
         NEW e, ~(p.type = "SyncEntity" /\ p.id = e),
         NEW replicas, NEW v, WillShow(q, replicas, e, v)
  PROVE  WillShow(Append(q, p), replicas, e, v)
<1> DEFINE a == Append(q, p)
           n == Len(q)
<1>1. /\ DOMAIN q = 1 .. n /\ DOMAIN a = 1 .. n + 1 /\ n \in Nat
      /\ \A k \in 1 .. n : a[k] = q[k]
      /\ a[n + 1] = p
  BY AppendProperties, LenProperties
<1>2. Told(a, "SyncEntity") =
        Told(q, "SyncEntity") \cup (IF p.type = "SyncEntity" THEN {p.id} ELSE {})
  BY ToldAppend
<1> HIDE DEF a, n
<1>3. ASSUME LastTold(q, e, v)
      PROVE  LastTold(a, e, v)
  <2>1. PICK k \in 1 .. n :
          /\ q[k].type = "SyncEntity" /\ q[k].id = e /\ q[k].value = v
          /\ \A j \in 1 .. n : j > k /\ q[j].type = "SyncEntity" => q[j].id # e
    BY <1>1, <1>3 DEF LastTold
  <2>2. k \in DOMAIN a /\ a[k] = q[k]
    BY <1>1
  <2>3. ASSUME NEW j \in 1 .. n + 1, j > k, a[j].type = "SyncEntity"
        PROVE  a[j].id # e
    <3>1. j \in 1 .. n \/ j = n + 1
      BY <1>1
    <3> QED
      BY <1>1, <2>1, <2>3, <3>1
  <2> QED
    BY <1>1, <2>1, <2>2, <2>3 DEF LastTold
<1> QED
  BY <1>2, <1>3 DEF WillShow, a

\* A value that is written is the last one.
LEMMA WillShowAfterValue ==
  ASSUME NEW S, NEW q \in Seq(S), NEW p \in S, p.type = "SyncEntity", NEW replicas
  PROVE  WillShow(Append(q, p), replicas, p.id, p.value)
<1> DEFINE a == Append(q, p)
           n == Len(q)
<1>1. DOMAIN a = 1 .. n + 1 /\ n \in Nat /\ a[n + 1] = p
  BY AppendProperties, LenProperties
<1> HIDE DEF a, n
<1>2. n + 1 \in DOMAIN a /\ \A j \in DOMAIN a : ~(j > n + 1)
  BY <1>1
<1>3. LastTold(a, p.id, p.value)
  BY <1>1, <1>2 DEF LastTold
<1> QED
  BY <1>3 DEF WillShow, a

\* The first package has been handled: another value than e's leaves what is
\* shown for e, and e's is shown.
LEMMA WillShowAfterTail ==
  ASSUME NEW S, NEW q \in Seq(S), q # <<>>, NEW e, NEW v,
         NEW replicas, WillShow(q, replicas, e, v), NEW replicas2,
         Head(q).type = "SyncEntity" /\ Head(q).id = e
           => Shows(replicas2, e, Head(q).value),
         ~(Head(q).type = "SyncEntity" /\ Head(q).id = e) /\ Shows(replicas, e, v)
           => Shows(replicas2, e, v)
  PROVE  WillShow(Tail(q), replicas2, e, v)
<1> DEFINE r == Tail(q)
           n == Len(q)
<1>1. /\ DOMAIN q = 1 .. n /\ n \in Nat \ {0} /\ DOMAIN r = 1 .. n - 1
      /\ \A k \in 1 .. n - 1 : r[k] = q[k + 1]
      /\ Head(q) = q[1]
  BY HeadTailProperties, LenProperties, EmptySeq
<1>2. Told(q, "SyncEntity") = Told(r, "SyncEntity")
                \cup (IF Head(q).type = "SyncEntity" THEN {Head(q).id} ELSE {})
  BY ToldTail
<1> HIDE DEF r, n
<1>3. ASSUME LastTold(q, e, v)
      PROVE  WillShow(r, replicas2, e, v)
  <2>1. PICK k \in 1 .. n :
          /\ q[k].type = "SyncEntity" /\ q[k].id = e /\ q[k].value = v
          /\ \A j \in 1 .. n : j > k /\ q[j].type = "SyncEntity" => q[j].id # e
    BY <1>1, <1>3 DEF LastTold
  <2>2. CASE k = 1
    <3>1. ASSUME NEW j \in 1 .. n - 1, r[j].type = "SyncEntity"
          PROVE  r[j].id # e
      <4>1. j + 1 \in 1 .. n /\ j + 1 > k
        BY <1>1, <2>2
      <4> QED
        BY <1>1, <2>1, <3>1, <4>1
    <3>2. e \notin Told(r, "SyncEntity")
      BY <1>1, <3>1 DEF Told
    <3> QED
      BY <1>1, <2>1, <2>2, <3>2 DEF WillShow
  <2>3. CASE k # 1
    <3>1. k - 1 \in 1 .. n - 1 /\ r[k - 1] = q[k]
      BY <1>1, <2>3
    <3>2. ASSUME NEW j \in 1 .. n - 1, j > k - 1, r[j].type = "SyncEntity"
          PROVE  r[j].id # e
      <4>1. j + 1 \in 1 .. n /\ j + 1 > k
        BY <1>1, <3>2
      <4> QED
        BY <1>1, <2>1, <3>2, <4>1
    <3>3. LastTold(r, e, v)
      BY <1>1, <2>1, <3>1, <3>2 DEF LastTold
    <3> QED
      BY <3>3 DEF WillShow
  <2> QED
    BY <2>2, <2>3
<1>4. ASSUME e \notin Told(q, "SyncEntity"), Shows(replicas, e, v)
      PROVE  WillShow(r, replicas2, e, v)
  <2>1. ~(Head(q).type = "SyncEntity" /\ Head(q).id = e) /\ e \notin Told(r, "SyncEntity")
    BY <1>2, <1>4
  <2> QED
    BY <1>4, <2>1 DEF WillShow
<1> QED
  BY <1>3, <1>4 DEF WillShow, r

\* A client that handles a package goes on to show what it will show.
LEMMA PulledValue ==
  ASSUME TypeOK, NEW c \in Conn, ChannelSound(c), clientPull(c), NEW e, NEW v,
         WillShow(toClient[c], client[c].replicas, e, v)
  PROVE  WillShow(toClient'[c], client'[c].replicas, e, v)
<1> DEFINE p == Head(toClient[c])
           s == client[c].replicas
           s2 == client'[c].replicas
<1>1. /\ toClient[c] \in Seq(Package) /\ toClient[c] # <<>> /\ p \in Package
      /\ client[c] \in ClientState /\ s \in Seq(Replica)
      /\ toClient'[c] = Tail(toClient[c]) /\ client \in [Conn -> ClientState]
  BY PulledPackage DEF TypeOK, ClientTypeOK
<1>2. CASE p.type = "SyncEntity" /\ processSyncEntity(c, p)
  <2>1. p.id \in ReplicaIds(c)
    BY <1>1, <1>2, FitHead DEF ChannelSound
  <2>2. PICK j \in DOMAIN s : s[j].id = p.id
    BY <2>1 DEF ReplicaIds, Replicas, Range
  <2>3. PICK i \in DOMAIN s :
          IsFirst(s, i, p.id) /\ client' = [client EXCEPT ![c].replicas[i].value = p.value]
    BY <1>2, <2>2 DEF processSyncEntity
  <2>4. s2 = [s EXCEPT ![i].value = p.value]
    BY <1>1, <2>3 DEF ClientState
  <2>5. /\ Shows(s2, p.id, p.value)
        /\ \A d, w : d # p.id /\ Shows(s, d, w) => Shows(s2, d, w)
    <3> HIDE DEF p, s, s2
    <3> QED
      BY <1>1, <2>3, <2>4, ShowsAfterUpdate
  <2> HIDE DEF s, s2
  <2> QED
    BY <1>1, <1>2, <2>5, WillShowAfterTail DEF s, s2
<1>3. CASE p.type = "AddEntity" /\ processAddEntity(c, p)
  <2> DEFINE r == [id |-> p.id, value |-> Default]
  <2>1. r \in Replica
    BY <1>1, <1>3 DEF Package, Replica, FieldValue
  <2>2. s2 = Append(s, r)
    BY <1>1, <1>3 DEF processAddEntity, ClientState
  <2>3. Shows(s, e, v) => Shows(s2, e, v)
    <3> HIDE DEF r, s, s2
    <3> QED
      BY <1>1, <2>1, <2>2, ShowsAfterAppend
  <2> QED
    BY <1>1, <1>3, <2>3, WillShowAfterTail
<1>4. CASE p.type # "SyncEntity" /\ (processInit(c, p) \/ processRemoveEntity(c, p))
  <2>1. s2 = s
    BY <1>1, <1>4 DEF processInit, processRemoveEntity, ClientState
  <2> QED
    BY <1>1, <1>4, <2>1, WillShowAfterTail
<1> QED
  BY <1>2, <1>3, <1>4 DEF clientPull

\* A client's application loop leaves what is shown for entities that exist.
LEMMA LoopedValue ==
  ASSUME TypeOK, NEW c \in Conn, ChannelSound(c), clientLoop(c),
         NEW e \in Range(entities), NEW v, Shows(client[c].replicas, e, v)
  PROVE  Shows(client'[c].replicas, e, v)
<1> DEFINE d == Head(client[c].destroys)
           s == client[c].replicas
<1>1. /\ client[c] \in ClientState /\ s \in Seq(Replica)
      /\ client[c].destroys \in Seq(EntityId) /\ client[c].destroys # <<>>
      /\ client \in [Conn -> ClientState]
  BY ClientFields DEF clientLoop, TypeOK, ClientTypeOK
<1>2. d # e
  <2>1. d \in Range(client[c].destroys)
    BY <1>1, RangeTail
  <2> QED
    BY <2>1 DEF ChannelSound, Gone
<1>3. \/ client'[c].replicas = s
      \/ \E i \in DOMAIN s : s[i].id = d /\ client'[c].replicas = RemoveAt(s, i)
  BY <1>1 DEF clientLoop, IsFirst, ClientState
<1> HIDE DEF d
<1>4. ASSUME NEW i \in DOMAIN s, s[i].id = d
      PROVE  Shows(RemoveAt(s, i), e, v)
  BY <1>1, <1>2, <1>4, ShowsAfterRemoveAt
<1> QED
  BY <1>3, <1>4

\* A value that is broadcast is the last one told.
LEMMA ValueIsLast ==
  ASSUME TypeOK, NEW i \in DOMAIN entities, broadcastValue(i), NEW c \in Conn, Joined(c)
  PROVE  WillShow(toClient'[c], client'[c].replicas, entities[i], value'[entities[i]])
<1> DEFINE d == entities[i]
           p == SyncEntity(d)
<1>1. d \in EntityId /\ toClient[c] \in Seq(Package)
  BY ElementOfSeq, LenProperties, ClientFields DEF TypeOK, ServerTypeOK
<1>2. p \in Package /\ p.type = "SyncEntity" /\ p.id = d /\ p.value = value[d]
  BY <1>1 DEF SyncEntity, Package, TypeOK, ServerTypeOK
<1>3. UNCHANGED <<client, value>> /\ Broadcast(p)
  BY DEF broadcastValue
<1> HIDE DEF d, p
<1>4. toClient'[c] = Append(toClient[c], p)
  BY <1>2, <1>3, ToldToAll
<1>5. WillShow(Append(toClient[c], p), client[c].replicas, p.id, p.value)
  BY <1>1, <1>2, WillShowAfterValue
<1> QED
  BY <1>2, <1>3, <1>4, <1>5 DEF d

\* What a step does to what a client shows and will be told.
LEMMA ShownEffect ==
  ASSUME TypeOK, Sound, ConnectionsSound, [Next]_vars,
         NEW c \in Conn, Joined(c), Joined(c)',
         NEW e \in Range(entities),
         WillShow(toClient[c], client[c].replicas, e, value[e]),
         ~dirty'[e], value'[e] = value[e]
  PROVE  WillShow(toClient'[c], client'[c].replicas, e, value'[e])
<1>1. /\ toClient \in [Conn -> Seq(Package)] /\ client \in [Conn -> ClientState]
      /\ toClient[c] \in Seq(Package) /\ ChannelSound(c)
      /\ client[c] \in ClientState
  BY DEF TypeOK, ClientTypeOK, Sound
<1>2. CASE toClient'[c] = toClient[c] /\ client'[c].replicas = client[c].replicas
  BY <1>2
<1>3. ASSUME NEW p \in Package, Broadcast(p), UNCHANGED client,
             ~(p.type = "SyncEntity" /\ p.id = e)
      PROVE  WillShow(toClient'[c], client'[c].replicas, e, value'[e])
  <2>1. toClient'[c] = Append(toClient[c], p)
    BY <1>3, ToldToAll
  <2> QED
    BY <1>1, <1>3, <2>1, WillShowAfterAppend
<1>4. CASE broadcastAdd
  <2> DEFINE d == Head(m_entityAddEventQueue)
  <2>1. d \in EntityId
    BY <1>4, HeadAndTail DEF broadcastAdd, TypeOK, ServerTypeOK
  <2>2. AddEntity(d) \in Package /\ AddEntity(d).type # "SyncEntity"
    BY <2>1 DEF AddEntity, Package
  <2>3. UNCHANGED client /\ (Broadcast(AddEntity(d)) \/ UNCHANGED toClient)
    BY <1>4 DEF broadcastAdd
  <2> HIDE DEF d
  <2> QED
    BY <1>2, <1>3, <2>2, <2>3
<1>5. CASE broadcastRemove
  <2> DEFINE d == Head(m_entityRemoveEventQueue)
  <2>1. d \in EntityId
    BY <1>5, HeadAndTail DEF broadcastRemove, TypeOK, ServerTypeOK
  <2>2. RemoveEntity(d) \in Package /\ RemoveEntity(d).type # "SyncEntity"
    BY <2>1 DEF RemoveEntity, Package
  <2>3. UNCHANGED client /\ Broadcast(RemoveEntity(d))
    BY <1>5 DEF broadcastRemove
  <2> HIDE DEF d
  <2> QED
    BY <1>3, <2>2, <2>3
<1>6. ASSUME NEW i \in DOMAIN entities, broadcastValue(i)
      PROVE  WillShow(toClient'[c], client'[c].replicas, e, value'[e])
  <2> DEFINE d == entities[i]
             p == SyncEntity(d)
  <2>1. d \in EntityId
    BY ElementOfSeq, LenProperties DEF TypeOK, ServerTypeOK
  <2>2. p \in Package /\ p.id = d
    BY <2>1 DEF SyncEntity, Package, TypeOK, ServerTypeOK
  <2>3. UNCHANGED client /\ Broadcast(p)
    BY <1>6 DEF broadcastValue
  <2> HIDE DEF d, p
  <2>4. CASE d = e
    BY <1>1, <1>6, <2>4, ValueIsLast DEF d
  <2> QED
    BY <1>3, <2>2, <2>3, <2>4
<1>7. CASE clientPull(c)
  BY <1>1, <1>7, PulledValue
<1>8. CASE clientLoop(c)
  <2>1. toClient'[c] = toClient[c]
    BY <1>8 DEF clientLoop
  <2>2. Shows(client[c].replicas, e, value[e]) => Shows(client'[c].replicas, e, value[e])
    BY <1>1, <1>8, LoopedValue
  <2> QED
    BY <2>1, <2>2 DEF WillShow
<1>9. ASSUME NEW d \in Conn, d # c,
             connect(d) \/ userEvent(d) \/ clientSync(d) \/ clientLoop(d) \/ clientClose(d)
      PROVE  toClient'[c] = toClient[c] /\ client'[c] = client[c]
  BY <1>1, <1>9 DEF connect, userEvent, clientSync, clientSend, clientPull,
     clientNotices, clientLoop, clientClose, pulledFromProvider, processInit,
     processAddEntity, processRemoveEntity, processSyncEntity
<1>10. CASE connect(c) \/ userEvent(c) \/ clientSend(c) \/ clientNotices(c)
  BY <1>1, <1>2, <1>10 DEF connect, userEvent, clientSend, clientNotices,
     pulledFromProvider, ClientState
<1>11. CASE clientClose(c)
  BY <1>1, <1>11 DEF clientClose, Joined, ClientState
<1>12. CASE serverStop
  <2>1. m_clients' = <<>>
    BY <1>12 DEF serverStop
  <2> QED
    BY <2>1 DEF Joined, Accepted
<1>13. CASE acceptOne
  <2> DEFINE d == Head(m_connectionQueue)
  <2>1. /\ d \in Conn
        /\ toClient' = [toClient EXCEPT ![d] = IF isConnected(d) THEN Hello ELSE @]
        /\ UNCHANGED client /\ c # d
    BY <1>13, AcceptedNext DEF acceptOne, Joined
  <2> HIDE DEF d
  <2> QED
    BY <1>1, <1>2, <2>1
<1>14. CASE UNCHANGED <<client, toClient>>
  BY <1>2, <1>14
<1>15. \/ UNCHANGED <<client, toClient>>
       \/ broadcastAdd \/ broadcastRemove
       \/ \E i \in DOMAIN entities : broadcastValue(i)
       \/ acceptOne \/ serverStop
       \/ \E d \in Conn : connect(d) \/ userEvent(d) \/ clientSync(d) \/ clientLoop(d)
                          \/ clientClose(d)
  BY DEF vars, Next, addEntity, assign, destroyEntity, pullEvent, sync, startSync,
     refreshOne, acceptedAll, sentAll, receiveOne, endSync
<1> QED
  BY <1>2, <1>4, <1>5, <1>6, <1>7, <1>8, <1>9, <1>10, <1>11, <1>12, <1>13, <1>14,
     <1>15 DEF clientSync

\* What is broadcast to a client that was accepted in the step, or before.
LEMMA JoinedEffect ==
  ASSUME TypeOK, ConnectionsSound, [Next]_vars, NEW c \in Conn, Joined(c)'
  PROVE  Joined(c) \/ (acceptOne /\ c = Head(m_connectionQueue))
<1>1. client[c].socket = "open" \/ connect(c)
  BY ClientEffect DEF Joined, TypeOK, userEvent, clientNotices, clientClose
<1>2. CASE c \in Accepted
  <2>1. client[c].socket # "new"
    BY <1>2 DEF ConnectionsSound
  <2> QED
    BY <1>1, <1>2, <2>1 DEF Joined, connect
<1>3. CASE c \notin Accepted
  <2>1. \/ UNCHANGED m_clients
        \/ \E i \in DOMAIN m_clients : m_clients' = RemoveAt(m_clients, i)
        \/ acceptOne \/ serverStop
    BY ServerEffect DEF connect
  <2>2. ~UNCHANGED m_clients
    BY <1>3 DEF Joined, Accepted
  <2>3. ~\E i \in DOMAIN m_clients : m_clients' = RemoveAt(m_clients, i)
    BY <1>3, AcceptedAfterRemoveAt DEF Joined
  <2>4. ~serverStop
    BY DEF serverStop, Joined, Accepted
  <2>5. acceptOne
    BY <2>1, <2>2, <2>3, <2>4
  <2> DEFINE k == [id |-> m_nextClientId, conn |-> Head(m_connectionQueue)]
  <2>6. k \in [id : 0 .. ClientIds - 1, conn : Conn] /\ m_clients' = Append(m_clients, k)
    BY <2>5, AcceptedNext DEF TypeOK, ServerTypeOK
  <2>7. k.conn = Head(m_connectionQueue)
    OBVIOUS
  <2> HIDE DEF k
  <2>8. Accepted' = Accepted \cup {Head(m_connectionQueue)}
    BY <2>6, <2>7, AcceptedAfterAppend
  <2> QED
    BY <1>3, <2>5, <2>8 DEF Joined
<1> QED
  BY <1>2, <1>3

\* What the application writes is marked.
LEMMA WrittenEffect ==
  ASSUME TypeOK, ConnectionsSound, ValuesSound, [Next]_vars, NEW c \in Conn,
         NEW e \in Range(entities') \cap since'[c], ~dirty'[e]
  PROVE  e \in Range(entities) /\ e \in since[c] /\ value'[e] = value[e]
<1>1. /\ entities \in Seq(EntityId) /\ created \in Nat /\ MaxEntities \in Nat
      /\ since \in [Conn -> SUBSET EntityId] /\ dirty \in [EntityId -> BOOLEAN]
      /\ value \in [EntityId -> FieldValue]
      /\ created < MaxEntities => created + 1 \in EntityId
  BY ReplicationAssumption DEF TypeOK, ServerTypeOK, HistoryTypeOK, EntityId
<1>2. created < MaxEntities => dirty[created + 1]
  BY <1>1 DEF ValuesSound
<1>3. CASE UNCHANGED <<entities, since, value>>
  BY <1>3
<1>4. ASSUME Create, UNCHANGED <<dirty, value>>, NEW watchers,
             NoteWritten(created + 1, watchers)
      PROVE  e \in Range(entities) /\ e \in since[c] /\ value'[e] = value[e]
  <2>1. Range(entities') = Range(entities) \cup {created + 1}
    BY <1>1, <1>4, RangeAppend DEF Create
  <2>2. e # created + 1
    BY <1>2, <1>4 DEF Create
  <2>3. e \in since[c]
    BY <1>4, <2>2 DEF NoteWritten
  <2> QED
    BY <1>4, <2>1, <2>2, <2>3
<1>5. ASSUME NEW d \in Range(entities), NEW v \in Value, assign(d, v)
      PROVE  e \in Range(entities) /\ e \in since[c] /\ value'[e] = value[e]
  <2>1. d \in EntityId /\ UNCHANGED entities
    BY <1>1, <1>5, RangeOfSeq DEF assign
  <2>2. dirty'[d]
    BY <1>1, <1>5, <2>1 DEF assign
  <2>3. e # d
    BY <2>2
  <2>4. e \in since[c] /\ value'[e] = value[e]
    BY <1>1, <1>5, <2>1, <2>3 DEF assign, NoteWritten
  <2> QED
    BY <2>1, <2>4
<1>6. ASSUME NEW i \in DOMAIN entities, destroyEntity(i)
      PROVE  e \in Range(entities) /\ e \in since[c] /\ value'[e] = value[e]
  <2>1. Range(entities') \subseteq Range(entities)
    BY <1>1, <1>6, RangeRemoveAt DEF destroyEntity
  <2> QED
    BY <1>6, <2>1 DEF destroyEntity, historyVars
<1>7. \/ UNCHANGED <<entities, since, value>>
      \/ \E d \in Range(entities), v \in Value : assign(d, v)
      \/ \E i \in DOMAIN entities : destroyEntity(i)
      \/ /\ UNCHANGED <<dirty, value>> /\ Create
         /\ \E watchers : NoteWritten(created + 1, watchers)
  BY ZenonT(30) DEF vars, entityVars, historyVars, Next, addEntity, pullEvent, serverStop, sync,
     startSync, refreshOne, acceptOne, acceptedAll, broadcastAdd, broadcastRemove,
     broadcastValue, sentAll, receiveOne, endSync, connect, userEvent, clientSync,
     clientSend, clientPull, clientNotices, clientLoop, clientClose
<1> QED
  BY <1>3, <1>4, <1>5, <1>6, <1>7

\* Only what exists is washed.
LEMMA DirtyEffect ==
  ASSUME TypeOK, Sound, ValuesSound, [Next]_vars,
         NEW e \in EntityId, e > created'
  PROVE  dirty'[e]
<1>1. /\ entities \in Seq(EntityId) /\ created \in Nat
      /\ dirty \in [EntityId -> BOOLEAN] /\ e \in Nat
      /\ Range(entities) \subseteq 1 .. created
  BY DEF TypeOK, ServerTypeOK, Sound, ListSound, EntityId
<1>2. /\ \/ created' = created \/ created' = created + 1
      /\ \/ dirty' = dirty
         \/ \E d \in Range(entities) : dirty' = [dirty EXCEPT ![d] = TRUE]
         \/ \E i \in DOMAIN entities : dirty' = [dirty EXCEPT ![entities[i]] = FALSE]
  BY DEF vars, entityVars, Next, addEntity, assign, destroyEntity, pullEvent,
     serverStop, sync, startSync, refreshOne, acceptOne, Create, acceptedAll,
     broadcastAdd, broadcastRemove, broadcastValue, sentAll, receiveOne, endSync,
     connect, userEvent, clientSync, clientSend, clientPull, clientNotices,
     clientLoop, clientClose
<1>3. e > created /\ dirty[e]
  BY <1>1, <1>2 DEF ValuesSound
<1>4. \A i \in DOMAIN entities : entities[i] # e
  BY <1>1, <1>3 DEF Range
<1> QED
  BY <1>1, <1>2, <1>3, <1>4

\* What is washed is told.
LEMMA WashedEffect ==
  ASSUME TypeOK, [Next]_vars, NEW c \in Conn, Joined(c),
         NEW e \in Range(entities), dirty[e], ~dirty'[e]
  PROVE  WillShow(toClient'[c], client'[c].replicas, e, value'[e])
<1>1. dirty \in [EntityId -> BOOLEAN] /\ e \in EntityId /\ Range(entities) \subseteq EntityId
  BY RangeOfSeq DEF TypeOK, ServerTypeOK
<1>2. \/ dirty' = dirty
      \/ \E d \in Range(entities) : dirty' = [dirty EXCEPT ![d] = TRUE]
      \/ \E i \in DOMAIN entities : broadcastValue(i)
  BY DEF vars, entityVars, Next, addEntity, assign, destroyEntity, pullEvent,
     serverStop, sync, startSync, refreshOne, acceptOne, Create, acceptedAll,
     broadcastAdd, broadcastRemove, sentAll, receiveOne, endSync, connect, userEvent,
     clientSync, clientSend, clientPull, clientNotices, clientLoop, clientClose
<1>3. PICK i \in DOMAIN entities : broadcastValue(i)
  BY <1>1, <1>2
<1>4. entities[i] = e
  BY <1>1, <1>3 DEF broadcastValue
<1> QED
  BY <1>3, <1>4, ValueIsLast

\* Nothing is written for a client before it is accepted.
LEMMA SinceEffect ==
  ASSUME TypeOK, ConnectionsSound, ValuesSound, [Next]_vars,
         NEW c \in Conn, serial'[c] = 0
  PROVE  since'[c] = {}
<1>1. serial[c] = 0 /\ since[c] = {} /\ c \notin Accepted
  BY SerialEffect DEF ValuesSound, ConnectionsSound
<1>2. CASE acceptOne
  <2> DEFINE d == Head(m_connectionQueue)
  <2>1. d \in Conn /\ serial' = [serial EXCEPT ![d] = accepted + 1]
    BY <1>2, AcceptedNext
  <2>2. UNCHANGED since \/ NoteWritten(created + 1, Accepted \cup {d})
    BY <1>2 DEF acceptOne
  <2> HIDE DEF d
  <2>3. c # d
    BY <2>1 DEF TypeOK, HistoryTypeOK
  <2> QED
    BY <1>1, <2>2, <2>3 DEF NoteWritten
<1>3. ASSUME NEW e, NoteWritten(e, Accepted)
      PROVE  since'[c] = {}
  BY <1>1, <1>3 DEF NoteWritten
<1>4. UNCHANGED since \/ acceptOne \/ \E e : NoteWritten(e, Accepted)
  BY DEF vars, historyVars, Next, addEntity, assign, destroyEntity, pullEvent,
     serverStop, sync, startSync, refreshOne, acceptedAll, broadcastAdd,
     broadcastRemove, broadcastValue, sentAll, receiveOne, endSync, connect,
     userEvent, clientSync, clientSend, clientPull, clientNotices, clientLoop,
     clientClose
<1> QED
  BY <1>1, <1>2, <1>3, <1>4

ValuesInv == IInv /\ ConnectionsSound /\ ValuesSound

LEMMA ValuesStep ==
  ASSUME ValuesInv, [Next]_vars
  PROVE  ValuesInv'
<1>1. TypeOK /\ Sound /\ ConnectionsSound /\ ValuesSound
  BY DEF ValuesInv, IInv
<1>2. IInv' /\ ConnectionsSound'
  BY <1>1, TypeStep, SoundStep, ConnectionsStep DEF IInv
<1>3. ASSUME NEW c \in Conn, Joined(c)', NEW e \in Range(entities') \cap since'[c],
             ~dirty'[e]
      PROVE  WillShow(toClient'[c], client'[c].replicas, e, value'[e])
  <2>1. e \in Range(entities) /\ e \in since[c] /\ value'[e] = value[e]
    BY <1>1, <1>3, WrittenEffect
  <2>2. Joined(c)
    <3>1. serial[c] # 0
      BY <1>1, <2>1 DEF ValuesSound
    <3> QED
      BY <1>1, <1>3, <3>1, JoinedEffect, AcceptedNext
  <2>3. CASE dirty[e]
    BY <1>1, <1>3, <2>1, <2>2, <2>3, WashedEffect
  <2>4. CASE ~dirty[e]
    <3>1. WillShow(toClient[c], client[c].replicas, e, value[e])
      BY <1>1, <2>1, <2>2, <2>4 DEF ValuesSound
    <3> QED
      BY <1>1, <1>3, <2>1, <2>2, <3>1, ShownEffect
  <2> QED
    BY <2>3, <2>4
<1>4. ValuesSound'
  BY <1>1, <1>3, DirtyEffect, SinceEffect DEF ValuesSound
<1> QED
  BY <1>2, <1>4 DEF ValuesInv

(***************************************************************************)
(* A client that is up to date shows the value of every entity written     *)
(* since it joined, for any number of clients, entities, values and        *)
(* assignments.                                                            *)
(***************************************************************************)
THEOREM WrittenAlwaysArrive == Spec => []WrittenValuesArrive
<1>1. Init => ValuesInv
  <2> SUFFICES ASSUME Init PROVE ValuesInv
    OBVIOUS
  <2>1. IInv
    BY SoundInit, TypeInit DEF IInv
  <2>2. ConnectionsSound
    BY IdsInit DEF IdsInv
  <2>3. Accepted = {}
    BY DEF Init, Accepted
  <2>4. ValuesSound
    BY <2>3 DEF Init, ValuesSound, Joined
  <2> QED
    BY <2>1, <2>2, <2>4 DEF ValuesInv
<1>2. ValuesInv /\ [Next]_vars => ValuesInv'
  BY ValuesStep
<1>3. ASSUME ValuesInv, NEW c \in Conn, UpToDate(c),
             NEW e \in Range(entities) \cap since[c],
             NEW i \in DOMAIN client[c].replicas, IsFirst(client[c].replicas, i, e)
      PROVE  client[c].replicas[i].value = value[e]
  <2>1. Joined(c) /\ ~dirty[e] /\ toClient[c] = <<>>
    BY <1>3 DEF UpToDate, isConnected, Joined
  <2>2. WillShow(<<>>, client[c].replicas, e, value[e])
    BY <1>3, <2>1 DEF ValuesInv, ValuesSound
  <2>3. ~LastTold(<<>>, e, value[e])
    BY DEF LastTold
  <2>4. PICK j \in DOMAIN client[c].replicas :
          IsFirst(client[c].replicas, j, e) /\ client[c].replicas[j].value = value[e]
    BY <2>2, <2>3 DEF WillShow, Shows
  <2>5. DOMAIN client[c].replicas = 1 .. Len(client[c].replicas)
    BY <1>3, ClientFields, LenProperties DEF ValuesInv, IInv, TypeOK
  <2>6. i = j
    BY <1>3, <2>4, <2>5 DEF IsFirst
  <2> QED
    BY <2>4, <2>6
<1>4. ValuesInv => WrittenValuesArrive
  BY <1>3 DEF WrittenValuesArrive
<1> QED
  BY <1>1, <1>2, <1>4, PTL DEF Spec
=============================================================================
