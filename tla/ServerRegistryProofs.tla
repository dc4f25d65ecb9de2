------------------------ MODULE ServerRegistryProofs ------------------------
(***************************************************************************)
(* Proofs about ServerRegistry, for any number of connections, operators   *)
(* and commanders, and whatever addresses collide: what holds of every     *)
(* client, and what holds of those whose hash nobody shares.               *)
(***************************************************************************)
EXTENDS ServerRegistry, TLAPS

USE RegistryAssumption

LEMMA InitTypeOK == Init => TypeOK
  BY DEF Init, TypeOK

LEMMA SweepTyped ==
  ASSUME TypeOK, hashOf' = hashOf, NEW h \in Operators \cup Conns, NEW c \in Conns,
         WriteBlocks(h, c) \/ DisconnectOne(h, c)
  PROVE  TypeOK'
<1>1. CASE WriteBlocks(h, c)
  BY <1>1 DEF WriteBlocks, TypeOK, connVars, loginVars, flagVars
<1>2. CASE DisconnectOne(h, c)
  BY <1>2 DEF DisconnectOne, Close, Delete, TypeOK, loginVars, flagVars
<1> QED BY <1>1, <1>2

LEMMA ConnTyped ==
  ASSUME TypeOK, hashOf' = hashOf, NEW c \in Conns, HandleConnection(c) \/ HandlerCloses(c) \/ JoinServer(c)
  PROVE  TypeOK'
<1> USE DEF TypeOK
<1>1. CASE HandleConnection(c)
  <2>1. CASE CheckMaintenance(c) \/ CheckAccepting(c) \/ ReaderStops(c)
    BY <2>1 DEF CheckMaintenance, CheckAccepting, ReaderStops, Step, loginVars, flagVars, opVars
  <2>2. CASE AddClient(c)
    BY <2>2 DEF AddClient, Step, loginVars, flagVars, opVars
  <2>3. CASE RemoveClient(c)
    BY <2>3 DEF RemoveClient, Step, Close, Delete, loginVars, flagVars, opVars
  <2> QED BY <1>1, <2>1, <2>2, <2>3 DEF HandleConnection
<1>2. CASE HandlerCloses(c)
  BY <1>2 DEF HandlerCloses, Close, loginVars, flagVars, opVars
<1>3. CASE LoginFails(c) \/ \E m \in Commanders : LoginGet(c, m)
  <2>1. CASE LoginFails(c)
    BY <2>1 DEF LoginFails, Close, flagVars, opVars
  <2>2. ASSUME NEW m \in Commanders, LoginGet(c, m)
        PROVE  TypeOK'
    BY <2>2 DEF LoginGet, connVars, flagVars, opVars
  <2> QED BY <1>3, <2>1, <2>2
<1>4. CASE LoginKick(c)
  <2>1. sweep' \subseteq Conns /\ mutex' = c /\ passedOver' \subseteq Commanders \cup {NoCommander}
    BY <1>4 DEF LoginKick, DisconnectCommander, PassOver, Matches, Registered
  <2>2. login' \in [Conns -> {"idle", "loading", "kicking", "joined"}]
    BY <1>4 DEF LoginKick
  <2> QED BY <1>4, <2>1, <2>2 DEF LoginKick, connVars, flagVars
<1>5. CASE LoginKicked(c)
  BY <1>5 DEF LoginKicked, connVars, flagVars
<1>6. ASSUME NEW d \in Conns, WriteBlocks(c, d) \/ DisconnectOne(c, d)
      PROVE  TypeOK'
  BY <1>6, SweepTyped
<1> QED BY <1>1, <1>2, <1>3, <1>4, <1>5, <1>6 DEF JoinServer

LEMMA OperatorTyped ==
  ASSUME TypeOK, hashOf' = hashOf, NEW o \in Operators, Operator(o)
  PROVE  TypeOK'
<1> USE DEF TypeOK
<1>1. CASE \E enabled \in BOOLEAN : SetAcceptingConnections(o, enabled) \/ SetMaintenance(o, enabled)
  BY <1>1 DEF SetAcceptingConnections, SetMaintenance, OpStep, connVars, loginVars
<1>2. CASE DisconnectAllBegin(o)
  BY <1>2 DEF DisconnectAllBegin, OpStep, Registered, Joining, connVars, loginVars, flagVars
<1>3. ASSUME NEW c \in Conns, WriteBlocks(o, c) \/ DisconnectOne(o, c)
      PROVE  TypeOK'
  BY <1>3, SweepTyped
<1>4. CASE DisconnectAllEnd(o)
  BY <1>4 DEF DisconnectAllEnd, OpStep, connVars, loginVars, flagVars
<1>5. ASSUME NEW c \in Conns, KickFind(o, c)
      PROVE  TypeOK'
  BY <1>5 DEF KickFind, OpStep, connVars, loginVars, flagVars
<1>6. CASE KickRemove(o)
  BY <1>6 DEF KickRemove, OpStep, Close, Delete, loginVars, flagVars
<1> QED BY <1>1, <1>2, <1>3, <1>4, <1>5, <1>6 DEF Operator, DisconnectAll

LEMMA TypeStep == TypeOK /\ [Next]_vars => TypeOK'
<1> SUFFICES ASSUME TypeOK, [Next]_vars PROVE TypeOK'
  OBVIOUS
<1>1. CASE UNCHANGED vars
  BY <1>1 DEF vars, serverVars, connVars, loginVars, flagVars, opVars, TypeOK
<1> QED BY <1>1, ConnTyped, OperatorTyped DEF Next

-----------------------------------------------------------------------------
(* What a handler of CS_10022 leaves alone.                                *)

LEMMA JoinFrame ==
  ASSUME NEW c \in Conns, JoinServer(c)
  PROVE  /\ UNCHANGED <<pc, accepting, maintenance, opc, target, late>>
         /\ \/ clients' = clients
            \/ \E d \in Conns : DisconnectOne(c, d) /\ Delete(d)
  BY DEF JoinServer, LoginGet, LoginFails, LoginKick, LoginKicked, WriteBlocks, DisconnectOne,
         connVars, flagVars, opVars

-----------------------------------------------------------------------------
(* Registered clients.                                                     *)

\* A step that registers nobody, and takes nobody who stays registered out of
\* the two states, keeps SlotInv.
LEMMA SlotKept ==
  ASSUME SlotInv, TypeOK, hashOf' = hashOf,
         \A h \in Hashes : clients'[h] \in Conns =>
           clients'[h] = clients[h] /\ pc'[clients[h]] \in {"serving", "leaving"},
         \A o \in Operators : opc'[o] = "kick" => target'[o] \in Conns
  PROVE  SlotInv'
  BY DEF SlotInv, TypeOK

LEMMA SlotStep ==
  ASSUME TypeOK, SlotInv, [Next]_vars
  PROVE  SlotInv'
<1>t. TypeOK
  OBVIOUS
<1>h. hashOf' = hashOf
  BY DEF Next, vars
<1>s. /\ \A h \in Hashes : clients[h] \in Conns =>
           hashOf[clients[h]] = h /\ pc[clients[h]] \in {"serving", "leaving"}
      /\ \A o \in Operators : opc[o] = "kick" => target[o] \in Conns
  BY DEF SlotInv
<1>1. ASSUME NEW c \in Conns, AddClient(c)
      PROVE  SlotInv'
  <2>1. \A h \in Hashes : clients'[h] = IF h = hashOf[c] THEN c ELSE clients[h]
    BY <1>1, <1>t DEF AddClient, TypeOK
  <2>2. pc'[c] = "serving" /\ \A d \in Conns : d # c => pc'[d] = pc[d]
    BY <1>1, <1>t DEF AddClient, Step, TypeOK
  <2>3. UNCHANGED <<opc, target>>
    BY <1>1 DEF AddClient, opVars
  <2> QED BY <1>s, <2>1, <2>2, <2>3, <1>h DEF SlotInv
<1>2. ASSUME NEW c \in Conns, RemoveClient(c)
      PROVE  SlotInv'
  <2>1. \A h \in Hashes : clients'[h] = IF h = hashOf[c] THEN NoConn ELSE clients[h]
    BY <1>2, <1>t DEF RemoveClient, Delete, TypeOK
  <2>2. \A d \in Conns : d # c => pc'[d] = pc[d]
    BY <1>2, <1>t DEF RemoveClient, Step, TypeOK
  <2>3. UNCHANGED <<opc, target>>
    BY <1>2 DEF RemoveClient, opVars
  <2>4. \A h \in Hashes : clients'[h] \in Conns => clients'[h] = clients[h] /\ clients[h] # c
    BY <1>s, <2>1
  <2> QED BY <1>s, <2>2, <2>3, <2>4, SlotKept, <1>h
<1>3. ASSUME NEW c \in Conns,
             \/ CheckMaintenance(c) \/ CheckAccepting(c) \/ ReaderStops(c)
             \/ HandlerCloses(c) \/ JoinServer(c)
      PROVE  SlotInv'
  <2>1. \A h \in Hashes : clients'[h] \in Conns => clients'[h] = clients[h]
    BY <1>3, <1>t, JoinFrame DEF CheckMaintenance, CheckAccepting, ReaderStops, HandlerCloses, Delete, TypeOK
  <2>2. \A d \in Conns : pc[d] \in {"serving", "leaving"} => pc'[d] \in {"serving", "leaving"}
    BY <1>3, <1>t, JoinFrame DEF CheckMaintenance, CheckAccepting, ReaderStops, HandlerCloses, Step, TypeOK
  <2>3. UNCHANGED <<opc, target>>
    BY <1>3, JoinFrame DEF CheckMaintenance, CheckAccepting, ReaderStops, HandlerCloses, opVars
  <2> QED BY <1>s, <2>1, <2>2, <2>3, SlotKept, <1>h
<1>4. ASSUME NEW o \in Operators, Operator(o)
      PROVE  SlotInv'
  <2>1. \A h \in Hashes : clients'[h] \in Conns => clients'[h] = clients[h]
    BY <1>4, <1>t DEF Operator, SetAcceptingConnections, SetMaintenance, DisconnectAll,
       DisconnectAllBegin, WriteBlocks, DisconnectOne, DisconnectAllEnd, KickFind, KickRemove, Delete, TypeOK
  <2>2. pc' = pc
    BY <1>4 DEF Operator, SetAcceptingConnections, SetMaintenance, DisconnectAll,
       DisconnectAllBegin, WriteBlocks, DisconnectOne, DisconnectAllEnd, KickFind, KickRemove, connVars
  <2>3. \A p \in Operators : opc'[p] = "kick" => target'[p] \in Conns
    <3>1. CASE KickRemove(o)
      BY <1>s, <1>t, <3>1 DEF KickRemove, OpStep, TypeOK
    <3>2. ASSUME NEW c \in Conns, KickFind(o, c)
          PROVE  \A p \in Operators : opc'[p] = "kick" => target'[p] \in Conns
      BY <1>s, <1>t, <3>2 DEF KickFind, OpStep, TypeOK
    <3>3. CASE target' = target /\ \A p \in Operators : opc'[p] = "kick" => opc[p] = "kick"
      BY <1>s, <3>3
    <3> QED
      BY <1>4, <1>t, <3>1, <3>2, <3>3 DEF Operator, SetAcceptingConnections, SetMaintenance,
         DisconnectAll, DisconnectAllBegin, WriteBlocks, DisconnectOne, DisconnectAllEnd, OpStep, TypeOK
  <2> QED BY <1>s, <2>1, <2>2, <2>3, SlotKept, <1>h
<1>5. CASE UNCHANGED vars
  BY <1>s, <1>h, <1>5 DEF vars, serverVars, connVars, opVars, SlotInv
<1> QED BY <1>1, <1>2, <1>3, <1>4, <1>5 DEF Next, HandleConnection

-----------------------------------------------------------------------------
(* Clients whose hash nobody shares.                                       *)

\* What a step may do to the registry: a client is taken out only when it is
\* closed, or replaced only by one with the same hash.
LEMMA ConnectedStep ==
  ASSUME TypeOK, SlotInv, ConnectedIsRegistered, [Next]_vars
  PROVE  ConnectedIsRegistered'
<1>t. TypeOK
  OBVIOUS
<1>s. \A o \in Operators : opc[o] = "kick" => target[o] \in Conns
  BY DEF SlotInv
<1>h. hashOf' = hashOf /\ Alone' = Alone
  BY DEF Next, vars, Alone
<1> SUFFICES ASSUME NEW d \in Conns, d \in Alone, pc'[d] = "serving", ~closed'[d]
             PROVE  clients'[hashOf[d]] = d
  BY <1>h DEF ConnectedIsRegistered, Connected
<1>a. \A e \in Conns : hashOf[e] = hashOf[d] => e = d
  BY DEF Alone
<1>i. pc[d] = "serving" /\ ~closed[d] => clients[hashOf[d]] = d
  BY DEF ConnectedIsRegistered, Connected
<1>r. ASSUME NEW c \in Conns, Close(c), Delete(c), pc' = pc \/ pc'[c] # "serving",
             \A e \in Conns : e # c => pc'[e] = pc[e]
      PROVE  clients'[hashOf[d]] = d
  <2>1. closed'[c] /\ \A e \in Conns : e # c => closed'[e] = closed[e]
    BY <1>r, <1>t DEF Close, TypeOK
  <2>2. d # c /\ hashOf[d] # hashOf[c]
    BY <1>a, <2>1
  <2>3. clients'[hashOf[d]] = clients[hashOf[d]]
    BY <1>r, <1>t, <2>2 DEF Delete, TypeOK
  <2> QED BY <1>i, <1>r, <2>1, <2>2, <2>3
<1>k. ASSUME clients' = clients, pc'[d] = "serving" => pc[d] = "serving", closed[d] => closed'[d]
      PROVE  clients'[hashOf[d]] = d
  BY <1>i, <1>k
<1>1. ASSUME NEW c \in Conns, AddClient(c)
      PROVE  clients'[hashOf[d]] = d
  <2>1. clients'[hashOf[c]] = c /\ \A h \in Hashes : h # hashOf[c] => clients'[h] = clients[h]
    BY <1>1, <1>t DEF AddClient, TypeOK
  <2>2. closed' = closed /\ \A e \in Conns : e # c => pc'[e] = pc[e]
    BY <1>1, <1>t DEF AddClient, Step, TypeOK
  <2>3. CASE d # c
    BY <1>a, <1>i, <1>t, <2>1, <2>2, <2>3 DEF TypeOK
  <2> QED BY <2>1, <2>3
<1>2. ASSUME NEW c \in Conns, RemoveClient(c)
      PROVE  clients'[hashOf[d]] = d
  <2>1. pc'[c] = "gone" /\ \A e \in Conns : e # c => pc'[e] = pc[e]
    BY <1>2, <1>t DEF RemoveClient, Step, TypeOK
  <2> QED BY <1>2, <1>r, <2>1 DEF RemoveClient
<1>3. ASSUME NEW c \in Conns,
             \/ CheckMaintenance(c) \/ CheckAccepting(c) \/ ReaderStops(c)
             \/ HandlerCloses(c) \/ LoginFails(c) \/ \E m \in Commanders : LoginGet(c, m)
             \/ LoginKick(c) \/ LoginKicked(c)
      PROVE  clients'[hashOf[d]] = d
  <2>1. clients' = clients
    BY <1>3 DEF CheckMaintenance, CheckAccepting, ReaderStops, HandlerCloses, LoginFails, LoginGet,
                LoginKick, LoginKicked
  <2>2. pc'[d] = "serving" => pc[d] = "serving"
    BY <1>3, <1>t DEF CheckMaintenance, CheckAccepting, ReaderStops, HandlerCloses, LoginFails,
                      LoginGet, LoginKick, LoginKicked, Step, TypeOK, connVars
  <2>3. closed[d] => closed'[d]
    BY <1>3, <1>t DEF CheckMaintenance, CheckAccepting, ReaderStops, HandlerCloses, LoginFails,
                      LoginGet, LoginKick, LoginKicked, Close, TypeOK, connVars
  <2> QED BY <2>1, <2>2, <2>3, <1>k
<1>4. ASSUME NEW h \in Operators \cup Conns, NEW c \in Conns, WriteBlocks(h, c)
      PROVE  clients'[hashOf[d]] = d
  BY <1>4, <1>k DEF WriteBlocks, connVars
<1>5. ASSUME NEW h \in Operators \cup Conns, NEW c \in Conns, DisconnectOne(h, c)
      PROVE  clients'[hashOf[d]] = d
  BY <1>5, <1>r DEF DisconnectOne
<1>6. ASSUME NEW o \in Operators, KickRemove(o)
      PROVE  clients'[hashOf[d]] = d
  <2>1. target[o] \in Conns
    BY <1>6, <1>s DEF KickRemove, OpStep
  <2> QED BY <1>6, <1>r, <2>1 DEF KickRemove
<1>7. ASSUME NEW o \in Operators,
             \/ \E enabled \in BOOLEAN : SetAcceptingConnections(o, enabled) \/ SetMaintenance(o, enabled)
             \/ DisconnectAllBegin(o) \/ DisconnectAllEnd(o) \/ \E c \in Conns : KickFind(o, c)
      PROVE  clients'[hashOf[d]] = d
  <2>1. UNCHANGED <<clients, pc, closed>>
    BY <1>7 DEF SetAcceptingConnections, SetMaintenance, DisconnectAllBegin, DisconnectAllEnd,
                KickFind, connVars
  <2> QED BY <1>k, <2>1
<1>8. CASE UNCHANGED vars
  BY <1>8, <1>k DEF vars, serverVars, connVars
<1> QED
  BY <1>1, <1>2, <1>3, <1>4, <1>5, <1>6, <1>7, <1>8
     DEF Next, HandleConnection, JoinServer, Operator, DisconnectAll

\* closed, once set, stays set.
LEMMA ClosedStays ==
  ASSUME TypeOK, [Next]_vars, NEW d \in Conns, closed[d]
  PROVE  closed'[d]
<1>1. ASSUME NEW c \in Conns, HandleConnection(c) \/ HandlerCloses(c) \/ JoinServer(c)
      PROVE  closed'[d]
  BY <1>1 DEF HandleConnection, CheckMaintenance, CheckAccepting, AddClient, ReaderStops,
     RemoveClient, HandlerCloses, JoinServer, LoginGet, LoginFails, LoginKick, LoginKicked,
     WriteBlocks, DisconnectOne, Close, TypeOK, connVars
<1>2. ASSUME NEW o \in Operators, Operator(o)
      PROVE  closed'[d]
  BY <1>2 DEF Operator, SetAcceptingConnections, SetMaintenance, DisconnectAll,
     DisconnectAllBegin, WriteBlocks, DisconnectOne, DisconnectAllEnd, KickFind, KickRemove, Close, TypeOK, connVars
<1>3. CASE UNCHANGED vars
  BY <1>3 DEF vars, serverVars, connVars
<1> QED BY <1>1, <1>2, <1>3 DEF Next

-----------------------------------------------------------------------------
(* Sweeps, and what is left of the connections on their way in.            *)

LEMMA PlaceStep ==
  ASSUME TypeOK, [Next]_vars, NEW d \in Conns
  PROVE  \/ pc'[d] = pc[d]
         \/ CheckMaintenance(d) \/ CheckAccepting(d) \/ AddClient(d)
         \/ ReaderStops(d) \/ RemoveClient(d)
<1>1. ASSUME NEW c \in Conns, HandleConnection(c), c # d
      PROVE  pc'[d] = pc[d]
  BY <1>1 DEF HandleConnection, CheckMaintenance, CheckAccepting, AddClient, ReaderStops,
     RemoveClient, Step, TypeOK
<1>2. ASSUME NEW c \in Conns, HandlerCloses(c) \/ JoinServer(c)
      PROVE  pc'[d] = pc[d]
  BY <1>2, JoinFrame DEF HandlerCloses
<1>3. ASSUME NEW o \in Operators, Operator(o)
      PROVE  pc'[d] = pc[d]
  BY <1>3 DEF Operator, SetAcceptingConnections, SetMaintenance, DisconnectAll,
     DisconnectAllBegin, WriteBlocks, DisconnectOne, DisconnectAllEnd, KickFind, KickRemove, connVars
<1>4. CASE UNCHANGED vars
  BY <1>4 DEF vars, serverVars, connVars
<1> QED BY <1>1, <1>2, <1>3, <1>4 DEF Next, HandleConnection

\* Only AddClient makes a connection a connected client.
LEMMA ConnectedBefore ==
  ASSUME TypeOK, [Next]_vars, NEW d \in Connected'
  PROVE  d \in Conns /\ (d \in Connected \/ AddClient(d))
<1>1. d \in Conns /\ pc'[d] = "serving" /\ ~closed'[d] /\ ~closed[d]
  BY ClosedStays DEF Connected
<1>2. pc[d] = "serving" \/ AddClient(d)
  BY <1>1, PlaceStep DEF CheckMaintenance, CheckAccepting, ReaderStops, RemoveClient, Step, TypeOK
<1> QED BY <1>1, <1>2 DEF Connected

\* Who holds clientsMutex, and to whom a sweep still owes its turn, after a step.
LEMMA SweepStep ==
  ASSUME TypeOK, SlotInv, EarlyInv, ConnectedIsRegistered, SweepInv, [Next]_vars
  PROVE  SweepInv'
<1>s. /\ \A o \in Operators : opc[o] = "sweeping" <=> mutex = o
      /\ \A c \in Conns : login[c] = "kicking" <=> mutex = c
      /\ mutex \in Operators => Connected \cap Alone \subseteq sweep
  BY DEF SweepInv
<1>h. Alone' = Alone /\ Alone \subseteq Conns
  BY DEF Next, vars, Alone
<1>1. ASSUME NEW o \in Operators, DisconnectAllBegin(o)
      PROVE  SweepInv'
  <2>1. \A c \in Connected \cap Alone : c \in Registered
    BY DEF ConnectedIsRegistered, Registered, Connected, TypeOK
  <2>2. Connected' = Connected /\ sweep' = Registered /\ mutex' = o /\ login' = login
    BY <1>1 DEF DisconnectAllBegin, Connected, connVars, loginVars
  <2>3. /\ opc'[o] = "sweeping"
        /\ \A p \in Operators : p # o => opc'[p] = opc[p] /\ opc[p] # "sweeping"
    BY <1>1, <1>s DEF DisconnectAllBegin, OpStep, MutexFree, TypeOK
  <2>4. \A c \in Conns : login[c] # "kicking" /\ c # o
    BY <1>1, <1>s DEF DisconnectAllBegin, MutexFree
  <2> QED BY <2>1, <2>2, <2>3, <2>4, <1>h DEF SweepInv
<1>2. ASSUME NEW h \in Operators \cup Conns, NEW c \in Conns, DisconnectOne(h, c)
      PROVE  SweepInv'
  <2>1. sweep' = sweep \ {c} /\ closed'[c] /\ UNCHANGED <<mutex, opc, pc, login>>
    BY <1>2 DEF DisconnectOne, Close, TypeOK, loginVars
  <2>2. Connected' \subseteq Connected \ {c}
    BY <2>1, ClosedStays DEF Connected
  <2> QED BY <1>s, <2>1, <2>2, <1>h DEF SweepInv
<1>3. ASSUME NEW o \in Operators, DisconnectAllEnd(o)
      PROVE  SweepInv'
  <2>1. mutex' = NoHolder /\ mutex = o /\ login' = login
    BY <1>3 DEF DisconnectAllEnd, loginVars
  <2>2. \A p \in Operators : opc'[p] # "sweeping"
    BY <1>3, <1>s, <2>1 DEF DisconnectAllEnd, OpStep, TypeOK
  <2> QED BY <1>s, <2>1, <2>2, <1>h DEF SweepInv
<1>4. ASSUME /\ UNCHANGED <<mutex, sweep>>
             /\ \A o \in Operators : opc'[o] = "sweeping" <=> opc[o] = "sweeping"
             /\ \A c \in Conns : login'[c] = "kicking" <=> login[c] = "kicking"
      PROVE  SweepInv'
  <2>1. mutex \in Operators => Connected' \subseteq Connected
    BY ConnectedBefore DEF AddClient, MutexFree
  <2> QED BY <1>4, <1>s, <2>1, <1>h DEF SweepInv
<1>5. ASSUME NEW c \in Conns, LoginKick(c)
      PROVE  SweepInv'
  <2>1. mutex = NoHolder /\ mutex' = c /\ opc' = opc
    BY <1>5 DEF LoginKick, DisconnectCommander, MutexFree
  <2>2. login'[c] = "kicking" /\ \A d \in Conns : d # c => login'[d] = login[d]
    BY <1>5 DEF LoginKick, TypeOK
  <2>3. \A d \in Conns : login[d] # "kicking"
    BY <1>s, <2>1
  <2>4. \A p \in Operators : opc[p] # "sweeping" /\ p # c
    BY <1>s, <2>1
  <2> QED BY <2>1, <2>2, <2>3, <2>4, <1>h DEF SweepInv
<1>6. ASSUME NEW c \in Conns, LoginKicked(c)
      PROVE  SweepInv'
  <2>1. mutex = c /\ mutex' = NoHolder /\ opc' = opc
    BY <1>6 DEF LoginKicked
  <2>2. login'[c] = "joined" /\ \A d \in Conns : d # c => login'[d] = login[d]
    BY <1>6 DEF LoginKicked, TypeOK
  <2>3. \A d \in Conns : d # c => login[d] # "kicking"
    BY <1>s, <2>1
  <2>4. \A p \in Operators : opc[p] # "sweeping"
    BY <1>s, <2>1
  <2> QED BY <2>1, <2>2, <2>3, <2>4, <1>h DEF SweepInv
<1>7. ASSUME NEW c \in Conns, HandleConnection(c) \/ HandlerCloses(c)
      PROVE  SweepInv'
  <2>1. UNCHANGED <<mutex, opc, sweep, login>>
    BY <1>7 DEF HandleConnection, CheckMaintenance, CheckAccepting, AddClient, ReaderStops,
       RemoveClient, HandlerCloses, opVars, loginVars
  <2> QED BY <2>1, <1>4
<1>8. ASSUME NEW c \in Conns, LoginFails(c) \/ \E m \in Commanders : LoginGet(c, m)
      PROVE  SweepInv'
  <2>1. UNCHANGED <<mutex, opc, sweep>>
    BY <1>8 DEF LoginFails, LoginGet, opVars
  <2>2. \A d \in Conns : login'[d] = "kicking" <=> login[d] = "kicking"
    BY <1>8 DEF LoginFails, LoginGet, TypeOK
  <2> QED BY <2>1, <2>2, <1>4
<1>9. ASSUME NEW h \in Operators \cup Conns, NEW c \in Conns, WriteBlocks(h, c)
      PROVE  SweepInv'
  BY <1>4, <1>9 DEF WriteBlocks, loginVars
<1>10. ASSUME NEW o \in Operators,
             \/ \E enabled \in BOOLEAN : SetAcceptingConnections(o, enabled) \/ SetMaintenance(o, enabled)
             \/ (\E c \in Conns : KickFind(o, c)) \/ KickRemove(o)
      PROVE  SweepInv'
  <2>1. UNCHANGED <<mutex, sweep, login>>
    BY <1>10 DEF SetAcceptingConnections, SetMaintenance, KickFind, KickRemove, loginVars
  <2>2. \A p \in Operators : opc'[p] = "sweeping" <=> opc[p] = "sweeping"
    BY <1>10 DEF SetAcceptingConnections, SetMaintenance, KickFind, KickRemove, OpStep, TypeOK
  <2> QED BY <2>1, <2>2, <1>4
<1>11. CASE UNCHANGED vars
  BY <1>4, <1>11 DEF vars, serverVars, opVars, loginVars
<1> QED
  BY <1>1, <1>2, <1>3, <1>5, <1>6, <1>7, <1>8, <1>9, <1>10, <1>11
     DEF Next, JoinServer, Operator, DisconnectAll

\* Nobody gets back on the way in, and nobody on the way in is closed, logs in, is
\* swept or is looked up to be kicked: only registered clients are.
LEMMA EarlyStep ==
  ASSUME TypeOK, SlotInv, EarlyInv, SweepInv, [Next]_vars
  PROVE  EarlyInv'
<1> SUFFICES ASSUME NEW c \in Conns, Early(c)'
             PROVE  /\ ~closed'[c] /\ login'[c] = "idle" /\ c \notin sweep'
                    /\ \A o \in Operators : opc'[o] = "kick" => target'[o] # c
  BY DEF EarlyInv
<1>0. /\ Early(c) /\ ~closed[c] /\ login[c] = "idle" /\ c \notin sweep
      /\ \A o \in Operators : opc[o] = "kick" => target[o] # c
  <2>1. Early(c)
    BY PlaceStep DEF Early, CheckMaintenance, CheckAccepting, AddClient, ReaderStops, RemoveClient, Step, TypeOK
  <2> QED BY <2>1 DEF EarlyInv
<1>1. c \notin Registered
  BY <1>0 DEF SlotInv, Registered, Early
<1>2. mutex # c
  BY <1>0 DEF SweepInv
<1>3. ~closed'[c]
  <2>1. ASSUME NEW d \in Conns, d # c, Close(d)
        PROVE  ~closed'[c]
    BY <1>0, <2>1 DEF Close, TypeOK
  <2>2. ASSUME NEW h \in Operators \cup Conns, NEW d \in Conns, DisconnectOne(h, d)
        PROVE  ~closed'[c]
    BY <1>0, <2>1, <2>2 DEF DisconnectOne
  <2>3. ASSUME NEW o \in Operators, KickRemove(o)
        PROVE  ~closed'[c]
    <3>1. target[o] \in Conns /\ target[o] # c
      BY <1>0, <2>3 DEF KickRemove, OpStep, SlotInv
    <3> QED BY <2>1, <2>3, <3>1 DEF KickRemove
  <2>4. ASSUME NEW d \in Conns, RemoveClient(d)
        PROVE  ~closed'[c]
    <3>1. d # c
      BY <1>0, <2>4 DEF RemoveClient, Step, Early
    <3> QED BY <2>1, <2>4, <3>1 DEF RemoveClient
  <2>5. ASSUME NEW d \in Conns, HandlerCloses(d)
        PROVE  ~closed'[c]
    <3>1. d # c
      BY <1>0, <2>5 DEF HandlerCloses, Early
    <3> QED BY <2>1, <2>5, <3>1 DEF HandlerCloses
  <2>6. ASSUME NEW d \in Conns, LoginFails(d)
        PROVE  ~closed'[c]
    <3>1. d # c
      BY <1>0, <2>6 DEF LoginFails
    <3> QED BY <2>1, <2>6, <3>1 DEF LoginFails
  <2>7. CASE closed' = closed
    BY <1>0, <2>7
  <2>8. ASSUME NEW d \in Conns,
               \/ CheckMaintenance(d) \/ CheckAccepting(d) \/ AddClient(d) \/ ReaderStops(d)
               \/ LoginKick(d) \/ LoginKicked(d) \/ \E m \in Commanders : LoginGet(d, m)
        PROVE  closed' = closed
    BY <2>8 DEF CheckMaintenance, CheckAccepting, AddClient, ReaderStops, LoginKick, LoginKicked, LoginGet, connVars
  <2>9. ASSUME NEW h \in Operators \cup Conns, NEW d \in Conns, WriteBlocks(h, d)
        PROVE  closed' = closed
    BY <2>9 DEF WriteBlocks, connVars
  <2>10. ASSUME NEW o \in Operators,
             \/ \E enabled \in BOOLEAN : SetAcceptingConnections(o, enabled) \/ SetMaintenance(o, enabled)
             \/ DisconnectAllBegin(o) \/ DisconnectAllEnd(o) \/ \E d \in Conns : KickFind(o, d)
         PROVE  closed' = closed
    BY <2>10 DEF SetAcceptingConnections, SetMaintenance, DisconnectAllBegin, DisconnectAllEnd, KickFind, connVars
  <2>11. CASE UNCHANGED vars
    BY <2>7, <2>11 DEF vars, serverVars, connVars
  <2> QED
    BY <2>2, <2>3, <2>4, <2>5, <2>6, <2>7, <2>8, <2>9, <2>10, <2>11
       DEF Next, HandleConnection, JoinServer, Operator, DisconnectAll
<1>4. login'[c] = "idle"
  <2>1. ASSUME NEW d \in Conns, JoinServer(d)
        PROVE  login'[c] = "idle"
    BY <1>0, <1>2, <2>1 DEF JoinServer, LoginGet, LoginFails, LoginKick, LoginKicked, WriteBlocks,
       DisconnectOne, Early, TypeOK, loginVars
  <2>2. ASSUME NEW d \in Conns, HandleConnection(d) \/ HandlerCloses(d)
        PROVE  login' = login
    BY <2>2 DEF HandleConnection, CheckMaintenance, CheckAccepting, AddClient, ReaderStops,
       RemoveClient, HandlerCloses, loginVars
  <2>3. ASSUME NEW o \in Operators, Operator(o)
        PROVE  login' = login
    BY <2>3 DEF Operator, SetAcceptingConnections, SetMaintenance, DisconnectAll,
       DisconnectAllBegin, WriteBlocks, DisconnectOne, DisconnectAllEnd, KickFind, KickRemove, loginVars
  <2>4. CASE UNCHANGED vars
    BY <1>0, <2>4 DEF vars, serverVars, loginVars
  <2> QED BY <1>0, <2>1, <2>2, <2>3, <2>4 DEF Next
<1>5. c \notin sweep'
  <2>1. ASSUME NEW d \in Conns, JoinServer(d)
        PROVE  sweep' \subseteq sweep \cup Registered
    BY <2>1 DEF JoinServer, LoginGet, LoginFails, LoginKick, LoginKicked, WriteBlocks,
       DisconnectOne, DisconnectCommander, Matches, opVars
  <2>2. ASSUME NEW d \in Conns, HandleConnection(d) \/ HandlerCloses(d)
        PROVE  sweep' = sweep
    BY <2>2 DEF HandleConnection, CheckMaintenance, CheckAccepting, AddClient, ReaderStops,
       RemoveClient, HandlerCloses, opVars
  <2>3. ASSUME NEW o \in Operators, Operator(o)
        PROVE  sweep' \subseteq sweep \cup Registered
    BY <2>3 DEF Operator, SetAcceptingConnections, SetMaintenance, DisconnectAll,
       DisconnectAllBegin, WriteBlocks, DisconnectOne, DisconnectAllEnd, KickFind, KickRemove
  <2>4. CASE UNCHANGED vars
    BY <1>0, <2>4 DEF vars, serverVars, opVars
  <2> QED BY <1>0, <1>1, <2>1, <2>2, <2>3, <2>4 DEF Next
<1>6. ASSUME NEW p \in Operators, opc'[p] = "kick"
      PROVE  target'[p] # c
  <2>1. CASE UNCHANGED <<opc, target>>
    BY <1>0, <1>6, <2>1
  <2>2. ASSUME NEW d \in Conns, HandleConnection(d) \/ HandlerCloses(d) \/ JoinServer(d)
        PROVE  UNCHANGED <<opc, target>>
    BY <2>2, JoinFrame DEF HandleConnection, CheckMaintenance, CheckAccepting, AddClient, ReaderStops,
       RemoveClient, HandlerCloses, opVars
  <2>3. ASSUME NEW o \in Operators, NEW d \in Conns, KickFind(o, d)
        PROVE  target'[p] # c
    BY <1>0, <1>1, <1>6, <2>3 DEF KickFind, OpStep, TypeOK
  <2>4. ASSUME NEW o \in Operators, KickRemove(o)
        PROVE  target'[p] # c
    BY <1>0, <1>6, <2>4 DEF KickRemove, OpStep, TypeOK
  <2>5. ASSUME NEW o \in Operators,
               \/ \E enabled \in BOOLEAN : SetAcceptingConnections(o, enabled) \/ SetMaintenance(o, enabled)
               \/ DisconnectAll(o)
        PROVE  target' = target /\ opc[p] = "kick"
    BY <1>6, <2>5 DEF SetAcceptingConnections, SetMaintenance, DisconnectAll, DisconnectAllBegin,
       WriteBlocks, DisconnectOne, DisconnectAllEnd, OpStep, TypeOK
  <2>6. CASE UNCHANGED vars
    BY <2>1, <2>6 DEF vars, serverVars, opVars
  <2> QED BY <1>0, <2>1, <2>2, <2>3, <2>4, <2>5, <2>6 DEF Next, Operator
<1> QED BY <1>3, <1>4, <1>5, <1>6

\* A flag that is set keeps new connections out: whoever is at one of its places, or
\* gets from there into the registry, was there when the sweep began.
LEMMA OnlyLateStays ==
  ASSUME TypeOK, SweepInv, [Next]_vars, NEW c \in Alone, NEW places,
         \/ places = {"checked", "admitted"} /\ maintenance
         \/ places = {"admitted"} /\ ~accepting,
         late'[c] = late[c] \/ ReaderStops(c),
         mutex \in Operators => mutex' = mutex \/ sweep = {},
         OnlyLate(c, places)
  PROVE  OnlyLate(c, places)'
<1>c. c \in Conns
  BY DEF Alone
<1>1. CASE pc'[c] = pc[c]
  <2>1. c \in Connected' => c \in Connected
    BY <1>1, ConnectedBefore DEF AddClient, Connected, Step
  <2>2. late'[c] = late[c]
    BY <1>1, <1>c DEF ReaderStops, Step, TypeOK
  <2>3. c \in Connected' /\ mutex \in Operators => mutex' \in Operators
    BY <2>1 DEF SweepInv
  <2> QED BY <1>1, <2>1, <2>2, <2>3 DEF OnlyLate
<1>2. CASE CheckMaintenance(c)
  <2>1. pc'[c] = IF maintenance THEN "gone" ELSE "checked"
    BY <1>2, <1>c DEF CheckMaintenance, Step, TypeOK
  <2> QED BY <2>1 DEF OnlyLate, Connected
<1>3. CASE CheckAccepting(c)
  <2>1. pc[c] = "checked" /\ (pc'[c] = "gone" \/ (accepting /\ pc'[c] = "admitted")) /\ late' = late
    BY <1>3, <1>c DEF CheckAccepting, Step, TypeOK, opVars
  <2> QED BY <2>1 DEF OnlyLate, Connected
<1>4. CASE AddClient(c)
  <2>1. pc[c] = "admitted" /\ pc'[c] = "serving" /\ late' = late
    BY <1>4, <1>c DEF AddClient, Step, TypeOK, opVars
  <2> QED BY <2>1 DEF OnlyLate
<1>5. CASE ReaderStops(c) \/ RemoveClient(c)
  <2>1. pc'[c] \in {"leaving", "gone"}
    BY <1>5, <1>c DEF ReaderStops, RemoveClient, Step, TypeOK
  <2> QED BY <2>1 DEF OnlyLate, Connected
<1> QED BY <1>1, <1>2, <1>3, <1>4, <1>5, <1>c, PlaceStep

LEMMA StopStep ==
  ASSUME TypeOK, ConnectedIsRegistered, SweepInv, StopInv, [Next]_vars
  PROVE  StopInv'
<1>h. Alone' = Alone /\ Alone \subseteq Conns
  BY DEF Next, vars, Alone
<1>1. ASSUME NEW o \in Operators, DisconnectAllBegin(o)
      PROVE  StopInv'
  <2>1. mutex' \in Operators /\ late' = Joining /\ UNCHANGED pc
    BY <1>1 DEF DisconnectAllBegin, connVars
  <2>2. ASSUME NEW c \in Alone PROVE pc[c] \in {"checked", "admitted"} => late'[c] = pc[c]
    BY <2>1, <1>h DEF Joining
  <2>3. \A c \in Alone : OnlyLate(c, {"checked", "admitted"})' /\ OnlyLate(c, {"admitted"})'
    BY <2>1, <2>2 DEF OnlyLate
  <2> QED BY <2>3, <1>h DEF StopInv
<1>2. ASSUME \A p \in Operators : opc[p] = "disconnect" => opc'[p] = "disconnect",
             maintenance' => maintenance,
             ~accepting' => ~accepting,
             \A c \in Conns : late'[c] = late[c] \/ ReaderStops(c),
             mutex \in Operators => mutex' = mutex \/ sweep = {}
      PROVE  StopInv'
  <2>1. CASE \E o \in Operators : opc[o] = "disconnect"
    BY <1>2, <2>1 DEF StopInv
  <2>2. ASSUME \A c \in Alone :
                 /\ maintenance => OnlyLate(c, {"checked", "admitted"})
                 /\ ~accepting => OnlyLate(c, {"admitted"})
        PROVE  StopInv'
    <3>1. ASSUME NEW c \in Alone, maintenance'
          PROVE  OnlyLate(c, {"checked", "admitted"})'
      BY <1>2, <1>h, <2>2, <3>1, OnlyLateStays
    <3>2. ASSUME NEW c \in Alone, ~accepting'
          PROVE  OnlyLate(c, {"admitted"})'
      BY <1>2, <1>h, <2>2, <3>2, OnlyLateStays
    <3> QED BY <3>1, <3>2, <1>h DEF StopInv
  <2> QED BY <2>1, <2>2 DEF StopInv
<1>3. ASSUME NEW o \in Operators, NEW enabled \in BOOLEAN,
             SetAcceptingConnections(o, enabled) \/ SetMaintenance(o, enabled)
      PROVE  StopInv'
  <2>1. CASE opc'[o] = "disconnect"
    BY <2>1 DEF StopInv
  <2>2. CASE opc'[o] # "disconnect"
    <3>1. opc' = opc /\ mutex' = mutex /\ late' = late
      BY <1>3, <2>2 DEF SetAcceptingConnections, SetMaintenance, OpStep, TypeOK
    <3>2. \/ accepting' = TRUE /\ maintenance' = maintenance
          \/ maintenance' = FALSE /\ accepting' = accepting
      BY <1>3, <2>2 DEF SetAcceptingConnections, SetMaintenance, OpStep, TypeOK
    <3> QED BY <1>2, <3>1, <3>2 DEF TypeOK
  <2> QED BY <2>1, <2>2
<1>4. ASSUME NEW o \in Operators,
             \/ \E c \in Conns : WriteBlocks(o, c) \/ DisconnectOne(o, c) \/ KickFind(o, c)
             \/ DisconnectAllEnd(o) \/ KickRemove(o)
      PROVE  StopInv'
  <2>1. UNCHANGED <<maintenance, accepting, late>>
    BY <1>4 DEF WriteBlocks, DisconnectOne, KickFind, DisconnectAllEnd, KickRemove, flagVars
  <2>2. \A p \in Operators : opc[p] = "disconnect" => opc'[p] = "disconnect"
    BY <1>4 DEF WriteBlocks, DisconnectOne, KickFind, DisconnectAllEnd, KickRemove, OpStep, TypeOK
  <2>3. mutex' = mutex \/ sweep = {}
    BY <1>4 DEF WriteBlocks, DisconnectOne, KickFind, DisconnectAllEnd, KickRemove
  <2> QED BY <1>2, <2>1, <2>2, <2>3
<1>5. ASSUME NEW c \in Conns, HandleConnection(c) \/ HandlerCloses(c)
      PROVE  StopInv'
  <2>1. UNCHANGED <<maintenance, accepting, mutex, opc>>
    BY <1>5 DEF HandleConnection, CheckMaintenance, CheckAccepting, AddClient, ReaderStops,
       RemoveClient, HandlerCloses, opVars, flagVars
  <2>2. CASE ReaderStops(c)
    <3>1. \A d \in Conns : late'[d] = late[d] \/ ReaderStops(d)
      BY <2>2 DEF ReaderStops, TypeOK
    <3> QED BY <1>2, <2>1, <3>1
  <2>3. CASE late' = late
    BY <1>2, <2>1, <2>3
  <2> QED BY <1>5, <2>2, <2>3 DEF HandleConnection, CheckMaintenance, CheckAccepting, AddClient,
          RemoveClient, HandlerCloses, opVars
<1>6. ASSUME NEW c \in Conns, JoinServer(c)
      PROVE  StopInv'
  <2>1. UNCHANGED <<maintenance, accepting, opc, late>>
    BY <1>6, JoinFrame
  <2>2. mutex \in Operators => mutex' = mutex
    BY <1>6 DEF JoinServer, LoginGet, LoginFails, LoginKick, LoginKicked, DisconnectCommander,
       WriteBlocks, DisconnectOne, MutexFree, opVars
  <2> QED BY <1>2, <2>1, <2>2
<1>7. CASE UNCHANGED vars
  BY <1>2, <1>7 DEF vars, serverVars, opVars, flagVars
<1> QED BY <1>1, <1>3, <1>4, <1>5, <1>6, <1>7 DEF Next, Operator, DisconnectAll

-----------------------------------------------------------------------------
(* Logins.                                                                 *)

\* LoginKick leaves, of the commander's other sessions, the one that is about to be
\* closed and those that it says it passes over.
LEMMA KickBegins ==
  ASSUME TypeOK, ConnectedIsRegistered, SweepInv, OneSessionUnlessPassedOver, [Next]_vars,
         NEW e \in Conns, LoginKick(e)
  PROVE  KickInv' /\ OneSessionUnlessPassedOver'
<1>h. Alone' = Alone /\ Connected' = Connected /\ Connected \subseteq Conns
  BY DEF Next, vars, Alone, LoginKick, Connected, connVars
<1>1. /\ commander' = commander /\ login'[e] = "kicking"
      /\ \A d \in Conns : d # e => login'[d] = login[d] /\ login[d] # "kicking"
  BY DEF LoginKick, DisconnectCommander, MutexFree, SweepInv, TypeOK
<1>2. \A c \in Connected \cap Alone : c \in Registered
  BY DEF ConnectedIsRegistered, Registered, Connected, TypeOK
<1>3. ASSUME NEW c \in Connected \cap Alone, login'[c] = "joined", commander[c] = commander[e]
      PROVE  \/ sweep' = {c}
             \/ commander[e] \in passedOver'
  <2>1. c # e /\ c \in Matches(e)
    BY <1>1, <1>2, <1>3 DEF Matches
  <2>2. PICK x \in Matches(e) : sweep' = {x} \ {e} /\ PassOver(e, Matches(e) \ {e, x})
    BY <2>1 DEF LoginKick, DisconnectCommander
  <2>3. CASE x = c
    BY <2>1, <2>2, <2>3
  <2>4. CASE x # c
    BY <2>1, <2>2, <2>4 DEF PassOver
  <2> QED BY <2>3, <2>4
<1>4. KickInv'
  <2> SUFFICES ASSUME NEW d \in Conns, NEW c \in Connected \cap Alone,
                      login'[d] = "kicking", login'[c] = "joined", commander[d] = commander[c]
               PROVE  c \in sweep' \/ commander[c] \in passedOver'
    BY <1>h, <1>1 DEF KickInv
  <2>1. d = e
    BY <1>1
  <2> QED BY <1>3, <2>1
<1>5. OneSessionUnlessPassedOver'
  <2> SUFFICES ASSUME NEW c \in Connected \cap Alone, NEW d \in Connected \cap Alone,
                      login'[c] = "joined", login'[d] = "joined", commander[c] = commander[d], c # d
               PROVE  commander[c] \in passedOver'
    BY <1>h, <1>1 DEF OneSessionUnlessPassedOver
  <2>1. CASE commander[c] = commander[e]
    BY <1>3, <2>1
  <2>2. CASE commander[c] # commander[e]
    <3>1. login[c] = "joined" /\ login[d] = "joined"
      BY <1>h, <1>1
    <3>2. commander[c] \in passedOver
      BY <3>1 DEF OneSessionUnlessPassedOver
    <3> QED BY <2>2, <3>2 DEF LoginKick, DisconnectCommander, PassOver
  <2> QED BY <2>1, <2>2
<1> QED BY <1>4, <1>5

\* When the kick is over, a commander of whom it has passed nobody over has this
\* session alone.
LEMMA KickEnds ==
  ASSUME TypeOK, SweepInv, KickInv, OneSessionUnlessPassedOver, [Next]_vars,
         NEW e \in Conns, LoginKicked(e)
  PROVE  KickInv' /\ OneSessionUnlessPassedOver'
<1>h. Alone' = Alone /\ Connected' = Connected /\ Connected \subseteq Conns
  BY DEF Next, vars, Alone, LoginKicked, Connected, connVars
<1>1. /\ UNCHANGED <<commander, passedOver>> /\ login[e] = "kicking" /\ login'[e] = "joined"
      /\ \A d \in Conns : d # e => login'[d] = login[d] /\ login[d] # "kicking"
      /\ sweep = {}
  BY DEF LoginKicked, SweepInv, TypeOK
<1>2. \A c \in Connected \cap Alone :
        login[c] = "joined" /\ commander[e] = commander[c] => commander[c] \in passedOver
  BY <1>1 DEF KickInv
<1>3. KickInv'
  BY <1>1 DEF KickInv
<1>4. OneSessionUnlessPassedOver'
  <2> SUFFICES ASSUME NEW c \in Connected \cap Alone, NEW d \in Connected \cap Alone,
                      login'[c] = "joined", login'[d] = "joined", commander[c] = commander[d], c # d
               PROVE  commander[c] \in passedOver
    BY <1>h, <1>1 DEF OneSessionUnlessPassedOver
  <2>1. CASE c = e \/ d = e
    BY <1>h, <1>1, <1>2, <2>1
  <2>2. CASE c # e /\ d # e
    BY <1>h, <1>1, <2>2 DEF OneSessionUnlessPassedOver
  <2> QED BY <2>1, <2>2
<1> QED BY <1>3, <1>4

LEMMA LoginStep ==
  ASSUME TypeOK, EarlyInv, ConnectedIsRegistered, SweepInv, KickInv,
         OneSessionUnlessPassedOver, [Next]_vars
  PROVE  KickInv' /\ OneSessionUnlessPassedOver'
<1>h. Alone' = Alone /\ Alone \subseteq Conns
  BY DEF Next, vars, Alone
<1>1. \A c \in Connected' : c \in Conns /\ (login[c] = "joined" => c \in Connected)
  BY ConnectedBefore DEF EarlyInv, Early, AddClient, Step
<1>2. ASSUME passedOver' = passedOver,
             \A c \in Conns : /\ login'[c] \in {"joined", "kicking"} =>
                                   login'[c] = login[c] /\ commander'[c] = commander[c]
                              /\ c \in sweep => c \in sweep' \/ closed'[c]
      PROVE  KickInv' /\ OneSessionUnlessPassedOver'
  <2>1. KickInv'
    <3> SUFFICES ASSUME NEW d \in Conns, NEW c \in Connected' \cap Alone,
                        login'[d] = "kicking", login'[c] = "joined", commander'[d] = commander'[c]
                 PROVE  c \in sweep' \/ commander'[c] \in passedOver
      BY <1>h, <1>2 DEF KickInv
    <3>1. c \in Connected /\ login[c] = "joined" /\ login[d] = "kicking" /\ commander[d] = commander[c]
      BY <1>1, <1>2
    <3>2. c \in sweep \/ commander[c] \in passedOver
      BY <3>1 DEF KickInv
    <3> QED BY <1>1, <1>2, <3>2 DEF Connected
  <2>2. OneSessionUnlessPassedOver'
    <3> SUFFICES ASSUME NEW c \in Connected' \cap Alone, NEW d \in Connected' \cap Alone,
                        login'[c] = "joined", login'[d] = "joined", commander'[c] = commander'[d], c # d
                 PROVE  commander'[c] \in passedOver
      BY <1>h, <1>2 DEF OneSessionUnlessPassedOver
    <3>1. /\ c \in Connected /\ login[c] = "joined" /\ commander[c] = commander'[c]
          /\ d \in Connected /\ login[d] = "joined" /\ commander[d] = commander'[d]
      BY <1>1, <1>2
    <3> QED BY <3>1 DEF OneSessionUnlessPassedOver
  <2> QED BY <2>1, <2>2
<1>3. ASSUME UNCHANGED <<login, commander, passedOver>>,
             \A c \in Conns : c \in sweep => c \in sweep' \/ closed'[c]
      PROVE  KickInv' /\ OneSessionUnlessPassedOver'
  BY <1>2, <1>3
<1>4. ASSUME NEW e \in Conns, LoginFails(e) \/ \E m \in Commanders : LoginGet(e, m)
      PROVE  KickInv' /\ OneSessionUnlessPassedOver'
  <2>1. /\ login'[e] \notin {"joined", "kicking"} /\ passedOver' = passedOver /\ sweep' = sweep
        /\ \A c \in Conns : c # e => login'[c] = login[c] /\ commander'[c] = commander[c]
    BY <1>4 DEF LoginFails, LoginGet, opVars, TypeOK
  <2> QED BY <1>2, <2>1
<1>5. ASSUME NEW h \in Operators \cup Conns, NEW c \in Conns, WriteBlocks(h, c) \/ DisconnectOne(h, c)
      PROVE  KickInv' /\ OneSessionUnlessPassedOver'
  <2>1. UNCHANGED <<login, commander, passedOver>>
    BY <1>5 DEF WriteBlocks, DisconnectOne, loginVars
  <2>2. \A d \in Conns : d \in sweep => d \in sweep' \/ closed'[d]
    BY <1>5 DEF WriteBlocks, DisconnectOne, Close, TypeOK
  <2> QED BY <1>3, <2>1, <2>2
<1>6. ASSUME NEW c \in Conns, HandleConnection(c) \/ HandlerCloses(c)
      PROVE  UNCHANGED <<login, commander, passedOver, sweep>>
  BY <1>6 DEF HandleConnection, CheckMaintenance, CheckAccepting, AddClient, ReaderStops,
     RemoveClient, HandlerCloses, loginVars, opVars
<1>7. ASSUME NEW o \in Operators, DisconnectAllBegin(o)
      PROVE  KickInv' /\ OneSessionUnlessPassedOver'
  <2>1. UNCHANGED <<login, commander, passedOver>> /\ Connected' = Connected
    BY <1>7 DEF DisconnectAllBegin, loginVars, connVars, Connected
  <2>2. \A d \in Conns : login[d] # "kicking"
    BY <1>7 DEF DisconnectAllBegin, MutexFree, SweepInv
  <2>3. KickInv'
    BY <2>1, <2>2 DEF KickInv
  <2>4. OneSessionUnlessPassedOver'
    BY <2>1, <1>h DEF OneSessionUnlessPassedOver
  <2> QED BY <2>3, <2>4
<1>8. ASSUME NEW o \in Operators,
             \/ \E enabled \in BOOLEAN : SetAcceptingConnections(o, enabled) \/ SetMaintenance(o, enabled)
             \/ DisconnectAllEnd(o) \/ (\E c \in Conns : KickFind(o, c)) \/ KickRemove(o)
      PROVE  UNCHANGED <<login, commander, passedOver, sweep>>
  BY <1>8 DEF SetAcceptingConnections, SetMaintenance, DisconnectAllEnd, KickFind, KickRemove, loginVars
<1>9. CASE UNCHANGED vars
  BY <1>3, <1>9 DEF vars, serverVars, loginVars, opVars
<1> QED
  BY <1>3, <1>4, <1>5, <1>6, <1>7, <1>8, <1>9, KickBegins, KickEnds
     DEF Next, JoinServer, Operator, DisconnectAll

-----------------------------------------------------------------------------
LEMMA InitIndInv == Init => IndInv
<1> SUFFICES ASSUME Init PROVE IndInv
  OBVIOUS
<1>1. SlotInv /\ ConnectedIsRegistered /\ SweepInv
  BY DEF Init, SlotInv, ConnectedIsRegistered, Connected, SweepInv
<1>2. StopInv
  BY DEF Init, StopInv, OnlyLate, Connected, Alone
<1>3. EarlyInv /\ KickInv /\ OneSessionUnlessPassedOver
  BY DEF Init, EarlyInv, KickInv, OneSessionUnlessPassedOver, Connected
<1> QED BY <1>1, <1>2, <1>3, InitTypeOK DEF IndInv

LEMMA IndInvStep == IndInv /\ [Next]_vars => IndInv'
  BY TypeStep, SlotStep, EarlyStep, ConnectedStep, SweepStep, StopStep, LoginStep DEF IndInv

-----------------------------------------------------------------------------
(* The theorems.                                                           *)

\* The inductive invariant of the registry.
THEOREM Invariance == Spec => []IndInv
  BY InitIndInv, IndInvStep, PTL DEF Spec

\* Nobody who has left is in the registry: collisions make clients unreachable,
\* but leave no ghosts.
THEOREM NoGhosts == Spec => []NoGhostClient
<1>1. IndInv => NoGhostClient
  BY DEF IndInv, TypeOK, SlotInv, NoGhostClient, Registered
<1> QED BY Invariance, <1>1, PTL

\* Every client that is being served can be found, as long as nobody else's
\* address has its hash.
THEOREM ConnectedCanBeFound == Spec => []ConnectedIsRegistered
<1>1. IndInv => ConnectedIsRegistered
  BY DEF IndInv
<1> QED BY Invariance, <1>1, PTL

\* When DisconnectAll has gone through the registry, nobody is connected whose hash
\* is his alone, whoever joins, leaves, logs in or is kicked meanwhile.
THEOREM SweepReaches == Spec => []DisconnectAllReaches
<1>1. IndInv => DisconnectAllReaches
  <2> SUFFICES ASSUME IndInv, NEW o \in Operators, opc[o] = "sweeping", sweep = {}
               PROVE  Connected \cap Alone = {}
    BY DEF DisconnectAllReaches
  <2>1. mutex \in Operators
    BY DEF IndInv, SweepInv
  <2> QED BY <2>1 DEF IndInv, SweepInv
<1> QED BY Invariance, <1>1, PTL

\* A stopped server, and one in maintenance, serve nobody but those who were between
\* the test and the registry when the last sweep began, whatever operators do to the
\* two flags in the meantime.
THEOREM StopsAreKept == Spec => []OnlyLateAreServed
<1>1. IndInv => OnlyLateAreServed
  <2> SUFFICES ASSUME IndInv, \A o \in Operators : opc[o] \notin {"disconnect", "sweeping"},
                      NEW c \in Connected \cap Alone
               PROVE  /\ maintenance => late[c] \in {"checked", "admitted"}
                      /\ ~accepting => late[c] = "admitted"
    BY DEF OnlyLateAreServed
  <2>1. mutex \notin Operators
    BY DEF IndInv, SweepInv
  <2> QED BY <2>1 DEF IndInv, StopInv, OnlyLate
<1> QED BY Invariance, <1>1, PTL

\* A commander has one session, unless his last login has passed one over.
THEOREM OneSession == Spec => []OneSessionUnlessPassedOver
<1>1. IndInv => OneSessionUnlessPassedOver
  BY DEF IndInv
<1> QED BY Invariance, <1>1, PTL
=============================================================================
