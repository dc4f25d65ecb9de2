--------------------------- MODULE ServerRegistry ---------------------------
(***************************************************************************)
(* The registry of connected clients (internal/connection/server.go) and   *)
(* its users: one HandleConnection goroutine per connection, the handler   *)
(* of CS_10022 (internal/answer/join_server.go) that runs on a             *)
(* connection's dispatcher, and operators (the REST API, SIGINT) that stop *)
(* the server, switch maintenance on, or kick a client.                    *)
(*                                                                         *)
(* `clients' maps a hash of the peer's address to the client.  The hash is *)
(* the SUM of the characters of "ip:port", so two addresses may share one, *)
(* or not: peers bring their addresses with them.  A critical section of   *)
(* clientsMutex is one action, except those of DisconnectAll and           *)
(* DisconnectCommander, which write to clients' sockets, without a         *)
(* deadline, while they hold the mutex.                                    *)
(***************************************************************************)
EXTENDS FiniteSets, Naturals

CONSTANTS
  Conns,        \* TCP connections accepted by Server.Run
  Hashes,       \* values of Client.Hash
  Addressings,  \* the hashes GetClient may compute for the connections' addresses
  Commanders,   \* commander ids
  Operators,    \* goroutines that run an operator's request
  NoConn, NoCommander, NoHolder

ASSUME RegistryAssumption ==
  /\ Addressings \subseteq [Conns -> Hashes]
  /\ NoConn \notin Conns
  /\ NoCommander \notin Commanders
  /\ NoHolder \notin Operators \cup Conns
  /\ Operators \cap Conns = {}

VARIABLES
  hashOf,      \* the hash of each connection's address
  clients,     \* Server.clients
  mutex,       \* who holds clientsMutex over writes: an operator's goroutine or a dispatcher
  accepting,   \* Server.acceptingConnections
  maintenance, \* Server.maintenanceEnabled
  pc,          \* where HandleConnection is, for each connection
  closed,      \* Client.closed
  commander,   \* Client.Commander
  login,       \* where JoinServer is, on each connection's dispatcher
  opc,         \* where each operator's request is
  target,      \* the client an operator has looked up and will remove
  sweep,       \* clients that the holder of the mutex has still to disconnect
  blocked,     \* the client in the write to which that holder is held up
  late,        \* how far those not yet registered were when DisconnectAll last began (history)
  passedOver   \* commanders of whom the last login has passed a client over (history)

connVars == <<pc, closed>>
loginVars == <<commander, login, passedOver>>
flagVars == <<accepting, maintenance>>
opVars == <<mutex, opc, target, sweep, blocked, late>>
serverVars == <<clients, connVars, loginVars, flagVars, opVars>>
vars == <<hashOf, serverVars>>

Registered == {clients[h] : h \in Hashes} \ {NoConn}
Joining == [c \in Conns |-> IF pc[c] \in {"checked", "admitted"} THEN pc[c] ELSE "no"]
Connected == {c \in Conns : pc[c] = "serving" /\ ~closed[c]}
MutexFree == mutex = NoHolder

\* The connections whose address collides with nobody's.
Alone == {c \in Conns : \A d \in Conns : hashOf[d] = hashOf[c] => d = c}

\* NewServer, then SetMaintenance with the configured flag.
Init ==
  /\ hashOf \in Addressings
  /\ clients = [h \in Hashes |-> NoConn]
  /\ accepting = TRUE /\ maintenance \in BOOLEAN
  /\ pc = [c \in Conns |-> "dialed"]
  /\ closed = [c \in Conns |-> FALSE]
  /\ commander = [c \in Conns |-> NoCommander]
  /\ login = [c \in Conns |-> "idle"]
  /\ mutex = NoHolder
  /\ opc = [o \in Operators |-> "idle"]
  /\ target = [o \in Operators |-> NoConn]
  /\ sweep = {} /\ blocked = NoConn
  /\ late = [c \in Conns |-> "no"]
  /\ passedOver = {}

Step(c, from, to) == pc[c] = from /\ pc' = [pc EXCEPT ![c] = to]
OpStep(o, from, to) == opc[o] = from /\ opc' = [opc EXCEPT ![o] = to]

\* delete(server.clients, client.Hash): whoever is registered under the hash.
Delete(c) == clients' = [clients EXCEPT ![hashOf[c]] = NoConn]
Close(c) == closed' = [closed EXCEPT ![c] = TRUE]

-----------------------------------------------------------------------------
(* HandleConnection.                                                       *)

CheckMaintenance(c) ==
  /\ Step(c, "dialed", IF maintenance THEN "gone" ELSE "checked")
  /\ UNCHANGED <<clients, closed, loginVars, flagVars, opVars>>

\* Mutant: who has passed allowClientIP is accepted.
AcceptAll(c) ==
  /\ Step(c, "checked", "admitted") \/ Step(c, "checked", "gone")
  /\ UNCHANGED <<clients, closed, loginVars, flagVars, opVars>>

\* allowClientIP, whose outcome depends on the address, then
\* IsAcceptingConnections.
CheckAccepting(c) ==
  /\ \/ Step(c, "checked", IF accepting THEN "admitted" ELSE "gone")
     \/ Step(c, "checked", "gone")
  /\ UNCHANGED <<clients, closed, loginVars, flagVars, opVars>>

\* AddClient and StartDispatcher.
AddClient(c) ==
  /\ MutexFree
  /\ Step(c, "admitted", "serving")
  /\ clients' = [clients EXCEPT ![hashOf[c]] = c]
  /\ UNCHANGED <<closed, loginVars, flagVars, opVars>>

\* The reading loop ends: the peer hung up or sent garbage, or the client was
\* closed from this side.
ReaderStops(c) ==
  /\ Step(c, "serving", "leaving")
  /\ late' = [late EXCEPT ![c] = "no"]
  /\ UNCHANGED <<clients, closed, loginVars, flagVars, mutex, opc, target, sweep, blocked>>

\* Mutant: a client that is closed already is taken to have been removed.
RemoveIfOpen(c) ==
  /\ MutexFree
  /\ Step(c, "leaving", "gone")
  /\ Close(c)
  /\ IF closed[c] THEN UNCHANGED clients ELSE Delete(c)
  /\ UNCHANGED <<loginVars, flagVars, opVars>>

RemoveClient(c) ==
  /\ MutexFree
  /\ Step(c, "leaving", "gone")
  /\ Close(c)
  /\ Delete(c)
  /\ UNCHANGED <<loginVars, flagVars, opVars>>

\* A handler or a write fails on the dispatcher: CloseWithError.
HandlerCloses(c) ==
  /\ pc[c] \in {"serving", "leaving"} /\ ~closed[c]
  /\ Close(c)
  /\ UNCHANGED <<clients, pc, loginVars, flagVars, opVars>>

-----------------------------------------------------------------------------
(* JoinServer on the dispatcher of c.                                      *)

\* client.GetCommander(accountID); a client may log in again.  Its handler may have
\* passed the test of dispatchLoop before the client was closed.
LoginGet(c, m) ==
  /\ pc[c] \in {"serving", "leaving"} \/ closed[c]
  /\ login[c] \in {"idle", "joined"}
  /\ login' = [login EXCEPT ![c] = "loading"]
  /\ commander' = [commander EXCEPT ![c] = m]
  /\ UNCHANGED <<clients, connVars, passedOver, flagVars, opVars>>

\* client.Commander.Load() fails: the handler's error closes the client.
LoginFails(c) ==
  /\ login[c] = "loading"
  /\ login' = [login EXCEPT ![c] = "idle"]
  /\ Close(c)
  /\ UNCHANGED <<clients, pc, commander, passedOver, flagVars, opVars>>

\* DisconnectCommander(id, DR_LOGGED_IN_ON_ANOTHER_DEVICE, client): takes the mutex
\* and the first client of that commander in the iteration order of the map, which
\* Go leaves unspecified.  If it is the excluded one nothing else is looked for.
Matches(c) == {d \in Registered : commander[d] = commander[c]}

PassOver(c, ds) ==
  passedOver' = IF ds = {} THEN passedOver \ {commander[c]} ELSE passedOver \cup {commander[c]}

\* Mutant: the test for the excluded client is inverted.
DisconnectExcluded(c) ==
  /\ MutexFree /\ mutex' = c
  /\ \/ Matches(c) = {} /\ sweep' = {} /\ PassOver(c, {})
     \/ \E existing \in Matches(c) :
          /\ sweep' = {existing} \cap {c}
          /\ PassOver(c, Matches(c) \ {c, existing})

DisconnectCommander(c) ==
  /\ MutexFree /\ mutex' = c
  /\ \/ Matches(c) = {} /\ sweep' = {} /\ PassOver(c, {})
     \/ \E existing \in Matches(c) :
          /\ sweep' = {existing} \ {c}
          /\ PassOver(c, Matches(c) \ {c, existing})

LoginKick(c) ==
  /\ login[c] = "loading"
  /\ login' = [login EXCEPT ![c] = "kicking"]
  /\ DisconnectCommander(c)
  /\ UNCHANGED <<clients, connVars, commander, flagVars, opc, target, blocked, late>>

\* With the mutex held, by DisconnectAll for each client in turn, by
\* DisconnectCommander for one: SC_10999, Flush, Close, delete.  The Write of Flush
\* may be held up by a peer that does not read; it fails when the client is closed,
\* or the connection breaks, and a write error closes the client as well.
WriteBlocks(holder, c) ==
  /\ mutex = holder /\ c \in sweep
  /\ blocked = NoConn /\ ~closed[c]
  /\ blocked' = c
  /\ UNCHANGED <<clients, connVars, loginVars, flagVars, mutex, opc, target, sweep, late>>

DisconnectOne(holder, c) ==
  /\ mutex = holder /\ c \in sweep
  /\ blocked \in {NoConn, c} /\ blocked' = NoConn
  /\ sweep' = sweep \ {c}
  /\ Close(c)
  /\ Delete(c)
  /\ UNCHANGED <<pc, loginVars, flagVars, mutex, opc, target, late>>

\* DisconnectCommander returns.
LoginKicked(c) ==
  /\ mutex = c /\ sweep = {}
  /\ mutex' = NoHolder
  /\ login' = [login EXCEPT ![c] = "joined"]
  /\ UNCHANGED <<clients, connVars, commander, passedOver, flagVars, opc, target, sweep, blocked, late>>

-----------------------------------------------------------------------------
(* Operators.                                                              *)

\* The stores of SetAcceptingConnections and SetMaintenance.  Switching
\* accepting off, or maintenance on, goes on with DisconnectAll.
SetAcceptingConnections(o, enabled) ==
  /\ OpStep(o, "idle", IF enabled THEN "idle" ELSE "disconnect")
  /\ accepting' = enabled
  /\ UNCHANGED <<clients, connVars, loginVars, maintenance, mutex, target, sweep, blocked, late>>

SetMaintenance(o, enabled) ==
  /\ OpStep(o, "idle", IF enabled THEN "disconnect" ELSE "idle")
  /\ maintenance' = enabled
  /\ UNCHANGED <<clients, connVars, loginVars, accepting, mutex, target, sweep, blocked, late>>

\* Mutant: only clients that have logged in are disconnected.
BeginWithCommanders(o) ==
  /\ MutexFree
  /\ OpStep(o, "disconnect", "sweeping")
  /\ mutex' = o
  /\ sweep' = {c \in Registered : commander[c] # NoCommander}
  /\ late' = Joining
  /\ UNCHANGED <<clients, connVars, loginVars, flagVars, target, blocked>>

\* DisconnectAll: the mutex is held from here to DisconnectAllEnd.
DisconnectAllBegin(o) ==
  /\ MutexFree
  /\ OpStep(o, "disconnect", "sweeping")
  /\ mutex' = o
  /\ sweep' = Registered
  /\ late' = Joining
  /\ UNCHANGED <<clients, connVars, loginVars, flagVars, target, blocked>>

\* Mutant: clientsMutex stays locked.
EndKeepsMutex(o) ==
  /\ mutex = o /\ sweep = {}
  /\ OpStep(o, "sweeping", "idle")
  /\ UNCHANGED <<clients, connVars, loginVars, flagVars, mutex, target, sweep, blocked, late>>

DisconnectAllEnd(o) ==
  /\ mutex = o /\ sweep = {}
  /\ OpStep(o, "sweeping", "idle")
  /\ mutex' = NoHolder
  /\ UNCHANGED <<clients, connVars, loginVars, flagVars, target, sweep, blocked, late>>

\* DisconnectConnection and KickPlayer of the API: FindClient or
\* FindClientByCommander, and RemoveClient in a critical section of its own.
\* (KickPlayer writes to the client in between, and may be held up by its peer; it
\* holds nothing then.)
KickFind(o, c) ==
  /\ MutexFree
  /\ c \in Registered
  /\ OpStep(o, "idle", "kick")
  /\ target' = [target EXCEPT ![o] = c]
  /\ UNCHANGED <<clients, connVars, loginVars, flagVars, mutex, sweep, blocked, late>>

\* Mutant: the kick removes the client and does not close it.
KickKeepsOpen(o) ==
  /\ MutexFree
  /\ OpStep(o, "kick", "idle")
  /\ target' = [target EXCEPT ![o] = NoConn]
  /\ Delete(target[o])
  /\ UNCHANGED <<connVars, loginVars, flagVars, mutex, sweep, blocked, late>>

KickRemove(o) ==
  /\ MutexFree
  /\ OpStep(o, "kick", "idle")
  /\ target' = [target EXCEPT ![o] = NoConn]
  /\ Close(target[o])
  /\ Delete(target[o])
  /\ UNCHANGED <<pc, loginVars, flagVars, mutex, sweep, blocked, late>>

-----------------------------------------------------------------------------
HandleConnection(c) ==
  \/ CheckMaintenance(c) \/ CheckAccepting(c) \/ AddClient(c)
  \/ ReaderStops(c) \/ RemoveClient(c)

JoinServer(c) ==
  \/ \E m \in Commanders : LoginGet(c, m)
  \/ LoginFails(c) \/ LoginKick(c) \/ LoginKicked(c)
  \/ \E d \in Conns : WriteBlocks(c, d) \/ DisconnectOne(c, d)

DisconnectAll(o) ==
  \/ DisconnectAllBegin(o)
  \/ \E c \in Conns : WriteBlocks(o, c) \/ DisconnectOne(o, c)
  \/ DisconnectAllEnd(o)

Operator(o) ==
  \/ \E enabled \in BOOLEAN :
       SetAcceptingConnections(o, enabled) \/ SetMaintenance(o, enabled)
  \/ DisconnectAll(o)
  \/ (\E c \in Conns : KickFind(o, c)) \/ KickRemove(o)

Next ==
  /\ \/ \E c \in Conns : HandleConnection(c) \/ HandlerCloses(c) \/ JoinServer(c)
     \/ \E o \in Operators : Operator(o)
  /\ UNCHANGED hashOf

Spec == Init /\ [][Next]_vars

\* Who holds clientsMutex is in a write that may not return before somebody closes
\* the client.
HeldUp == blocked # NoConn /\ ~closed[blocked]

(***************************************************************************)
(* Fairness: a closed socket fails the reader, the holder of clientsMutex  *)
(* goes on unless it is held up by a peer, and clientsMutex, a Go mutex,   *)
(* lets every goroutine that keeps asking for it have it (strong           *)
(* fairness).                                                              *)
(***************************************************************************)
Fairness ==
  /\ \A c \in Conns :
       /\ WF_serverVars(closed[c] /\ ReaderStops(c))
       /\ SF_serverVars(RemoveClient(c))
  /\ WF_serverVars(~HeldUp /\ \E h \in Operators \cup Conns, c \in Conns : DisconnectOne(h, c))
  /\ WF_serverVars(\/ \E o \in Operators : DisconnectAllEnd(o)
                   \/ \E c \in Conns : LoginKicked(c))

FairSpec == Spec /\ Fairness

-----------------------------------------------------------------------------
(* Properties.                                                             *)

\* Every variable has its type.
TypeOK ==
  /\ hashOf \in [Conns -> Hashes]
  /\ clients \in [Hashes -> Conns \cup {NoConn}]
  /\ mutex \in Operators \cup Conns \cup {NoHolder}
  /\ accepting \in BOOLEAN /\ maintenance \in BOOLEAN
  /\ pc \in [Conns -> {"dialed", "checked", "admitted", "serving", "leaving", "gone"}]
  /\ closed \in [Conns -> BOOLEAN]
  /\ commander \in [Conns -> Commanders \cup {NoCommander}]
  /\ login \in [Conns -> {"idle", "loading", "kicking", "joined"}]
  /\ opc \in [Operators -> {"idle", "disconnect", "sweeping", "kick"}]
  /\ target \in [Operators -> Conns \cup {NoConn}]
  /\ sweep \subseteq Conns /\ blocked \in Conns \cup {NoConn}
  /\ late \in [Conns -> {"no", "checked", "admitted"}]
  /\ passedOver \subseteq Commanders \cup {NoCommander}

\* A connection whose HandleConnection has returned is not in the registry,
\* whatever collides and whoever removed it first: nobody sends to it, counts
\* it or finds it by its commander.
NoGhostClient == \A c \in Registered : pc[c] \in {"serving", "leaving"}

\* A client that is being served and is open can be found, in the registry
\* under its hash, whatever others' addresses collide.  (Not so for two clients
\* with one hash: AddClient of the second makes the first one unreachable.)
ConnectedIsRegistered == \A c \in Connected \cap Alone : clients[hashOf[c]] = c

\* When DisconnectAll has gone through the registry, no client is connected whose
\* address collides with nobody's, whoever comes, goes, logs in and is kicked
\* meanwhile.
DisconnectAllReaches ==
  \A o \in Operators : opc[o] = "sweeping" /\ sweep = {} => Connected \cap Alone = {}

\* What stopping the server, or maintenance, does achieve.  When the requests that
\* have asked for it are done, a client is served only if it had passed the test
\* and was not in the registry yet when the last DisconnectAll took the mutex (or
\* if its address collides); also when operators switch to and fro meanwhile.
OnlyLateAreServed ==
  (\A o \in Operators : opc[o] \notin {"disconnect", "sweeping"}) =>
    \A c \in Connected \cap Alone :
      /\ maintenance => late[c] \in {"checked", "admitted"}
      /\ ~accepting => late[c] = "admitted"

\* What the login does achieve.  A commander has one session, unless the last of
\* his logins has found several clients and passed one over: because it found
\* itself first, or a client that was closed or logging in.
OneSessionUnlessPassedOver ==
  \A c, d \in Connected \cap Alone :
    /\ login[c] = "joined" /\ login[d] = "joined"
    /\ commander[c] = commander[d]
    => c = d \/ commander[c] \in passedOver

\* Maintenance mode: once SetMaintenance(true) has returned nobody is served.
NobodyServedInMaintenance ==
  maintenance /\ (\A o \in Operators : opc[o] = "idle") => Connected = {}

\* One session per commander: JoinServer returns after it has disconnected the
\* commander's other session.
OneSessionPerCommander ==
  \A c, d \in Connected :
    /\ login[c] = "joined" /\ login[d] = "joined"
    /\ commander[c] = commander[d]
    => c = d

\* A client that anyone has closed leaves: its HandleConnection returns, and with
\* NoGhostClient it is not in the registry then.  The only exception is the one that
\* the code has: somebody who holds clientsMutex stays in a write to a peer that
\* does not read, and nobody ever closes that client (client.go:345 sets no
\* deadline, server.go:292 and 342 hold the mutex).
ClosedClientLeaves ==
  <>[]HeldUp \/ \A c \in Conns : closed[c] ~> pc[c] = "gone"

-----------------------------------------------------------------------------
(* The inductive invariants behind the theorems of ServerRegistryProofs.   *)

\* A client is registered under its own hash or not at all, and only between
\* AddClient and RemoveClient.  Nobody is closed, kicked or logged in before that.
Early(c) == pc[c] \in {"dialed", "checked", "admitted"}

SlotInv ==
  /\ \A h \in Hashes : clients[h] \in Conns =>
       hashOf[clients[h]] = h /\ pc[clients[h]] \in {"serving", "leaving"}
  /\ \A o \in Operators : opc[o] = "kick" => target[o] \in Conns

EarlyInv ==
  \A c \in Conns : Early(c) =>
    /\ ~closed[c] /\ login[c] = "idle" /\ c \notin sweep
    /\ \A o \in Operators : opc[o] = "kick" => target[o] # c

\* The sweep of the operator that holds clientsMutex: nobody is added meanwhile, so
\* whoever is connected still has its turn.
SweepInv ==
  /\ \A o \in Operators : opc[o] = "sweeping" <=> mutex = o
  /\ \A c \in Conns : login[c] = "kicking" <=> mutex = c
  /\ mutex \in Operators => Connected \cap Alone \subseteq sweep

\* When the last request to stop, or for maintenance, has begun its sweep, only those
\* who were then at the given places still come into the registry, and nobody else
\* is connected when it is over.
OnlyLate(c, places) ==
  /\ pc[c] \in places => late[c] \in places
  /\ c \in Connected => mutex \in Operators \/ late[c] \in places

StopInv ==
  \/ \E o \in Operators : opc[o] = "disconnect"
  \/ \A c \in Alone :
       /\ maintenance => OnlyLate(c, {"checked", "admitted"})
       /\ ~accepting => OnlyLate(c, {"admitted"})

\* While a login holds clientsMutex to kick, no other session of its commander is left
\* but the one to be closed and those that it has said it passes over.
KickInv ==
  \A e \in Conns, c \in Connected \cap Alone :
    /\ login[e] = "kicking" /\ login[c] = "joined"
    /\ commander[e] = commander[c]
    => c \in sweep \/ commander[c] \in passedOver

\* The inductive invariant: besides, every open client that is alone is registered
\* and a sweep owes it no turn that it will not get.
IndInv ==
  /\ TypeOK /\ SlotInv /\ EarlyInv
  /\ ConnectedIsRegistered /\ SweepInv /\ StopInv
  /\ KickInv /\ OneSessionUnlessPassedOver
=============================================================================
