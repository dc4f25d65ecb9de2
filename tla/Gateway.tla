------------------------------ MODULE Gateway ------------------------------
(***************************************************************************)
(* The gateway (internal/entrypoint/gateway.go and gateway_proxy.go):      *)
(* a watcher that reloads the configuration some time after the file has   *)
(* changed, and the forwarding of connections in mode "proxy".             *)
(*                                                                         *)
(* The timer of the watcher is reset by every event.  Its function runs in *)
(* a goroutine of its own, and nothing keeps a second one from starting    *)
(* while the first is still at work.                                       *)
(*                                                                         *)
(* A connection is forwarded by two goroutines, one for each direction;    *)
(* the first to end closes both sides for the other as well.               *)
(***************************************************************************)
EXTENDS Naturals

CONSTANTS
  Texts,       \* what the file may hold
  Accepted,    \* those that can be read and are of the mode the gateway runs in
  Readable,    \* those that can be read
  Dialed,      \* those with a proxy_remote
  PrivateOnly, \* those with require_private_clients
  Reloads,     \* goroutines for reloadConfig
  Conns,       \* connections of clients
  Public,      \* those from an address that is not private
  MaxEdits,    \* bound: how often the file changes
  MaxChunks    \* bound: how much is sent in each direction

ASSUME GatewayAssumption ==
  /\ Accepted \subseteq Readable
  /\ Readable \subseteq Texts
  /\ MaxEdits \in Nat /\ MaxChunks \in Nat

VARIABLES
  text,       \* what each version of the file holds, the last being the file
  edits,      \* the number of the last version
  events,     \* events of the watcher that have not been received
  watcher,    \* whether the directory is watched
  missed,     \* no event was raised for the last version, and none was due (history)
  timer,      \* whether reloadTimer is running
  task,       \* where each reloadConfig is
  loaded,     \* the version it has read
  current,    \* the version in the package variable config.current
  installed,  \* the version in runtime.upstream or requirePrivateClients
  overlapped, \* a reload has started while another was at work (history)
  pc,         \* where the handler of each connection is
  config,     \* the version it goes by
  copier,     \* where each direction's goroutine is
  closed,     \* closeBoth has been called
  sent,       \* how much has been sent in each direction
  taken,      \* ... and read by the gateway
  delivered,  \* ... and written by it
  done,       \* the sender has closed its side of the direction
  clean       \* the direction ended at the end of what was sent (history)

fileVars == <<text, edits, events, watcher, missed>>
reloadVars == <<timer, task, loaded, current, installed, overlapped>>
copyVars == <<copier, closed, sent, taken, delivered, done, clean>>
connVars == <<pc, config, copyVars>>
vars == <<fileVars, reloadVars, connVars>>

Directions == {"clientToUpstream", "upstreamToClient"}

Init ==
  /\ \E c \in Accepted : text = [v \in {0} |-> c]
  /\ edits = 0 /\ events = 0
  /\ watcher = "starting" /\ missed = FALSE
  /\ timer = FALSE
  /\ task = [r \in Reloads |-> "none"]
  /\ loaded = [r \in Reloads |-> 0]
  /\ current = 0 /\ installed = 0
  /\ overlapped = FALSE
  /\ pc = [k \in Conns |-> "new"]
  /\ config = [k \in Conns |-> 0]
  /\ copier = [k \in Conns |-> [d \in Directions |-> "none"]]
  /\ closed = [k \in Conns |-> FALSE]
  /\ sent = [k \in Conns |-> [d \in Directions |-> 0]]
  /\ taken = sent /\ delivered = sent
  /\ done = [k \in Conns |-> [d \in Directions |-> FALSE]]
  /\ clean = done

-----------------------------------------------------------------------------
(* watchGatewayConfig.                                                     *)

\* The goroutine that watches starts when the configuration has been read, at some
\* time or other; when it cannot watch it gives up, and the gateway runs without it.
WatchStarts ==
  /\ watcher = "starting"
  /\ watcher' = "watching"
  /\ UNCHANGED <<text, edits, events, missed, reloadVars, connVars>>

WatchFails ==
  /\ watcher = "starting"
  /\ watcher' = "failed"
  /\ UNCHANGED <<text, edits, events, missed, reloadVars, connVars>>

\* What is under way reads the file when its turn comes, whatever it holds by then.
Due == events > 0 \/ timer \/ \E r \in Reloads : task[r] = "load"

\* Somebody writes the file, which is an event when it is watched; the watcher may
\* drop it (an overflow is an error, which is logged).
Edit ==
  /\ edits < MaxEdits
  /\ edits' = edits + 1
  /\ \E c \in Texts : text' = [v \in 0..edits + 1 |-> IF v <= edits THEN text[v] ELSE c]
  /\ \/ watcher = "watching" /\ events' = events + 1 /\ missed' = FALSE
     \/ events' = events /\ missed' = ~Due
  /\ UNCHANGED <<watcher, reloadVars, connVars>>

\* Mutant: a timer that exists is not reset.
ScheduleOnce ==
  /\ events > 0
  /\ events' = events - 1
  /\ timer' = (timer \/ installed = 0)
  /\ UNCHANGED <<text, edits, watcher, missed, task, loaded, current, installed, overlapped, connVars>>

ScheduleReload ==
  /\ events > 0
  /\ events' = events - 1
  /\ timer' = TRUE
  /\ UNCHANGED <<text, edits, watcher, missed, task, loaded, current, installed, overlapped, connVars>>

TimerFires(r) ==
  /\ timer /\ task[r] = "none"
  /\ timer' = FALSE
  /\ task' = [task EXCEPT ![r] = "load"]
  /\ overlapped' = (overlapped \/ \E q \in Reloads : task[q] # "none")
  /\ UNCHANGED <<fileVars, loaded, current, installed, connVars>>

\* Mutant: a file that cannot be used brings the configuration of the start back.
DecodeFileOrFirst(r) ==
  /\ task[r] = "load"
  /\ loaded' = [loaded EXCEPT ![r] = IF text[edits] \in Accepted THEN edits ELSE 0]
  /\ task' = [task EXCEPT ![r] = "set"]
  /\ UNCHANGED <<fileVars, timer, current, installed, overlapped, connVars>>

\* config.LoadGateway: it reads the file, and then sets config.current.
DecodeFile(r) ==
  /\ task[r] = "load"
  /\ loaded' = [loaded EXCEPT ![r] = edits]
  /\ task' = [task EXCEPT ![r] = IF text[edits] \in Readable THEN "set" ELSE "none"]
  /\ UNCHANGED <<fileVars, timer, current, installed, overlapped, connVars>>

\* Only a configuration of mode "proxy" is installed.
AfterLoad(r) == IF text[loaded[r]] \in Accepted THEN "update" ELSE "none"

\* Mutant: config.current stays what it was at the start.
SetCurrentNot(r) ==
  /\ task[r] = "set"
  /\ task' = [task EXCEPT ![r] = AfterLoad(r)]
  /\ UNCHANGED <<fileVars, timer, loaded, current, installed, overlapped, connVars>>

SetCurrent(r) ==
  /\ task[r] = "set"
  /\ current' = loaded[r]
  /\ task' = [task EXCEPT ![r] = AfterLoad(r)]
  /\ UNCHANGED <<fileVars, timer, loaded, installed, overlapped, connVars>>

Update(r) ==
  /\ task[r] = "update"
  /\ installed' = loaded[r]
  /\ task' = [task EXCEPT ![r] = "none"]
  /\ UNCHANGED <<fileVars, timer, loaded, current, overlapped, connVars>>

Watch ==
  \/ ScheduleReload
  \/ \E r \in Reloads : TimerFires(r) \/ DecodeFile(r) \/ SetCurrent(r) \/ Update(r)

-----------------------------------------------------------------------------
(* gatewayProxyRuntime.                                                    *)

Accept(k) ==
  /\ pc[k] = "new"
  /\ pc' = [pc EXCEPT ![k] = "check"]
  /\ config' = [config EXCEPT ![k] = installed]
  /\ UNCHANGED <<fileVars, reloadVars, copyVars>>

Refused(k) ==
  \/ k \in Public /\ text[config[k]] \in PrivateOnly
  \/ text[config[k]] \notin Dialed

Reject(k) ==
  /\ pc[k] = "check" /\ Refused(k)
  /\ pc' = [pc EXCEPT ![k] = "gone"]
  /\ closed' = [closed EXCEPT ![k] = TRUE]
  /\ UNCHANGED <<fileVars, reloadVars, config, copier, sent, taken, delivered, done, clean>>

\* The dial fails, or times out.
DialFails(k) ==
  /\ pc[k] = "check" /\ ~Refused(k)
  /\ pc' = [pc EXCEPT ![k] = "gone"]
  /\ closed' = [closed EXCEPT ![k] = TRUE]
  /\ UNCHANGED <<fileVars, reloadVars, config, copier, sent, taken, delivered, done, clean>>

Dial(k) ==
  /\ pc[k] = "check" /\ ~Refused(k)
  /\ pc' = [pc EXCEPT ![k] = "proxy"]
  /\ copier' = [copier EXCEPT ![k] = [d \in Directions |-> "read"]]
  /\ UNCHANGED <<fileVars, reloadVars, config, closed, sent, taken, delivered, done, clean>>

\* The peers: the client may send before the gateway has an upstream.
Connected(k, d) ==
  \/ pc[k] = "proxy"
  \/ pc[k] = "check" /\ d = "clientToUpstream"

Send(k, d) ==
  /\ Connected(k, d) /\ ~done[k][d] /\ sent[k][d] < MaxChunks
  /\ sent' = [sent EXCEPT ![k][d] = @ + 1]
  /\ UNCHANGED <<fileVars, reloadVars, pc, config, copier, closed, taken, delivered, done, clean>>

EndSending(k, d) ==
  /\ Connected(k, d) /\ ~done[k][d]
  /\ done' = [done EXCEPT ![k][d] = TRUE]
  /\ UNCHANGED <<fileVars, reloadVars, pc, config, copier, closed, sent, taken, delivered, clean>>

\* io.CopyBuffer: read a buffer, write it; the goroutine ends at the end of the
\* input or with an error, and closes both sides.
ReadChunk(k, d) ==
  /\ copier[k][d] = "read" /\ ~closed[k] /\ taken[k][d] < sent[k][d]
  /\ \E n \in taken[k][d] + 1..sent[k][d] : taken' = [taken EXCEPT ![k][d] = n]
  /\ copier' = [copier EXCEPT ![k][d] = "write"]
  /\ UNCHANGED <<fileVars, reloadVars, pc, config, closed, sent, delivered, done, clean>>

WriteChunk(k, d) ==
  /\ copier[k][d] = "write" /\ ~closed[k]
  /\ delivered' = [delivered EXCEPT ![k][d] = taken[k][d]]
  /\ copier' = [copier EXCEPT ![k][d] = "read"]
  /\ UNCHANGED <<fileVars, reloadVars, pc, config, closed, sent, taken, done, clean>>

\* Mutant: the other goroutine's side is left open.
EndAlone(k, d) ==
  /\ copier' = [copier EXCEPT ![k][d] = "end"]
  /\ UNCHANGED closed

EndOne(k, d) ==
  /\ copier' = [copier EXCEPT ![k][d] = "end"]
  /\ closed' = [closed EXCEPT ![k] = TRUE]

\* Mutant: the end of the input is taken notice of before what was sent is read.
EndOfInputEarly(k, d) ==
  /\ copier[k][d] = "read" /\ ~closed[k] /\ done[k][d]
  /\ EndOne(k, d)
  /\ clean' = [clean EXCEPT ![k][d] = TRUE]
  /\ UNCHANGED <<fileVars, reloadVars, pc, config, sent, taken, delivered, done>>

EndOfInput(k, d) ==
  /\ copier[k][d] = "read" /\ ~closed[k] /\ done[k][d] /\ taken[k][d] = sent[k][d]
  /\ EndOne(k, d)
  /\ clean' = [clean EXCEPT ![k][d] = TRUE]
  /\ UNCHANGED <<fileVars, reloadVars, pc, config, sent, taken, delivered, done>>

\* A peer has reset its connection.
ConnFails(k, d) ==
  /\ copier[k][d] \in {"read", "write"} /\ ~closed[k]
  /\ EndOne(k, d)
  /\ UNCHANGED <<fileVars, reloadVars, pc, config, sent, taken, delivered, done, clean>>

\* The read or write, which may have blocked for long, fails on the closed connection.
FindsClosed(k, d) ==
  /\ copier[k][d] \in {"read", "write"} /\ closed[k]
  /\ EndOne(k, d)
  /\ UNCHANGED <<fileVars, reloadVars, pc, config, sent, taken, delivered, done, clean>>

\* proxyBidirectional returns when both goroutines have ended.
Return(k) ==
  /\ pc[k] = "proxy" /\ \A d \in Directions : copier[k][d] = "end"
  /\ pc' = [pc EXCEPT ![k] = "gone"]
  /\ UNCHANGED <<fileVars, reloadVars, config, copyVars>>

Copy(k, d) ==
  \/ ReadChunk(k, d) \/ WriteChunk(k, d)
  \/ EndOfInput(k, d) \/ ConnFails(k, d) \/ FindsClosed(k, d)

Handle(k) ==
  \/ Accept(k) \/ Reject(k) \/ DialFails(k) \/ Dial(k) \/ Return(k)
  \/ \E d \in Directions : Copy(k, d)

Next ==
  \/ Edit \/ WatchStarts \/ WatchFails \/ Watch
  \/ \E k \in Conns :
       \/ Handle(k)
       \/ \E d \in Directions : Send(k, d) \/ EndSending(k, d)

Spec == Init /\ [][Next]_vars

\* The timer fires, goroutines run, and a dial is bounded by its timeout.  Reading
\* and writing get no fairness: peers may stop sending, and stop reading.
FairSpec ==
  /\ Spec
  /\ WF_vars(Watch)
  /\ \A k \in Conns :
       /\ WF_vars(Reject(k) \/ DialFails(k) \/ Dial(k) \/ Return(k))
       /\ \A d \in Directions : WF_vars(FindsClosed(k, d))

-----------------------------------------------------------------------------
(* The inductive invariant.                                                *)

TypeOK ==
  /\ edits \in 0..MaxEdits /\ text \in [0..edits -> Texts]
  /\ events \in Nat /\ timer \in BOOLEAN
  /\ watcher \in {"starting", "watching", "failed"} /\ missed \in BOOLEAN
  /\ task \in [Reloads -> {"none", "load", "set", "update"}]
  /\ loaded \in [Reloads -> 0..edits]
  /\ current \in 0..edits /\ installed \in 0..edits
  /\ overlapped \in BOOLEAN
  /\ pc \in [Conns -> {"new", "check", "proxy", "gone"}]
  /\ config \in [Conns -> 0..edits]
  /\ copier \in [Conns -> [Directions -> {"none", "read", "write", "end"}]]
  /\ closed \in [Conns -> BOOLEAN]
  /\ sent \in [Conns -> [Directions -> Nat]]
  /\ taken \in [Conns -> [Directions -> Nat]]
  /\ delivered \in [Conns -> [Directions -> Nat]]
  /\ done \in [Conns -> [Directions -> BOOLEAN]]
  /\ clean \in [Conns -> [Directions -> BOOLEAN]]

\* Until reloads overlap there is one at a time; what it has read is not older than
\* config.current, and is what config.current holds when it goes on to update.
ReloadInv ==
  ~overlapped =>
    /\ \A q, r \in Reloads : task[q] # "none" /\ task[r] # "none" => q = r
    /\ \A r \in Reloads : task[r] = "set" => current <= loaded[r]
    /\ \A r \in Reloads : task[r] = "update" => loaded[r] = current
    /\ installed <= current

CopyInv ==
  \A k \in Conns : \A d \in Directions :
    /\ pc[k] \in {"new", "check"} => copier[k][d] = "none"
    /\ copier[k][d] \in {"none", "read"} => delivered[k][d] = taken[k][d]
    /\ copier[k][d] = "end" => closed[k]
    /\ clean[k][d] =>
         /\ copier[k][d] = "end" /\ done[k][d]
         /\ delivered[k][d] = sent[k][d]

\* What the handlers and the watcher know of each other's work.
IndInv == TypeOK /\ ReloadInv /\ CopyInv

-----------------------------------------------------------------------------
(* Properties.                                                             *)

\* The configuration in force never goes back to an older version of the file,
\* unless two reloads have run beside each other.
NeverGoesBack == [][~overlapped' => installed' >= installed]_vars

\* A version of the file that the gateway accepts is installed some time after it
\* was written, unless it is overwritten before, reloads have overlapped, or the
\* watcher missed it: it was written before the directory was watched or without an
\* event, when nothing else was due to read the file.
FileIsInstalled ==
  \A v \in 0..MaxEdits :
    (edits = v /\ text[edits] \in Accepted /\ ~missed)
    ~> (installed = v \/ edits # v \/ overlapped)

\* Until reloads overlap, what other handlers read in config.current is not older
\* than the configuration that the gateway goes by.
CurrentIsNotOlder == ~overlapped => installed <= current

\* A version of the file that could be installed and is not, has something under way
\* that will bring it in: an event, the timer, or a reload that has not read the file
\* or has read this version.  No burst of edits, and no reload of a file that was
\* half written, uses up the last chance; only reloads that overlap can.  A version
\* that the watcher missed never had a chance: it stays in the file, not in force,
\* until the next one.
Brings(r) ==
  \/ task[r] = "load"
  \/ task[r] \in {"set", "update"} /\ loaded[r] = edits

NothingIsForgotten ==
  ~overlapped /\ ~missed /\ text[edits] \in Accepted /\ installed # edits
    => events > 0 \/ timer \/ \E r \in Reloads : Brings(r)

\* What a sender sent before it closed its side has been written to the other peer
\* in full when the gateway takes that closing for the end, however far the other
\* direction is.
EndIsWhole ==
  \A k \in Conns : \A d \in Directions : clean[k][d] => delivered[k][d] = sent[k][d]

\* When one direction has ended, the handler returns: the other goroutine does not
\* stay behind, not even if its peer neither sends nor reads any more.
BothEnd ==
  \A k \in Conns : (\E d \in Directions : copier[k][d] = "end") ~> pc[k] = "gone"
=============================================================================
