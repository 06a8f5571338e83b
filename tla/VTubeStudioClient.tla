-------------------------- MODULE VTubeStudioClient --------------------------
(***************************************************************************)
(* VTubeStudioClient.cpp: the asynchronous client of VTube Studio (VTS),   *)
(* driven by pump() on the analysis thread.  The client is                 *)
(* single-threaded; what interleaves is the completion handlers that       *)
(* io_context::poll() runs, in any order, and the network.                 *)
(*                                                                         *)
(* An operation the client has started on the stream is pending until its  *)
(* handler runs; whether it succeeded is decided then.  VTS is external.   *)
(* An exception that leaves pump() ends the process: nothing catches it.   *)
(***************************************************************************)
EXTENDS Integers, Sequences, TokenFile

CONSTANTS Values,       \* values of the detect parameter
          MaxConnects,  \* bound: calls of connect()
          MaxWire,      \* bound: requests VTS has not answered, or answers unread
          Reuse,        \* whether the owner goes on after disconnect()
          Faults        \* whether VTS may send malformed messages, and the
                        \* process be killed

ASSUME ClientAssumption ==
  /\ 0 \in Values /\ -1 \notin Values
  /\ MaxConnects \in Nat /\ MaxWire \in Nat \ {0}
  /\ {Reuse, Faults} \subseteq BOOLEAN

VARIABLES
  pc,           \* owner code, io_context::poll, saving the token, draining, ...
  state, wantConnection, needsRecycle,
  backoff,      \* nextAttempt is still ahead
  triedStoredToken,
  connects,
  disconnected, \* history: disconnect() has been called
  ws,           \* the stream exists
  resolves,     \* pending async_resolve
  op, ask,      \* pending step of the connection set-up; the request it is about
  rd, wr,       \* pending steady reads and fire-and-forget writes
  registerRequested, registering, registered, registerFailed,
  afterDrop,    \* history: registered was set by an answer read after a drop
  unheard,      \* history: VTS garbled the answer to the request that waits
  pendingValue, valueDirty, writeInFlight,
  lastInject,   \* history: value of the last inject written, -1 if none
  link,         \* VTS is at the other end of the stream
  wire,         \* requests VTS has not answered
  replies,      \* answers the client has not read
  param         \* VTS has the parameter

setupVars  == <<triedStoredToken, op, ask, fileVars>>
linkVars   == <<state, wantConnection, needsRecycle, backoff>>
ownVars    == <<connects, disconnected>>
streamVars == <<ws, resolves, rd, wr>>
flagVars   == <<registering, registered, registerFailed, afterDrop, unheard>>
regVars    == <<registerRequested, flagVars>>
cellVars   == <<pendingValue, valueDirty, lastInject>>
netVars    == <<link, wire, replies, param>>
steadyVars == <<regVars, cellVars, writeInFlight>>
vars == <<pc, setupVars, linkVars, ownVars, streamVars, steadyVars, netVars>>

Init ==
  /\ pc = "owner" /\ state = "Disconnected"
  /\ wantConnection = FALSE /\ needsRecycle = FALSE /\ backoff = FALSE
  /\ triedStoredToken = FALSE /\ FilesInit
  /\ connects = 0 /\ disconnected = FALSE /\ ws = FALSE /\ resolves = 0
  /\ op = "none" /\ ask = "none" /\ rd = 0 /\ wr = 0
  /\ registerRequested = FALSE /\ registering = FALSE
  /\ registered = FALSE /\ registerFailed = FALSE
  /\ afterDrop = FALSE /\ unheard = FALSE
  /\ pendingValue = 0 /\ valueDirty = FALSE /\ writeInFlight = FALSE
  /\ lastInject = -1
  /\ link = FALSE /\ wire = <<>> /\ replies = <<>> /\ param = FALSE

-----------------------------------------------------------------------------
(* dropConnection().  The first drop wins; a handler that comes later finds *)
(* Disconnected and changes nothing.  Only a drop before Ready is retried.  *)

Dropped(afterReady) ==
  /\ state' = "Disconnected"
  /\ needsRecycle' = TRUE
  /\ wantConnection' = (wantConnection /\ ~afterReady)
  /\ backoff' = TRUE
  /\ registering' = FALSE /\ unheard' = FALSE
  /\ UNCHANGED registerFailed

(* Mutant: a drop leaves the parameter marked as created. *)
DropKeepsRegistered(afterReady) ==
  \/ state = "Disconnected" /\ UNCHANGED <<linkVars, flagVars>>
  \/ /\ state # "Disconnected"
     /\ Dropped(afterReady) /\ UNCHANGED <<registered, afterDrop>>
Drop(afterReady) ==
  \/ state = "Disconnected" /\ UNCHANGED <<linkVars, flagVars>>
  \/ /\ state # "Disconnected"
     /\ Dropped(afterReady) /\ registered' = FALSE /\ afterDrop' = FALSE

(* writeInFlight, when the handler does not clear it itself. *)
DropWrite == writeInFlight' = (writeInFlight /\ state = "Disconnected")

(* Mutants: a failed set-up is given up like a lost connection; its handler *)
(* just returns.                                                            *)
GiveUp     == Drop(TRUE)
JustReturn == UNCHANGED <<linkVars, flagVars>>
Fail       == Drop(TRUE)
RetryLater == Drop(FALSE)

-----------------------------------------------------------------------------
(* The owner, between two calls. *)

Connect ==
  /\ pc = "owner"
  /\ connects < MaxConnects
  /\ connects' = connects + 1
  /\ wantConnection' = TRUE
  /\ backoff' = FALSE
  /\ UNCHANGED <<pc, setupVars, disconnected, state, needsRecycle, streamVars,
                 steadyVars, netVars>>

RequestRegister ==
  /\ pc = "owner"
  /\ registerFailed' = FALSE
  /\ registerRequested' = TRUE
  /\ UNCHANGED <<pc, setupVars, linkVars, ownVars, streamVars, registering,
                 registered, afterDrop, unheard, cellVars, writeInFlight, netVars>>

SetDetectValue(v) ==
  /\ pc = "owner"
  /\ pendingValue' = v
  /\ valueDirty' = TRUE
  /\ UNCHANGED <<pc, setupVars, linkVars, ownVars, streamVars, regVars,
                 lastInject, writeInFlight, netVars>>

(* disconnect(): teardown cancels what the stream has pending and runs the  *)
(* handlers with shuttingDown set, so they do nothing.  A pending resolve   *)
(* is not cancelled.                                                        *)
Disconnect ==
  /\ pc = "owner"
  /\ pc' = IF Reuse THEN "owner" ELSE "closed"
  /\ disconnected' = TRUE
  /\ wantConnection' = FALSE
  /\ state' = "Disconnected"
  /\ ws' = FALSE
  /\ op' = "none" /\ ask' = "none" /\ rd' = 0 /\ wr' = 0
  /\ registered' = FALSE /\ registering' = FALSE /\ registerFailed' = FALSE
  /\ afterDrop' = FALSE /\ unheard' = FALSE
  /\ link' = FALSE /\ wire' = <<>> /\ replies' = <<>>
  /\ UNCHANGED <<needsRecycle, backoff, triedStoredToken, fileVars, connects,
                 resolves, registerRequested, cellVars, writeInFlight, param>>

-----------------------------------------------------------------------------
(* pump(): start a connection or a write, poll, recycle. *)

MayConnect ==
  wantConnection /\ state = "Disconnected" /\ ~needsRecycle /\ ~backoff

PumpConnect ==
  /\ pc = "owner"
  /\ MayConnect
  /\ pc' = "poll"
  /\ state' = "Resolving"
  /\ ws' = TRUE
  /\ triedStoredToken' = FALSE
  /\ resolves' = resolves + 1
  /\ UNCHANGED <<fileVars, op, ask, wantConnection, needsRecycle, backoff,
                 ownVars, rd, wr, steadyVars, netVars>>

(* Mutant: a second write while one is in flight. *)
MayWriteAnyTime == state = "Ready"
MayWrite        == state = "Ready" /\ ~writeInFlight

HasRoom == Len(wire) + Len(replies) < MaxWire

RegisterFirst == registerRequested /\ ~registering

Send(request) ==
  /\ writeInFlight' = TRUE
  /\ wr' = wr + 1
  /\ wire' = IF link THEN Append(wire, request) ELSE wire

PumpRegister ==
  /\ pc = "owner"
  /\ MayWrite /\ HasRoom
  /\ RegisterFirst
  /\ pc' = "poll"
  /\ registerRequested' = FALSE
  /\ registering' = TRUE
  /\ registerFailed' = FALSE
  /\ Send("create")
  /\ UNCHANGED <<setupVars, linkVars, ownVars, ws, resolves, rd, registered,
                 afterDrop, unheard, cellVars, link, replies, param>>

PumpInject ==
  /\ pc = "owner"
  /\ MayWrite /\ HasRoom
  /\ ~RegisterFirst
  /\ valueDirty
  /\ pc' = "poll"
  /\ valueDirty' = FALSE
  /\ lastInject' = pendingValue
  /\ Send("inject")
  /\ UNCHANGED <<setupVars, linkVars, ownVars, ws, resolves, rd, regVars,
                 pendingValue, link, replies, param>>

PumpOnly ==
  /\ pc = "owner"
  /\ ~MayConnect
  /\ ~(MayWrite /\ HasRoom /\ (valueDirty \/ RegisterFirst))
  /\ pc' = "poll"
  /\ UNCHANGED <<setupVars, linkVars, ownVars, streamVars, steadyVars, netVars>>

EndPoll ==
  /\ pc = "poll"
  /\ pc' = IF needsRecycle THEN "drain" ELSE "owner"
  /\ UNCHANGED <<setupVars, linkVars, ownVars, streamVars, steadyVars, netVars>>

(* Mutant: the stream goes with its operations still pending. *)
DrainSkipped == TRUE
Drained      == op = "none" /\ rd = 0 /\ wr = 0

Recycle ==
  /\ pc = "drain"
  /\ Drained
  /\ pc' = "owner"
  /\ ws' = FALSE
  /\ needsRecycle' = FALSE
  /\ link' = FALSE /\ wire' = <<>> /\ replies' = <<>>
  /\ UNCHANGED <<setupVars, state, wantConnection, backoff, ownVars, resolves,
                 rd, wr, steadyVars, param>>

-----------------------------------------------------------------------------
(* Completion handlers, run by poll(): connection set-up. *)

Polling == pc \in {"poll", "drain"}

(* The handler uses *ws.  A result that arrives when the stream is gone, or *)
(* is already being set up by another resolve, breaks it.                   *)
OwnStream == ws /\ op = "none" /\ state = "Resolving"

ResolveDone ==
  /\ Polling
  /\ resolves > 0
  /\ resolves' = resolves - 1
  /\ \/ /\ RetryLater /\ DropWrite
        /\ UNCHANGED <<pc, op>>
     \/ /\ OwnStream
        /\ op' = "connect" /\ state' = "Connecting"
        /\ UNCHANGED <<pc, wantConnection, needsRecycle, backoff, flagVars,
                       writeInFlight>>
     \/ /\ ~OwnStream
        /\ pc' = "broken"
        /\ UNCHANGED <<op, linkVars, flagVars, writeInFlight>>
  /\ UNCHANGED <<triedStoredToken, ask, fileVars, ownVars, ws, rd, wr,
                 registerRequested, cellVars, netVars>>

(* A step of the set-up fails (error, timeout, answer that is not JSON or   *)
(* lacks the token).                                                        *)
SetupFailed ==
  /\ Polling
  /\ op # "none"
  /\ op' = "none" /\ ask' = "none"
  /\ RetryLater /\ DropWrite
  /\ UNCHANGED <<pc, triedStoredToken, fileVars, ownVars, streamVars,
                 registerRequested, cellVars, netVars>>

(* An answer with a field of another type: the json library throws.         *)
SetupThrows ==
  /\ Faults
  /\ pc = "poll"
  /\ op = "read" /\ link
  /\ pc' = "threw"
  /\ UNCHANGED <<setupVars, linkVars, ownVars, streamVars, steadyVars, netVars>>

ConnectDone ==
  /\ pc = "poll"
  /\ op = "connect"
  /\ op' = "handshake" /\ state' = "Handshaking"
  /\ link' = TRUE
  /\ UNCHANGED <<pc, triedStoredToken, fileVars, ask, wantConnection,
                 needsRecycle, backoff, ownVars, streamVars, steadyVars, wire,
                 replies, param>>

(* beginAuth(): the stored token if it can be read, else ask for a new one. *)
HandshakeDone ==
  /\ pc = "poll"
  /\ op = "handshake" /\ link
  /\ state' = "Authenticating"
  /\ \E loaded, throws \in BOOLEAN :
       /\ LoadToken(loaded, throws)
       /\ pc' = IF throws THEN "threw" ELSE "poll"
       /\ op' = "write"
       /\ ask' = IF loaded THEN "stored" ELSE "token"
       /\ triedStoredToken' = loaded
  /\ UNCHANGED <<wantConnection, needsRecycle, backoff, ownVars, streamVars,
                 steadyVars, netVars>>

RequestWritten ==
  /\ pc = "poll"
  /\ op = "write"
  /\ op' = "read"
  /\ UNCHANGED <<pc, triedStoredToken, fileVars, ask, linkVars, ownVars,
                 streamVars, steadyVars, netVars>>

(* onTokenResponse(): keep the token, authenticate with it, kept or not.    *)
AfterSave(throws) ==
  \/ throws /\ pc' = "threw" /\ UNCHANGED <<op, ask>>
  \/ ~throws /\ saving' # "no" /\ pc' = "save" /\ UNCHANGED <<op, ask>>
  \/ ~throws /\ saving' = "no" /\ pc' = "poll" /\ op' = "write" /\ ask' = "auth"

TokenGranted ==
  /\ pc = "poll"
  /\ op = "read" /\ ask = "token" /\ link
  /\ \E throws \in BOOLEAN : BeginSave(throws) /\ AfterSave(throws)
  /\ UNCHANGED <<triedStoredToken, linkVars, ownVars, streamVars, steadyVars,
                 netVars>>

SaveToken ==
  /\ pc = "save"
  /\ \E throws \in BOOLEAN : SaveStep(throws) /\ AfterSave(throws)
  /\ UNCHANGED <<triedStoredToken, linkVars, ownVars, streamVars, steadyVars,
                 netVars>>

(* onAuthResponse(): Ready and the first steady read ... *)
Authenticated ==
  /\ pc = "poll"
  /\ op = "read" /\ ask \in {"stored", "auth"} /\ link
  /\ op' = "none" /\ ask' = "none"
  /\ state' = "Ready"
  /\ rd' = rd + 1
  /\ UNCHANGED <<pc, triedStoredToken, fileVars, wantConnection, needsRecycle,
                 backoff, ownVars, ws, resolves, wr, steadyVars, netVars>>

(* ... or rejected: the popup after a stored token, else try again later. *)
Rejected ==
  /\ pc = "poll"
  /\ op = "read" /\ ask \in {"stored", "auth"} /\ link
  /\ \/ /\ triedStoredToken
        /\ op' = "write" /\ ask' = "token" /\ triedStoredToken' = FALSE
        /\ UNCHANGED <<linkVars, flagVars, writeInFlight>>
     \/ /\ ~triedStoredToken
        /\ op' = "none" /\ ask' = "none"
        /\ RetryLater /\ DropWrite
        /\ UNCHANGED triedStoredToken
  /\ UNCHANGED <<pc, fileVars, ownVars, streamVars, registerRequested, cellVars,
                 netVars>>

Setup ==
  \/ ResolveDone \/ SetupFailed \/ SetupThrows \/ ConnectDone \/ HandshakeDone
  \/ RequestWritten \/ TokenGranted \/ SaveToken \/ Authenticated \/ Rejected

-----------------------------------------------------------------------------
(* Completion handlers: steady state. *)

(* Mutant: the value cell is marked clean when the write completes. *)
CleanAfterWrite == FALSE
DirtyAfterWrite == valueDirty

WriteDone ==
  /\ Polling
  /\ wr > 0
  /\ wr' = wr - 1
  /\ writeInFlight' = FALSE
  /\ valueDirty' = DirtyAfterWrite
  /\ \/ UNCHANGED <<linkVars, flagVars>>
     \/ Fail
  /\ UNCHANGED <<pc, setupVars, ownVars, ws, resolves, rd, registerRequested,
                 pendingValue, lastInject, netVars>>

(* The link went down, or the stream is being drained after a drop. *)
ReadFailed ==
  /\ Polling
  /\ rd > 0
  /\ ~link \/ pc = "drain"
  /\ rd' = rd - 1
  /\ Fail /\ DropWrite
  /\ UNCHANGED <<pc, setupVars, ownVars, ws, resolves, wr, registerRequested,
                 cellVars, netVars>>

(* Mutant: the read is re-armed only after a message that could be parsed.  *)
(* onSteadyMessage() re-arms it whatever the message was.                   *)
RearmIfParsed(m) == state = "Ready" /\ m # "garbled"
Rearm(m)         == state = "Ready"

Created ==
  /\ registered' = TRUE /\ registering' = FALSE /\ registerFailed' = FALSE
  /\ afterDrop' = (state # "Ready") /\ unheard' = FALSE

(* Mutant: a refusal is reported and the client goes on waiting. *)
RefusedWaiting ==
  /\ registering
  /\ registerFailed' = TRUE
  /\ UNCHANGED <<registering, registered, afterDrop, unheard>>
Refused ==
  /\ registering
  /\ registering' = FALSE /\ registerFailed' = TRUE /\ unheard' = FALSE
  /\ UNCHANGED <<registered, afterDrop>>

SteadyMessage ==
  /\ Polling
  /\ rd > 0
  /\ replies # <<>>
  /\ LET m == Head(replies)
     IN  /\ \/ m = "created" /\ Created
            \/ m = "error" /\ Refused
            \/ /\ m \in {"acked", "garbled"} \/ (m = "error" /\ ~registering)
               /\ UNCHANGED flagVars
         /\ rd' = IF Rearm(m) THEN rd ELSE rd - 1
  /\ replies' = Tail(replies)
  /\ UNCHANGED <<pc, setupVars, linkVars, ownVars, ws, resolves, wr,
                 registerRequested, cellVars, writeInFlight, link, wire, param>>

Steady == WriteDone \/ ReadFailed \/ SteadyMessage

-----------------------------------------------------------------------------
(* VTube Studio, the clock and the process. *)

(* VTS answers in order.  It may refuse to create the parameter, and an     *)
(* inject of a parameter it does not have is an error.                      *)
Answer(kind) ==
  /\ replies' = Append(replies, kind)
  /\ wire' = Tail(wire)

Garble ==
  /\ Faults
  /\ Answer("garbled")
  /\ unheard' = (unheard \/ (registering /\ Head(wire) = "create"))

VtsAnswers ==
  /\ link /\ wire # <<>>
  /\ \/ /\ Head(wire) = "create"
        /\ \/ Answer("created") /\ param' = TRUE
           \/ Answer("error")   /\ UNCHANGED param
        /\ UNCHANGED unheard
     \/ /\ Head(wire) = "inject"
        /\ Answer(IF param THEN "acked" ELSE "error")
        /\ UNCHANGED <<param, unheard>>
     \/ Garble /\ UNCHANGED param
  /\ UNCHANGED <<pc, setupVars, linkVars, ownVars, streamVars,
                 registerRequested, registering, registered, registerFailed,
                 afterDrop, cellVars, writeInFlight, link>>

(* The connection is lost; if VTS restarts it forgets the parameter. *)
LinkLost ==
  /\ link
  /\ link' = FALSE
  /\ wire' = <<>>
  /\ param' \in {param, FALSE}
  /\ UNCHANGED <<pc, setupVars, linkVars, ownVars, streamVars, steadyVars,
                 replies>>

BackoffElapses ==
  /\ backoff
  /\ backoff' = FALSE
  /\ UNCHANGED <<pc, setupVars, state, wantConnection, needsRecycle, ownVars,
                 streamVars, steadyVars, netVars>>

(* The process is killed, or ends by an exception, and starts again; the   *)
(* files and VTS outlive it.                                                *)
Relaunch ==
  /\ Faults
  /\ pc' = "owner" /\ state' = "Disconnected"
  /\ wantConnection' = FALSE /\ needsRecycle' = FALSE /\ backoff' = FALSE
  /\ triedStoredToken' = FALSE /\ disconnected' = FALSE
  /\ ws' = FALSE /\ resolves' = 0
  /\ op' = "none" /\ ask' = "none" /\ rd' = 0 /\ wr' = 0
  /\ registerRequested' = FALSE /\ registering' = FALSE
  /\ registered' = FALSE /\ registerFailed' = FALSE
  /\ afterDrop' = FALSE /\ unheard' = FALSE
  /\ pendingValue' = 0 /\ valueDirty' = FALSE /\ writeInFlight' = FALSE
  /\ lastInject' = -1
  /\ link' = FALSE /\ wire' = <<>> /\ replies' = <<>>
  /\ saving' = "no"
  /\ UNCHANGED <<tokenFile, tmpFile, connects, param>>

-----------------------------------------------------------------------------
Owner == Connect \/ RequestRegister \/ Disconnect
           \/ \E v \in Values : SetDetectValue(v)
Pump  == PumpConnect \/ PumpRegister \/ PumpInject \/ PumpOnly
Vts   == VtsAnswers \/ LinkLost \/ BackoffElapses

Next == Owner \/ Pump \/ EndPoll \/ Recycle \/ Setup \/ Steady \/ Vts \/ Relaunch

Spec == Init /\ [][Next]_vars

(* The analysis loop pumps for ever, poll() runs what is ready and ends,    *)
(* and time passes.                                                         *)
PumpFairness ==
  /\ WF_vars(Pump) /\ WF_vars(EndPoll) /\ WF_vars(Recycle)
  /\ WF_vars(SaveToken) /\ WF_vars(BackoffElapses)

(* VTS is up, and what can succeed again and again does not fail for ever.  *)
(* A step on a stream that is down times out (OP_TIMEOUT_MS and             *)
(* AUTH_POPUP_TIMEOUT_MS).                                                  *)
SetupFairness ==
  /\ SF_vars(SetupFailed /\ ~link)
  /\ SF_vars(ResolveDone /\ op' = "connect")
  /\ SF_vars(ConnectDone) /\ SF_vars(HandshakeDone)
  /\ \A a \in {"stored", "token", "auth"} :
       SF_vars(RequestWritten /\ ask = a /\ link)
  /\ SF_vars(TokenGranted) /\ SF_vars(Authenticated)
  /\ SF_vars(SaveToken /\ saving' = "no" /\ link)

(* What is pending in the steady state completes, and VTS answers.          *)
SteadyFairness ==
  /\ SF_vars(WriteDone) /\ SF_vars(ReadFailed) /\ SF_vars(SteadyMessage)
  /\ WF_vars(VtsAnswers)

PumpedSpec == Spec /\ PumpFairness
FairSpec   == PumpedSpec /\ SetupFairness /\ SteadyFairness

-----------------------------------------------------------------------------
States == {"Disconnected", "Resolving", "Connecting", "Handshaking",
           "Authenticating", "Ready"}

FlagsTypeOK ==
  {wantConnection, needsRecycle, backoff, triedStoredToken, ws, disconnected,
   registerRequested, registering, registered, registerFailed, afterDrop,
   unheard, valueDirty, writeInFlight, link, param} \subseteq BOOLEAN

ControlTypeOK ==
  /\ pc \in {"owner", "poll", "save", "drain", "closed", "broken", "threw"}
  /\ state \in States
  /\ op \in {"none", "connect", "handshake", "write", "read"}
  /\ ask \in {"none", "stored", "token", "auth"}
  /\ pendingValue \in Values /\ lastInject \in Values \cup {-1}

CountTypeOK ==
  /\ connects \in 0 .. MaxConnects
  /\ resolves \in 0 .. connects /\ rd \in Nat /\ wr \in Nat

MessageTypeOK ==
  /\ wire \in Seq({"create", "inject"})
  /\ replies \in Seq({"created", "error", "acked", "garbled"})

(* Type invariant. *)
TypeOK ==
  FilesTypeOK /\ FlagsTypeOK /\ ControlTypeOK /\ CountTypeOK /\ MessageTypeOK

(* A websocket stream takes one write and one read at a time                *)
(* (VTubeStudioClient.cpp:228-230), the set-up has it to itself, and it is  *)
(* only destroyed with nothing pending on it (588-590).  No handler runs    *)
(* for a stream that is gone or that another set-up owns (290-313), up to   *)
(* disconnect(), which leaves a resolve pending: the plugin calls it last.  *)
StreamDiscipline ==
  /\ rd <= 1 /\ wr <= 1
  /\ op # "none" => rd = 0 /\ wr = 0
  /\ ~ws => op = "none" /\ rd = 0 /\ wr = 0
  /\ pc = "broken" => disconnected

(* In Ready, between two polls, exactly one steady read is armed, also      *)
(* after malformed frames (502-505), so that answers are always drained and *)
(* a lost link is always noticed.  It is also what keeps the timeout of a   *)
(* write (552) off the reads (479).  VTubeStudioClient.cpp:456-512.         *)
SteadyReadArmed == pc = "owner" /\ state = "Ready" => rd = 1

(* The value cell (VTubeStudioClient.h:46-48) is a ValueCell: values        *)
(* coalesce, one write at a time, only in Ready, and a value is not marked  *)
(* clean but by being handed to a write, over any drop and reconnection.    *)
(* What becomes of that write the cell does not promise: when it fails, the *)
(* value is not sent again (538, 562), and a new process has an empty cell. *)
Cell == INSTANCE ValueCell WITH
          value <- pendingValue, dirty <- valueDirty, sent <- lastInject,
          busy <- writeInFlight, up <- state = "Ready"

ImplementsCell == Cell!Spec

(* ... so with the cell clean, the last value set was handed over last.     *)
LatestValueSent == Cell!LatestSent

(* isRegistered(), "detect parameter created in VTS"                        *)
(* (VTubeStudioClient.h:40): on a link that is up it is true, whatever VTS  *)
(* forgot before, except where an answer was read after the drop (491).     *)
RegistrationTruthful ==
  registered /\ state = "Ready" /\ link /\ ~afterDrop => param

(* Connection policy (VTubeStudioClient.h:11-13): the initial link is       *)
(* retried until it is up.                                                  *)
InitialLinkRetried ==
  SetupFairness =>
    (wantConnection ~> (state = "Ready" \/ pc \in {"closed", "threw"}))

(* ... for between two polls the client waits for nothing that does not     *)
(* come: a state of the set-up has its own operation pending                *)
(* (VTubeStudioClient.cpp:290-452), and a client without a link is clear to *)
(* connect, as soon as it is asked to and the backoff is over (576).        *)
WaitsForSomething ==
  pc = "owner" =>
    /\ state = "Disconnected"   => op = "none" /\ ~needsRecycle
    /\ state = "Resolving"      => op = "none" /\ resolves > 0
    /\ state = "Connecting"     => op = "connect"
    /\ state = "Handshaking"    => op = "handshake"
    /\ state = "Authenticating" => op \in {"write", "read"} /\ ask # "none"

(* A register request in Ready is sent, and settled by its answer, or by    *)
(* the loss of the link (VTubeStudioClient.cpp:489-499, 253, 521).          *)
RegisterSettles ==
  SteadyFairness =>
    /\ registering ~> ~registering
    /\ (registerRequested /\ state = "Ready")
         ~> (~registerRequested \/ state # "Ready")

(* While the client waits for that answer, it is there to be read, or VTS   *)
(* has still to give it, or the link is down and the steady read about to   *)
(* fail: answers carry no id (VTubeStudioClient.cpp:481-500), so one of an  *)
(* earlier request may have ended another wait, but no wait is left without *)
(* one.  Only the request's own answer, sent so that it cannot be parsed    *)
(* (502-505), goes unnoticed.                                               *)
AnswerComing ==
  registering =>
    /\ state = "Ready"
    /\ \/ unheard \/ ~link
       \/ \E i \in DOMAIN wire : wire[i] = "create"
       \/ \E i \in DOMAIN replies : replies[i] \in {"created", "error"}

(* Until disconnect() writeInFlight (VTubeStudioClient.cpp:228-229), which  *)
(* a drop and the write's handler both clear, is set between two polls just *)
(* while a write is pending, over any drop and retry: a flag left set would *)
(* keep the client from ever writing again, a write left over would meet    *)
(* the next one.                                                            *)
WriteFlagHasWrite ==
  pc = "owner" /\ ~disconnected => (writeInFlight <=> wr = 1)

(* README.md:112, "if VTS restarts, the plugin reconnects in ~5 s".         *)
Reconnects ==
  (connects > 0 /\ state = "Disconnected")
    ~> (state = "Ready" \/ pc \in {"closed", "threw"})
=============================================================================
