----------------------- MODULE VTubeStudioClient_proofs -----------------------
(***************************************************************************)
(* For any values and bounds, however the owner uses the client, with any  *)
(* faults: the stream's discipline, the steady read, the flags, the token, *)
(* and that the value cell is a ValueCell.                                 *)
(***************************************************************************)
EXTENDS VTubeStudioClient, SequenceTheorems, TLAPS

(* The state of the client says which step of the set-up is pending; after  *)
(* a drop one may still be, until the stream is recycled.                   *)
SetupInv ==
  /\ op # "none" => rd = 0 /\ wr = 0 /\ ws /\ wire = <<>> /\ replies = <<>>
  /\ state = "Resolving" =>
       /\ op = "none" /\ rd = 0 /\ wr = 0 /\ ws /\ ~needsRecycle
       /\ wire = <<>> /\ replies = <<>>
  /\ state = "Connecting" => op = "connect"
  /\ state = "Handshaking" => op = "handshake"
  /\ state = "Authenticating" => op \in {"write", "read"} /\ ask # "none"
  /\ state = "Ready" => op = "none" /\ rd = 1
  /\ state = "Disconnected" /\ ~needsRecycle =>
       /\ op = "none" /\ rd = 0 /\ wr = 0
       /\ wire = <<>> /\ replies = <<>>
  /\ pc \in {"owner", "closed"} => ~needsRecycle
  /\ pc = "drain" => needsRecycle
  /\ pc = "save" => op = "read"

(* A write left over is one of a stream to be recycled. *)
SteadyInv ==
  /\ rd \in {0, 1} /\ wr \in {0, 1}
  /\ rd = 1 \/ wr = 1 => ws
  /\ wr = 1 => writeInFlight \/ needsRecycle
  /\ ~disconnected /\ writeInFlight => wr = 1

(* Resolves in excess of the one that is waited for are left by disconnect. *)
ResolveInv ==
  /\ pc = "broken" => disconnected
  /\ state = "Resolving" => resolves > 0
  /\ ~disconnected => resolves = IF state = "Resolving" THEN 1 ELSE 0
  /\ wantConnection /\ state # "Resolving" => resolves < connects

Kinds    == {"created", "error", "acked", "garbled"}
Requests == {"create", "inject"}

(* What tells the client that the parameter was created tells the truth. *)
CreatedInv ==
  /\ registered /\ ~afterDrop => state = "Ready" /\ (link => param)
  /\ link => \A i \in DOMAIN replies : replies[i] = "created" => param

FilesInv ==
  /\ TokenWhole
  /\ saving = "rename" => tmpFile # "torn"

IInv ==
  /\ TypeOK /\ SetupInv /\ SteadyInv /\ ResolveInv /\ CreatedInv /\ FilesInv
  /\ LatestValueSent /\ AnswerComing

-----------------------------------------------------------------------------
LEMMA InitInv == Init => IInv
<1> SUFFICES ASSUME Init PROVE IInv
  OBVIOUS
<1> USE ClientAssumption DEF Init, FilesInit
<1>1. FilesTypeOK /\ FlagsTypeOK
  BY DEF FilesTypeOK, Files, FlagsTypeOK
<1>2. ControlTypeOK /\ CountTypeOK
  BY DEF ControlTypeOK, States, CountTypeOK
<1>3. MessageTypeOK /\ CreatedInv
  BY EmptySeq DEF MessageTypeOK, CreatedInv
<1>4. /\ SetupInv /\ SteadyInv /\ ResolveInv /\ FilesInv /\ LatestValueSent
      /\ AnswerComing
  BY DEF SetupInv, SteadyInv, ResolveInv, FilesInv, TokenWhole, LatestValueSent,
         Cell!LatestSent, AnswerComing
<1> QED
  BY <1>1, <1>2, <1>3, <1>4 DEF IInv, TypeOK

(* What is pending on the stream: a step of the set-up, or the steady reads *)
(* and writes, or nothing while it is resolved or taken apart.              *)
LEMMA SetupStep ==
  ASSUME IInv, Next
  PROVE  SetupInv'
PROOF
<1> USE ClientAssumption DEF IInv, TypeOK, FlagsTypeOK, ControlTypeOK,
      CountTypeOK, SetupInv, SteadyInv, MayConnect, MayWrite, RegisterFirst,
      Drained, Polling, OwnStream, Drop, Dropped, DropWrite, RetryLater, Fail,
      Send, DirtyAfterWrite, Rearm, Created, Refused, Answer, AfterSave,
      LoadToken, BeginSave, SaveStep, WriteTmp, CloseTmp, RenameTmp, RemoveTmp,
      Truncate, vars, setupVars, fileVars, linkVars, ownVars, streamVars,
      flagVars, regVars, cellVars, netVars, steadyVars
<1>1. CASE Owner
  BY <1>1 DEF Owner, Connect, RequestRegister, Disconnect, SetDetectValue
<1>2. CASE Pump
  BY <1>2 DEF Pump, PumpConnect, PumpRegister, PumpInject, PumpOnly
<1>3. CASE EndPoll
  BY <1>3 DEF EndPoll
<1>4. CASE Recycle
  BY <1>4 DEF Recycle
<1>5. CASE Setup
  BY <1>5 DEF Setup, ResolveDone, SetupFailed, SetupThrows, ConnectDone,
           HandshakeDone, RequestWritten, TokenGranted, SaveToken,
           Authenticated, Rejected
<1>6. CASE Steady
  BY <1>6 DEF Steady, WriteDone, ReadFailed, SteadyMessage
<1>7. CASE VtsAnswers
  BY <1>7 DEF VtsAnswers
<1>8. CASE LinkLost
  BY <1>8 DEF LinkLost
<1>9. CASE BackoffElapses
  BY <1>9 DEF BackoffElapses
<1>10. CASE Relaunch
  BY <1>10 DEF Relaunch
<1> QED
  BY <1>1, <1>2, <1>3, <1>4, <1>5, <1>6, <1>7, <1>8, <1>9, <1>10 DEF Next, Vts

LEMMA SteadyStep ==
  ASSUME IInv, Next
  PROVE  SteadyInv'
PROOF
<1> USE ClientAssumption DEF IInv, TypeOK, FlagsTypeOK, ControlTypeOK,
      SetupInv, SteadyInv, MayConnect, MayWrite, RegisterFirst, Drained,
      Polling, OwnStream, Drop, Dropped, DropWrite, RetryLater, Fail, Send,
      DirtyAfterWrite, Rearm, Created, Refused, Answer, AfterSave, LoadToken,
      BeginSave, SaveStep, WriteTmp, CloseTmp, RenameTmp, RemoveTmp, Truncate,
      vars, setupVars, fileVars, linkVars, ownVars, streamVars, flagVars,
      regVars, cellVars, netVars, steadyVars
<1>1. CASE Owner
  BY <1>1 DEF Owner, Connect, RequestRegister, Disconnect, SetDetectValue
<1>2. CASE Pump
  BY <1>2 DEF Pump, PumpConnect, PumpRegister, PumpInject, PumpOnly
<1>3. CASE EndPoll
  BY <1>3 DEF EndPoll
<1>4. CASE Recycle
  BY <1>4 DEF Recycle
<1>5. CASE Setup
  BY <1>5 DEF Setup, ResolveDone, SetupFailed, SetupThrows, ConnectDone,
           HandshakeDone, RequestWritten, TokenGranted, SaveToken,
           Authenticated, Rejected
<1>6. CASE Steady
  BY <1>6 DEF Steady, WriteDone, ReadFailed, SteadyMessage
<1>7. CASE VtsAnswers
  BY <1>7 DEF VtsAnswers
<1>8. CASE LinkLost
  BY <1>8 DEF LinkLost
<1>9. CASE BackoffElapses
  BY <1>9 DEF BackoffElapses
<1>10. CASE Relaunch
  BY <1>10 DEF Relaunch
<1> QED
  BY <1>1, <1>2, <1>3, <1>4, <1>5, <1>6, <1>7, <1>8, <1>9, <1>10 DEF Next, Vts

LEMMA FilesStep ==
  ASSUME IInv, Next
  PROVE  FilesInv' /\ LatestValueSent'
PROOF
<1> USE ClientAssumption DEF IInv, TypeOK, FilesTypeOK, Files, FilesInv,
      TokenWhole, FlagsTypeOK, ControlTypeOK, LatestValueSent, Cell!LatestSent,
      MayConnect, MayWrite, RegisterFirst, Drained, Polling, OwnStream, Drop,
      Dropped, DropWrite, RetryLater, Fail, Send, DirtyAfterWrite, Rearm,
      Created, Refused, Answer, AfterSave, LoadToken, BeginSave, SaveStep,
      WriteTmp, CloseTmp, RenameTmp, RemoveTmp, Truncate, vars, setupVars,
      fileVars, linkVars, ownVars, streamVars, flagVars, regVars, cellVars,
      netVars, steadyVars
<1>1. CASE Owner
  BY <1>1 DEF Owner, Connect, RequestRegister, Disconnect, SetDetectValue
<1>2. CASE Pump
  BY <1>2 DEF Pump, PumpConnect, PumpRegister, PumpInject, PumpOnly
<1>3. CASE EndPoll
  BY <1>3 DEF EndPoll
<1>4. CASE Recycle
  BY <1>4 DEF Recycle
<1>5. CASE Setup
  BY <1>5 DEF Setup, ResolveDone, SetupFailed, SetupThrows, ConnectDone,
           HandshakeDone, RequestWritten, TokenGranted, SaveToken,
           Authenticated, Rejected
<1>6. CASE Steady
  BY <1>6 DEF Steady, WriteDone, ReadFailed, SteadyMessage
<1>7. CASE VtsAnswers
  BY <1>7 DEF VtsAnswers
<1>8. CASE LinkLost
  BY <1>8 DEF LinkLost
<1>9. CASE BackoffElapses
  BY <1>9 DEF BackoffElapses
<1>10. CASE Relaunch
  BY <1>10 DEF Relaunch
<1> QED
  BY <1>1, <1>2, <1>3, <1>4, <1>5, <1>6, <1>7, <1>8, <1>9, <1>10 DEF Next, Vts

LEMMA ControlStep ==
  ASSUME IInv, Next
  PROVE  FilesTypeOK' /\ ControlTypeOK'
PROOF
<1> USE ClientAssumption DEF IInv, TypeOK, States, FilesTypeOK, Files,
      ControlTypeOK, MayConnect, MayWrite, RegisterFirst, Drained, Polling,
      OwnStream, Drop, Dropped, DropWrite, RetryLater, Fail, Send,
      DirtyAfterWrite, Rearm, Created, Refused, Answer, AfterSave, LoadToken,
      BeginSave, SaveStep, WriteTmp, CloseTmp, RenameTmp, RemoveTmp, Truncate,
      vars, setupVars, fileVars, linkVars, ownVars, streamVars, flagVars,
      regVars, cellVars, netVars, steadyVars
<1>1. CASE Owner
  BY <1>1 DEF Owner, Connect, RequestRegister, Disconnect, SetDetectValue
<1>2. CASE Pump
  BY <1>2 DEF Pump, PumpConnect, PumpRegister, PumpInject, PumpOnly
<1>3. CASE EndPoll
  BY <1>3 DEF EndPoll
<1>4. CASE Recycle
  BY <1>4 DEF Recycle
<1>5. CASE Setup
  BY <1>5 DEF Setup, ResolveDone, SetupFailed, SetupThrows, ConnectDone,
           HandshakeDone, RequestWritten, TokenGranted, SaveToken,
           Authenticated, Rejected
<1>6. CASE Steady
  BY <1>6 DEF Steady, WriteDone, ReadFailed, SteadyMessage
<1>7. CASE VtsAnswers
  BY <1>7 DEF VtsAnswers
<1>8. CASE LinkLost
  BY <1>8 DEF LinkLost
<1>9. CASE BackoffElapses
  BY <1>9 DEF BackoffElapses
<1>10. CASE Relaunch
  BY <1>10 DEF Relaunch
<1> QED
  BY <1>1, <1>2, <1>3, <1>4, <1>5, <1>6, <1>7, <1>8, <1>9, <1>10 DEF Next, Vts

LEMMA VtsFlags ==
  ASSUME FlagsTypeOK, VtsAnswers
  PROVE  FlagsTypeOK'
PROOF
<1>1. param' = TRUE \/ param' = param
  BY DEF VtsAnswers
<1>2. unheard' = unheard \/ unheard' \in BOOLEAN
  BY DEF VtsAnswers, Garble
<1>3. UNCHANGED <<wantConnection, needsRecycle, backoff, triedStoredToken, ws,
                  disconnected, registerRequested, registering, registered,
                  registerFailed, afterDrop, valueDirty, writeInFlight, link>>
  <2>1. /\ UNCHANGED setupVars /\ UNCHANGED linkVars /\ UNCHANGED ownVars
        /\ UNCHANGED streamVars /\ UNCHANGED cellVars
        /\ UNCHANGED registerRequested /\ UNCHANGED registering
        /\ UNCHANGED registered /\ UNCHANGED registerFailed
        /\ UNCHANGED afterDrop /\ UNCHANGED writeInFlight /\ UNCHANGED link
    BY DEF VtsAnswers
  <2>2. UNCHANGED <<wantConnection, needsRecycle, backoff>>
    BY <2>1 DEF linkVars
  <2>3. UNCHANGED <<triedStoredToken, ws, disconnected, valueDirty>>
    BY <2>1 DEF setupVars, streamVars, ownVars, cellVars
  <2> QED
    BY <2>1, <2>2, <2>3
<1>4. param' \in BOOLEAN /\ unheard' \in BOOLEAN
  BY <1>1, <1>2 DEF FlagsTypeOK
<1>5. /\ {wantConnection, needsRecycle, backoff, triedStoredToken, ws,
           disconnected, registerRequested}' \subseteq BOOLEAN
      /\ {registering, registered, registerFailed, afterDrop, valueDirty,
           writeInFlight, link}' \subseteq BOOLEAN
  BY <1>3 DEF FlagsTypeOK
<1> QED
  BY <1>4, <1>5 DEF FlagsTypeOK

LEMMA FlagsStep ==
  ASSUME IInv, Next
  PROVE  FlagsTypeOK'
PROOF
<1> USE ClientAssumption DEF IInv, TypeOK, FlagsTypeOK, MayConnect, MayWrite,
      RegisterFirst, Drained, Polling, OwnStream, Drop, Dropped, DropWrite,
      RetryLater, Fail, Send, DirtyAfterWrite, Rearm, Created, Refused, Answer,
      AfterSave, LoadToken, BeginSave, SaveStep, WriteTmp, CloseTmp, RenameTmp,
      RemoveTmp, Truncate, vars, setupVars, fileVars, linkVars, ownVars,
      streamVars, flagVars, regVars, cellVars, netVars, steadyVars
<1>1. CASE Owner
  BY <1>1 DEF Owner, Connect, RequestRegister, Disconnect, SetDetectValue
<1>2. CASE Pump
  BY <1>2 DEF Pump, PumpConnect, PumpRegister, PumpInject, PumpOnly
<1>3. CASE EndPoll
  BY <1>3 DEF EndPoll
<1>4. CASE Recycle
  BY <1>4 DEF Recycle
<1>5. CASE Setup
  BY <1>5 DEF Setup, ResolveDone, SetupFailed, SetupThrows, ConnectDone,
           HandshakeDone, RequestWritten, TokenGranted, SaveToken,
           Authenticated, Rejected
<1>6. CASE Steady
  BY <1>6 DEF Steady, WriteDone, ReadFailed, SteadyMessage
<1>7. CASE VtsAnswers
  <2> HIDE DEF FlagsTypeOK
  <2> QED
    BY <1>7, VtsFlags
<1>8. CASE LinkLost
  BY <1>8 DEF LinkLost
<1>9. CASE BackoffElapses
  BY <1>9 DEF BackoffElapses
<1>10. CASE Relaunch
  BY <1>10 DEF Relaunch
<1> QED
  BY <1>1, <1>2, <1>3, <1>4, <1>5, <1>6, <1>7, <1>8, <1>9, <1>10 DEF Next, Vts

(* Every resolve was started by a connect(); until disconnect() there is   *)
(* one just while the client waits for it.                                 *)
LEMMA CountStep ==
  ASSUME IInv, Next
  PROVE  ResolveInv' /\ CountTypeOK'
PROOF
<1> USE ClientAssumption DEF IInv, TypeOK, FlagsTypeOK, ControlTypeOK,
      CountTypeOK, ResolveInv, SetupInv, SteadyInv, MayConnect, MayWrite,
      RegisterFirst, Drained, Polling, OwnStream, Drop, Dropped, DropWrite,
      RetryLater, Fail, Send, DirtyAfterWrite, Rearm, Created, Refused, Answer,
      AfterSave, LoadToken, BeginSave, SaveStep, WriteTmp, CloseTmp, RenameTmp,
      RemoveTmp, Truncate, vars, setupVars, fileVars, linkVars, ownVars,
      streamVars, flagVars, regVars, cellVars, netVars, steadyVars
<1>1. CASE Owner
  BY <1>1 DEF Owner, Connect, RequestRegister, Disconnect, SetDetectValue
<1>2. CASE Pump
  BY <1>2 DEF Pump, PumpConnect, PumpRegister, PumpInject, PumpOnly
<1>3. CASE EndPoll
  BY <1>3 DEF EndPoll
<1>4. CASE Recycle
  BY <1>4 DEF Recycle
<1>5. CASE Setup
  BY <1>5 DEF Setup, ResolveDone, SetupFailed, SetupThrows, ConnectDone,
           HandshakeDone, RequestWritten, TokenGranted, SaveToken,
           Authenticated, Rejected
<1>6. CASE Steady
  BY <1>6 DEF Steady, WriteDone, ReadFailed, SteadyMessage
<1>7. CASE VtsAnswers
  BY <1>7 DEF VtsAnswers
<1>8. CASE LinkLost
  BY <1>8 DEF LinkLost
<1>9. CASE BackoffElapses
  BY <1>9 DEF BackoffElapses
<1>10. CASE Relaunch
  BY <1>10 DEF Relaunch
<1> QED
  BY <1>1, <1>2, <1>3, <1>4, <1>5, <1>6, <1>7, <1>8, <1>9, <1>10 DEF Next, Vts

(* Only the answer of a VTS that has the parameter says it was created, and *)
(* VTS forgets it only when its connections go.                             *)
LEMMA MessageStep ==
  ASSUME IInv, Next
  PROVE  CreatedInv' /\ MessageTypeOK'
PROOF
<1> USE ClientAssumption DEF IInv, TypeOK, FlagsTypeOK, ControlTypeOK,
      MessageTypeOK, CreatedInv, SetupInv, SteadyInv, MayConnect, MayWrite,
      RegisterFirst, Drained, Polling, OwnStream, Drop, Dropped, DropWrite,
      RetryLater, Fail, Send, DirtyAfterWrite, Rearm, Created, Refused, Answer,
      AfterSave, LoadToken, BeginSave, SaveStep, WriteTmp, CloseTmp, RenameTmp,
      RemoveTmp, Truncate, vars, setupVars, fileVars, linkVars, ownVars,
      streamVars, flagVars, regVars, cellVars, netVars, steadyVars
<1>1. CASE Owner
  <2>1. CASE Connect
    BY <2>1 DEF Connect
  <2>2. CASE RequestRegister
    BY <2>2 DEF RequestRegister
  <2>3. CASE Disconnect
    BY <2>3, EmptySeq DEF Disconnect
  <2>4. ASSUME NEW v \in Values, SetDetectValue(v)
        PROVE  CreatedInv' /\ MessageTypeOK'
    BY <2>4 DEF SetDetectValue
  <2> QED
    BY <1>1, <2>1, <2>2, <2>3, <2>4 DEF Owner
<1>2. CASE Pump
  <2>1. CASE PumpConnect \/ PumpOnly
    BY <2>1 DEF PumpConnect, PumpOnly
  <2>2. CASE PumpRegister
    BY <2>2 DEF PumpRegister
  <2>3. CASE PumpInject
    BY <2>3 DEF PumpInject
  <2> QED
    BY <1>2, <2>1, <2>2, <2>3 DEF Pump
<1>3. CASE EndPoll
  BY <1>3 DEF EndPoll
<1>4. CASE Recycle
  BY <1>4 DEF Recycle
<1>5. CASE Setup
  BY <1>5 DEF Setup, ResolveDone, SetupFailed, SetupThrows, ConnectDone,
           HandshakeDone, RequestWritten, TokenGranted, SaveToken,
           Authenticated, Rejected
<1>6. CASE Steady
  <2>1. CASE WriteDone \/ ReadFailed
    BY <2>1 DEF WriteDone, ReadFailed
  <2>2. CASE SteadyMessage
    <3>1. /\ replies[1] = Head(replies) /\ 1 \in DOMAIN replies
          /\ replies' \in Seq(Kinds) /\ Len(replies') = Len(replies) - 1
          /\ \A i \in 1 .. Len(replies') : replies'[i] = replies[i + 1]
      BY <2>2, HeadTailProperties DEF SteadyMessage, Kinds
    <3>2. \A i \in DOMAIN replies' : i + 1 \in DOMAIN replies
      BY <3>1
    <3>3. MessageTypeOK'
      BY <3>1, <2>2 DEF SteadyMessage, Kinds
    <3>4. link' = link /\ param' = param /\ state' = state
      BY <2>2 DEF SteadyMessage
    <3>5. registered' /\ ~afterDrop' => state' = "Ready" /\ (link' => param')
      <4>1. CASE Created /\ replies[1] = "created"
        BY <3>1, <3>4, <4>1
      <4>2. CASE UNCHANGED <<registered, afterDrop>>
        BY <3>4, <4>2
      <4> QED
        BY <4>1, <4>2, <3>1, <2>2 DEF SteadyMessage
    <3> QED
      BY <3>1, <3>2, <3>3, <3>4, <3>5
  <2> QED
    BY <1>6, <2>1, <2>2 DEF Steady
<1>7. CASE VtsAnswers
  <2>1. PICK kind \in Kinds :
          /\ replies' = Append(replies, kind) /\ wire' = Tail(wire)
          /\ kind = "created" => param'
          /\ param => param'
    BY <1>7 DEF VtsAnswers, Garble, Kinds, Requests
  <2>2. MessageTypeOK'
    <3>1. wire # <<>> /\ wire \in Seq(Requests) /\ replies \in Seq(Kinds)
      BY <1>7 DEF VtsAnswers, Requests, Kinds
    <3>2. wire' \in Seq(Requests) /\ replies' \in Seq(Kinds)
      BY <2>1, <3>1, AppendProperties, HeadTailProperties
    <3> QED
      BY <3>2 DEF Requests, Kinds
  <2>3. ASSUME link', NEW i \in DOMAIN replies', replies'[i] = "created"
        PROVE  param'
    <3>1. i \in 1 .. Len(replies) + 1
      BY <2>1, <2>3, AppendProperties
    <3>2. CASE i = Len(replies) + 1
      BY <2>1, <2>3, <3>2, AppendProperties
    <3>3. CASE i \in 1 .. Len(replies)
      BY <2>1, <2>3, <3>3, <1>7, AppendProperties DEF VtsAnswers
    <3> QED
      BY <3>1, <3>2, <3>3
  <2>4. UNCHANGED <<registered, afterDrop, state, link>>
    BY <1>7 DEF VtsAnswers
  <2> QED
    BY <2>1, <2>2, <2>3, <2>4
<1>8. CASE LinkLost
  BY <1>8 DEF LinkLost
<1>9. CASE BackoffElapses
  BY <1>9 DEF BackoffElapses
<1>10. CASE Relaunch
  BY <1>10 DEF Relaunch
<1> QED
  BY <1>1, <1>2, <1>3, <1>4, <1>5, <1>6, <1>7, <1>8, <1>9, <1>10 DEF Next, Vts

(* The request is on its way, or its answer is; the two queues are read     *)
(* from the front, and what ends the wait is at the front when it ends.     *)
LEMMA AnswerStep ==
  ASSUME IInv, Next
  PROVE  AnswerComing'
PROOF
<1> DEFINE Asked     == \E i \in DOMAIN wire : wire[i] = "create"
           Answered  == \E i \in DOMAIN replies : replies[i] \in {"created", "error"}
           Waiting   == state = "Ready" /\ (unheard \/ ~link \/ Asked \/ Answered)
<1>1. registering => Waiting
  BY DEF IInv, AnswerComing
<1>2. /\ wire \in Seq(Requests) /\ replies \in Seq(Kinds)
      /\ registering \in BOOLEAN
  BY DEF IInv, TypeOK, MessageTypeOK, FlagsTypeOK, Requests, Kinds
<1>3. ASSUME registering' => registering /\ UNCHANGED <<state, unheard>>,
             UNCHANGED <<wire, replies>>, link' => link
      PROVE  AnswerComing'
  BY <1>1, <1>3 DEF AnswerComing
<1>4. CASE Owner
  BY <1>3, <1>4 DEF Owner, Connect, RequestRegister, Disconnect, SetDetectValue,
       AnswerComing, setupVars, linkVars, ownVars, streamVars, flagVars, regVars,
       cellVars, netVars, steadyVars
<1>5. CASE Pump
  <2>1. CASE PumpConnect \/ PumpOnly
    BY <1>1, <1>3, <2>1 DEF PumpConnect, PumpOnly, MayConnect, linkVars,
         flagVars, regVars, netVars, steadyVars
  <2>2. CASE PumpRegister
    <3>1. /\ state' = "Ready" /\ UNCHANGED <<link, replies>>
          /\ link => wire' = Append(wire, "create")
      BY <2>2 DEF PumpRegister, MayWrite, Send, linkVars
    <3>2. CASE link
      <4>1. wire'[Len(wire) + 1] = "create" /\ Len(wire) + 1 \in DOMAIN wire'
        BY <1>2, <3>1, <3>2, AppendProperties DEF Requests
      <4> QED
        BY <3>1, <4>1 DEF AnswerComing
    <3> QED
      BY <3>1, <3>2 DEF AnswerComing
  <2>3. CASE PumpInject
    <3>1. /\ UNCHANGED <<registering, unheard, state, link, replies>>
          /\ wire' = wire \/ wire' = Append(wire, "inject")
      BY <2>3 DEF PumpInject, Send, linkVars, flagVars, regVars
    <3>2. Asked => \E i \in DOMAIN wire' : wire'[i] = "create"
      BY <1>2, <3>1, AppendProperties DEF Requests
    <3> QED
      BY <1>1, <3>1, <3>2 DEF AnswerComing
  <2> QED
    BY <1>5, <2>1, <2>2, <2>3 DEF Pump
<1>6. CASE EndPoll \/ BackoffElapses
  BY <1>3, <1>6 DEF EndPoll, BackoffElapses, linkVars, flagVars, regVars,
       netVars, steadyVars
<1>7. CASE Recycle \/ LinkLost
  <2>1. ~link' /\ UNCHANGED <<registering, state>>
    BY <1>7 DEF Recycle, LinkLost, linkVars, flagVars, regVars, steadyVars
  <2> QED
    BY <1>1, <2>1 DEF AnswerComing
<1>8. CASE Relaunch
  BY <1>8 DEF Relaunch, AnswerComing
<1>9. CASE Setup
  <2> USE DEF Drop, Dropped, RetryLater, linkVars, flagVars, regVars, netVars,
              steadyVars
  <2>1. CASE ResolveDone \/ SetupFailed \/ SetupThrows
    BY <1>1, <1>3, <2>1 DEF ResolveDone, OwnStream, SetupFailed, SetupThrows
  <2>2. CASE ConnectDone \/ HandshakeDone
    <3>1. ~registering /\ UNCHANGED registering
      BY <1>1, <2>2 DEF ConnectDone, HandshakeDone, IInv, SetupInv
    <3> QED
      BY <3>1 DEF AnswerComing
  <2>3. CASE RequestWritten \/ TokenGranted \/ SaveToken
    BY <1>3, <2>3 DEF RequestWritten, TokenGranted, SaveToken
  <2>4. CASE Authenticated \/ Rejected
    BY <1>1, <1>3, <2>4 DEF Authenticated, Rejected, IInv, SetupInv
  <2> QED
    BY <1>9, <2>1, <2>2, <2>3, <2>4 DEF Setup
<1>10. CASE WriteDone \/ ReadFailed
  BY <1>3, <1>10 DEF WriteDone, ReadFailed, Fail, Drop, Dropped, linkVars,
       flagVars, netVars
<1>11. CASE SteadyMessage
  <2>1. /\ replies # <<>> /\ replies' = Tail(replies)
        /\ UNCHANGED <<state, link, wire>>
    BY <1>11 DEF SteadyMessage, linkVars
  <2>2. ASSUME registering'
        PROVE  /\ registering /\ Head(replies) \notin {"created", "error"}
               /\ UNCHANGED unheard
    BY <1>11, <2>2 DEF SteadyMessage, Created, Refused, flagVars
  <2>3. /\ replies[1] = Head(replies) /\ Len(replies') = Len(replies) - 1
        /\ \A i \in 1 .. Len(replies') : replies'[i] = replies[i + 1]
        /\ replies' \in Seq(Kinds)
    BY <1>2, <2>1, HeadTailProperties
  <2>4. ASSUME registering', Answered
        PROVE  \E i \in DOMAIN replies' : replies'[i] \in {"created", "error"}
    <3>1. PICK i \in 1 .. Len(replies) : replies[i] \in {"created", "error"}
      BY <1>2, <2>4
    <3>2. i # 1 /\ i - 1 \in 1 .. Len(replies')
      BY <1>2, <2>2, <2>3, <2>4, <3>1
    <3>3. replies'[i - 1] = replies[i]
      BY <2>3, <3>2
    <3> QED
      BY <2>3, <3>1, <3>2, <3>3
  <2> QED
    BY <1>1, <2>1, <2>2, <2>4 DEF AnswerComing
<1>12. CASE VtsAnswers
  <2>1. PICK kind \in Kinds :
          /\ replies' = Append(replies, kind) /\ wire' = Tail(wire)
          /\ Head(wire) = "create" /\ registering =>
               unheard' \/ kind \in {"created", "error"}
          /\ unheard => unheard'
    <3>1. CASE Garble
      <4>1. /\ replies' = Append(replies, "garbled") /\ wire' = Tail(wire)
            /\ Head(wire) = "create" /\ registering => unheard'
            /\ unheard => unheard'
        BY <3>1 DEF Garble, Answer
      <4> QED
        BY <4>1 DEF Kinds
    <3>2. CASE UNCHANGED unheard /\ Head(wire) = "create"
               /\ (Answer("created") \/ Answer("error"))
      BY <3>2 DEF Answer, Kinds
    <3>3. CASE UNCHANGED unheard /\ Head(wire) = "inject"
               /\ (Answer("acked") \/ Answer("error"))
      BY <3>3 DEF Answer, Kinds
    <3> QED
      BY <1>12, <3>1, <3>2, <3>3 DEF VtsAnswers
  <2>2. wire # <<>> /\ UNCHANGED <<registering, state, link>>
    BY <1>12 DEF VtsAnswers, linkVars, flagVars, regVars, steadyVars
  <2>3. /\ wire[1] = Head(wire) /\ Len(wire') = Len(wire) - 1
        /\ \A i \in 1 .. Len(wire') : wire'[i] = wire[i + 1]
        /\ wire' \in Seq(Requests)
    BY <1>2, <2>1, <2>2, HeadTailProperties
  <2>4. /\ Len(replies') = Len(replies) + 1 /\ replies' \in Seq(Kinds)
        /\ replies'[Len(replies) + 1] = kind
        /\ \A i \in 1 .. Len(replies) : replies'[i] = replies[i]
    BY <1>2, <2>1, AppendProperties
  <2>5. Answered => \E i \in DOMAIN replies' : replies'[i] \in {"created", "error"}
    BY <1>2, <2>4
  <2>6. ASSUME Asked, registering, ~unheard'
        PROVE  \/ \E i \in DOMAIN wire' : wire'[i] = "create"
               \/ \E i \in DOMAIN replies' : replies'[i] \in {"created", "error"}
    <3>1. PICK i \in 1 .. Len(wire) : wire[i] = "create"
      BY <1>2, <2>6
    <3>2. CASE i = 1
      <4>1. Len(replies) + 1 \in DOMAIN replies' /\ kind \in {"created", "error"}
        BY <1>2, <2>1, <2>3, <2>4, <2>6, <3>1, <3>2
      <4> QED
        BY <2>4, <4>1
    <3>3. CASE i # 1
      <4>1. i - 1 \in DOMAIN wire' /\ wire'[i - 1] = wire[i]
        BY <1>2, <2>3, <3>1, <3>3
      <4> QED
        BY <3>1, <4>1
    <3> QED
      BY <3>2, <3>3
  <2> QED
    BY <1>1, <2>1, <2>2, <2>5, <2>6 DEF AnswerComing
<1> QED
  BY <1>4, <1>5, <1>6, <1>7, <1>8, <1>9, <1>10, <1>11, <1>12
  DEF Next, Steady, Vts

LEMMA Stutter ==
  ASSUME IInv, UNCHANGED vars
  PROVE  IInv'
<1> USE DEF IInv, TypeOK, vars, setupVars, fileVars, linkVars, ownVars,
            streamVars, flagVars, regVars, cellVars, netVars, steadyVars
<1>1. TypeOK'
  BY DEF FilesTypeOK, FlagsTypeOK, ControlTypeOK, CountTypeOK, MessageTypeOK
<1>2. SetupInv' /\ SteadyInv' /\ ResolveInv' /\ CreatedInv'
  BY DEF SetupInv, SteadyInv, ResolveInv, CreatedInv
<1>3. FilesInv' /\ LatestValueSent' /\ AnswerComing'
  BY DEF FilesInv, TokenWhole, LatestValueSent, Cell!LatestSent, AnswerComing
<1> QED
  BY <1>1, <1>2, <1>3

(* The inductive invariant, over connections, drops, exceptions and kills.  *)
THEOREM InductiveInvariant == Spec => []IInv
<1>1. ASSUME IInv, [Next]_vars PROVE IInv'
  BY <1>1, SetupStep, SteadyStep, FilesStep, ControlStep, FlagsStep, CountStep,
     MessageStep, AnswerStep, Stutter DEF IInv, TypeOK
<1> QED
  BY InitInv, <1>1, PTL DEF Spec

-----------------------------------------------------------------------------
(* The variables keep their types, the counters their bounds.               *)
THEOREM TypeCorrect == Spec => []TypeOK
<1>1. IInv => TypeOK
  BY DEF IInv
<1> QED
  BY InductiveInvariant, <1>1, PTL

(* One read and one write at a time on a stream that exists, nothing beside *)
(* a step of the set-up, and no handler for another's stream.               *)
THEOREM StreamKept == Spec => []StreamDiscipline
<1>1. IInv => StreamDiscipline
  BY DEF IInv, SetupInv, SteadyInv, ResolveInv, StreamDiscipline
<1> QED
  BY InductiveInvariant, <1>1, PTL

(* In Ready a steady read is armed, whatever was read before.               *)
THEOREM ReadArmed == Spec => []SteadyReadArmed
<1>1. IInv => SteadyReadArmed
  BY DEF IInv, SetupInv, SteadyReadArmed
<1> QED
  BY InductiveInvariant, <1>1, PTL

(* The flag of the write in flight is not left over by any drop or retry.   *)
THEOREM FlagIsWrite == Spec => []WriteFlagHasWrite
<1>1. IInv => WriteFlagHasWrite
  BY DEF IInv, TypeOK, FlagsTypeOK, SetupInv, SteadyInv, WriteFlagHasWrite
<1> QED
  BY InductiveInvariant, <1>1, PTL

(* The client never waits for a step of the set-up that is not pending, nor *)
(* is it, without a link, kept from connecting by a stream not recycled.    *)
THEOREM NeverStalls == Spec => []WaitsForSomething
<1>1. IInv => WaitsForSomething
  BY DEF IInv, SetupInv, ResolveInv, WaitsForSomething
<1> QED
  BY InductiveInvariant, <1>1, PTL

(* While the client waits for the answer to a register request, on a link   *)
(* that is up, the request is before VTS or an answer before the client,    *)
(* unless VTS has garbled that very answer; for any number on the wire.     *)
THEOREM NoWaitForNothing == Spec => []AnswerComing
<1>1. IInv => AnswerComing
  BY DEF IInv
<1> QED
  BY InductiveInvariant, <1>1, PTL

(* isRegistered() is true of VTS while the link is up.                      *)
THEOREM Truthful == Spec => []RegistrationTruthful
<1>1. IInv => RegistrationTruthful
  BY DEF IInv, CreatedInv, RegistrationTruthful
<1> QED
  BY InductiveInvariant, <1>1, PTL

(* The token file is never half-written, whichever step a kill falls on.    *)
THEOREM TokenKept == Spec => []TokenWhole
<1>1. IInv => TokenWhole
  BY DEF IInv, FilesInv
<1> QED
  BY InductiveInvariant, <1>1, PTL

-----------------------------------------------------------------------------
(* Each step is one of the value cell's, or does not concern it.            *)
LEMMA CellStep ==
  ASSUME TypeOK, [Next]_vars
  PROVE  [Cell!Next]_(Cell!cellVars)
PROOF
<1> USE DEF TypeOK, FlagsTypeOK, ControlTypeOK, Cell!Next, Cell!cellVars,
            Drop, Dropped, DropWrite, RetryLater, Fail, vars, setupVars,
            fileVars, linkVars, ownVars, streamVars, flagVars, regVars,
            cellVars, netVars, steadyVars
<1>1. CASE Owner
  <2>1. ASSUME NEW v \in Values, SetDetectValue(v)
        PROVE  Cell!Put(v)
    BY <2>1 DEF SetDetectValue, Cell!Put
  <2>2. CASE Disconnect
    BY <2>2 DEF Disconnect, Cell!LinkDown
  <2>3. CASE Connect \/ RequestRegister
    BY <2>3 DEF Connect, RequestRegister
  <2> QED
    BY <1>1, <2>1, <2>2, <2>3 DEF Owner
<1>2. CASE Pump
  <2>1. CASE PumpInject
    BY <2>1 DEF PumpInject, MayWrite, Send, Cell!Send
  <2>2. CASE PumpRegister
    BY <2>2 DEF PumpRegister, MayWrite, Send, Cell!SendOther
  <2>3. CASE PumpConnect \/ PumpOnly
    BY <2>3 DEF PumpConnect, PumpOnly, MayConnect
  <2> QED
    BY <1>2, <2>1, <2>2, <2>3 DEF Pump
<1>3. CASE Setup
  <2>1. CASE ResolveDone
    BY <2>1 DEF ResolveDone, OwnStream, Cell!LinkDown
  <2>2. CASE SetupFailed \/ Rejected
    BY <2>2 DEF SetupFailed, Rejected, Cell!LinkDown
  <2>3. CASE ConnectDone \/ HandshakeDone
    BY <2>3 DEF ConnectDone, HandshakeDone, Cell!LinkDown
  <2>4. CASE SetupThrows \/ RequestWritten \/ TokenGranted \/ SaveToken
    BY <2>4 DEF SetupThrows, RequestWritten, TokenGranted, SaveToken
  <2>5. CASE Authenticated
    BY <2>5 DEF Authenticated, Cell!LinkUp
  <2> QED
    BY <1>3, <2>1, <2>2, <2>3, <2>4, <2>5 DEF Setup
<1>4. CASE Steady
  <2>1. CASE WriteDone
    BY <2>1 DEF WriteDone, DirtyAfterWrite, Cell!Done, Cell!LinkDown
  <2>2. CASE ReadFailed
    BY <2>2 DEF ReadFailed, Cell!LinkDown
  <2>3. CASE SteadyMessage
    BY <2>3 DEF SteadyMessage
  <2> QED
    BY <1>4, <2>1, <2>2, <2>3 DEF Steady
<1>5. CASE Relaunch
  BY <1>5 DEF Relaunch, Cell!Reset
<1>6. CASE EndPoll \/ Recycle
  BY <1>6 DEF EndPoll, Recycle
<1>7. CASE Vts
  BY <1>7 DEF Vts, VtsAnswers, LinkLost, BackoffElapses
<1>8. CASE UNCHANGED vars
  BY <1>8
<1> QED
  BY <1>1, <1>2, <1>3, <1>4, <1>5, <1>6, <1>7, <1>8 DEF Next

(* The client implements the value cell: over drops, retries, reconnections *)
(* and restarts of either side, a value is marked clean only by being       *)
(* handed to a write, in Ready, with no other write under way.              *)
THEOREM CellImplemented == Spec => ImplementsCell
<1>1. Init => Cell!Init
  BY DEF Init, Cell!Init
<1>2. TypeOK /\ [Next]_vars => [Cell!Next]_(Cell!cellVars)
  BY CellStep
<1> QED
  BY <1>1, <1>2, TypeCorrect, PTL DEF Spec, ImplementsCell, Cell!Spec
=============================================================================
