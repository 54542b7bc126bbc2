----------------------- MODULE CanCommunication_proofs -----------------------
(***************************************************************************)
(* Theorems about CanCommunication for any number of commands, foreign     *)
(* frames and start() calls.                                               *)
(*                                                                         *)
(* CommunicationInv is inductive.  Its parts do not need each other beyond *)
(* the types: the owner's steps matter to OwnershipInv, the queue's and    *)
(* the thread's to QueueInv and OrderInv.  The last part is about the      *)
(* distances of a stop and of a command from their ends.                   *)
(***************************************************************************)
EXTENDS CanCommunication, TLAPS

LEMMA FramesAreTyped ==
    /\ \A n \in 0 .. MaxCommands : CommandFrame(n) \in Frames /\ StateFrame(n) \in Frames
    /\ \A n \in 0 .. MaxCommands : IsCommand(CommandFrame(n)) /\ ~IsCommand(StateFrame(n))
    /\ \A f \in ForeignFrames : f \in Frames /\ ~IsCommand(f)
<1>1. 0 \in 0 .. MaxCommands
    BY BoundsAssumption, SMT
<1> QED BY <1>1, SMT DEF CommandFrame, StateFrame, ForeignFrames, Frames, IsCommand

LEMMA InitCommunicationInv == Init => CommunicationInv
<1> SUFFICES ASSUME Init PROVE CommunicationInv
    OBVIOUS
<1> USE DEF Init
<1>1. /\ 0 \in 0 .. MaxCommands /\ 0 \in 0 .. MaxForeign /\ 0 \in 0 .. MaxStarts
      /\ <<>> \in Seq(Frames) /\ Len(<<>>) = 0
    BY BoundsAssumption, SMT
<1>2. TypeOK
    BY <1>1, FramesAreTyped DEF TypeOK
<1>3. OwnershipInv
    BY DEF OwnershipInv, ThreadIsOwned
<1>4. QueueInv /\ OrderInv
    BY <1>1, SMT DEF QueueInv, QueueIsBounded, OrderInv, CommandsKeepOrder, Pending, Queued, InHand
<1> QED BY <1>2, <1>3, <1>4 DEF CommunicationInv

-----------------------------------------------------------------------------
(* The queue is the only data structure: each step appends, drops the head *)
(* or leaves it.                                                           *)

LEMMA PendingBounds ==
    ASSUME TypeOK, CommandsKeepOrder
    PROVE  /\ sent \in Nat /\ command \in Nat /\ target \in Nat
           /\ frame.data \in Nat
           /\ InHand => command < frame.data /\ frame.data <= sent
           /\ \A i \in Queued :
                /\ i \in 1 .. Len(frames) /\ frames[i].data \in Nat
                /\ command < frames[i].data /\ frames[i].data <= sent
<1>1. /\ \A g \in Frames : g.data \in Nat
      /\ sent \in Nat /\ command \in Nat /\ target \in Nat /\ frame \in Frames
    BY BoundsAssumption, SMT DEF Frames, TypeOK
<1>0. \A i \in 1 .. Len(frames) : frames[i] \in Frames
    BY DEF TypeOK
<1>2. \A n \in Pending : command < n /\ n <= sent
    BY <1>1, SMT DEF CommandsKeepOrder
<1>3. (InHand => frame.data \in Pending) /\ \A i \in Queued : frames[i].data \in Pending
    BY DEF Pending
<1> QED BY <1>0, <1>1, <1>2, <1>3 DEF Queued

(* A command is appended with the next number, anything else with no effect. *)
LEMMA AppendKeepsOrder ==
    ASSUME CommunicationInv, NEW f \in Frames, NEW m \in Nat,
           frames' = Append(frames, f), sent' = m,
           UNCHANGED <<frame, command, target>>,
           InHand' <=> InHand,
           cpc' = "publish" => cpc = "publish",
           IsCommand(f) => f.data = m /\ m = sent + 1,
           ~IsCommand(f) => m = sent
    PROVE  OrderInv'
<1> USE DEF CommunicationInv
<1>0. CommandsKeepOrder /\ TypeOK
    BY DEF OrderInv
<1>1. /\ Len(frames) \in Nat /\ Len(frames') = Len(frames) + 1
      /\ \A i \in 1 .. Len(frames) : frames'[i] = frames[i] /\ frames[i] \in Frames
      /\ frames'[Len(frames) + 1] = f
    BY DEF TypeOK
<1>2. /\ sent \in Nat /\ command \in Nat /\ target \in Nat /\ frame.data \in Nat
      /\ \A i \in Queued :
           i \in 1 .. Len(frames) /\ frames'[i] = frames[i] /\ frames[i].data \in Nat
           /\ frames[i].data <= sent
      /\ InHand => frame.data <= sent
    BY <1>0, <1>1, PendingBounds
<1>3. /\ Queued' = IF IsCommand(f) THEN Queued \cup {Len(frames) + 1} ELSE Queued
      /\ Len(frames) + 1 \notin Queued
  <2>1. \A i : i \in 1 .. Len(frames) + 1 <=> i \in 1 .. Len(frames) \/ i = Len(frames) + 1
      BY <1>1, SMT
  <2>2. Len(frames) + 1 \notin 1 .. Len(frames)
      BY <1>1, SMT
  <2> QED BY <1>1, <2>1, <2>2 DEF Queued
<1>4. Pending' = IF IsCommand(f) THEN Pending \cup {sent + 1} ELSE Pending
    BY <1>1, <1>2, <1>3 DEF Pending
<1>5. Pending' = command' + 1 .. sent'
  <2>1. CASE IsCommand(f)
    <3>1. Pending' = (command + 1 .. sent) \cup {sent + 1} /\ command' = command /\ sent' = sent + 1
        BY <1>0, <1>4, <2>1 DEF CommandsKeepOrder
    <3>2. command <= sent
        BY DEF OrderInv
    <3> QED BY <1>2, <3>1, <3>2, SMT
  <2>2. CASE ~IsCommand(f)
      BY <1>0, <1>4, <2>2 DEF CommandsKeepOrder
  <2> QED BY <2>1, <2>2
<1>6. ASSUME NEW i \in Queued'
      PROVE  /\ InHand => frame.data < frames'[i].data
             /\ \A j \in Queued' : i < j => frames'[i].data < frames'[j].data
  <2>1. CASE i \in Queued
    <3>1. InHand => frame.data < frames'[i].data
        BY <1>0, <1>2, <2>1 DEF CommandsKeepOrder
    <3>2. ASSUME NEW j \in Queued', i < j PROVE frames'[i].data < frames'[j].data
      <4>1. CASE j \in Queued
          BY <1>0, <1>2, <2>1, <3>2, <4>1 DEF CommandsKeepOrder
      <4>2. CASE j = Len(frames) + 1 /\ IsCommand(f)
          BY <1>1, <1>2, <2>1, <4>2, SMT
      <4> QED BY <1>3, <4>1, <4>2
    <3> QED BY <3>1, <3>2
  <2>2. CASE i = Len(frames) + 1 /\ IsCommand(f)
    <3>1. frames'[i].data = sent + 1
        BY <1>1, <2>2
    <3>2. \A j \in Queued' : ~(i < j)
        BY <1>1, <1>2, <1>3, <2>2, SMT
    <3> QED BY <1>2, <3>1, <3>2, SMT
  <2> QED BY <1>3, <2>1, <2>2
<1>7. CommandsKeepOrder'
    BY <1>5, <1>6 DEF CommandsKeepOrder
<1>8. target <= command /\ command <= m
    BY <1>2, SMT DEF OrderInv
<1>9. cpc' = "publish" => IsCommand(frame)
    BY DEF OrderInv
<1> QED BY <1>7, <1>8, <1>9 DEF OrderInv

LEMMA UnchangedKeepsOrder ==
    ASSUME CommunicationInv, UNCHANGED <<frames, sent, frame, command, target>>,
           InHand' <=> InHand,
           cpc' = "publish" => IsCommand(frame)
    PROVE  OrderInv'
<1>1. Queued' = Queued
    BY DEF Queued
<1>2. Pending' = Pending
    BY <1>1 DEF Pending
<1> QED BY <1>1, <1>2 DEF CommunicationInv, OrderInv, CommandsKeepOrder

-----------------------------------------------------------------------------
(* One lemma per group of steps. *)

LEMMA SendKeepsInv == CommunicationInv /\ (SendCommand \/ SendForeign) => CommunicationInv'
<1> SUFFICES ASSUME CommunicationInv, SendCommand \/ SendForeign PROVE CommunicationInv'
    OBVIOUS
<1> USE DEF CommunicationInv
<1>1. /\ sent \in Nat /\ foreign \in Nat /\ Len(frames) \in Nat
      /\ sent + 1 \in Nat /\ sent <= sent /\ sent < sent + 1 /\ sent <= sent + 1
    BY BoundsAssumption, SMT DEF TypeOK
<1>2. /\ UNCHANGED <<ownerVars, workerVars, cpc, frame, command>>
      /\ \E f \in Frames :
           /\ frames' = Append(frames, f)
           /\ \/ sent < MaxCommands /\ sent' = sent + 1 /\ foreign' = foreign /\ f = CommandFrame(sent + 1)
              \/ foreign < MaxForeign /\ foreign' = foreign + 1 /\ sent' = sent /\ ~IsCommand(f)
  <2>1. sent < MaxCommands => sent + 1 \in 0 .. MaxCommands
      BY <1>1, BoundsAssumption, SMT
  <2> QED BY <2>1, FramesAreTyped DEF SendCommand, SendForeign
<1>3. PICK f \in Frames :
           /\ frames' = Append(frames, f)
           /\ \/ sent < MaxCommands /\ sent' = sent + 1 /\ foreign' = foreign /\ f = CommandFrame(sent + 1)
              \/ foreign < MaxForeign /\ foreign' = foreign + 1 /\ sent' = sent /\ ~IsCommand(f)
    BY <1>2
<1>4. frames' \in Seq(Frames) /\ Len(frames') = Len(frames) + 1
    BY <1>3 DEF TypeOK
<1>5. TypeOK'
  <2>1. sent' \in 0 .. MaxCommands /\ foreign' \in 0 .. MaxForeign
      BY <1>1, <1>3, BoundsAssumption, SMT DEF TypeOK
  <2> QED BY <1>2, <1>4, <2>1 DEF TypeOK, ownerVars, workerVars
<1>6. OwnershipInv'
    BY <1>2 DEF OwnershipInv, ThreadIsOwned, ownerVars
<1>7. QueueInv'
  <2>1. sent' + foreign' = sent + foreign + 1
      BY <1>1, <1>3, SMT
  <2> QED BY <1>1, <1>2, <1>4, <2>1, SMT DEF QueueInv, QueueIsBounded
<1>8. OrderInv'
  <2>1. sent' \in Nat /\ (InHand' <=> InHand)
      BY <1>1, <1>2, <1>3 DEF InHand
  <2>2. /\ IsCommand(f) => f.data = sent' /\ sent' = sent + 1
        /\ ~IsCommand(f) => sent' = sent
    <3>1. \A n : IsCommand(CommandFrame(n)) /\ CommandFrame(n).data = n
        BY DEF IsCommand, CommandFrame
    <3> QED BY <1>3, <3>1
  <2> QED BY <1>2, <1>3, <2>1, <2>2, AppendKeepsOrder DEF workerVars, InHand
<1> QED BY <1>5, <1>6, <1>7, <1>8

LEMMA OwnerKeepsInv ==
    ASSUME CommunicationInv,
           Start \/ ConstructThread \/ ConstructThrows \/ StopCall \/ Destroy
    PROVE  CommunicationInv'
<1> USE DEF CommunicationInv, StopCall, Destroy, Stop, Join
<1>1. UNCHANGED <<frames, frame, command, workerVars, busVars>>
    BY DEF Start, ConstructThread, ConstructThrows
<1>2. cpc' = cpc \/ (cpc' \in {"check", "none"} /\ owner \in {"construct", "join", "destroy"})
    BY DEF Start, ConstructThread, ConstructThrows
<1>3. TypeOK'
  <2>1. starts' \in 0 .. MaxStarts
      BY BoundsAssumption, SMT DEF Start, ConstructThread, ConstructThrows, TypeOK
  <2>2. /\ running' \in BOOLEAN /\ joinable' \in BOOLEAN
        /\ owner' \in {"out", "construct", "join", "destroy", "gone"}
      BY Zenon DEF Start, ConstructThread, ConstructThrows, TypeOK
  <2>3. cpc' \in {"none", "check", "receive", "decode", "publish", "transmit", "exited"}
      BY <1>2 DEF TypeOK
  <2> QED BY <1>1, <2>1, <2>2, <2>3 DEF TypeOK, workerVars, busVars
<1>4. OwnershipInv'
  <2> USE DEF OwnershipInv, ThreadIsOwned
  <2>1. CASE Start
      BY <2>1 DEF Start, TypeOK
  <2>2. CASE ConstructThread
      BY <2>2 DEF ConstructThread, TypeOK
  <2>3. CASE ConstructThrows
      BY <2>3 DEF ConstructThrows, TypeOK
  <2>4. CASE StopCall
      BY <2>4 DEF TypeOK
  <2>5. CASE Destroy
      BY <2>5 DEF TypeOK
  <2> QED BY <2>1, <2>2, <2>3, <2>4, <2>5
<1>5. QueueInv'
    BY <1>1, <1>2 DEF QueueInv, QueueIsBounded, busVars
<1>6. OrderInv'
  <2>1. InHand' <=> InHand
    <3>1. CASE ConstructThread
        BY <3>1 DEF ConstructThread, OwnershipInv, ThreadIsOwned, TypeOK, InHand
    <3>2. CASE Start \/ ConstructThrows
        BY <3>2 DEF Start, ConstructThrows, InHand
    <3>3. CASE StopCall \/ Destroy
        BY <3>3 DEF InHand
    <3> QED BY <3>1, <3>2, <3>3
  <2> QED BY <1>1, <1>2, <2>1, UnchangedKeepsOrder DEF OrderInv, workerVars, busVars
<1> QED BY <1>3, <1>4, <1>5, <1>6

LEMMA ReceiveKeepsInv == CommunicationInv /\ Receive => CommunicationInv'
<1> SUFFICES ASSUME CommunicationInv, Receive PROVE CommunicationInv'
    OBVIOUS
<1> USE DEF CommunicationInv, Receive
<1>1. UNCHANGED <<running, joinable, owner, starts, command, workerVars, busVars>>
    BY DEF ownerVars
<1>2. /\ frames # <<>> /\ frames \in Seq(Frames) /\ Len(frames) \in Nat \ {0}
      /\ frame' = frames[1] /\ frame' \in Frames
      /\ frames' \in Seq(Frames) /\ Len(frames') = Len(frames) - 1
      /\ \A i \in 1 .. Len(frames') : i + 1 \in 1 .. Len(frames) /\ frames'[i] = frames[i + 1]
      /\ 1 \in 1 .. Len(frames)
    BY DEF TypeOK
<1>3. TypeOK'
    BY <1>1, <1>2 DEF TypeOK, workerVars, busVars
<1>4. OwnershipInv'
    BY <1>1 DEF OwnershipInv, ThreadIsOwned
<1>5. QueueInv'
  <2>1. sent \in Nat /\ foreign \in Nat
      BY SMT DEF TypeOK
  <2> QED BY <1>1, <1>2, <2>1, SMT DEF QueueInv, QueueIsBounded, busVars
<1>6. \A i \in Queued' : i \in Nat \ {0} /\ i + 1 \in Queued /\ frames'[i] = frames[i + 1]
    BY <1>2, SMT DEF Queued
<1>7. \A i \in Queued : i = 1 \/ (i - 1 \in Queued' /\ frames'[i - 1] = frames[i])
  <2>1. \A i \in 1 .. Len(frames) : i = 1 \/ (i - 1 \in 1 .. Len(frames') /\ (i - 1) + 1 = i)
      BY <1>2, SMT
  <2> QED BY <1>2, <2>1 DEF Queued
<1>8. /\ IsCommand(frame') <=> 1 \in Queued
      /\ InHand' <=> 1 \in Queued
      /\ ~InHand
    BY <1>2 DEF Queued, InHand
<1>9. OrderInv'
  <2>0. cpc' = "decode" /\ sent' = sent /\ command' = command /\ target' = target
      BY <1>1 DEF workerVars, busVars
  <2>1. Pending' = Pending
    <3>1. ASSUME NEW n \in Pending PROVE n \in Pending'
      <4>1. PICK i \in Queued : n = frames[i].data
          BY <1>8, <3>1 DEF Pending
      <4>2. CASE i = 1
          BY <1>2, <1>8, <4>1, <4>2 DEF Pending
      <4>3. CASE i - 1 \in Queued' /\ frames'[i - 1] = frames[i]
          BY <4>1, <4>3 DEF Pending
      <4> QED BY <1>7, <4>2, <4>3
    <3>2. ASSUME NEW n \in Pending' PROVE n \in Pending
      <4>1. CASE n = frame'.data /\ InHand'
          BY <1>2, <1>8, <4>1 DEF Pending
      <4>2. CASE \E i \in Queued' : n = frames'[i].data
          BY <1>6, <4>2 DEF Pending
      <4> QED BY <3>2, <4>1, <4>2 DEF Pending
    <3> QED BY <3>1, <3>2
  <2>2. ASSUME NEW i \in Queued'
        PROVE  /\ InHand' => frame'.data < frames'[i].data
               /\ \A j \in Queued' : i < j => frames'[i].data < frames'[j].data
    <3>1. InHand' => frame'.data < frames'[i].data
      <4>1. 1 < i + 1
          BY <1>6, SMT
      <4> QED BY <1>2, <1>6, <1>8, <4>1 DEF OrderInv, CommandsKeepOrder
    <3>2. ASSUME NEW j \in Queued', i < j PROVE frames'[i].data < frames'[j].data
      <4>1. i + 1 < j + 1
          BY <1>6, <3>2, SMT
      <4> QED BY <1>6, <4>1 DEF OrderInv, CommandsKeepOrder
    <3> QED BY <3>1, <3>2
  <2> QED BY <2>0, <2>1, <2>2 DEF OrderInv, CommandsKeepOrder
<1> QED BY <1>3, <1>4, <1>5, <1>9

LEMMA ThreadKeepsInv ==
    ASSUME CommunicationInv, CheckRunning \/ ReceiveNothing \/ Decode \/ PublishCommand
    PROVE  CommunicationInv'
<1> USE DEF CommunicationInv, CheckRunning, ReceiveNothing, Decode, PublishCommand
<1>1. UNCHANGED <<frames, running, joinable, owner, starts, frame, workerVars, busVars>>
    BY DEF ownerVars
<1>2. /\ cpc # "none" /\ cpc' # "none"
      /\ cpc' = "exited" => ~running
      /\ cpc' = "publish" => IsCommand(frame)
      /\ cpc' \in {"receive", "exited", "transmit", "publish"}
    OBVIOUS
<1>3. TypeOK'
  <2>1. command' \in 0 .. MaxCommands
      BY DEF TypeOK, Frames
  <2> QED BY <1>1, <1>2, <2>1 DEF TypeOK, workerVars, busVars
<1>4. OwnershipInv'
    BY <1>1, <1>2 DEF OwnershipInv, ThreadIsOwned, TypeOK
<1>5. QueueInv'
  <2>1. sent \in Nat /\ foreign \in Nat
      BY SMT DEF TypeOK
  <2>2. cpc = "receive" /\ frames = <<>> => Len(frames) <= sent + foreign
      BY <2>1, SMT
  <2>3. sent' = sent /\ foreign' = foreign /\ frames' = frames
      BY <1>1 DEF busVars
  <2> QED BY <1>2, <2>2, <2>3 DEF QueueInv, QueueIsBounded
<1>6. OrderInv'
  <2>1. CASE ~PublishCommand
    <3>1. (InHand' <=> InHand) /\ command' = command
        BY <1>1, <2>1 DEF InHand
    <3> QED BY <1>1, <1>2, <3>1, UnchangedKeepsOrder DEF workerVars, busVars
  <2>2. CASE PublishCommand
    <3>1. InHand /\ ~InHand' /\ target <= command /\ CommandsKeepOrder
        BY <2>2 DEF OrderInv, InHand
    <3>2. /\ sent \in Nat /\ command \in Nat /\ target \in Nat /\ frame.data \in Nat
          /\ command < frame.data /\ frame.data <= sent
          /\ \A i \in Queued : frames[i].data \in Nat /\ frame.data < frames[i].data
        BY <3>1, PendingBounds DEF CommandsKeepOrder
    <3>3. frame.data = command + 1
      <4>1. command + 1 \in Pending
          BY <3>1, <3>2, SMT DEF CommandsKeepOrder
      <4>2. command + 1 = frame.data \/ \E i \in Queued : command + 1 = frames[i].data
          BY <4>1 DEF Pending
      <4> QED BY <3>2, <4>2, SMT
    <3>4. /\ sent' = sent /\ target' = target /\ frames' = frames /\ Queued' = Queued
          /\ command' = frame.data /\ cpc' = "transmit"
        BY <1>1, <2>2 DEF workerVars, busVars, Queued
    <3>5. Pending' = Pending \ {frame.data}
      <4>1. Pending' = {frames[i].data : i \in Queued}
          BY <3>1, <3>4 DEF Pending
      <4>2. Pending = {frames[i].data : i \in Queued} \cup {frame.data}
          BY <3>1 DEF Pending
      <4>3. frame.data \notin {frames[i].data : i \in Queued}
          BY <3>2, SMT
      <4> QED BY <4>1, <4>2, <4>3
    <3>6. Pending' = command' + 1 .. sent'
        BY <3>1, <3>2, <3>3, <3>4, <3>5, SMT DEF CommandsKeepOrder
    <3>7. target <= frame.data
        BY <3>1, <3>2, SMT
    <3> QED BY <3>1, <3>2, <3>4, <3>6, <3>7 DEF OrderInv, CommandsKeepOrder
  <2> QED BY <2>1, <2>2
<1> QED BY <1>3, <1>4, <1>5, <1>6

LEMMA TransmitKeepsInv == CommunicationInv /\ TransmitState => CommunicationInv'
<1> SUFFICES ASSUME CommunicationInv, TransmitState PROVE CommunicationInv'
    OBVIOUS
<1> USE DEF CommunicationInv, TransmitState
<1>1. UNCHANGED <<running, joinable, owner, starts, frame, command, workerVars, busVars>>
    BY DEF ownerVars
<1>2. /\ StateFrame(jointState) \in Frames /\ ~IsCommand(StateFrame(jointState))
      /\ sent \in Nat /\ foreign \in Nat /\ Len(frames) \in Nat
    BY FramesAreTyped, BoundsAssumption DEF TypeOK
<1>3. frames' \in Seq(Frames) /\ Len(frames') <= Len(frames) + 1
    BY <1>2, SMT DEF TypeOK
<1>4. TypeOK'
    BY <1>1, <1>3 DEF TypeOK, workerVars, busVars
<1>5. OwnershipInv'
    BY <1>1 DEF OwnershipInv, ThreadIsOwned
<1>6. QueueInv'
  <2>1. sent' = sent /\ foreign' = foreign /\ Len(frames') \in Nat
      BY <1>1, <1>3 DEF busVars
  <2> QED BY <1>2, <1>3, <2>1, SMT DEF QueueInv, QueueIsBounded
<1>7. OrderInv'
  <2>1. sent' = sent /\ target' = target /\ ~InHand /\ ~InHand'
      BY <1>1 DEF workerVars, busVars, InHand
  <2>2. CASE wpc = "publish"
      BY <1>1, <2>1, <2>2, UnchangedKeepsOrder
  <2>3. CASE wpc # "publish"
      BY <1>1, <1>2, <2>1, <2>3, AppendKeepsOrder
  <2> QED BY <2>2, <2>3
<1> QED BY <1>4, <1>5, <1>6, <1>7

LEMMA ControlCycleKeepsInv ==
    CommunicationInv /\ ControlCycle => CommunicationInv' /\ target <= target'
<1> SUFFICES ASSUME CommunicationInv, ControlCycle PROVE CommunicationInv' /\ target <= target'
    OBVIOUS
<1> USE DEF CommunicationInv, ControlCycle, ReadCommand, BeginPublishState, EndPublishState
<1>1. UNCHANGED <<frames, running, joinable, owner, starts, cpc, frame, command, sent, foreign>>
    BY DEF ownerVars, busVars
<1>2. target' \in {target, command} /\ target \in Nat /\ command \in Nat /\ target <= command
    BY SMT DEF TypeOK, OrderInv
<1>3. TypeOK'
    BY <1>1, <1>2 DEF TypeOK
<1>4. OwnershipInv' /\ QueueInv'
    BY <1>1 DEF OwnershipInv, ThreadIsOwned, QueueInv, QueueIsBounded
<1>5. target' <= command /\ target <= target'
    BY <1>2, SMT
<1>6. OrderInv'
  <2>1. CommandsKeepOrder'
      BY <1>1 DEF OrderInv, CommandsKeepOrder, Pending, Queued, InHand
  <2> QED BY <1>1, <1>5, <2>1 DEF OrderInv
<1> QED BY <1>3, <1>4, <1>5, <1>6

LEMMA StepKeepsCommunicationInv == CommunicationInv /\ [Next]_vars => CommunicationInv'
<1> SUFFICES ASSUME CommunicationInv, [Next]_vars PROVE CommunicationInv'
    OBVIOUS
<1>1. CASE CommunicationThread
    BY <1>1, ReceiveKeepsInv, ThreadKeepsInv, TransmitKeepsInv DEF CommunicationThread
<1>2. CASE UNCHANGED vars
    BY <1>2 DEF vars, CommunicationInv, TypeOK, OwnershipInv, ThreadIsOwned, QueueInv,
       QueueIsBounded, OrderInv, CommandsKeepOrder, Pending, Queued, InHand
<1> QED BY <1>1, <1>2, SendKeepsInv, OwnerKeepsInv, ControlCycleKeepsInv DEF Next

-----------------------------------------------------------------------------
(* CommunicationInv holds in every order of the owner's calls, the thread's    *)
(* iterations, the worker's cycles and the traffic of other stations.          *)
THEOREM CommunicationInvariant == Spec => []CommunicationInv
BY InitCommunicationInv, StepKeepsCommunicationInv, PTL DEF Spec

(* start(), stop() and the destructor keep running_, thread_ and the thread    *)
(* together, for any number of restarts.                                       *)
THEOREM ThreadOwned == Spec => []ThreadIsOwned
<1>1. CommunicationInv => ThreadIsOwned
    BY DEF CommunicationInv, OwnershipInv
<1> QED BY <1>1, CommunicationInvariant, PTL

(* SimulatedCan's loopback never has more than one frame of its own in the     *)
(* queue, however much traffic there is.                                       *)
THEOREM QueueBounded == Spec => []QueueIsBounded
<1>1. CommunicationInv => QueueIsBounded
    BY DEF CommunicationInv, QueueInv
<1> QED BY <1>1, CommunicationInvariant, PTL

(* No command is lost, doubled or overtaken between the bus and                *)
(* CanCommandBuffer, whatever looped-back states and foreign frames are queued *)
(* between them and however often the owner stops and restarts the thread.     *)
THEOREM CommandsInOrder == Spec => []CommandsKeepOrder
<1>1. CommunicationInv => CommandsKeepOrder
    BY DEF CommunicationInv, OrderInv
<1> QED BY <1>1, CommunicationInvariant, PTL

(* The target the control loop reads never goes back to an older command or to *)
(* a joint state that was looped back.                                         *)
THEOREM NoOlderTarget == Spec => TargetNeverGoesBack
<1>1. CommunicationInv /\ [Next]_vars => [target <= target']_vars
  <2> SUFFICES ASSUME CommunicationInv, Next PROVE target <= target'
      OBVIOUS
  <2>1. CASE ControlCycle
      BY <2>1, ControlCycleKeepsInv
  <2>2. CASE ~ControlCycle
    <3>1. target' = target
        BY <2>2 DEF Next, SendCommand, SendForeign, Start, ConstructThread, ConstructThrows,
           StopCall, Destroy, Stop, Join, CommunicationThread, CheckRunning, Receive,
           ReceiveNothing, Decode, PublishCommand, TransmitState, workerVars
    <3> QED BY <3>1, SMT DEF CommunicationInv, TypeOK
  <2> QED BY <2>1, <2>2
<1> QED BY <1>1, CommunicationInvariant, PTL DEF Spec, TargetNeverGoesBack

-----------------------------------------------------------------------------
(* The distances.  They are natural numbers, so that a run in which the thread *)
(* keeps taking steps brings every stop() and every command to its end.        *)

(* stop() waits for at most five steps of the thread.                          *)
THEOREM StopIsNear == Spec => StopComesCloser
<1>1. CommunicationInv /\ [Next]_vars =>
          [Joining =>
              \/ cpc = "exited" /\ ~Joining'
              \/ /\ Joining' /\ ~running'
                 /\ StepsToLeave[cpc'] <= StepsToLeave[cpc]
                 /\ CommunicationThread => StepsToLeave[cpc'] < StepsToLeave[cpc]]_vars
  <2> SUFFICES ASSUME CommunicationInv, Next, Joining
               PROVE  \/ cpc = "exited" /\ ~Joining'
                      \/ /\ Joining' /\ ~running'
                         /\ StepsToLeave[cpc'] <= StepsToLeave[cpc]
                         /\ CommunicationThread => StepsToLeave[cpc'] < StepsToLeave[cpc]
      OBVIOUS
  <2>1. ~running /\ cpc # "none" /\ TypeOK
      BY DEF CommunicationInv, OwnershipInv, ThreadIsOwned, Joining
  <2>2. CASE CommunicationThread
    <3>1. Joining' /\ ~running'
        BY <2>1, <2>2 DEF CommunicationThread, CheckRunning, Receive, ReceiveNothing, Decode,
           PublishCommand, TransmitState, ownerVars, Joining
    <3>2. StepsToLeave[cpc'] < StepsToLeave[cpc]
        BY <2>1, <2>2 DEF CommunicationThread, CheckRunning, Receive, ReceiveNothing, Decode,
           PublishCommand, TransmitState, StepsToLeave
    <3>3. StepsToLeave[cpc'] <= StepsToLeave[cpc]
        BY <2>1, <2>2 DEF CommunicationThread, CheckRunning, Receive, ReceiveNothing, Decode,
           PublishCommand, TransmitState, StepsToLeave
    <3> QED BY <3>1, <3>2, <3>3
  <2>3. CASE StopCall \/ Destroy
      BY <2>3 DEF StopCall, Destroy, Stop, Join, Joining
  <2>4. CASE SendCommand \/ SendForeign \/ Start \/ ConstructThread \/ ConstructThrows \/ ControlCycle
    <3>1. Joining' /\ running' = running /\ cpc' = cpc
        BY <2>4 DEF SendCommand, SendForeign, Start, ConstructThread, ConstructThrows,
           ControlCycle, ReadCommand, BeginPublishState, EndPublishState, ownerVars, Joining
    <3>2. ~CommunicationThread
        BY <2>1, <3>1 DEF CommunicationThread, CheckRunning, Receive, ReceiveNothing, Decode,
           PublishCommand, TransmitState, TypeOK
    <3>3. StepsToLeave[cpc] \in Int
        BY <2>1 DEF StepsToLeave, TypeOK
    <3>4. StepsToLeave[cpc'] <= StepsToLeave[cpc]
        BY <3>1, <3>3, SMT
    <3> QED BY <2>1, <3>1, <3>2, <3>4
  <2> QED BY <2>2, <2>3, <2>4 DEF Next
<1> QED BY <1>1, CommunicationInvariant, PTL DEF Spec, StopComesCloser

(* A command on its way is in one place, and that place gives its distance.    *)
DistanceByPlace ==
    /\ \A n \in command + 1 .. sent :
          (InHand /\ frame.data = n) \/ \E i \in Queued : frames[i].data = n
    /\ InHand => Distance(frame.data) = IF cpc = "decode" THEN 2 ELSE 1
    /\ \A i \in Queued :
          /\ i \in Nat \ {0} /\ i <= Len(frames)
          /\ Distance(frames[i].data) = 5 * (i - 1) + StepsToReceive[cpc] + 3

LEMMA CommandHasAPlace == CommunicationInv => DistanceByPlace
<1> SUFFICES ASSUME CommunicationInv PROVE DistanceByPlace
    OBVIOUS
<1>1. TypeOK /\ CommandsKeepOrder
    BY DEF CommunicationInv, OrderInv
<1>2. ASSUME NEW n \in command + 1 .. sent
      PROVE  (InHand /\ frame.data = n) \/ \E i \in Queued : frames[i].data = n
    BY <1>1, <1>2 DEF CommandsKeepOrder, Pending
<1>3. InHand => Distance(frame.data) = IF cpc = "decode" THEN 2 ELSE 1
    BY DEF Distance
<1>4. ASSUME NEW i \in Queued
      PROVE  /\ i \in Nat \ {0} /\ i <= Len(frames)
             /\ Distance(frames[i].data) = 5 * (i - 1) + StepsToReceive[cpc] + 3
  <2>1. /\ \A j \in Queued : j \in Nat \ {0} /\ j <= Len(frames) /\ frames[j].data \in Nat
        /\ frame.data \in Nat
      BY <1>1, PendingBounds, SMT DEF TypeOK
  <2>2. ~(InHand /\ frame.data = frames[i].data)
      BY <1>1, <2>1, SMT DEF CommandsKeepOrder
  <2>3. \A j \in Queued : frames[j].data = frames[i].data => j = i
    <3>1. ASSUME NEW j \in Queued, frames[j].data = frames[i].data, j # i PROVE FALSE
      <4>1. i < j \/ j < i
          BY <2>1, <3>1, SMT
      <4>2. frames[i].data < frames[j].data \/ frames[j].data < frames[i].data
          BY <1>1, <4>1 DEF CommandsKeepOrder
      <4> QED BY <2>1, <3>1, <4>2, SMT
    <3> QED BY <3>1
  <2>4. Position(frames[i].data) = i
      BY <2>3 DEF Position
  <2> QED BY <2>1, <2>2, <2>4 DEF Distance
<1> QED BY <1>2, <1>3, <1>4 DEF DistanceByPlace

(* An iteration is five steps long at most. *)
LEMMA ReceiveIsNear ==
    ASSUME TypeOK
    PROVE  StepsToReceive[cpc] \in 0 .. 4
           /\ (cpc \notin {"decode", "publish", "transmit"} => StepsToReceive[cpc] <= 1)
BY DEF TypeOK, StepsToReceive

(* However long the loopback has been running, a command is at most five steps *)
(* for each frame others have sent, and four more, away from CanCommandBuffer. *)
THEOREM CommandsNear == Spec => []CommandsAreNear
<1>1. ASSUME CommunicationInv, NEW n \in command + 1 .. sent
      PROVE  Distance(n) \in 1 .. 5 * (sent + foreign) + 4
  <2>1. /\ DistanceByPlace /\ TypeOK /\ sent \in Nat /\ foreign \in Nat /\ Len(frames) \in Nat
        /\ Len(frames) <= sent + foreign + 1
        /\ cpc \in {"decode", "publish", "transmit"} => Len(frames) <= sent + foreign
        /\ StepsToReceive[cpc] \in 0 .. 4
        /\ cpc \notin {"decode", "publish", "transmit"} => StepsToReceive[cpc] <= 1
      BY <1>1, CommandHasAPlace, ReceiveIsNear
         DEF CommunicationInv, TypeOK, QueueInv, QueueIsBounded
  <2>2. CASE InHand /\ frame.data = n
      BY <2>1, <2>2, SMT DEF DistanceByPlace
  <2>3. CASE \E i \in Queued : frames[i].data = n
    <3>1. PICK i \in Queued : frames[i].data = n
        BY <2>3
    <3>2. /\ i \in Nat \ {0} /\ i <= Len(frames)
          /\ Distance(n) = 5 * (i - 1) + StepsToReceive[cpc] + 3
        BY <2>1, <3>1 DEF DistanceByPlace
    <3> QED BY <2>1, <3>2, SMT
  <2> QED BY <1>1, <2>1, <2>2, <2>3 DEF DistanceByPlace
<1>2. CommunicationInv => CommandsAreNear
    BY <1>1 DEF CommandsAreNear
<1> QED BY <1>2, CommunicationInvariant, PTL

(* What a step does to a command in the queue at i: it is taken, moves up one  *)
(* place, or stays where it is.                                                *)
LEMMA QueueMoves ==
    ASSUME CommunicationInv, Next, NEW i \in Queued
    PROVE  \/ Receive /\ i = 1 /\ InHand' /\ frame' = frames[i] /\ cpc' = "decode"
           \/ Receive /\ i > 1 /\ i - 1 \in Queued' /\ frames'[i - 1] = frames[i]
           \/ ~Receive /\ i \in Queued' /\ frames'[i] = frames[i]
<1>1. /\ i \in 1 .. Len(frames) /\ frames \in Seq(Frames) /\ Len(frames) \in Nat
      /\ IsCommand(frames[i])
    BY DEF CommunicationInv, TypeOK, Queued
<1>2. CASE Receive
  <2>1. /\ frame' = frames[1] /\ cpc' = "decode"
        /\ Len(frames') = Len(frames) - 1
        /\ \A j \in 1 .. Len(frames') : frames'[j] = frames[j + 1]
      BY <1>1, <1>2 DEF Receive
  <2>2. CASE i = 1
      BY <1>1, <1>2, <2>1, <2>2 DEF InHand
  <2>3. CASE i # 1
    <3>1. i > 1 /\ i - 1 \in 1 .. Len(frames') /\ (i - 1) + 1 = i
        BY <1>1, <2>1, <2>3, SMT
    <3> QED BY <1>1, <1>2, <2>1, <3>1 DEF Queued
  <2> QED BY <2>2, <2>3
<1>3. CASE ~Receive
  <2>1. frames' = frames \/ \E f \in Frames : frames' = Append(frames, f)
    <3>1. CASE SendCommand
      <4>1. sent + 1 \in 0 .. MaxCommands
          BY <3>1, BoundsAssumption, SMT DEF SendCommand, CommunicationInv, TypeOK
      <4> QED BY <3>1, <4>1, FramesAreTyped DEF SendCommand
    <3>2. CASE SendForeign
        BY <3>2, FramesAreTyped DEF SendForeign
    <3>3. CASE TransmitState
        BY <3>3, FramesAreTyped DEF TransmitState, CommunicationInv, TypeOK
    <3>4. CASE ~(SendCommand \/ SendForeign \/ TransmitState)
        BY <1>3, <3>4 DEF Next, Start, ConstructThread, ConstructThrows, StopCall, Destroy, Stop,
           Join, CommunicationThread, CheckRunning, ReceiveNothing, Decode, PublishCommand,
           ControlCycle, ReadCommand, BeginPublishState, EndPublishState
    <3> QED BY <3>1, <3>2, <3>3, <3>4
  <2>2. i \in 1 .. Len(frames') /\ frames'[i] = frames[i]
      BY <1>1, <2>1
  <2> QED BY <1>1, <1>3, <2>2 DEF Queued
<1> QED BY <1>2, <1>3

(* What a step does to the rest of the iteration. *)
LEMMA IterationMoves ==
    ASSUME CommunicationInv, Next, ~Receive, ~ReceiveNothing
    PROVE  /\ StepsToReceive[cpc'] <= StepsToReceive[cpc]
           /\ CommunicationThread /\ running => StepsToReceive[cpc'] < StepsToReceive[cpc]
<1>1. TypeOK /\ ThreadIsOwned /\ StepsToReceive[cpc] \in 0 .. 4
    BY ReceiveIsNear DEF CommunicationInv, OwnershipInv
<1>2. CASE CommunicationThread
  <2>1. CheckRunning \/ Decode \/ PublishCommand \/ TransmitState
      BY <1>2 DEF CommunicationThread
  <2> QED BY <2>1 DEF CheckRunning, Decode, PublishCommand, TransmitState, StepsToReceive
<1>3. CASE ~CommunicationThread
  <2>1. cpc' = cpc \/ (cpc \in {"none", "exited"} /\ cpc' \in {"check", "none"})
      BY <1>1, <1>3 DEF Next, SendCommand, SendForeign, Start, ConstructThread, ConstructThrows,
         StopCall, Destroy, Stop, Join, ControlCycle, ReadCommand, BeginPublishState,
         EndPublishState, ThreadIsOwned, TypeOK
  <2>2. StepsToReceive[cpc'] <= StepsToReceive[cpc]
    <3>1. CASE cpc' = cpc
        BY <1>1, <3>1, SMT
    <3>2. CASE cpc \in {"none", "exited"} /\ cpc' \in {"check", "none"}
        BY <3>2 DEF StepsToReceive
    <3> QED BY <2>1, <3>1, <3>2
  <2> QED BY <1>3, <2>2
<1> QED BY <1>2, <1>3

(* No step of the bus, the owner or the control loop takes a command away from *)
(* CanCommandBuffer, and every step of a running thread brings it closer: the  *)
(* looped-back states cannot starve it.                                        *)
THEOREM CommandsDrawNear == Spec => CommandsComeCloser
<1>1. ASSUME CommunicationInv, Next, DistanceByPlace', TypeOK',
             NEW n \in command + 1 .. sent, command' < n
      PROVE  /\ Distance(n)' <= Distance(n)
             /\ CommunicationThread /\ running => Distance(n)' < Distance(n)
  <2>1. DistanceByPlace /\ TypeOK /\ StepsToReceive[cpc] \in 0 .. 4
      BY <1>1, CommandHasAPlace, ReceiveIsNear DEF CommunicationInv
  <2>2. CASE InHand /\ frame.data = n
    <3>1. Distance(n) = IF cpc = "decode" THEN 2 ELSE 1
        BY <2>1, <2>2 DEF DistanceByPlace
    <3>2. CASE CommunicationThread
      <4>1. cpc = "decode"
        <5>1. ~PublishCommand
          <6>1. PublishCommand => command' = n /\ command' \in Int
              BY <1>1, <2>2 DEF PublishCommand, TypeOK
          <6> QED BY <1>1, <6>1, SMT
        <5> QED BY <2>2, <3>2, <5>1 DEF CommunicationThread, CheckRunning, Receive,
                ReceiveNothing, Decode, TransmitState, InHand
      <4>2. InHand' /\ frame' = frame /\ cpc' = "publish"
          BY <2>2, <3>2, <4>1 DEF CommunicationThread, CheckRunning, Receive, ReceiveNothing,
             Decode, PublishCommand, TransmitState, InHand
      <4>3. Distance(n)' = 1
          BY <2>2, <4>2 DEF Distance
      <4> QED BY <3>1, <4>1, <4>3, SMT
    <3>3. CASE ~CommunicationThread
      <4>1. cpc' = cpc /\ frame' = frame
          BY <1>1, <2>2, <3>3 DEF Next, SendCommand, SendForeign, Start, ConstructThread,
             ConstructThrows, StopCall, Destroy, Stop, Join, ControlCycle, ReadCommand,
             BeginPublishState, EndPublishState, InHand, CommunicationInv, OwnershipInv,
             ThreadIsOwned
      <4>2. Distance(n)' = Distance(n) /\ Distance(n) \in Int
          BY <2>2, <3>1, <4>1 DEF Distance, InHand
      <4> QED BY <3>3, <4>2, SMT
    <3> QED BY <3>2, <3>3
  <2>3. CASE \E i \in Queued : frames[i].data = n
    <3>1. PICK i \in Queued : frames[i].data = n
        BY <2>3
    <3>2. /\ i \in Nat \ {0} /\ i <= Len(frames)
          /\ Distance(n) = 5 * (i - 1) + StepsToReceive[cpc] + 3
        BY <2>1, <3>1 DEF DistanceByPlace
    <3>3. CASE Receive /\ i = 1 /\ InHand' /\ frame' = frames[i] /\ cpc' = "decode"
      <4>1. Distance(n)' = 2
          BY <3>1, <3>3 DEF Distance
      <4> QED BY <2>1, <3>2, <3>3, <4>1, SMT
    <3>4. CASE Receive /\ i > 1 /\ i - 1 \in Queued' /\ frames'[i - 1] = frames[i]
      <4>1. Distance(n)' = 5 * ((i - 1) - 1) + StepsToReceive[cpc'] + 3
          BY <1>1, <3>1, <3>4 DEF DistanceByPlace
      <4>2. StepsToReceive[cpc] = 0 /\ StepsToReceive[cpc'] = 4
          BY <3>4 DEF Receive, StepsToReceive
      <4> QED BY <3>2, <4>1, <4>2, SMT
    <3>5. CASE ~Receive /\ i \in Queued' /\ frames'[i] = frames[i]
      <4>1. Distance(n)' = 5 * (i - 1) + StepsToReceive[cpc'] + 3
          BY <1>1, <3>1, <3>5 DEF DistanceByPlace
      <4>2. ~ReceiveNothing
          BY <3>2, SMT DEF ReceiveNothing
      <4>3. /\ StepsToReceive[cpc'] <= StepsToReceive[cpc]
            /\ CommunicationThread /\ running => StepsToReceive[cpc'] < StepsToReceive[cpc]
            /\ StepsToReceive[cpc'] \in Int
        <5>1. StepsToReceive[cpc'] \in Int
            BY <1>1 DEF TypeOK, StepsToReceive
        <5> QED BY <1>1, <3>5, <4>2, <5>1, IterationMoves
      <4> QED BY <2>1, <3>2, <4>1, <4>3, SMT
    <3> QED BY <1>1, <3>1, <3>3, <3>4, <3>5, QueueMoves
  <2> QED BY <1>1, <2>1, <2>2, <2>3 DEF DistanceByPlace
<1>2. CommunicationInv /\ Next /\ DistanceByPlace' /\ TypeOK' =>
          \A n \in command + 1 .. sent :
              command' < n =>
                  /\ Distance(n)' <= Distance(n)
                  /\ CommunicationThread /\ running => Distance(n)' < Distance(n)
    BY <1>1
<1>3. CommunicationInv => DistanceByPlace /\ TypeOK
    BY CommandHasAPlace DEF CommunicationInv
<1> QED BY <1>2, <1>3, CommunicationInvariant, PTL DEF Spec, CommandsComeCloser
=============================================================================
