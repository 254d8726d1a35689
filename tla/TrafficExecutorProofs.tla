----------------------- MODULE TrafficExecutorProofs -----------------------
(***************************************************************************)
(* Safety of TrafficExecutor for every set of UEs, every plan, and pipes   *)
(* and connections of any size.                                            *)
(***************************************************************************)
EXTENDS TrafficExecutor, SequenceTheorems, TLAPS

-----------------------------------------------------------------------------
(***************************************************************************)
(* A padded row is a sequence of signs, whatever was in the row.           *)
(***************************************************************************)
LEMMA PaddedType ==
    ASSUME NEW row, NEW n \in Nat
    PROVE  Padded(row, n) \in Seq(Signs)
<1>1. Padded(row, n) \in [1..n -> Signs]
  BY DEF Padded, Sign, Signs
<1>2. QED
  BY <1>1

(***************************************************************************)
(* The executor starts in its types.                                       *)
(***************************************************************************)
LEMMA ExecTypeInit == ExecInit => ExecTypeOK
<1>1. <<>> \in Seq(Signs) /\ <<>> \in Seq(BOOLEAN) /\ Len(<<>>) = 0
  OBVIOUS
<1>2. ExecInit => MainTypeOK
  BY <1>1, BoundsAssumption DEF ExecInit, MainTypeOK
<1>3. ExecInit => ServerTypeOK
  BY DEF ExecInit, ServerTypeOK, Receivers
<1>4. ExecInit => PipeTypeOK
  BY <1>1, BoundsAssumption DEF ExecInit, PipeTypeOK
<1>5. QED
  BY <1>2, <1>3, <1>4 DEF ExecTypeOK

(***************************************************************************)
(* The three parts of the state keep their types when they are left alone. *)
(***************************************************************************)
LEMMA MainTypeFrame == MainTypeOK /\ UNCHANGED mainVars => MainTypeOK'
BY DEF MainTypeOK, mainVars

LEMMA ServerTypeFrame ==
    ServerTypeOK /\ UNCHANGED <<rsession, ssession, serverVars>> => ServerTypeOK'
BY DEF ServerTypeOK, serverVars

LEMMA PipeTypeFrame ==
    PipeTypeOK /\ UNCHANGED <<send, script, pipeVars, late>> => PipeTypeOK'
BY DEF PipeTypeOK, pipeVars

(***************************************************************************)
(* The main thread keeps the place it is at, and its plan, in their types. *)
(***************************************************************************)
LEMMA MainTypeStep ==
    ASSUME ExecTypeOK, [ExecNext]_execVars
    PROVE  MainTypeOK'
<1> USE BoundsAssumption DEF ExecTypeOK, Starting, Stopping, Over
<1>1. ASSUME NEW names, NEW rows \in [names -> Seq(Int)], Execute(rows)
      PROVE  MainTypeOK'
  <2>1. plan' \in [UEs -> Seq(Signs)]
    <3>1. CASE UNCHANGED plan
      BY <3>1 DEF MainTypeOK
    <3>2. ASSUME NEW n \in {Len(rows[u]) : u \in UEs},
                 DOMAIN rows = UEs, plan' = [u \in UEs |-> Padded(rows[u], n)]
          PROVE  plan' \in [UEs -> Seq(Signs)]
      <4>1. PICK u \in UEs : n = Len(rows[u])
        BY <3>2
      <4>2. n \in Nat
        BY <1>1, <4>1, LenProperties
      <4>3. QED
        BY <3>2, <4>2, PaddedType
    <3>3. QED
      BY <1>1, <3>1, <3>2 DEF Execute
  <2>2. pc' \in {"failed", "open receiver"} /\ UNCHANGED <<mode, current, todo, at, interrupts>>
    BY <1>1 DEF Execute
  <2>3. QED
    BY <2>1, <2>2 DEF MainTypeOK
<1>2. ASSUME MainStep \/ StartFails \/ Interrupt
      PROVE  MainTypeOK'
  <2> USE DEF MainTypeOK
  <2>1. CASE OpenReceiver \/ StartReceiver \/ VerifyReceiver \/ StartFails
    BY <2>1 DEF OpenReceiver, StartReceiver, VerifyReceiver, StartFails
  <2>2. CASE OpenSender \/ CloseSender
    BY <2>2 DEF OpenSender, CloseSender
  <2>3. CASE Step \/ StepDone
    <3>1. pc' \in {"step", "sending"} /\ (at' = at \/ at' = at + 1) /\ at \in Nat \ {0}
      BY <2>3 DEF Step, StepDone
    <3>2. UNCHANGED <<mode, plan, current, todo, interrupts>>
      BY <2>3 DEF Step, StepDone
    <3>3. at' \in Nat \ {0}
      <4> HIDE DEF Starting, Stopping, Over, MainTypeOK
      <4>1. QED
        BY <3>1
    <3>4. QED
      BY <3>1, <3>2, <3>3
  <2>4. CASE PassDone
    <3>1. UNCHANGED <<mode, plan, current, interrupts>>
      BY <2>4 DEF PassDone
    <3>2. pc = "step" /\ todo' \in {todo, UEs} /\ pc' \in {pc, "stop receiver"}
      BY <2>4 DEF PassDone
    <3>3. at' \in Nat \ {0}
      <4> HIDE DEF Starting, Stopping, Over
      <4>1. at' = 1 \/ at' = at
        BY <2>4 DEF PassDone
      <4>2. QED
        BY <4>1
    <3>4. todo' \subseteq UEs
      BY <3>2
    <3>5. QED
      BY <3>1, <3>2, <3>3, <3>4
  <2>5. CASE Drained
    BY <2>5 DEF Drained
  <2>6. CASE StopReceiver
    BY <2>6 DEF StopReceiver
  <2>7. CASE CloseReceiver
    BY <2>7 DEF CloseReceiver
  <2>8. CASE Interrupt
    <3>1. interrupts < MaxInterrupts /\ interrupts' = interrupts + 1
      BY <2>8 DEF Interrupt
    <3>2. pc' \in {"failed", "drain", "stop receiver", "aborted"} /\ todo' \subseteq UEs
      BY <2>8 DEF Interrupt, MainInterrupted
    <3>3. interrupts' \in 0..MaxInterrupts
      <4> HIDE DEF Starting, Stopping, Over
      <4>1. QED
        BY <3>1
    <3>4. UNCHANGED <<mode, plan, current, at>>
      BY <2>8 DEF Interrupt
    <3>5. QED
      BY <3>2, <3>3, <3>4
  <2>9. QED
    BY <1>2, <2>1, <2>2, <2>3, <2>4, <2>5, <2>6, <2>7, <2>8 DEF MainStep
<1>3. ASSUME NEW u \in UEs, Worker(u) \/ Sender(u) \/ Server(u) \/ Accept(u)
      PROVE  UNCHANGED mainVars
  <2>1. CASE Worker(u)
    BY <2>1 DEF Worker, Write, ReadAnswer, TimeOut
  <2>2. CASE Sender(u)
    BY <2>2 DEF Sender, Connect, SendTCP, SendUDP, ShellComplains, RunCommand
  <2>3. CASE Server(u) \/ Accept(u)
    BY <2>3 DEF Server, Receive, ServerExits, Accept
  <2>4. QED
    BY <1>3, <2>1, <2>2, <2>3
<1>4. ASSUME NEW r \in Receivers, ServerUp(r) \/ Kill(r)
      PROVE  UNCHANGED mainVars
  BY <1>4 DEF ServerUp, Kill
<1>5. CASE UNCHANGED execVars
  BY <1>5, MainTypeFrame DEF execVars
<1>6. QED
  BY <1>1, <1>2, <1>3, <1>4, <1>5, MainTypeFrame DEF ExecNext, ExecStep

(***************************************************************************)
(* So are the shells of the receivers and senders, and the servers.        *)
(***************************************************************************)
LEMMA ServerTypeStep ==
    ASSUME ExecTypeOK, [ExecNext]_execVars
    PROVE  ServerTypeOK'
<1> USE DEF ExecTypeOK, serverVars, Receivers, ReceiverOf
<1>1. ASSUME \/ MainStep \/ StartFails \/ Interrupt
             \/ \E names : \E rows \in [names -> Seq(Int)] : Execute(rows)
      PROVE  ServerTypeOK'
  <2>1. CASE OpenReceiver
    BY <2>1 DEF OpenReceiver, ServerTypeOK
  <2>2. CASE StartReceiver
    BY <2>2 DEF StartReceiver, ServerTypeOK
  <2>3. CASE VerifyReceiver
    BY <2>3 DEF VerifyReceiver, ServerTypeOK, MainTypeOK
  <2>4. CASE OpenSender
    BY <2>4 DEF OpenSender, ServerTypeOK
  <2>5. CASE StopReceiver
    <3>1. PICK u \in todo :
            LET r == ReceiverOf(u)
            IN  IF confirmed[r] /\ rsession[r] # "none"
                THEN /\ dying' = IF rsession[r] = "open" THEN dying \cup {r} ELSE dying
                     /\ confirmed' = [confirmed EXCEPT ![r] = FALSE]
                ELSE UNCHANGED <<dying, confirmed>>
      BY <2>5 DEF StopReceiver
    <3>2. u \in UEs
      BY DEF MainTypeOK
    <3>3. dying' \subseteq Receivers /\ confirmed' \in [Receivers -> BOOLEAN]
      BY <3>1, <3>2 DEF ServerTypeOK
    <3>4. QED
      BY <2>5, <3>3 DEF StopReceiver, ServerTypeOK
  <2>6. CASE CloseReceiver
    <3> DEFINE r == ReceiverOf(current)
    <3>1. /\ rsession' = [rsession EXCEPT ![r] = "none"]
          /\ IF r \in dying THEN cut' = cut \cup {r} /\ dying' \in {dying, dying \ {r}}
                            ELSE UNCHANGED <<cut, dying>>
          /\ UNCHANGED <<ssession, confirmed, server, accepted, trusted>>
      BY <2>6 DEF CloseReceiver
    <3> HIDE DEF r
    <3>2. rsession' \in [Receivers -> {"none", "open", "dead"}]
      BY <3>1 DEF ServerTypeOK
    <3>3. dying' \subseteq Receivers /\ cut' \subseteq Receivers
      BY <3>1 DEF ServerTypeOK
    <3>4. QED
      BY <3>1, <3>2, <3>3 DEF ServerTypeOK
  <2>7. CASE CloseSender
    BY <2>7 DEF CloseSender, ServerTypeOK
  <2>8. CASE Step \/ StepDone \/ PassDone \/ Drained
    BY <2>8, ServerTypeFrame DEF Step, StepDone, PassDone, Drained
  <2>9. CASE StartFails \/ \E names : \E rows \in [names -> Seq(Int)] : Execute(rows)
    BY <2>9, ServerTypeFrame DEF StartFails, Execute
  <2>10. CASE Interrupt
    <3>1. PICK rs \in SUBSET OpenReceivers, us \in SUBSET OpenSenders : ShellsInterrupted(rs, us)
      BY <2>10 DEF Interrupt
    <3>2. UNCHANGED <<confirmed, server, accepted, trusted>>
      BY <2>10 DEF Interrupt
    <3>3. rs \subseteq Receivers
      BY <3>1 DEF OpenReceivers
    <3>4. QED
      BY <3>1, <3>2, <3>3 DEF ShellsInterrupted, ServerTypeOK
  <2>11. QED
    BY <1>1, <2>1, <2>2, <2>3, <2>4, <2>5, <2>6, <2>7, <2>8, <2>9, <2>10 DEF MainStep
<1>2. ASSUME NEW u \in UEs, Worker(u) \/ Sender(u)
      PROVE  UNCHANGED <<rsession, ssession, serverVars>>
  <2>1. CASE Worker(u)
    BY <2>1 DEF Worker, Write, ReadAnswer, TimeOut
  <2>2. CASE Sender(u)
    BY <2>2 DEF Sender, Connect, SendTCP, SendUDP, ShellComplains, RunCommand
  <2>3. QED
    BY <1>2, <2>1, <2>2
<1>3. ASSUME NEW u \in UEs, Server(u) \/ Accept(u)
      PROVE  ServerTypeOK'
  BY <1>3 DEF Server, Receive, ServerExits, Accept, ServerTypeOK
<1>4. ASSUME NEW r \in Receivers, ServerUp(r) \/ Kill(r)
      PROVE  ServerTypeOK'
  BY <1>4 DEF ServerUp, Kill, ServerTypeOK
<1>5. CASE UNCHANGED execVars
  BY <1>5, ServerTypeFrame DEF execVars
<1>6. QED
  BY <1>1, <1>2, <1>3, <1>4, <1>5, ServerTypeFrame DEF ExecNext, ExecStep

(***************************************************************************)
(* Between two steps of the plan no worker is sending, and a worker that   *)
(* has yet to send has a slot of its row to send.                          *)
(***************************************************************************)
NoSendBetweenSteps ==
    pc \in {"idle", "step"} \cup Starting => \A u \in UEs : send[u] = "idle"

HasSlot == \A u \in UEs : send[u] = "write" => at <= Len(plan[u])

SlotInv == NoSendBetweenSteps /\ HasSlot

LEMMA SlotFrame ==
    ASSUME SlotInv, UNCHANGED <<pc, send, at, plan>>
    PROVE  SlotInv'
BY DEF SlotInv, NoSendBetweenSteps, HasSlot

LEMMA SlotStep ==
    ASSUME ExecTypeOK, SlotInv, [ExecNext]_execVars
    PROVE  SlotInv'
<1> USE DEF Starting, Stopping, Over
<1>1. ASSUME NEW names, NEW rows \in [names -> Seq(Int)], Execute(rows)
      PROVE  SlotInv'
  <2>1. \A u \in UEs : send[u] = "idle"
    BY <1>1 DEF Execute, SlotInv, NoSendBetweenSteps
  <2>2. UNCHANGED send
    BY <1>1 DEF Execute
  <2>3. QED
    BY <2>1, <2>2 DEF SlotInv, NoSendBetweenSteps, HasSlot
<1>2. CASE Step
  <2>1. \A u \in UEs : at <= Len(plan[u])
    BY <1>2 DEF Step
  <2>2. pc' = "sending" /\ UNCHANGED <<at, plan>>
    BY <1>2 DEF Step
  <2>3. QED
    BY <2>1, <2>2 DEF SlotInv, NoSendBetweenSteps, HasSlot
<1>3. CASE StepDone
  <2>1. \A u \in UEs : send'[u] = "idle"
    BY <1>3 DEF StepDone
  <2>2. QED
    BY <2>1 DEF SlotInv, NoSendBetweenSteps, HasSlot
<1>4. CASE PassDone
  <2>1. \A u \in UEs : send[u] = "idle"
    BY <1>4 DEF PassDone, SlotInv, NoSendBetweenSteps
  <2>2. UNCHANGED send
    BY <1>4 DEF PassDone
  <2>3. QED
    BY <2>1, <2>2 DEF SlotInv, NoSendBetweenSteps, HasSlot
<1>5. CASE (MainStep \/ StartFails \/ Interrupt) /\ ~Step /\ ~StepDone /\ ~PassDone
  <2>1. UNCHANGED <<send, at, plan>>
    BY <1>5 DEF MainStep, OpenReceiver, StartReceiver, VerifyReceiver, OpenSender, Drained,
       StopReceiver, CloseReceiver, CloseSender, StartFails, Interrupt
  <2>2. pc' \in {"idle", "step"} \cup Starting => pc \in {"idle", "step"} \cup Starting
    BY <1>5 DEF MainStep, OpenReceiver, StartReceiver, VerifyReceiver, OpenSender, Drained,
       StopReceiver, CloseReceiver, CloseSender, StartFails, Interrupt, MainInterrupted
  <2>3. QED
    BY <2>1, <2>2 DEF SlotInv, NoSendBetweenSteps, HasSlot
<1>6. ASSUME NEW u \in UEs, Worker(u)
      PROVE  SlotInv'
  <2>1. send[u] # "idle" /\ UNCHANGED <<pc, at, plan>>
    BY <1>6 DEF Worker, Write, ReadAnswer, TimeOut, mainVars
  <2>2. \A v \in UEs : send'[v] = "write" => send[v] = "write"
    BY <1>6 DEF Worker, Write, ReadAnswer, TimeOut, ExecTypeOK, PipeTypeOK
  <2>3. QED
    BY <2>1, <2>2 DEF SlotInv, NoSendBetweenSteps, HasSlot
<1>7. ASSUME NEW u \in UEs, Sender(u) \/ Server(u) \/ Accept(u)
      PROVE  SlotInv'
  <2>1. UNCHANGED <<pc, send, at, plan>>
    BY <1>7 DEF Sender, Connect, SendTCP, SendUDP, ShellComplains, RunCommand, Server, Receive,
       ServerExits, Accept, mainVars
  <2>2. QED
    BY <2>1, SlotFrame
<1>8. ASSUME NEW r \in Receivers, ServerUp(r) \/ Kill(r)
      PROVE  SlotInv'
  BY <1>8, SlotFrame DEF ServerUp, Kill, mainVars
<1>9. CASE UNCHANGED execVars
  BY <1>9, SlotFrame DEF execVars, mainVars
<1>10. QED
  BY <1>1, <1>2, <1>3, <1>4, <1>5, <1>6, <1>7, <1>8, <1>9 DEF ExecNext, ExecStep

(***************************************************************************)
(* So are the pipes and the connections, which are never overfull.         *)
(***************************************************************************)
LEMMA PipeTypeStep ==
    ASSUME ExecTypeOK, SlotInv, [ExecNext]_execVars
    PROVE  PipeTypeOK'
<1> USE BoundsAssumption DEF ExecTypeOK, pipeVars
<1>1. ASSUME \/ MainStep \/ StartFails \/ Interrupt
             \/ \E names : \E rows \in [names -> Seq(Int)] : Execute(rows)
      PROVE  PipeTypeOK'
  <2>1. CASE OpenReceiver \/ StartReceiver \/ VerifyReceiver \/ PassDone \/ Drained
    BY <2>1, PipeTypeFrame DEF OpenReceiver, StartReceiver, VerifyReceiver, PassDone, Drained
  <2>2. CASE StopReceiver \/ CloseReceiver
    BY <2>2, PipeTypeFrame DEF StopReceiver, CloseReceiver
  <2>3. CASE StartFails \/ \E names : \E rows \in [names -> Seq(Int)] : Execute(rows)
    BY <2>3, PipeTypeFrame DEF StartFails, Execute
  <2>4. CASE Step \/ StepDone
    BY <2>4 DEF Step, StepDone, PipeTypeOK
  <2>5. CASE OpenSender
    BY <2>5 DEF OpenSender, PipeTypeOK
  <2>6. CASE CloseSender
    BY <2>6 DEF CloseSender, PipeTypeOK
  <2>7. CASE Interrupt
    <3>1. PICK rs, us : ShellsInterrupted(rs, us)
      BY <2>7 DEF Interrupt
    <3>2. UNCHANGED <<send, stdin, unread, answers, inflight, late>>
      BY <2>7 DEF Interrupt
    <3>3. script' \in [UEs -> {"none", "connecting", "ready", "gone"}]
      BY <3>1 DEF ShellsInterrupted, PipeTypeOK
    <3>4. QED
      BY <3>2, <3>3 DEF PipeTypeOK
  <2>8. QED
    BY <1>1, <2>1, <2>2, <2>3, <2>4, <2>5, <2>6, <2>7 DEF MainStep
<1>2. ASSUME NEW u \in UEs, Worker(u)
      PROVE  PipeTypeOK'
  <2>1. CASE Write(u)
    <3>1. send' \in [UEs -> {"idle", "write", "wait", "done"}]
      BY <2>1 DEF Write, PipeTypeOK
    <3>2. CASE UNCHANGED stdin
      BY <2>1, <3>1, <3>2 DEF Write, PipeTypeOK
    <3>3. CASE /\ send[u] = "write" /\ Len(stdin[u]) < PipeLines
               /\ stdin' = [stdin EXCEPT ![u] = Append(@, plan[u][at])]
      <4>1. plan[u] \in Seq(Signs) /\ at \in 1..Len(plan[u])
        BY <3>3 DEF SlotInv, HasSlot, MainTypeOK
      <4>2. plan[u][at] \in Signs
        BY <4>1
      <4>3. stdin[u] \in Seq(Signs)
        BY DEF PipeTypeOK
      <4>4. /\ Append(stdin[u], plan[u][at]) \in Seq(Signs)
            /\ Len(Append(stdin[u], plan[u][at])) = Len(stdin[u]) + 1
        BY <4>2, <4>3, AppendProperties
      <4>5. Len(stdin[u]) + 1 <= PipeLines
        BY <3>3, <4>3, LenProperties
      <4>6. /\ stdin' \in [UEs -> Seq(Signs)]
            /\ \A v \in UEs : Len(stdin'[v]) <= PipeLines
        BY <3>3, <4>4, <4>5 DEF PipeTypeOK
      <4>7. QED
        BY <2>1, <3>1, <4>6 DEF Write, PipeTypeOK
    <3>4. QED
      BY <2>1, <3>2, <3>3 DEF Write
  <2>2. CASE ReadAnswer(u)
    <3>1. Tail(answers[u]) \in Seq(BOOLEAN)
      BY <2>2, HeadTailProperties DEF ReadAnswer, PipeTypeOK
    <3>2. answers' \in [UEs -> Seq(BOOLEAN)]
      BY <2>2, <3>1 DEF ReadAnswer, PipeTypeOK
    <3>3. QED
      BY <2>2, <3>2 DEF ReadAnswer, PipeTypeOK
  <2>3. CASE TimeOut(u)
    BY <2>3 DEF TimeOut, PipeTypeOK
  <2>4. QED
    BY <1>2, <2>1, <2>2, <2>3 DEF Worker
<1>3. ASSUME NEW u \in UEs, Sender(u)
      PROVE  PipeTypeOK'
  <2>1. ASSUME Takes(u)
        PROVE  stdin' \in [UEs -> Seq(Signs)] /\ \A v \in UEs : Len(stdin'[v]) <= PipeLines
    <3>1. stdin[u] \in Seq(Signs) /\ Len(stdin[u]) <= PipeLines
      BY DEF PipeTypeOK
    <3>2. Tail(stdin[u]) \in Seq(Signs) /\ Len(Tail(stdin[u])) = Len(stdin[u]) - 1
      BY <2>1, <3>1, HeadTailProperties DEF Takes
    <3>3. Len(Tail(stdin[u])) <= PipeLines
      BY <3>1, <3>2, LenProperties
    <3>4. QED
      BY <2>1, <3>2, <3>3 DEF Takes, PipeTypeOK
  <2>2. ASSUME Prints(u)
        PROVE  unread' \in [UEs -> 0..PipeLines]
    BY <2>2 DEF Prints, PipeTypeOK
  <2>3. CASE Connect(u)
    BY <2>3 DEF Connect, PipeTypeOK
  <2>4. CASE SendTCP(u)
    <3>1. inflight' \in [UEs -> 0..SockBuffer]
      <4>1. CASE UNCHANGED inflight
        BY <4>1 DEF PipeTypeOK
      <4>2. CASE inflight[u] < SockBuffer /\ inflight' = [inflight EXCEPT ![u] = inflight[u] + 1]
        BY <4>2 DEF PipeTypeOK
      <4>3. QED
        BY <2>4, <4>1, <4>2 DEF SendTCP
    <3>2. script' \in [UEs -> {"none", "connecting", "ready", "gone"}]
      BY <2>4 DEF SendTCP, PipeTypeOK
    <3>3. unread' \in [UEs -> 0..PipeLines]
      BY <2>2, <2>4 DEF SendTCP, PipeTypeOK
    <3>4. QED
      BY <2>1, <2>4, <3>1, <3>2, <3>3 DEF SendTCP, PipeTypeOK
  <2>5. CASE SendUDP(u)
    BY <2>1, <2>2, <2>5 DEF SendUDP, PipeTypeOK
  <2>6. CASE ShellComplains(u)
    BY <2>1, <2>2, <2>6 DEF ShellComplains, PipeTypeOK
  <2>7. CASE RunCommand(u)
    <3>1. PICK ok \in BOOLEAN : answers' = [answers EXCEPT ![u] = Append(@, ok)]
      BY <2>7 DEF RunCommand
    <3>2. Append(answers[u], ok) \in Seq(BOOLEAN)
      BY AppendProperties DEF PipeTypeOK
    <3>3. answers' \in [UEs -> Seq(BOOLEAN)]
      BY <3>1, <3>2 DEF PipeTypeOK
    <3>4. unread' \in [UEs -> 0..PipeLines]
      BY <2>2, <2>7 DEF RunCommand, PipeTypeOK
    <3>5. QED
      BY <2>1, <2>7, <3>3, <3>4 DEF RunCommand, PipeTypeOK
  <2>8. QED
    BY <1>3, <2>3, <2>4, <2>5, <2>6, <2>7 DEF Sender
<1>4. ASSUME NEW u \in UEs, Server(u) \/ Accept(u)
      PROVE  PipeTypeOK'
  <2>1. CASE Receive(u)
    <3>1. inflight' \in [UEs -> 0..SockBuffer]
      BY <2>1 DEF Receive, PipeTypeOK
    <3>2. QED
      BY <2>1, <3>1 DEF Receive, PipeTypeOK
  <2>2. CASE ServerExits(u) \/ Accept(u)
    BY <2>2, PipeTypeFrame DEF ServerExits, Accept
  <2>3. QED
    BY <1>4, <2>1, <2>2 DEF Server
<1>5. ASSUME NEW r \in Receivers, ServerUp(r) \/ Kill(r)
      PROVE  UNCHANGED <<send, script, pipeVars, late>>
  BY <1>5 DEF ServerUp, Kill
<1>6. CASE UNCHANGED execVars
  BY <1>6, PipeTypeFrame DEF execVars
<1>7. QED
  BY <1>1, <1>2, <1>3, <1>4, <1>5, <1>6, PipeTypeFrame DEF ExecNext, ExecStep

(***************************************************************************)
(* ExecTypeOK: the pipes hold no more than they can, no packet is received *)
(* that was not sent, and the plan stays one of whole rows.                *)
(***************************************************************************)
THEOREM ExecTypeCorrect == ExecSpec => []ExecTypeOK
<1>1. ExecInit => SlotInv
  BY DEF ExecInit, SlotInv, NoSendBetweenSteps, HasSlot
<1>2. ExecTypeOK /\ SlotInv /\ [ExecNext]_execVars => ExecTypeOK' /\ SlotInv'
  BY MainTypeStep, ServerTypeStep, PipeTypeStep, SlotStep DEF ExecTypeOK
<1>3. QED
  BY <1>1, <1>2, ExecTypeInit, PTL DEF ExecSpec

-----------------------------------------------------------------------------
(* The answers to the commands of a sender *)

AnswerInv == NoSendBetweenSteps /\ ReportsAreOwn

(***************************************************************************)
(* What AnswerInv speaks of stays as it is.                                *)
(***************************************************************************)
LEMMA AnswerFrame ==
    ASSUME AnswerInv, UNCHANGED <<mode, pc, send, stdin, answers, late>>
    PROVE  AnswerInv'
BY DEF AnswerInv, NoSendBetweenSteps, ReportsAreOwn, Sockets

(***************************************************************************)
(* A sequence that something is appended to is longer by one, whatever it  *)
(* is.                                                                     *)
(***************************************************************************)
LEMMA AppendLength ==
    ASSUME NEW S, NEW seq \in Seq(S), NEW e
    PROVE  Len(Append(seq, e)) = Len(seq) + 1
<1>1. seq \in Seq(S \cup {e}) /\ e \in S \cup {e}
  OBVIOUS
<1>2. QED
  BY <1>1, AppendProperties

(***************************************************************************)
(* Two counts that add up to nothing are nothing.                          *)
(***************************************************************************)
LEMMA SumOfNone ==
    ASSUME NEW a \in Nat, NEW b \in Nat, a + b = 0
    PROVE  a = 0 /\ b = 0
OBVIOUS

(***************************************************************************)
(* Commands, answers and waiting workers stay in balance in every step.    *)
(***************************************************************************)
LEMMA AnswerStep ==
    ASSUME ExecTypeOK, AnswerInv, [ExecNext]_execVars
    PROVE  AnswerInv'
<1> USE DEF execVars, mainVars, serverVars, pipeVars, Starting, Stopping, Over
<1>1. ASSUME NEW names, NEW rows \in [names -> Seq(Int)], Execute(rows)
      PROVE  AnswerInv'
  BY <1>1 DEF Execute, AnswerInv, NoSendBetweenSteps, ReportsAreOwn, Sockets
<1>2. ASSUME MainStep \/ StartFails \/ Interrupt
      PROVE  AnswerInv'
  <2>1. CASE Step
    BY <2>1 DEF Step, AnswerInv, NoSendBetweenSteps, ReportsAreOwn, Sockets, ExecTypeOK, PipeTypeOK
  <2>2. CASE StepDone
    BY <2>2 DEF StepDone, AnswerInv, NoSendBetweenSteps, ReportsAreOwn, Sockets, ExecTypeOK,
       PipeTypeOK
  <2>3. CASE ~Step /\ ~StepDone
    <3>1. UNCHANGED <<mode, send, stdin, answers, late>>
      BY <1>2, <2>3 DEF MainStep, OpenReceiver, StartReceiver, VerifyReceiver, OpenSender,
         PassDone, Drained, StopReceiver, CloseReceiver, CloseSender, StartFails, Interrupt
    <3>2. pc' \in {"idle", "step"} \cup Starting => pc \in {"idle", "step"} \cup Starting
      BY <1>2, <2>3 DEF MainStep, OpenReceiver, StartReceiver, VerifyReceiver, OpenSender,
         PassDone, Drained, StopReceiver, CloseReceiver, CloseSender, StartFails, Interrupt,
         MainInterrupted
    <3>3. QED
      BY <3>1, <3>2 DEF AnswerInv, NoSendBetweenSteps, ReportsAreOwn, Sockets
  <2>4. QED
    BY <2>1, <2>2, <2>3
<1>3. ASSUME NEW u \in UEs, Worker(u)
      PROVE  AnswerInv'
  <2>1. send[u] # "idle" /\ UNCHANGED <<mode, pc>>
    BY <1>3 DEF Worker, Write, ReadAnswer, TimeOut
  <2>2. NoSendBetweenSteps'
    BY <2>1 DEF AnswerInv, NoSendBetweenSteps
  <2>3. ReportsAreOwn'
    <3> SUFFICES ASSUME ~Sockets, NEW v \in UEs, v \notin late'
                 PROVE  Len(stdin'[v]) + Len(answers'[v]) = IF send'[v] = "wait" THEN 1 ELSE 0
      BY <2>1 DEF ReportsAreOwn, Sockets
    <3>1. v \notin late /\ Len(stdin[v]) + Len(answers[v]) = IF send[v] = "wait" THEN 1 ELSE 0
      BY <1>3 DEF Worker, Write, ReadAnswer, TimeOut, AnswerInv, ReportsAreOwn
    <3>2. /\ stdin[v] \in Seq(Signs) /\ Len(stdin[v]) \in Nat
          /\ answers[v] \in Seq(BOOLEAN) /\ Len(answers[v]) \in Nat
      BY LenProperties, BoundsAssumption DEF ExecTypeOK, PipeTypeOK
    <3>3. CASE Write(u)
      <4>1. CASE v # u
        BY <3>1, <3>3, <4>1 DEF Write, ExecTypeOK, PipeTypeOK
      <4>2. CASE v = u /\ ssession[u] = "open"
        <5>1. send[u] = "write" /\ send'[u] = "wait"
          BY <3>3, <4>2 DEF Write, ExecTypeOK, PipeTypeOK
        <5>2. stdin'[u] = Append(stdin[u], plan[u][at]) /\ UNCHANGED answers
          BY <3>3, <4>2 DEF Write, ExecTypeOK, PipeTypeOK, pipeVars
        <5>3. Len(stdin'[u]) = Len(stdin[u]) + 1
          BY <3>2, <4>2, <5>2, AppendLength
        <5>4. Len(stdin[u]) = 0 /\ Len(answers[u]) = 0
          <6>1. Len(stdin[u]) + Len(answers[u]) = 0
            BY <3>1, <4>2, <5>1
          <6>2. Len(stdin[u]) \in Nat /\ Len(answers[u]) \in Nat
            BY <3>2, <4>2
          <6>3. QED
            BY <6>1, <6>2, SumOfNone
        <5>5. Len(stdin'[u]) = 1 /\ Len(answers'[u]) = 0
          BY <5>2, <5>3, <5>4
        <5>6. QED
          BY <4>2, <5>1, <5>5
      <4>3. CASE v = u /\ ssession[u] # "open"
        BY <3>1, <3>3, <4>3 DEF Write, ExecTypeOK, PipeTypeOK
      <4>4. QED
        BY <4>1, <4>2, <4>3
    <3>4. CASE ReadAnswer(u)
      <4>1. answers[v] # <<>> => Len(Tail(answers[v])) = Len(answers[v]) - 1
        BY <3>2, HeadTailProperties
      <4>2. QED
        BY <3>1, <3>2, <3>4, <4>1 DEF ReadAnswer, ExecTypeOK, PipeTypeOK
    <3>5. CASE TimeOut(u)
      BY <3>1, <3>5 DEF TimeOut, ExecTypeOK, PipeTypeOK
    <3>6. QED
      BY <1>3, <3>3, <3>4, <3>5 DEF Worker
  <2>4. QED
    BY <2>2, <2>3 DEF AnswerInv
<1>4. ASSUME NEW u \in UEs, Sender(u)
      PROVE  AnswerInv'
  <2>1. CASE Connect(u)
    BY <2>1, AnswerFrame DEF Connect
  <2>2. CASE RunCommand(u)
    <3> SUFFICES ASSUME ~Sockets, NEW v \in UEs, v \notin late
                 PROVE  Len(stdin'[v]) + Len(answers'[v]) = Len(stdin[v]) + Len(answers[v])
      BY <2>2 DEF RunCommand, AnswerInv, NoSendBetweenSteps, ReportsAreOwn, Sockets
    <3>1. PICK ok \in BOOLEAN : answers' = [answers EXCEPT ![u] = Append(@, ok)]
      BY <2>2 DEF RunCommand
    <3>2. /\ stdin[v] \in Seq(Signs) /\ Len(stdin[v]) \in Nat
          /\ answers[v] \in Seq(BOOLEAN) /\ Len(answers[v]) \in Nat
      BY LenProperties, BoundsAssumption DEF ExecTypeOK, PipeTypeOK
    <3>3. Len(Append(answers[v], ok)) = Len(answers[v]) + 1
      BY <3>2, AppendProperties
    <3>4. CASE v = u
      <4>1. stdin[u] # <<>> /\ stdin'[u] = Tail(stdin[u])
        BY <2>2 DEF RunCommand, Takes, ExecTypeOK, PipeTypeOK
      <4>2. Len(stdin'[u]) = Len(stdin[u]) - 1
        BY <3>2, <3>4, <4>1, HeadTailProperties
      <4>3. answers'[u] = Append(answers[u], ok)
        BY <3>1 DEF ExecTypeOK, PipeTypeOK
      <4>4. Len(answers'[u]) = Len(answers[u]) + 1
        BY <3>3, <3>4, <4>3
      <4>5. Len(stdin[u]) \in Nat /\ Len(answers[u]) \in Nat
        BY <3>2, <3>4
      <4>6. Len(stdin'[u]) + Len(answers'[u]) = Len(stdin[u]) + Len(answers[u])
        <5>1. \A a, b \in Nat : (a - 1) + (b + 1) = a + b
          OBVIOUS
        <5>2. Len(stdin'[u]) + Len(answers'[u]) = (Len(stdin[u]) - 1) + (Len(answers[u]) + 1)
          BY <4>2, <4>4
        <5>3. QED
          BY <4>5, <5>1, <5>2
      <4>7. QED
        BY <3>4, <4>6
    <3>5. CASE v # u
      BY <2>2, <3>1, <3>5 DEF RunCommand, Takes, ExecTypeOK, PipeTypeOK
    <3>6. QED
      BY <3>4, <3>5
  <2>3. CASE SendTCP(u) \/ SendUDP(u) \/ ShellComplains(u)
    <3>1. Sockets /\ UNCHANGED <<mode, pc, send>>
      BY <2>3 DEF SendTCP, SendUDP, ShellComplains, TCP
    <3>2. QED
      BY <3>1 DEF AnswerInv, NoSendBetweenSteps, ReportsAreOwn, Sockets
  <2>4. QED
    BY <1>4, <2>1, <2>2, <2>3 DEF Sender
<1>5. ASSUME NEW u \in UEs, Server(u) \/ Accept(u)
      PROVE  AnswerInv'
  BY <1>5, AnswerFrame DEF Server, Receive, ServerExits, Accept
<1>6. ASSUME NEW r \in Receivers, ServerUp(r) \/ Kill(r)
      PROVE  AnswerInv'
  BY <1>6, AnswerFrame DEF ServerUp, Kill
<1>7. CASE UNCHANGED execVars
  BY <1>7, AnswerFrame
<1>8. QED
  BY <1>1, <1>2, <1>3, <1>4, <1>5, <1>6, <1>7 DEF ExecNext, ExecStep

(***************************************************************************)
(* ReportsAreOwn: until a send of a UE times out, every exit code it reads *)
(* is that of the command it has just written.                             *)
(***************************************************************************)
THEOREM AnswersAreOwn == ExecSpec => []ReportsAreOwn
<1>1. ExecInit => AnswerInv
  BY DEF ExecInit, AnswerInv, NoSendBetweenSteps, ReportsAreOwn
<1>2. ExecTypeOK /\ AnswerInv /\ [ExecNext]_execVars => AnswerInv'
  BY AnswerStep
<1>3. AnswerInv => ReportsAreOwn
  BY DEF AnswerInv
<1>4. QED
  BY <1>1, <1>2, <1>3, ExecTypeCorrect, PTL DEF ExecSpec

-----------------------------------------------------------------------------
(* The shutdown *)

\* Only receivers of UEs are ever started; a confirmed one has its shell, alive unless it was cut.
TrustedReceivers ==
    /\ \A r \in trusted : \E u \in UEs : r = ReceiverOf(u)
    /\ \A r \in Receivers : confirmed[r] => \/ rsession[r] = "open"
                                            \/ rsession[r] = "dead" /\ r \in cut

\* A server once confirmed is believed to run, or does not, or its kill is on its way.
NoneForgotten == \A r \in trusted : confirmed[r] \/ server[r] = "off" \/ r \in dying \cup cut

\* Until the plan begins, a confirmed receiver is not given up.
ConfirmedWhileStarting ==
    pc \in {"idle"} \cup Starting => \A r \in trusted : confirmed[r]

\* What the main thread knows of the receiver at hand.
AtHand ==
    /\ pc \in {"start receiver", "verify receiver", "open sender"} => current \in UEs
    /\ pc = "start receiver" => rsession[ReceiverOf(current)] # "none"
    /\ pc = "verify receiver" => /\ ~confirmed[ReceiverOf(current)]
                                 /\ rsession[ReceiverOf(current)] = "open"
    /\ pc \in {"close receiver", "close sender"} => /\ current \in UEs
                                                     /\ ~confirmed[ReceiverOf(current)]
    /\ pc = "close sender" => rsession[ReceiverOf(current)] = "none"

\* The UEs the finally block is done with have no shell left.
ClosedSoFar ==
    /\ pc \in Stopping \cup {"ended"} =>
          \A u \in UEs \ todo : ssession[u] = "none" /\ rsession[ReceiverOf(u)] = "none"
    /\ pc = "ended" => todo = {}

StopInv ==
    TrustedReceivers /\ NoneForgotten /\ ConfirmedWhileStarting /\ AtHand /\ ClosedSoFar

stopVars == <<mode, pc, current, todo, rsession, ssession, confirmed, server, dying, trusted, cut>>

(***************************************************************************)
(* What StopInv speaks of stays as it is.                                  *)
(***************************************************************************)
LEMMA StopFrame ==
    ASSUME StopInv, UNCHANGED stopVars
    PROVE  StopInv'
BY DEF StopInv, stopVars, TrustedReceivers, NoneForgotten, ConfirmedWhileStarting, AtHand,
   ClosedSoFar, ReceiverOf

(***************************************************************************)
(* Starting a receiver: only one that is not confirmed is started, so no   *)
(* server that was confirmed before is lost sight of.                      *)
(***************************************************************************)
LEMMA StartingStep ==
    ASSUME ExecTypeOK, StopInv,
           OpenReceiver \/ StartReceiver \/ VerifyReceiver \/ OpenSender
    PROVE  StopInv'
<1> USE DEF ExecTypeOK, ServerTypeOK, StopInv, Starting, Stopping
<1>1. \A u \in UEs : ReceiverOf(u) \in Receivers
  BY DEF ReceiverOf, Receivers
<1>2. mode' = mode /\ \A u : ReceiverOf(u)' = ReceiverOf(u)
  BY DEF OpenReceiver, StartReceiver, VerifyReceiver, OpenSender, ReceiverOf
<1>3. todo \subseteq UEs
  BY DEF MainTypeOK
<1>4. CASE OpenReceiver
  <2>1. PICK u \in todo : /\ current' = u
                         /\ \/ rsession[ReceiverOf(u)] # "none" /\ UNCHANGED rsession
                            \/ /\ rsession[ReceiverOf(u)] = "none"
                               /\ \E s \in {"open", "dead"} :
                                     rsession' = [rsession EXCEPT ![ReceiverOf(u)] = s]
    BY <1>4 DEF OpenReceiver
  <2>2. u \in UEs /\ ReceiverOf(u) \in Receivers /\ rsession'[ReceiverOf(u)] # "none"
    BY <1>1, <1>3, <2>1
  <2>3. UNCHANGED <<confirmed, trusted, server, dying, cut>> /\ pc = "open receiver"
        /\ pc' = "start receiver"
    BY <1>4 DEF OpenReceiver, serverVars
  <2>4. \A r \in Receivers : confirmed[r] => \/ rsession'[r] = "open"
                                             \/ rsession'[r] = "dead" /\ r \in cut
    BY <2>1, <2>2 DEF TrustedReceivers
  <2>5. TrustedReceivers'
    BY <1>2, <2>3, <2>4 DEF TrustedReceivers, Receivers
  <2>6. NoneForgotten' /\ ConfirmedWhileStarting' /\ ClosedSoFar'
    BY <2>3 DEF NoneForgotten, ConfirmedWhileStarting, ClosedSoFar
  <2>7. AtHand'
    BY <1>2, <2>1, <2>2, <2>3 DEF AtHand
  <2>8. QED
    BY <2>5, <2>6, <2>7
<1>5. CASE StartReceiver
  <2> DEFINE r == ReceiverOf(current)
  <2>1. pc = "start receiver" /\ current \in UEs /\ r \in Receivers /\ rsession[r] # "none"
    BY <1>1, <1>5 DEF StartReceiver, AtHand
  <2>2. UNCHANGED <<current, todo, rsession, ssession, confirmed, dying, trusted, cut>>
    BY <1>5 DEF StartReceiver
  <2>3. \/ pc' \in {"open sender", "failed"} /\ UNCHANGED server
        \/ /\ pc' = "verify receiver" /\ ~confirmed[r] /\ rsession[r] # "dead"
           /\ server' = [server EXCEPT ![r] = IF @ = "off" THEN "starting" ELSE @]
    BY <1>5 DEF StartReceiver
  <2>4. \A s \in trusted : confirmed[s]
    BY <2>1 DEF ConfirmedWhileStarting
  <2>5. TrustedReceivers' /\ NoneForgotten' /\ ConfirmedWhileStarting'
    BY <1>2, <2>2, <2>4 DEF TrustedReceivers, NoneForgotten, ConfirmedWhileStarting, Receivers
  <2>6. AtHand'
    BY <1>2, <2>1, <2>2, <2>3 DEF AtHand
  <2>7. ClosedSoFar'
    BY <2>3 DEF ClosedSoFar
  <2>8. QED
    BY <2>5, <2>6, <2>7
<1>6. CASE VerifyReceiver
  <2> DEFINE r == ReceiverOf(current)
  <2>1. /\ pc = "verify receiver" /\ current \in UEs /\ r \in Receivers
        /\ rsession[r] = "open" /\ ~confirmed[r]
    BY <1>1, <1>6 DEF VerifyReceiver, AtHand
  <2>2. /\ UNCHANGED <<current, todo, rsession, ssession, server, dying, cut>>
        /\ pc' = "open sender"
    BY <1>6 DEF VerifyReceiver
  <2>3. PICK b \in BOOLEAN : confirmed' = [confirmed EXCEPT ![r] = b]
    BY <1>6 DEF VerifyReceiver
  <2>4. trusted' = IF confirmed'[r] THEN trusted \cup {r} ELSE trusted
    BY <1>6 DEF VerifyReceiver
  <2>5. \A s \in trusted : confirmed[s] /\ s # r /\ s \in Receivers
    BY <2>1 DEF ConfirmedWhileStarting
  <2>6. \A s \in trusted' : confirmed'[s]
    BY <2>1, <2>3, <2>4, <2>5
  <2>7. TrustedReceivers'
    <3>1. \A s \in trusted' : \E u \in UEs : s = ReceiverOf(u)
      BY <2>1, <2>4 DEF TrustedReceivers
    <3>2. \A s \in Receivers : confirmed'[s] => \/ rsession'[s] = "open"
                                                \/ rsession'[s] = "dead" /\ s \in cut'
      <4>1. confirmed'[r] => rsession'[r] = "open"
        BY <2>1, <2>2
      <4>2. \A s \in Receivers : s # r => confirmed'[s] = confirmed[s]
        BY <2>3
      <4>3. UNCHANGED <<rsession, cut>>
        BY <2>2
      <4>4. TAKE s \in Receivers
      <4>5. CASE s = r
        BY <4>1, <4>5
      <4>6. CASE s # r
        <5>1. confirmed[s] => rsession[s] = "open" \/ (rsession[s] = "dead" /\ s \in cut)
          BY DEF TrustedReceivers
        <5>2. QED
          BY <4>2, <4>3, <4>6, <5>1
      <4>7. QED
        BY <4>5, <4>6
    <3>3. QED
      BY <1>2, <3>1, <3>2 DEF TrustedReceivers, Receivers
  <2>8. NoneForgotten' /\ ConfirmedWhileStarting'
    BY <2>6 DEF NoneForgotten, ConfirmedWhileStarting
  <2>9. AtHand' /\ ClosedSoFar'
    BY <2>1, <2>2 DEF AtHand, ClosedSoFar
  <2>10. QED
    BY <2>7, <2>8, <2>9
<1>7. CASE OpenSender
  <2>1. pc = "open sender" /\ pc' \in {"step", "open receiver"}
    BY <1>7 DEF OpenSender
  <2>2. UNCHANGED <<current, rsession, confirmed, server, dying, trusted, cut>>
    BY <1>7 DEF OpenSender, serverVars
  <2>3. TrustedReceivers' /\ NoneForgotten' /\ ConfirmedWhileStarting'
    BY <1>2, <2>1, <2>2 DEF TrustedReceivers, NoneForgotten, ConfirmedWhileStarting, Receivers
  <2>4. AtHand' /\ ClosedSoFar'
    BY <2>1 DEF AtHand, ClosedSoFar
  <2>5. QED
    BY <2>3, <2>4
<1>8. QED
  BY <1>4, <1>5, <1>6, <1>7

(***************************************************************************)
(* Stopping: a receiver is given up only with its kill, and its shell is   *)
(* closed before the next UE.                                              *)
(***************************************************************************)
LEMMA StoppingStep ==
    ASSUME ExecTypeOK, StopInv, StopReceiver \/ CloseReceiver \/ CloseSender
    PROVE  StopInv'
<1> USE DEF ExecTypeOK, ServerTypeOK, StopInv, Starting, Stopping
<1>1. \A u \in UEs : ReceiverOf(u) \in Receivers
  BY DEF ReceiverOf, Receivers
<1>2. mode' = mode /\ \A u : ReceiverOf(u)' = ReceiverOf(u)
  BY DEF StopReceiver, CloseReceiver, CloseSender, ReceiverOf
<1>3. todo \subseteq UEs
  BY DEF MainTypeOK
<1>4. CASE StopReceiver
  <2>1. PICK u \in todo :
          /\ current' = u
          /\ \/ /\ confirmed[ReceiverOf(u)]
                /\ dying' = IF rsession[ReceiverOf(u)] = "open" THEN dying \cup {ReceiverOf(u)}
                            ELSE dying
                /\ confirmed' = [confirmed EXCEPT ![ReceiverOf(u)] = FALSE]
             \/ /\ ~(confirmed[ReceiverOf(u)] /\ rsession[ReceiverOf(u)] # "none")
                /\ UNCHANGED <<dying, confirmed>>
    BY <1>4 DEF StopReceiver
  <2> DEFINE r == ReceiverOf(u)
  <2>2. u \in UEs /\ r \in Receivers /\ (confirmed[r] => rsession[r] = "open" \/ r \in cut)
    BY <1>1, <1>3 DEF TrustedReceivers
  <2>3. /\ UNCHANGED <<todo, rsession, ssession, server, trusted, cut>>
        /\ pc = "stop receiver" /\ pc' = "close receiver"
    BY <1>4 DEF StopReceiver
  <2>4. ~confirmed'[r] /\ \A s \in Receivers : confirmed'[s] => confirmed[s]
    <3>1. confirmed[r] => rsession[r] # "none"
      BY <2>2 DEF TrustedReceivers
    <3>2. QED
      BY <2>1, <2>2, <3>1
  <2>5. TrustedReceivers'
    BY <1>2, <2>3, <2>4 DEF TrustedReceivers, Receivers
  <2>6. \A s \in trusted : confirmed[s] => confirmed'[s] \/ s \in dying' \cup cut
    BY <2>1, <2>2
  <2>7. dying \subseteq dying'
    BY <2>1
  <2>8. NoneForgotten'
    BY <2>3, <2>6, <2>7 DEF NoneForgotten
  <2>9. ConfirmedWhileStarting' /\ AtHand'
    BY <1>2, <2>1, <2>2, <2>3, <2>4 DEF ConfirmedWhileStarting, AtHand
  <2>10. ClosedSoFar'
    BY <1>2, <2>3 DEF ClosedSoFar
  <2>11. QED
    BY <2>5, <2>8, <2>9, <2>10
<1>5. CASE CloseReceiver
  <2> DEFINE r == ReceiverOf(current)
  <2>1. /\ pc = "close receiver" /\ pc' = "close sender" /\ current \in UEs
        /\ r \in Receivers /\ ~confirmed[r]
    BY <1>1, <1>5 DEF CloseReceiver, AtHand
  <2>2. /\ UNCHANGED <<current, todo, ssession, confirmed, server, trusted>>
        /\ rsession' = [rsession EXCEPT ![r] = "none"]
    BY <1>5 DEF CloseReceiver
  <2>3. dying \cup cut \subseteq dying' \cup cut'
    BY <1>5 DEF CloseReceiver
  <2>4. TrustedReceivers'
    <3>1. cut \subseteq cut'
      BY <1>5 DEF CloseReceiver
    <3>2. \A s \in Receivers : confirmed[s] => rsession'[s] = rsession[s]
      BY <2>1, <2>2
    <3>3. QED
      BY <1>2, <2>2, <3>1, <3>2 DEF TrustedReceivers, Receivers
  <2>5. NoneForgotten'
    BY <2>2, <2>3 DEF NoneForgotten
  <2>6. ConfirmedWhileStarting' /\ AtHand'
    BY <1>2, <2>1, <2>2 DEF ConfirmedWhileStarting, AtHand
  <2>7. ClosedSoFar'
    BY <1>1, <1>2, <2>1, <2>2 DEF ClosedSoFar
  <2>8. QED
    BY <2>4, <2>5, <2>6, <2>7
<1>6. CASE CloseSender
  <2>1. /\ pc = "close sender" /\ pc' = IF todo' = {} THEN "ended" ELSE "stop receiver"
        /\ current \in UEs /\ rsession[ReceiverOf(current)] = "none"
    BY <1>6 DEF CloseSender, AtHand
  <2>2. /\ UNCHANGED <<current, rsession, confirmed, server, dying, trusted, cut>>
        /\ ssession' = [ssession EXCEPT ![current] = "none"]
        /\ todo' = todo \ {current}
    BY <1>6 DEF CloseSender, serverVars
  <2>3. TrustedReceivers' /\ NoneForgotten'
    BY <1>2, <2>2 DEF TrustedReceivers, NoneForgotten, Receivers
  <2>4. ConfirmedWhileStarting' /\ AtHand'
    BY <2>1 DEF ConfirmedWhileStarting, AtHand
  <2>5. ClosedSoFar'
    BY <1>2, <2>1, <2>2 DEF ClosedSoFar
  <2>6. QED
    BY <2>3, <2>4, <2>5
<1>7. QED
  BY <1>4, <1>5, <1>6

(***************************************************************************)
(* Ctrl+C: what dies of it is cut, and what its shell was to kill with it. *)
(***************************************************************************)
LEMMA InterruptStep ==
    ASSUME ExecTypeOK, StopInv, Interrupt
    PROVE  StopInv'
<1>1. PICK rs \in SUBSET OpenReceivers, us \in SUBSET OpenSenders : ShellsInterrupted(rs, us)
  BY DEF Interrupt
<1>2. UNCHANGED <<mode, current, confirmed, server, trusted>>
  BY DEF Interrupt
<1>3. \A u : ReceiverOf(u)' = ReceiverOf(u)
  BY <1>2 DEF ReceiverOf
<1>4. \/ pc' \in {"failed", "drain", "aborted"}
      \/ pc' = "stop receiver" /\ todo' = UEs
  BY DEF Interrupt, MainInterrupted
<1>5. /\ rsession' = [r \in Receivers |-> IF r \in rs THEN "dead" ELSE rsession[r]]
      /\ dying' = dying \ rs /\ cut' = cut \cup rs
  BY <1>1 DEF ShellsInterrupted
<1>6. TrustedReceivers'
  BY <1>2, <1>3, <1>5 DEF StopInv, TrustedReceivers, Receivers
<1>7. NoneForgotten'
  BY <1>2, <1>5 DEF StopInv, NoneForgotten
<1>8. ConfirmedWhileStarting' /\ AtHand' /\ ClosedSoFar'
  BY <1>4 DEF ConfirmedWhileStarting, AtHand, ClosedSoFar, Starting, Stopping
<1>9. QED
  BY <1>6, <1>7, <1>8 DEF StopInv

(***************************************************************************)
(* Between the start and the stop nothing is given up; what the servers    *)
(* and shells do can only turn a server off that was confirmed.            *)
(***************************************************************************)
LEMMA StopStep ==
    ASSUME ExecTypeOK, StopInv, [ExecNext]_execVars
    PROVE  StopInv'
<1> USE DEF execVars, mainVars, serverVars, pipeVars, stopVars
<1>1. ASSUME NEW names, NEW rows \in [names -> Seq(Int)], Execute(rows)
      PROVE  StopInv'
  <2>1. pc = "idle" /\ pc' \in {"open receiver", "failed"}
    BY <1>1 DEF Execute
  <2>2. UNCHANGED <<mode, current, todo, rsession, ssession, serverVars>>
    BY <1>1 DEF Execute
  <2>3. QED
    BY <2>1, <2>2 DEF StopInv, TrustedReceivers, NoneForgotten, ConfirmedWhileStarting, AtHand,
       ClosedSoFar, ReceiverOf, Starting, Stopping, Receivers
<1>2. CASE MainStep \/ StartFails \/ Interrupt
  <2>1. CASE OpenReceiver \/ StartReceiver \/ VerifyReceiver \/ OpenSender
    BY <2>1, StartingStep
  <2>2. CASE StopReceiver \/ CloseReceiver \/ CloseSender
    BY <2>2, StoppingStep
  <2>3. CASE Step \/ StepDone \/ PassDone \/ Drained \/ StartFails
    <3>1. UNCHANGED <<mode, current, rsession, ssession, serverVars>>
      BY <2>3 DEF Step, StepDone, PassDone, Drained, StartFails
    <3>2. \/ pc' \in {"step", "sending", "failed"}
          \/ pc' = "stop receiver" /\ todo' = UEs
      BY <2>3 DEF Step, StepDone, PassDone, Drained, StartFails
    <3>3. QED
      BY <3>1, <3>2 DEF StopInv, TrustedReceivers, NoneForgotten, ConfirmedWhileStarting, AtHand,
         ClosedSoFar, ReceiverOf, Starting, Stopping, Receivers
  <2>4. CASE Interrupt
    BY <2>4, InterruptStep
  <2>5. QED
    BY <1>2, <2>1, <2>2, <2>3, <2>4 DEF MainStep
<1>3. ASSUME NEW u \in UEs, Worker(u) \/ Sender(u)
      PROVE  StopInv'
  <2>1. UNCHANGED stopVars
    BY <1>3 DEF Worker, Write, ReadAnswer, TimeOut, Sender, Connect, SendTCP, SendUDP,
       ShellComplains, RunCommand
  <2>2. QED
    BY <2>1, StopFrame
<1>4. ASSUME NEW u \in UEs, Receive(u) \/ Accept(u)
      PROVE  StopInv'
  BY <1>4, StopFrame DEF Receive, Accept
<1>5. ASSUME UNCHANGED <<mode, pc, current, todo, rsession, ssession, confirmed, trusted, cut>>,
             \A r \in trusted : server[r] = "off" => server'[r] = "off",
             \A r \in trusted : r \in dying => r \in dying' \/ server'[r] = "off"
      PROVE  StopInv'
  BY <1>5 DEF StopInv, TrustedReceivers, NoneForgotten, ConfirmedWhileStarting, AtHand,
     ClosedSoFar, ReceiverOf, Receivers
<1>6. ASSUME NEW u \in UEs, ServerExits(u)
      PROVE  StopInv'
  BY <1>5, <1>6 DEF ServerExits, ExecTypeOK, ServerTypeOK
<1>7. ASSUME NEW r \in Receivers, ServerUp(r) \/ Kill(r)
      PROVE  StopInv'
  BY <1>5, <1>7 DEF ServerUp, Kill, ExecTypeOK, ServerTypeOK
<1>8. CASE UNCHANGED execVars
  BY <1>8, StopFrame
<1>9. QED
  BY <1>1, <1>2, <1>3, <1>4, <1>6, <1>7, <1>8 DEF ExecNext, ExecStep, Server

(***************************************************************************)
(* CleanShutdown: at the end of the finally block every shell is closed,   *)
(* and no server that was confirmed runs on, unless its shell was          *)
(* terminated or had died of Ctrl+C.                                       *)
(***************************************************************************)
THEOREM ShutdownIsClean == ExecSpec => []CleanShutdown
<1>1. ExecInit => StopInv
  BY DEF ExecInit, StopInv, TrustedReceivers, NoneForgotten, ConfirmedWhileStarting, AtHand,
     ClosedSoFar, Starting, Stopping
<1>2. ExecTypeOK /\ StopInv /\ [ExecNext]_execVars => StopInv'
  BY StopStep
<1>3. ExecTypeOK /\ StopInv => CleanShutdown
  BY DEF ExecTypeOK, ServerTypeOK, StopInv, TrustedReceivers, NoneForgotten, ClosedSoFar,
     CleanShutdown
<1>4. QED
  BY <1>1, <1>2, <1>3, ExecTypeCorrect, PTL DEF ExecSpec

=============================================================================
