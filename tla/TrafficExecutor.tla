--------------------------- MODULE TrafficExecutor ---------------------------
(***************************************************************************)
(* The traffic executor (traffic_executor.py) and the handlers it drives:  *)
(* a shell per sender and receiver (traffic_handler.py), and in it the     *)
(* socket scripts (pysocket_handler.py, pysocket_sender.py,                *)
(* pysocket_receiver.py), netcat (netcat_handler.py) or ping               *)
(* (ping_handler.py).  Of a size only the sign matters here: bytes to      *)
(* send, nothing, or what the scripts complain of.  A pipe or socket holds *)
(* a bounded number of lines or packets, and whoever writes to a full one  *)
(* waits.                                                                  *)
(***************************************************************************)
EXTENDS Integers, Sequences

CONSTANTS
    UEs,            \* the user equipments of the parameters
    Core,           \* the 5G core
    Modes,          \* the handlers and parameters a run may use
    PipeLines,      \* bound: the lines a pipe holds
    SockBuffer,     \* bound: the packets a TCP connection holds
    MaxInterrupts,  \* bound: how often the user presses Ctrl+C
    Together        \* bound: Ctrl+C kills all the shells or none

ASSUME ModesAssumption ==
    Modes \subseteq [handler : {"pysocket", "netcat", "ping"}, direction : {"UL", "DL", "BI"},
                     udp : BOOLEAN, loop : BOOLEAN]
ASSUME BoundsAssumption == /\ PipeLines \in Nat /\ SockBuffer \in Nat
                           /\ MaxInterrupts \in Nat /\ Core \notin UEs
                           /\ Together \in BOOLEAN

VARIABLES
    mode,        \* the handler classes, the direction, use_udp and loop
    plan,        \* traffic_plan: the sign of the size of each slot
    pc,          \* where the main thread is
    current,     \* the UE whose handlers are being started or stopped
    todo,        \* the UEs whose handlers are still to be started or stopped
    at,          \* the step of the plan
    send,        \* the worker that runs send_traffic of a UE
    rsession,    \* the shell of a receiver
    ssession,    \* the shell of a sender
    confirmed,   \* _server_running of a receiver
    server,      \* the server process of a receiver
    dying,       \* the receivers whose shell has a pkill to run
    script,      \* the sender script of a UE
    stdin,       \* the lines a sender's shell or script has not read
    unread,      \* the lines it has printed that nobody reads
    answers,     \* the EXIT_CODE lines that wait to be read
    inflight,    \* the packets in the connection of a UE
    accepted,    \* the UEs whose connection a server has accepted
    late,        \* the UEs with a send that ended without its answer (history)
    trusted,     \* the receivers that were confirmed at some time (history)
    cut,         \* the receivers whose shell was terminated or died of Ctrl+C (history)
    interrupts   \* how often Ctrl+C was pressed (bounded)

mainVars   == <<mode, plan, pc, current, todo, at, interrupts>>
serverVars == <<confirmed, server, dying, accepted, trusted, cut>>
pipeVars   == <<stdin, unread, answers, inflight>>
execVars   == <<mainVars, send, rsession, ssession, serverVars, script, pipeVars, late>>

Receivers == UEs \cup {Core}

\* Mutant of ReceiverOf: the receiver at the core is taken whatever the direction.
ReceiverAtCore(u) == Core

ReceiverOf(u) == IF mode.direction = "UL" THEN Core ELSE u
Sockets == mode.handler = "pysocket"
TCP     == Sockets /\ ~mode.udp

Signs == {-1, 0, 1}
Sign(x) == IF x < 0 THEN -1 ELSE IF x > 0 THEN 1 ELSE 0

Starting == {"open receiver", "start receiver", "verify receiver", "open sender"}
Stopping == {"stop receiver", "close receiver", "close sender"}
Over     == {"failed", "ended", "aborted"}

MainTypeOK ==
    /\ mode \in Modes
    /\ plan \in [UEs -> Seq(Signs)]
    /\ pc \in {"idle", "step", "sending", "drain"} \cup Starting \cup Stopping \cup Over
    /\ current \in UEs \cup {Core}
    /\ todo \subseteq UEs
    /\ at \in Nat \ {0}
    /\ interrupts \in 0..MaxInterrupts

ServerTypeOK ==
    /\ rsession \in [Receivers -> {"none", "open", "dead"}]
    /\ ssession \in [UEs -> {"none", "open", "dead"}]
    /\ confirmed \in [Receivers -> BOOLEAN]
    /\ server \in [Receivers -> {"off", "starting", "up"}]
    /\ dying \subseteq Receivers
    /\ accepted \subseteq UEs
    /\ trusted \subseteq Receivers
    /\ cut \subseteq Receivers

PipeTypeOK ==
    /\ send \in [UEs -> {"idle", "write", "wait", "done"}]
    /\ script \in [UEs -> {"none", "connecting", "ready", "gone"}]
    /\ stdin \in [UEs -> Seq(Signs)] /\ \A u \in UEs : Len(stdin[u]) <= PipeLines
    /\ unread \in [UEs -> 0..PipeLines]
    /\ answers \in [UEs -> Seq(BOOLEAN)]
    /\ inflight \in [UEs -> 0..SockBuffer]
    /\ late \subseteq UEs

ExecTypeOK == MainTypeOK /\ ServerTypeOK /\ PipeTypeOK

ExecInit ==
    /\ mode \in Modes
    /\ plan = [u \in UEs |-> <<>>]
    /\ pc = "idle"
    /\ current = Core
    /\ todo = UEs
    /\ at = 1
    /\ send = [u \in UEs |-> "idle"]
    /\ rsession = [r \in Receivers |-> "none"]
    /\ ssession = [u \in UEs |-> "none"]
    /\ confirmed = [r \in Receivers |-> FALSE]
    /\ server = [r \in Receivers |-> "off"]
    /\ dying = {}
    /\ script = [u \in UEs |-> "none"]
    /\ stdin = [u \in UEs |-> <<>>]
    /\ unread = [u \in UEs |-> 0]
    /\ answers = [u \in UEs |-> <<>>]
    /\ inflight = [u \in UEs |-> 0]
    /\ accepted = {} /\ late = {} /\ trusted = {} /\ cut = {}
    /\ interrupts = 0

-----------------------------------------------------------------------------
(* execute: the checks, then the handlers of one UE after the other, before *)
(* the try block that would stop them.                                      *)

\* A row as a step sees it, padded with zeros.
Padded(row, n) == [k \in 1..n |-> IF k \in DOMAIN row THEN Sign(row[k]) ELSE 0]

Longest(rows, n) ==
    /\ \A u \in UEs : Len(rows[u]) <= n
    /\ \E u \in UEs : Len(rows[u]) = n

\* Mutant of Execute: the UEs of the plan are not compared with those of the parameters.
ExecuteUnchecked(rows) ==
    /\ pc = "idle"
    /\ pc' = "open receiver"
    /\ \E n \in {Len(rows[u]) : u \in DOMAIN rows} : plan' = [u \in DOMAIN rows |-> Padded(rows[u], n)]
    /\ UNCHANGED <<mode, current, todo, at, interrupts, send, rsession, ssession, serverVars,
                   script, pipeVars, late>>

Execute(rows) ==
    /\ pc = "idle"
    /\ IF mode.direction = "BI" \/ DOMAIN rows # UEs
       THEN pc' = "failed" /\ UNCHANGED plan
       ELSE /\ pc' = "open receiver"
            /\ \E n \in {Len(rows[u]) : u \in UEs} :
                  Longest(rows, n) /\ plan' = [u \in UEs |-> Padded(rows[u], n)]
    /\ UNCHANGED <<mode, current, todo, at, interrupts, send, rsession, ssession, serverVars,
                   script, pipeVars, late>>

(***************************************************************************)
(* start_session: no compose file, or a shell that is dead when it is      *)
(* written to, raises and leaves everything that runs as it is.  A shell   *)
(* that died may still take the first line.                                *)
(***************************************************************************)
StartFails ==
    /\ pc \in {"open receiver", "open sender"}
    /\ pc' = "failed"
    /\ UNCHANGED <<mode, plan, current, todo, at, interrupts, send, rsession, ssession,
                   serverVars, script, pipeVars, late>>

\* The UEs are taken in the order of the parameters, which may be any order.
OpenReceiver ==
    /\ pc = "open receiver"
    /\ \E u \in todo :
         /\ current' = u
         /\ IF rsession[ReceiverOf(u)] # "none" THEN UNCHANGED rsession
            ELSE \E s \in {"open", "dead"} :
                   rsession' = [rsession EXCEPT ![ReceiverOf(u)] = s]
    /\ pc' = "start receiver"
    /\ UNCHANGED <<mode, plan, todo, at, interrupts, send, ssession, serverVars, script,
                   pipeVars, late>>

\* A receiver that several UEs share is started again if it was not confirmed.
StartReceiver ==
    /\ pc = "start receiver"
    /\ LET r == ReceiverOf(current)
       IN  IF mode.handler = "ping" \/ confirmed[r]
           THEN pc' = "open sender" /\ UNCHANGED server
           ELSE IF rsession[r] = "dead"
           THEN pc' = "failed" /\ UNCHANGED server
           ELSE /\ pc' = "verify receiver"
                /\ server' = [server EXCEPT ![r] = IF @ = "off" THEN "starting" ELSE @]
    /\ UNCHANGED <<mode, plan, current, todo, at, interrupts, send, rsession, ssession, confirmed,
                   dying, accepted, trusted, cut, script, pipeVars, late>>

(***************************************************************************)
(* The socket receiver believes its flag only when it sees the port, and   *)
(* goes on without it if it does not; netcat is assumed to be running.     *)
(***************************************************************************)
VerifyReceiver ==
    /\ pc = "verify receiver"
    /\ LET r == ReceiverOf(current)
       IN  \E seen \in BOOLEAN :
             /\ seen => server[r] = "up"
             /\ confirmed' = [confirmed EXCEPT ![r] = seen \/ ~Sockets]
             /\ trusted' = IF confirmed'[r] THEN trusted \cup {r} ELSE trusted
    /\ pc' = "open sender"
    /\ UNCHANGED <<mode, plan, current, todo, at, interrupts, send, rsession, ssession, server,
                   dying, accepted, cut, script, pipeVars, late>>

\* The socket sender also writes the command that starts its script.
OpenSender ==
    /\ pc = "open sender"
    /\ \E s \in IF Sockets THEN {"open"} ELSE {"open", "dead"} :
         ssession' = [ssession EXCEPT ![current] = s]
    /\ script' = IF Sockets THEN [script EXCEPT ![current] = "connecting"] ELSE script
    /\ todo' = todo \ {current}
    /\ pc' = IF todo' = {} THEN "step" ELSE "open receiver"
    /\ UNCHANGED <<mode, plan, current, at, interrupts, send, rsession, serverVars, pipeVars, late>>

-----------------------------------------------------------------------------
(* The steps of the plan *)

\* send_traffic of a slot without bytes returns at once, except for a ping.
Step ==
    /\ pc = "step"
    /\ \A u \in UEs : at <= Len(plan[u])
    /\ send' = [u \in UEs |->
                   IF plan[u][at] = 0 /\ mode.handler # "ping" THEN "done" ELSE "write"]
    /\ pc' = "sending"
    /\ UNCHANGED <<mode, plan, current, todo, at, interrupts, rsession, ssession, serverVars,
                   script, pipeVars, late>>

\* What a sender returned is not looked at.
StepDone ==
    /\ pc = "sending"
    /\ \A u \in UEs : send[u] = "done"
    /\ send' = [u \in UEs |-> "idle"]
    /\ at' = at + 1
    /\ pc' = "step"
    /\ UNCHANGED <<mode, plan, current, todo, interrupts, rsession, ssession, serverVars,
                   script, pipeVars, late>>

PassDone ==
    /\ pc = "step"
    /\ \E u \in UEs : at > Len(plan[u])
    /\ IF mode.loop THEN at' = 1 /\ UNCHANGED <<pc, todo>>
       ELSE pc' = "stop receiver" /\ todo' = UEs /\ UNCHANGED at
    /\ UNCHANGED <<mode, plan, current, interrupts, send, rsession, ssession, serverVars, script,
                   pipeVars, late>>

\* Mutant of Write: no sender waits for the exit code of its command.
WriteAndGoOn(u) ==
    /\ send[u] = "write"
    /\ send' = [send EXCEPT ![u] = "done"]
    /\ IF ssession[u] = "open"
       THEN Len(stdin[u]) < PipeLines /\ stdin' = [stdin EXCEPT ![u] = Append(@, plan[u][at])]
       ELSE UNCHANGED stdin
    /\ UNCHANGED <<mainVars, rsession, ssession, serverVars, script, unread, answers, inflight,
                   late>>

(***************************************************************************)
(* send_traffic.  Writing to a full pipe waits; writing to a dead or       *)
(* closed shell is an exception, which the sender turns into False.        *)
(***************************************************************************)
Write(u) ==
    /\ send[u] = "write"
    /\ IF ssession[u] = "open"
       THEN /\ Len(stdin[u]) < PipeLines
            /\ stdin' = [stdin EXCEPT ![u] = Append(@, plan[u][at])]
            /\ send' = [send EXCEPT ![u] = IF Sockets THEN "done" ELSE "wait"]
       ELSE send' = [send EXCEPT ![u] = "done"] /\ UNCHANGED stdin
    /\ UNCHANGED <<mainVars, rsession, ssession, serverVars, script, unread, answers, inflight,
                   late>>

\* The first EXIT_CODE line is taken for the answer to the command just sent.
ReadAnswer(u) ==
    /\ send[u] = "wait"
    /\ answers[u] # <<>>
    /\ answers' = [answers EXCEPT ![u] = Tail(@)]
    /\ send' = [send EXCEPT ![u] = "done"]
    /\ UNCHANGED <<mainVars, rsession, ssession, serverVars, script, stdin, unread, inflight,
                   late>>

\* The time is up, or the shell is found dead.
TimeOut(u) ==
    /\ send[u] = "wait"
    /\ send' = [send EXCEPT ![u] = "done"]
    /\ late' = late \cup {u}
    /\ UNCHANGED <<mainVars, rsession, ssession, serverVars, script, pipeVars>>

-----------------------------------------------------------------------------
(* The other side of the pipes *)

ServerUp(r) ==
    /\ server[r] = "starting"
    /\ \E s \in {"up", "off"} : server' = [server EXCEPT ![r] = s]
    /\ UNCHANGED <<mainVars, send, rsession, ssession, confirmed, dying, accepted, trusted, cut,
                   script, pipeVars, late>>

\* A sender script that finds no server ends with a traceback.
Connect(u) ==
    /\ script[u] = "connecting"
    /\ script' = [script EXCEPT ![u] =
                     IF mode.udp \/ server[ReceiverOf(u)] = "up" THEN "ready" ELSE "gone"]
    /\ UNCHANGED <<mainVars, send, rsession, ssession, serverVars, pipeVars, late>>

\* The socket receiver accepts one connection, whoever else may be waiting.
Accept(u) ==
    /\ TCP /\ script[u] = "ready" /\ server[ReceiverOf(u)] = "up"
    /\ \A v \in accepted : ReceiverOf(v) # ReceiverOf(u)
    /\ accepted' = accepted \cup {u}
    /\ UNCHANGED <<mainVars, send, rsession, ssession, confirmed, server, dying, trusted, cut,
                   script, pipeVars, late>>

Receive(u) ==
    /\ u \in accepted /\ server[ReceiverOf(u)] = "up" /\ inflight[u] > 0
    /\ inflight' = [inflight EXCEPT ![u] = @ - 1]
    /\ UNCHANGED <<mainVars, send, rsession, ssession, serverVars, script, stdin, unread, answers,
                   late>>

\* The accepted connection is closed by its sender, and the server exits.
ServerExits(u) ==
    /\ u \in accepted /\ script[u] = "gone" /\ inflight[u] = 0
    /\ server[ReceiverOf(u)] = "up"
    /\ server' = [server EXCEPT ![ReceiverOf(u)] = "off"]
    /\ UNCHANGED <<mainVars, send, rsession, ssession, confirmed, dying, accepted, trusted, cut,
                   script, pipeVars, late>>

Takes(u) == stdin[u] # <<>> /\ ssession[u] = "open" /\ stdin' = [stdin EXCEPT ![u] = Tail(@)]

Prints(u) == unread[u] < PipeLines /\ unread' = [unread EXCEPT ![u] = @ + 1]

\* Mutant of SendTCP: a line is printed per packet, as with UDP.
SendTCPPrinting(u) ==
    /\ TCP /\ script[u] = "ready" /\ Takes(u) /\ Prints(u)
    /\ IF server[ReceiverOf(u)] = "up"
       THEN /\ inflight[u] < SockBuffer
            /\ inflight' = [inflight EXCEPT ![u] = @ + 1]
            /\ UNCHANGED script
       ELSE script' = [script EXCEPT ![u] = "gone"] /\ UNCHANGED inflight
    /\ UNCHANGED <<mainVars, send, rsession, ssession, serverVars, answers, late>>

(***************************************************************************)
(* pysocket_sender.py run_tcp: sendall waits while the connection is full. *)
(* A size that is not positive is complained of.                           *)
(***************************************************************************)
SendTCP(u) ==
    /\ TCP /\ script[u] = "ready" /\ Takes(u)
    /\ IF Head(stdin[u]) # 1 THEN Prints(u) /\ UNCHANGED <<inflight, script>>
       ELSE IF server[ReceiverOf(u)] = "up"
       THEN /\ inflight[u] < SockBuffer
            /\ inflight' = [inflight EXCEPT ![u] = @ + 1]
            /\ UNCHANGED <<unread, script>>
       ELSE script' = [script EXCEPT ![u] = "gone"] /\ UNCHANGED <<unread, inflight>>
    /\ UNCHANGED <<mainVars, send, rsession, ssession, serverVars, answers, late>>

\* run_udp: a line is printed per size, whether it is sent, and may get lost, or is not.
SendUDP(u) ==
    /\ Sockets /\ mode.udp /\ script[u] = "ready" /\ Takes(u) /\ Prints(u)
    /\ UNCHANGED <<mainVars, send, rsession, ssession, serverVars, script, answers, inflight, late>>

\* Without its script the shell takes a size for a command it does not find.
ShellComplains(u) ==
    /\ Sockets /\ script[u] = "gone" /\ Takes(u) /\ Prints(u)
    /\ UNCHANGED <<mainVars, send, rsession, ssession, serverVars, script, answers, inflight,
                   late>>

\* dd reports on stderr, which nobody reads; ping has no such output.
RunCommand(u) ==
    /\ ~Sockets /\ Takes(u)
    /\ Len(answers[u]) < PipeLines
    /\ IF mode.handler = "netcat" THEN Prints(u) ELSE UNCHANGED unread
    /\ \E ok \in BOOLEAN :
         /\ (ok /\ mode.handler = "netcat" /\ ~mode.udp) => server[ReceiverOf(u)] = "up"
         /\ (ok /\ mode.handler = "ping") => Head(stdin[u]) # -1
         /\ answers' = [answers EXCEPT ![u] = Append(@, ok)]
    /\ UNCHANGED <<mainVars, send, rsession, ssession, serverVars, script, inflight, late>>

-----------------------------------------------------------------------------
(* Stopping: the finally block goes through the UEs.  stop_receiver and     *)
(* close_session swallow every Exception, also that the shell is dead.      *)

\* Mutant of StopReceiver: the session is closed first, and nothing is left to kill with.
StopReceiverAfterClose ==
    /\ pc = "stop receiver"
    /\ \E u \in todo :
         /\ current' = u
         /\ rsession' = [rsession EXCEPT ![ReceiverOf(u)] = "none"]
    /\ pc' = "close receiver"
    /\ UNCHANGED <<mode, plan, todo, at, interrupts, send, ssession, serverVars, script, pipeVars,
                   late>>

\* Only a confirmed receiver is stopped; the wait for its answer may time out.
StopReceiver ==
    /\ pc = "stop receiver"
    /\ \E u \in todo :
         LET r == ReceiverOf(u)
         IN  /\ current' = u
             /\ IF confirmed[r] /\ rsession[r] # "none"
                THEN /\ dying' = IF rsession[r] = "open" THEN dying \cup {r} ELSE dying
                     /\ confirmed' = [confirmed EXCEPT ![r] = FALSE]
                ELSE UNCHANGED <<dying, confirmed>>
    /\ pc' = "close receiver"
    /\ UNCHANGED <<mode, plan, todo, at, interrupts, send, rsession, ssession, server, accepted,
                   trusted, cut, script, pipeVars, late>>

\* The shell of the receiver gets to the pkill.
Kill(r) ==
    /\ r \in dying
    /\ dying' = dying \ {r}
    /\ server' = [server EXCEPT ![r] = "off"]
    /\ UNCHANGED <<mainVars, send, rsession, ssession, confirmed, accepted, trusted, cut, script,
                   pipeVars, late>>

(***************************************************************************)
(* 'exit' follows the pkill in the shell; a shell that has not ended after *)
(* two seconds is terminated, with or without having run the pkill.        *)
(***************************************************************************)
CloseReceiver ==
    /\ pc = "close receiver"
    /\ LET r == ReceiverOf(current)
       IN  /\ rsession' = [rsession EXCEPT ![r] = "none"]
           /\ IF r \in dying
              THEN /\ cut' = cut \cup {r}
                   /\ \E left \in {dying, dying \ {r}} : dying' = left
              ELSE UNCHANGED <<cut, dying>>
    /\ pc' = "close sender"
    /\ UNCHANGED <<mode, plan, current, todo, at, interrupts, send, ssession, confirmed, server,
                   accepted, trusted, script, pipeVars, late>>

\* The 'exit' for the script has to fit into the pipe.
CloseSender ==
    /\ pc = "close sender"
    /\ ssession[current] = "open" => Len(stdin[current]) < PipeLines
    /\ ssession' = [ssession EXCEPT ![current] = "none"]
    /\ script' = [script EXCEPT ![current] = IF @ = "none" THEN @ ELSE "gone"]
    /\ todo' = todo \ {current}
    /\ pc' = IF todo' = {} THEN "ended" ELSE "stop receiver"
    /\ UNCHANGED <<mode, plan, current, at, interrupts, send, rsession, serverVars, pipeVars, late>>

(***************************************************************************)
(* Ctrl+C.  Before the try block it ends the program; inside it the pool   *)
(* waits for the sends that run; while the pool waits it leads to the      *)
(* finally block; and inside that block it ends the program again.         *)
(***************************************************************************)
MainInterrupted ==
    \/ pc \in Starting /\ pc' = "failed" /\ UNCHANGED todo
    \/ pc \in {"step", "sending"} /\ pc' = "drain" /\ UNCHANGED todo
    \/ pc = "drain" /\ pc' = "stop receiver" /\ todo' = UEs
    \/ pc \in Stopping /\ pc' = "aborted" /\ UNCHANGED todo

OpenReceivers == {r \in Receivers : rsession[r] = "open"}
OpenSenders   == {u \in UEs : ssession[u] = "open"}

(***************************************************************************)
(* The shells have no session of their own, so that the terminal sends the *)
(* signal to them, too, and any may die of it: with it goes the script of  *)
(* a sender, and the pkill a receiver has not got to.  Servers run in the  *)
(* background, and go on.                                                  *)
(***************************************************************************)
ShellsInterrupted(rs, us) ==
    /\ rsession' = [r \in Receivers |-> IF r \in rs THEN "dead" ELSE rsession[r]]
    /\ ssession' = [u \in UEs |-> IF u \in us THEN "dead" ELSE ssession[u]]
    /\ script' = [u \in UEs |-> IF u \in us /\ script[u] # "none" THEN "gone" ELSE script[u]]
    /\ dying' = dying \ rs
    /\ cut' = cut \cup rs

Interrupt ==
    /\ interrupts < MaxInterrupts
    /\ interrupts' = interrupts + 1
    /\ MainInterrupted
    /\ \E rs \in SUBSET OpenReceivers, us \in SUBSET OpenSenders :
          /\ Together => <<rs, us>> \in {<<{}, {}>>, <<OpenReceivers, OpenSenders>>}
          /\ ShellsInterrupted(rs, us)
    /\ UNCHANGED <<mode, plan, current, at, send, confirmed, server, accepted, trusted, pipeVars,
                   late>>

Drained ==
    /\ pc = "drain"
    /\ \A u \in UEs : send[u] \in {"idle", "done"}
    /\ pc' = "stop receiver"
    /\ todo' = UEs
    /\ UNCHANGED <<mode, plan, current, at, interrupts, send, rsession, ssession, serverVars,
                   script, pipeVars, late>>

-----------------------------------------------------------------------------
MainStep ==
    \/ OpenReceiver \/ StartReceiver \/ VerifyReceiver \/ OpenSender
    \/ Step \/ StepDone \/ PassDone \/ Drained
    \/ StopReceiver \/ CloseReceiver \/ CloseSender

Worker(u) == Write(u) \/ ReadAnswer(u) \/ TimeOut(u)
Sender(u) == Connect(u) \/ SendTCP(u) \/ SendUDP(u) \/ ShellComplains(u) \/ RunCommand(u)
Server(u) == Receive(u) \/ ServerExits(u)

ExecStep ==
    \/ MainStep \/ StartFails \/ Interrupt
    \/ \E u \in UEs : Worker(u) \/ Sender(u) \/ Server(u) \/ Accept(u)
    \/ \E r \in Receivers : ServerUp(r) \/ Kill(r)

\* The plan may also be one for other UEs than those of the parameters.
ExecNext == ExecStep \/ \E names : \E rows \in [names -> Seq(Int)] : Execute(rows)
ExecSpec == ExecInit /\ [][ExecNext]_execVars

(***************************************************************************)
(* Every thread and process that can go on does, and every timed wait      *)
(* ends; nobody has to press Ctrl+C or to fail.                            *)
(***************************************************************************)
ExecFairness ==
    /\ WF_execVars(MainStep)
    /\ \A u \in UEs : /\ WF_execVars(Worker(u)) /\ WF_execVars(Sender(u))
                      /\ WF_execVars(Server(u)) /\ WF_execVars(Accept(u))
    /\ \A r \in Receivers : WF_execVars(ServerUp(r)) /\ WF_execVars(Kill(r))

-----------------------------------------------------------------------------
(* What the executor guarantees *)

(***************************************************************************)
(* Once the finally block has run to its end, every shell is closed, and a *)
(* server that was confirmed is not left running: its kill has been done,  *)
(* or is with its shell.  Only where that shell had to be terminated, or   *)
(* had died of Ctrl+C and could not take the kill, it may be.              *)
(***************************************************************************)
CleanShutdown ==
    pc = "ended" =>
        /\ \A u \in UEs : ssession[u] = "none" /\ rsession[ReceiverOf(u)] = "none"
        /\ \A r \in trusted : server[r] = "off" \/ r \in dying \cup cut

(***************************************************************************)
(* As long as every send of a UE got its answer in time, the answer it     *)
(* reads is that to its own command: nothing is left over from an earlier  *)
(* one.  A single timeout shifts every later answer of that UE.            *)
(***************************************************************************)
ReportsAreOwn ==
    ~Sockets =>
        \A u \in UEs \ late :
            Len(stdin[u]) + Len(answers[u]) = IF send[u] = "wait" THEN 1 ELSE 0

\* Downlink over TCP sockets, when every sender script has found its server.
Downlink == TCP /\ mode.direction = "DL"
Connected == \A u \in UEs : script[u] = "ready"

\* The scripts complain of no size.
Unobjected == \A u \in UEs : \A k \in DOMAIN plan[u] : plan[u][k] # -1

(***************************************************************************)
(* On a connected downlink no step lasts for ever: the scripts keep up     *)
(* with the executor however small their pipes are, as long as they have   *)
(* no size below zero to complain of, which nobody reads.                  *)
(***************************************************************************)
StepsEnd ==
    (Downlink /\ Connected /\ Unobjected /\ pc = "sending") ~> (pc # "sending")

(***************************************************************************)
(* On a connected downlink what is on its way to a UE arrives, time and    *)
(* again, unless the executor begins to stop: the receivers are stopped    *)
(* first, whatever is still on its way.                                    *)
(***************************************************************************)
DownlinkIsReceived ==
    \A u \in UEs :
        (Downlink /\ Connected /\ inflight[u] > 0) ~> (inflight[u] = 0 \/ pc \in Stopping \cup Over)

(***************************************************************************)
(* The same for the uplink: doc/Trafficker.md:115 says of it "One sender   *)
(* per UE, a single shared receiver at the Core".                          *)
(***************************************************************************)
UplinkIsReceived ==
    \A u \in UEs :
        (TCP /\ mode.direction = "UL" /\ Connected /\ inflight[u] > 0)
            ~> (inflight[u] = 0 \/ pc \in Stopping \cup Over)

=============================================================================
