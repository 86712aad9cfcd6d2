------------------------------- MODULE DebugServer -------------------------------
(***************************************************************************)
(* The debug server (classes DebugServer, RiscvDebugServer, RSP and        *)
(* TCPServer) between the cores that StepCore steps and a gdb client at    *)
(* the other end of a TCP connection.                                      *)
(*                                                                         *)
(* The client is external: it sends one request at a time while it takes   *)
(* the target to be stopped, acknowledges every packet with '+', waits for *)
(* a stop reply after 'c' and 's', may then ask for an interrupt (0x03),   *)
(* one at a time, and may hang up.  A TCP read returns what has arrived,   *)
(* so that an acknowledgement, an interrupt and a packet can come in one   *)
(* read.                                                                   *)
(*                                                                         *)
(* The program is arbitrary: an instruction leads to any address.  Writing *)
(* registers, the PC included, and memory shows in no property here and is *)
(* one kind of request with reading them.                                  *)
(***************************************************************************)
EXTENDS Integers, Sequences

CONSTANTS
    NumCores,
    PCs,            \* addresses of the program's instructions
    BreakAddrs,     \* where the client sets breakpoints,
    BreakSizes,     \*  ... of these sizes
    MaxSent,        \* requests are sent while fewer than this are on their way,
    MaxInterrupts   \*  ... and this many interrupts altogether

Cores == 0 .. NumCores - 1

ASSUME DebugAssumption ==
    /\ NumCores \in Nat \ {0}
    /\ PCs \subseteq Nat /\ PCs # {} /\ BreakAddrs \subseteq Nat /\ BreakSizes \subseteq Nat
    /\ MaxSent \in Nat /\ MaxInterrupts \in Nat

VARIABLES
    \* the simulator
    at, core, pcs,
    mode,           \* of a core: "ready", "asleep" (low power mode) or "ended"
    todo,           \* ready cores not stepped yet in this round
    \* the server
    at_start, do_step, do_shutdown,
    instr_breakpoints,      \* ranges <<address_lo, address_hi>>
    \* the connection and the client
    inbox, outbox,  \* what has been sent to the server and to the client
    client,         \* "stopped", "waiting", "running", "killing" or "gone"
    \* history
    polled,         \* this StepCore has polled
    undecoded,      \* a read returned something Decode rejects
    interrupts      \* interrupts sent

simulator  == <<at, core, pcs, mode, todo>>
server     == <<at_start, do_step, do_shutdown, instr_breakpoints>>
connection == <<inbox, outbox, client>>
history    == <<polled, undecoded, interrupts>>
vars       == <<simulator, server, connection, history>>

-----------------------------------------------------------------------------
(* What crosses the connection.  Requests other than those named are       *)
(* answered and change neither the server nor the flow of control:         *)
(* registers, memory, threads, 'vCont', 'C', 'S', 'D', watchpoints (which  *)
(* are recorded and never looked at), unknown and malformed ones.          *)

Breakpoint(a, n) == [cmd |-> "Z0", lo |-> a, hi |-> a + (IF n > 4 THEN n ELSE 3)]

Request(cmd) == [cmd |-> cmd, lo |-> 0, hi |-> 0]

Requests ==
    {Request(cmd) : cmd \in {"other", "z", "c", "s", "k"}}
      \cup {Breakpoint(a, n) : a \in BreakAddrs, n \in BreakSizes}

Plus  == Request("+")
Break == Request("0x03")

\* what is left of a read after Decode strips one '+' at each end
Stripped(read) ==
    LET front == IF read # <<>> /\ Head(read) = Plus THEN Tail(read) ELSE read
    IN  IF front # <<>> /\ front[Len(front)] = Plus THEN SubSeq(front, 1, Len(front) - 1) ELSE front

\* only a single packet, or nothing but acknowledgements, is accepted;
\* an empty read is the end of the connection
Decodes(read) ==
    /\ read # <<>>
    /\ Stripped(read) = <<>> \/ (Len(Stripped(read)) = 1 /\ Stripped(read)[1] \in Requests)

-----------------------------------------------------------------------------
(* Breakpoints *)

breakpoint_match(address) ==
    \E r \in instr_breakpoints : r[1] <= address /\ address <= r[2]

MutantBreakpointHit(pc) == breakpoint_match(pc + 4)

\* "grossly assuming instructions are always four bytes"
breakpoint_hit(pc) == \E i \in 0 .. 3 : breakpoint_match(pc + i)

-----------------------------------------------------------------------------
(* The simulator's round *)

Init ==
    /\ at = "round" /\ core = 0
    /\ pcs \in [Cores -> PCs]
    /\ mode = [c \in Cores |-> "ready"] /\ todo = Cores
    /\ at_start = TRUE /\ do_step = FALSE /\ do_shutdown = FALSE /\ instr_breakpoints = {}
    /\ inbox = <<>> /\ outbox = <<>> /\ client = "stopped"
    /\ polled = FALSE /\ undecoded = FALSE /\ interrupts = 0

BeginStep(c) ==
    /\ at = "round" /\ c \in todo
    /\ todo' = todo \ {c}
    /\ core' = c
    /\ at' = "pre"
    /\ polled' = FALSE
    /\ UNCHANGED <<pcs, mode, server, connection, undecoded, interrupts>>

\* devices may wake core 0.  Go returns without ready and sleeping cores, and at the
\* instruction limit or an error; the process then exits, which closes the connection:
\* nobody calls ShutdownDebugServer
EndRound ==
    /\ at = "round" /\ todo = {}
    /\ \E m \in {mode, [mode EXCEPT ![0] = IF @ = "asleep" THEN "ready" ELSE @]} :
         /\ mode' = m
         /\ todo' = {c \in Cores : m[c] = "ready"}
         /\ at' \in {"over"} \cup {"round" : c \in {d \in Cores : m[d] # "ended"}}
    /\ UNCHANGED <<core, pcs, server, connection, history>>

-----------------------------------------------------------------------------
(* PreStepChecks.  core_match compares the server's core with itself and   *)
(* holds for every core.                                                   *)

\* what is written once the client has gone is lost
Send(what) == outbox' = IF client = "gone" THEN outbox ELSE Append(outbox, what)

MutantPreStepChecks ==
    /\ at = "pre"
    /\ at_start' = FALSE
    /\ do_step' = FALSE
    /\ at' = IF at_start \/ breakpoint_hit(pcs[core]) THEN "poll" ELSE "execute"
    /\ IF ~at_start /\ ~do_step /\ breakpoint_hit(pcs[core]) THEN Send("stop") ELSE UNCHANGED outbox
    /\ UNCHANGED <<core, pcs, mode, todo, do_shutdown, instr_breakpoints, inbox, client, history>>

MutantAcknowledgeOnly ==
    /\ at = "pre"
    /\ at_start' = FALSE
    /\ do_step' = (at_start /\ do_step)
    /\ at' = IF at_start \/ do_step THEN "poll" ELSE "execute"
    /\ IF ~at_start /\ ~do_step /\ breakpoint_hit(pcs[core]) THEN Send("stop") ELSE UNCHANGED outbox
    /\ UNCHANGED <<core, pcs, mode, todo, do_shutdown, instr_breakpoints, inbox, client, history>>

\* the first instruction and the one after a step are polled for, the latter having
\* been reported already; a breakpoint is reported (AcknowledgeBreakpoint) and polled for
PreStepChecks ==
    /\ at = "pre"
    /\ at_start' = FALSE
    /\ do_step' = (at_start /\ do_step)
    /\ at' = IF at_start \/ do_step \/ breakpoint_hit(pcs[core]) THEN "poll" ELSE "execute"
    /\ IF ~at_start /\ ~do_step /\ breakpoint_hit(pcs[core]) THEN Send("stop") ELSE UNCHANGED outbox
    /\ UNCHANGED <<core, pcs, mode, todo, do_shutdown, instr_breakpoints, inbox, client, history>>

-----------------------------------------------------------------------------
(* Poll *)

\* Poll returns; false drops the step, and with it the end_test set in the copy
PollReturns ==
    /\ at' = IF do_shutdown' THEN "round" ELSE "execute"
    /\ polled' = TRUE

KeepPolling == at' = "poll" /\ UNCHANGED polled

\* one read that Decode rejects, or that finds the connection closed
PollFails ==
    /\ at = "poll"
    /\ \/ \E k \in 1 .. Len(inbox) :
            /\ ~Decodes(SubSeq(inbox, 1, k))
            /\ inbox' = SubSeq(inbox, k + 1, Len(inbox))
       \/ inbox = <<>> /\ client = "gone" /\ UNCHANGED inbox
    /\ undecoded' = TRUE
    /\ UNCHANGED server
    /\ PollReturns
    /\ UNCHANGED <<core, pcs, mode, todo, outbox, client, interrupts>>

\* what the handlers of a request leave behind: Step, KillTarget, Set- and ClearBreakpoints
Handle(r) ==
    /\ do_step' = (r.cmd = "s" \/ do_step)
    /\ do_shutdown' = (r.cmd = "k" \/ do_shutdown)
    /\ instr_breakpoints' = CASE r.cmd = "Z0" -> instr_breakpoints \cup {<<r.lo, r.hi>>}
                              [] r.cmd = "z" -> {}
                              [] OTHER -> instr_breakpoints

\* once the client has gone a write may fail, which ends Poll
WriteFails == client = "gone" /\ UNCHANGED outbox /\ PollReturns

MutantDispatch(r) ==
    /\ Handle(r)
    /\ IF r.cmd \in {"c", "s"} THEN PollReturns ELSE KeepPolling
    /\ Send(IF r.cmd = "k" THEN "X00" ELSE "reply")

MutantUnanswered(r) ==
    /\ Handle(r)
    /\ IF r.cmd \in {"c", "s"} THEN PollReturns /\ UNCHANGED outbox
       ELSE KeepPolling /\ IF r.cmd = "k" THEN Send("X00") ELSE UNCHANGED outbox

\* Dispatch, and what Poll does with the response: step and continue defer theirs
Dispatch(r) ==
    /\ Handle(r)
    /\ IF r.cmd \in {"c", "s"} THEN PollReturns /\ UNCHANGED outbox
       ELSE (KeepPolling /\ Send(IF r.cmd = "k" THEN "X00" ELSE "reply")) \/ WriteFails

\* one read that Decode accepts; a request decoded to nothing was an acknowledgement,
\* any other is acknowledged
PollServes ==
    /\ at = "poll"
    /\ \E k \in 1 .. Len(inbox) :
         LET read == SubSeq(inbox, 1, k)
         IN  /\ Decodes(read)
             /\ inbox' = SubSeq(inbox, k + 1, Len(inbox))
             /\ IF Stripped(read) = <<>> THEN KeepPolling /\ UNCHANGED <<server, outbox>>
                ELSE \/ Dispatch(Stripped(read)[1]) /\ UNCHANGED at_start
                     \/ UNCHANGED server /\ WriteFails
    /\ UNCHANGED <<core, pcs, mode, todo, client, undecoded, interrupts>>

-----------------------------------------------------------------------------
(* Execute, Writeback and PostStepChecks: a step is reported once it is    *)
(* done.  An instruction that jumps to itself ends the core's test, wfi    *)
(* puts it to sleep.                                                       *)

Execute ==
    /\ at = "execute"
    /\ \E next \in PCs, wfi \in BOOLEAN :
         /\ pcs' = [pcs EXCEPT ![core] = next]
         /\ mode' = [mode EXCEPT ![core] = IF wfi THEN "asleep" ELSE IF next = pcs[core] THEN "ended" ELSE @]
    /\ IF do_step THEN Send("stop") ELSE UNCHANGED outbox
    /\ at' = "round"
    /\ UNCHANGED <<core, todo, server, inbox, client, polled, undecoded, interrupts>>

-----------------------------------------------------------------------------
(* A write to a connection that the client has reset raises SIGPIPE, which *)
(* nobody handles: the process ends.                                       *)
BrokenPipe ==
    /\ client = "gone"
    /\ \/ at = "pre" /\ ~at_start /\ ~do_step /\ breakpoint_hit(pcs[core])
       \/ at = "poll" /\ \E k \in 1 .. Len(inbox) :
                            Decodes(SubSeq(inbox, 1, k)) /\ Stripped(SubSeq(inbox, 1, k)) # <<>>
       \/ at = "execute" /\ do_step
    /\ at' = "over"
    /\ UNCHANGED <<core, pcs, mode, todo, server, connection, history>>

-----------------------------------------------------------------------------
(* The client *)

ClientSends(r) ==
    /\ client = "stopped" /\ Len(inbox) < MaxSent
    /\ client' = CASE r.cmd \in {"c", "s"} -> "running" [] r.cmd = "k" -> "killing" [] OTHER -> "waiting"
    /\ inbox' = Append(inbox, r)
    /\ UNCHANGED <<simulator, server, outbox, history>>

ClientInterrupts ==
    /\ client = "running"
    /\ interrupts < MaxInterrupts
    /\ inbox' = Append(inbox, Break)
    /\ interrupts' = interrupts + 1
    /\ UNCHANGED <<simulator, server, outbox, client, polled, undecoded>>

ClientReceives ==
    /\ client # "gone" /\ outbox # <<>>
    /\ IF Head(outbox) = "X00" THEN client' = "gone" /\ outbox' = <<>> /\ UNCHANGED inbox
       ELSE client' = "stopped" /\ outbox' = Tail(outbox) /\ inbox' = Append(inbox, Plus)
    /\ UNCHANGED <<simulator, server, history>>

ClientHangsUp ==
    /\ client # "gone"
    /\ client' = "gone" /\ outbox' = <<>>
    /\ UNCHANGED <<simulator, server, inbox, history>>

Stopped == at = "over" /\ UNCHANGED vars

ServerStep ==
    \/ \E c \in Cores : BeginStep(c)
    \/ EndRound \/ PreStepChecks \/ PollFails \/ PollServes \/ Execute \/ BrokenPipe

Next ==
    \/ ServerStep
    \/ \E r \in Requests : ClientSends(r)
    \/ ClientInterrupts \/ ClientReceives \/ ClientHangsUp
    \/ Stopped

Spec == Init /\ [][Next]_vars

\* the simulator runs on unless it waits for the client; TCP delivers what is sent
FairSpec == Spec /\ WF_vars(ServerStep) /\ WF_vars(ClientReceives)

-----------------------------------------------------------------------------
(* Properties *)

Executes == at = "execute" /\ at' = "round"

TellsStopped == client \in {"stopped", "waiting"}

(* Server and client keep a well-formed conversation: the server polls or  *)
(* runs, and at most one reply is on its way to the client.                *)
DebugTypeOK ==
    /\ at \in {"round", "pre", "poll", "execute", "over"}
    /\ core \in Cores /\ pcs \in [Cores -> PCs] /\ mode \in [Cores -> {"ready", "asleep", "ended"}]
    /\ todo \subseteq Cores
    /\ Len(outbox) <= 1 \/ undecoded

(* While the client takes the target to be stopped, no core executes an    *)
(* instruction, over any number of steps, breakpoints and requests; unless *)
(* an interrupt request or a hang-up made a read undecodable, which Poll   *)
(* takes as a reason to run on.                                            *)
StoppedMeansStopped == [][Executes /\ TellsStopped => undecoded]_vars

(* An instruction under a breakpoint is executed only by a StepCore that   *)
(* has polled: Continue and Step from a breakpoint get past it, and no     *)
(* other path gets around it.                                              *)
BreakpointsStop ==
    [][Executes /\ breakpoint_hit(pcs[core]) => polled]_vars

(* Between word-aligned instructions a breakpoint stops only at its own    *)
(* address, although ranges are compared.                                  *)
BreakpointsAreExact ==
    \A pc \in PCs : pc % 4 = 0 /\ (\A r \in instr_breakpoints : r[1] % 4 = 0 /\ r[2] = r[1] + 3)
                      => (breakpoint_hit(pc) <=> \E r \in instr_breakpoints : r[1] = pc)

(* A client that was told of a stop gets its requests answered, unless no  *)
(* core is left to step, the simulation is over or a read was undecodable. *)
RequestsAreAnswered ==
    client = "waiting" ~> (client # "waiting" \/ undecoded \/ at = "over" \/ \A c \in Cores : mode[c] # "ready")

(* A kill request is "time to end simulation and shut down": no core       *)
(* executes an instruction after it.                                       *)
KillEndsSimulation == [][do_shutdown => ~Executes]_vars

=============================================================================
