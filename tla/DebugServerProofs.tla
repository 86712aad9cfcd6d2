---------------------------- MODULE DebugServerProofs ----------------------------
(***************************************************************************)
(* Proofs about DebugServer, for every number of cores, every program and  *)
(* any number of requests, breakpoints and interrupts.                     *)
(*                                                                         *)
(* Session is the conversation between client and server while every read  *)
(* decodes: at most one request or one reply is on its way, and whenever   *)
(* one is, or the client takes the target to be stopped, the server is     *)
(* Halted: it polls, or will poll before it executes another instruction.  *)
(***************************************************************************)
EXTENDS DebugServer, SequenceTheorems, TLAPS

Messages == Requests \cup {Plus, Break}

Replies == {"stop", "reply", "X00"}

DebugInv ==
    /\ at \in {"round", "pre", "poll", "execute", "over"}
    /\ core \in Cores /\ pcs \in [Cores -> PCs] /\ mode \in [Cores -> {"ready", "asleep", "ended"}]
    /\ todo \subseteq Cores
    /\ at_start \in BOOLEAN /\ do_step \in BOOLEAN
    /\ instr_breakpoints \subseteq Nat \X Nat
    /\ inbox \in Seq(Messages) /\ outbox \in Seq(Replies)
    /\ client \in {"stopped", "waiting", "running", "killing", "gone"}
    /\ undecoded \in BOOLEAN /\ polled \in BOOLEAN

\* a step that has been reported, or the start, leads to Poll before the next instruction
Halted == \/ at \in {"poll", "over"}
          \/ at \in {"round", "pre"} /\ (at_start \/ do_step)

\* what the client waits for after a request
After(r) == CASE r.cmd \in {"c", "s"} -> "running" [] r.cmd = "k" -> "killing" [] OTHER -> "waiting"

Pending == {i \in 1 .. Len(inbox) : inbox[i] \in Requests}

Session ==
    /\ client = "gone" => outbox = <<>>
    /\ \/ undecoded \/ client = "gone"
       \/ /\ Len(outbox) <= 1
          /\ \A i, j \in Pending : i = j
          /\ \A i \in Pending : outbox = <<>> /\ Halted /\ client = After(inbox[i])
          /\ outbox # <<>> => Halted /\ client # "stopped"
          /\ client # "running" => Halted

-----------------------------------------------------------------------------
(* Messages *)

LEMMA MessageKinds ==
    /\ Plus \notin Requests /\ Break \notin Requests
    /\ \A r \in Requests : r.cmd \in {"other", "z", "c", "s", "k", "Z0"} /\ r.lo \in Nat /\ r.hi \in Nat
    /\ \A r \in Requests : r.cmd # "+" /\ After(r) # "stopped" /\ After(r) # "gone"
<1>1. ASSUME NEW a \in BreakAddrs, NEW n \in BreakSizes
      PROVE  Breakpoint(a, n).cmd = "Z0" /\ Breakpoint(a, n).lo \in Nat /\ Breakpoint(a, n).hi \in Nat
  BY DebugAssumption DEF Breakpoint
<1>2. \A cmd : Request(cmd).cmd = cmd /\ Request(cmd).lo \in Nat /\ Request(cmd).hi \in Nat
  BY DEF Request
<1>3. \A r \in Requests : r.cmd \in {"other", "z", "c", "s", "k", "Z0"} /\ r.lo \in Nat /\ r.hi \in Nat
  BY <1>1, <1>2 DEF Requests
<1>4. Plus.cmd = "+" /\ Break.cmd = "0x03"
  BY <1>2 DEF Plus, Break
<1>5. Plus \notin Requests /\ Break \notin Requests
  BY <1>3, <1>4
<1>6. \A r \in Requests : r.cmd # "+" /\ After(r) # "stopped" /\ After(r) # "gone"
  BY <1>3 DEF After
<1> QED BY <1>3, <1>5, <1>6

\* a request that Decode finds was in the read
LEMMA StrippedFacts ==
    ASSUME NEW read \in Seq(Messages), Len(Stripped(read)) = 1
    PROVE  \E i \in 1 .. Len(read) : Stripped(read)[1] = read[i]
<1> DEFINE front == IF read # <<>> /\ Head(read) = Plus THEN Tail(read) ELSE read
<1>1. front \in Seq(Messages) /\ \A i \in 1 .. Len(front) : \E j \in 1 .. Len(read) : front[i] = read[j]
  <2>1. CASE read # <<>> /\ Head(read) = Plus
    <3>1. front = Tail(read) /\ Tail(read) \in Seq(Messages) /\ Len(Tail(read)) = Len(read) - 1 /\ Len(read) \in Nat
      BY <2>1
    <3>2. \A i \in 1 .. Len(read) - 1 : Tail(read)[i] = read[i + 1] /\ i + 1 \in 1 .. Len(read)
      BY <2>1, <3>1
    <3> QED BY <3>1, <3>2
  <2>2. CASE ~(read # <<>> /\ Head(read) = Plus)
    BY <2>2
  <2> QED BY <2>1, <2>2
<1>2. Stripped(read) = IF front # <<>> /\ front[Len(front)] = Plus THEN SubSeq(front, 1, Len(front) - 1) ELSE front
  BY DEF Stripped
<1> HIDE DEF front
<1>3. CASE front # <<>> /\ front[Len(front)] = Plus
  <2>1. Stripped(read) = SubSeq(front, 1, Len(front) - 1) /\ Len(front) \in Nat /\ Len(front) >= 1
    BY <1>1, <1>2, <1>3
  <2>2. \A i \in 1 .. Len(front) - 1 : front[i] \in Messages
    BY <1>1
  <2>3. /\ Len(SubSeq(front, 1, Len(front) - 1)) =
              (IF 1 <= Len(front) - 1 THEN Len(front) - 1 - 1 + 1 ELSE 0)
        /\ \A i \in 1 .. Len(front) - 1 - 1 + 1 : SubSeq(front, 1, Len(front) - 1)[i] = front[1 + i - 1]
    BY <2>1, <2>2, SubSeqProperties
  <2>4. Len(front) = 2 /\ Stripped(read)[1] = front[1] /\ 1 \in 1 .. Len(front)
    BY <2>1, <2>3
  <2> QED BY <1>1, <2>4
<1>4. CASE ~(front # <<>> /\ front[Len(front)] = Plus)
  BY <1>1, <1>2, <1>4
<1> QED BY <1>3, <1>4

\* what is left of the inbox after a read of k messages
LEMMA ReadFacts ==
    ASSUME NEW s \in Seq(Messages), NEW k \in 1 .. Len(s), NEW read, NEW rest,
           read = SubSeq(s, 1, k), rest = SubSeq(s, k + 1, Len(s))
    PROVE  /\ read \in Seq(Messages) /\ Len(read) = k /\ \A i \in 1 .. k : read[i] = s[i]
           /\ rest \in Seq(Messages) /\ Len(rest) = Len(s) - k
           /\ \A i \in 1 .. Len(s) - k : rest[i] = s[i + k] /\ i + k \in 1 .. Len(s)
<1>1. Len(s) \in Nat /\ k \in Nat /\ 1 <= k /\ k <= Len(s) /\ \A i \in 1 .. Len(s) : s[i] \in Messages
  OBVIOUS
<1>2. /\ read \in Seq(Messages) /\ Len(read) = (IF 1 <= k THEN k - 1 + 1 ELSE 0)
      /\ \A i \in 1 .. k - 1 + 1 : read[i] = s[1 + i - 1]
  BY <1>1, SubSeqProperties
<1>3. /\ rest \in Seq(Messages) /\ Len(rest) = (IF k + 1 <= Len(s) THEN Len(s) - (k + 1) + 1 ELSE 0)
      /\ \A i \in 1 .. Len(s) - (k + 1) + 1 : rest[i] = s[(k + 1) + i - 1]
  BY <1>1, SubSeqProperties
<1>4. Len(read) = k /\ Len(rest) = Len(s) - k
  BY <1>1, <1>2, <1>3
<1>5. \A i \in 1 .. k : i \in 1 .. k - 1 + 1 /\ 1 + i - 1 = i
  BY <1>1
<1>6. \A i \in 1 .. Len(s) - k : i \in 1 .. Len(s) - (k + 1) + 1 /\ (k + 1) + i - 1 = i + k /\ i + k \in 1 .. Len(s)
  BY <1>1
<1>7. \A i \in 1 .. k : read[i] = s[i]
  BY <1>2, <1>5
<1>8. \A i \in 1 .. Len(s) - k : rest[i] = s[i + k]
  BY <1>3, <1>6
<1> QED BY <1>2, <1>3, <1>4, <1>6, <1>7, <1>8

-----------------------------------------------------------------------------
(* Types *)

SimulatorTypes ==
    /\ at \in {"round", "pre", "poll", "execute", "over"}
    /\ core \in Cores /\ pcs \in [Cores -> PCs] /\ mode \in [Cores -> {"ready", "asleep", "ended"}]
    /\ todo \subseteq Cores

ServerTypes ==
    /\ at_start \in BOOLEAN /\ do_step \in BOOLEAN /\ instr_breakpoints \subseteq Nat \X Nat

ConnectionTypes ==
    /\ inbox \in Seq(Messages) /\ outbox \in Seq(Replies)
    /\ client \in {"stopped", "waiting", "running", "killing", "gone"}

HistoryTypes == undecoded \in BOOLEAN /\ polled \in BOOLEAN

LEMMA DebugTypes ==
    DebugInv <=> SimulatorTypes /\ ServerTypes /\ ConnectionTypes /\ HistoryTypes
BY DEF DebugInv, SimulatorTypes, ServerTypes, ConnectionTypes, HistoryTypes

LEMMA SendTypes ==
    ASSUME outbox \in Seq(Replies), NEW what \in Replies, Send(what)
    PROVE  outbox' \in Seq(Replies)
BY DEF Send

LEMMA HandleTypes ==
    ASSUME ServerTypes, NEW r \in Requests, Handle(r)
    PROVE  do_step' \in BOOLEAN /\ instr_breakpoints' \subseteq Nat \X Nat
<1>1. r.lo \in Nat /\ r.hi \in Nat
  BY MessageKinds
<1>2. instr_breakpoints' \subseteq instr_breakpoints \cup {<<r.lo, r.hi>>}
  BY DEF Handle
<1> QED BY <1>1, <1>2 DEF Handle, ServerTypes

LEMMA DebugInit == Init => DebugInv
<1> SUFFICES ASSUME Init PROVE DebugInv
  OBVIOUS
<1>1. 0 \in Cores
  BY DebugAssumption DEF Cores
<1>2. SimulatorTypes
  BY <1>1 DEF Init, SimulatorTypes
<1>3. ServerTypes /\ HistoryTypes
  BY DEF Init, ServerTypes, HistoryTypes
<1>4. ConnectionTypes
  BY DEF Init, ConnectionTypes
<1> QED BY <1>2, <1>3, <1>4, DebugTypes

\* a read that decodes: an acknowledgement, or a request that is served or not answered
LEMMA PollServesCases ==
    ASSUME DebugInv, PollServes
    PROVE  \E k \in 1 .. Len(inbox) :
             /\ inbox' = SubSeq(inbox, k + 1, Len(inbox))
             /\ \/ KeepPolling /\ UNCHANGED <<server, outbox>>
                \/ UNCHANGED server /\ WriteFails
                \/ /\ UNCHANGED at_start
                   /\ \E i \in 1 .. k : inbox[i] \in Requests /\ Dispatch(inbox[i])
<1>1. PICK k \in 1 .. Len(inbox) :
          /\ Decodes(SubSeq(inbox, 1, k)) /\ inbox' = SubSeq(inbox, k + 1, Len(inbox))
          /\ IF Stripped(SubSeq(inbox, 1, k)) = <<>> THEN KeepPolling /\ UNCHANGED <<server, outbox>>
             ELSE \/ Dispatch(Stripped(SubSeq(inbox, 1, k))[1]) /\ UNCHANGED at_start
                  \/ UNCHANGED server /\ WriteFails
  BY DEF PollServes
<1> DEFINE read == SubSeq(inbox, 1, k)
<1>2. read \in Seq(Messages) /\ Len(read) = k /\ \A i \in 1 .. k : read[i] = inbox[i]
  BY ReadFacts DEF DebugInv
<1>3. CASE Stripped(read) # <<>> /\ Dispatch(Stripped(read)[1]) /\ UNCHANGED at_start
  <2>1. Len(Stripped(read)) = 1 /\ Stripped(read)[1] \in Requests
    BY <1>1, <1>3 DEF Decodes
  <2>2. PICK i \in 1 .. k : Stripped(read)[1] = read[i]
    BY <1>2, <2>1, StrippedFacts
  <2>3. inbox[i] \in Requests /\ Dispatch(inbox[i])
    BY <1>2, <1>3, <2>1, <2>2
  <2> QED BY <1>1, <1>3, <2>3
<1> QED BY <1>1, <1>3

LEMMA DebugStep == DebugInv /\ [Next]_vars => DebugInv'
<1> SUFFICES ASSUME DebugInv, [Next]_vars PROVE DebugInv'
  OBVIOUS
<1>1. SimulatorTypes /\ ServerTypes /\ ConnectionTypes /\ HistoryTypes
  BY DebugTypes
<1> SUFFICES SimulatorTypes' /\ ServerTypes' /\ ConnectionTypes' /\ HistoryTypes'
  BY DebugTypes, PTL
<1>2. CASE (\E c \in Cores : BeginStep(c)) \/ EndRound
  <2>1. UNCHANGED <<server, connection, undecoded>>
    BY <1>2 DEF BeginStep, EndRound, history
  <2>2. SimulatorTypes' /\ polled' \in BOOLEAN
    <3>1. CASE \E c \in Cores : BeginStep(c)
      BY <1>1, <3>1 DEF BeginStep, SimulatorTypes
    <3>2. CASE EndRound
      <4>1. PICK m \in {mode, [mode EXCEPT ![0] = IF @ = "asleep" THEN "ready" ELSE @]} :
                /\ mode' = m /\ todo' = {c \in Cores : m[c] = "ready"}
                /\ at' \in {"over"} \cup {"round" : c \in {d \in Cores : m[d] # "ended"}}
        BY <3>2 DEF EndRound
      <4>2. m \in [Cores -> {"ready", "asleep", "ended"}]
        BY <1>1 DEF SimulatorTypes
      <4>3. UNCHANGED <<core, pcs, polled>>
        BY <3>2 DEF EndRound, history
      <4> QED BY <1>1, <4>1, <4>2, <4>3 DEF SimulatorTypes, HistoryTypes
    <3> QED BY <1>2, <3>1, <3>2
  <2> QED BY <1>1, <2>1, <2>2 DEF server, connection, ServerTypes, ConnectionTypes, HistoryTypes
<1>3. CASE PreStepChecks
  <2>1. UNCHANGED <<core, pcs, mode, todo, instr_breakpoints, inbox, client, history>>
    BY <1>3 DEF PreStepChecks
  <2>2. at' \in {"poll", "execute"} /\ at_start' \in BOOLEAN /\ do_step' \in BOOLEAN
    BY <1>3 DEF PreStepChecks
  <2>3. outbox' \in Seq(Replies)
    BY <1>1, <1>3, SendTypes DEF PreStepChecks, ConnectionTypes, Replies
  <2> QED BY <1>1, <2>1, <2>2, <2>3
      DEF history, SimulatorTypes, ServerTypes, ConnectionTypes, HistoryTypes
<1>4. CASE PollFails
  <2>1. UNCHANGED <<server, core, pcs, mode, todo, outbox, client>> /\ undecoded' = TRUE /\ PollReturns
    BY <1>4 DEF PollFails
  <2>2. inbox' \in Seq(Messages)
    BY <1>1, <1>4, ReadFacts DEF PollFails, ConnectionTypes
  <2> QED BY <1>1, <2>1, <2>2
      DEF PollReturns, server, SimulatorTypes, ServerTypes, ConnectionTypes, HistoryTypes
<1>5. CASE PollServes
  <2>1. UNCHANGED <<core, pcs, mode, todo, client, undecoded>>
    BY <1>5 DEF PollServes
  <2>2. PICK k \in 1 .. Len(inbox) :
             /\ inbox' = SubSeq(inbox, k + 1, Len(inbox))
             /\ \/ KeepPolling /\ UNCHANGED <<server, outbox>>
                \/ UNCHANGED server /\ WriteFails
                \/ /\ UNCHANGED at_start
                   /\ \E i \in 1 .. k : inbox[i] \in Requests /\ Dispatch(inbox[i])
    BY <1>5, PollServesCases
  <2>3. inbox' \in Seq(Messages)
    BY <1>1, <2>2, ReadFacts DEF ConnectionTypes
  <2>4. ASSUME KeepPolling \/ PollReturns
        PROVE  at' \in {"round", "poll", "execute"} /\ polled' \in BOOLEAN
    BY <1>1, <2>4 DEF KeepPolling, PollReturns, HistoryTypes
  <2>5. CASE (KeepPolling \/ WriteFails) /\ UNCHANGED <<server, outbox>>
    BY <1>1, <2>1, <2>3, <2>4, <2>5
       DEF WriteFails, server, SimulatorTypes, ServerTypes, ConnectionTypes, HistoryTypes
  <2>6. ASSUME NEW r \in Requests, Dispatch(r), UNCHANGED at_start
        PROVE  SimulatorTypes' /\ ServerTypes' /\ ConnectionTypes' /\ HistoryTypes'
    <3>1. do_step' \in BOOLEAN /\ instr_breakpoints' \subseteq Nat \X Nat
      BY <1>1, <2>6, HandleTypes DEF Dispatch
    <3>2. (KeepPolling \/ PollReturns) /\ outbox' \in Seq(Replies)
      BY <1>1, <2>6, SendTypes DEF Dispatch, WriteFails, ConnectionTypes, Replies
    <3> QED BY <1>1, <2>1, <2>3, <2>4, <2>6, <3>1, <3>2
        DEF SimulatorTypes, ServerTypes, ConnectionTypes, HistoryTypes
  <2> QED BY <2>2, <2>5, <2>6 DEF WriteFails
<1>6. CASE Execute
  <2>1. /\ UNCHANGED <<core, todo, server, inbox, client, polled, undecoded>> /\ at' = "round"
        /\ pcs' \in [Cores -> PCs]
        /\ mode' \in [Cores -> {"ready", "asleep", "ended"}]
    BY <1>1, <1>6 DEF Execute, SimulatorTypes
  <2>2. outbox' \in Seq(Replies)
    BY <1>1, <1>6, SendTypes DEF Execute, ConnectionTypes, Replies
  <2> QED BY <1>1, <2>1, <2>2 DEF server, SimulatorTypes, ServerTypes, ConnectionTypes, HistoryTypes
<1>7. CASE BrokenPipe
  BY <1>1, <1>7 DEF BrokenPipe, server, connection, history, SimulatorTypes, ServerTypes,
                    ConnectionTypes, HistoryTypes
<1>8. ASSUME \/ \E r \in Requests : ClientSends(r)
             \/ ClientInterrupts \/ ClientReceives \/ ClientHangsUp
      PROVE  SimulatorTypes' /\ ServerTypes' /\ ConnectionTypes' /\ HistoryTypes'
  <2>1. UNCHANGED <<simulator, server, polled, undecoded>>
    BY <1>8 DEF ClientSends, ClientInterrupts, ClientReceives, ClientHangsUp, history
  <2>2. inbox' \in Seq(Messages)
    BY <1>1, <1>8 DEF ClientSends, ClientInterrupts, ClientReceives, ClientHangsUp, ConnectionTypes, Messages
  <2>3. outbox' \in Seq(Replies)
    <3>1. outbox' = outbox \/ outbox' = <<>> \/ (outbox # <<>> /\ outbox' = Tail(outbox))
      BY <1>8 DEF ClientSends, ClientInterrupts, ClientReceives, ClientHangsUp
    <3>2. outbox \in Seq(Replies) /\ <<>> \in Seq(Replies)
      BY <1>1 DEF ConnectionTypes
    <3>3. outbox # <<>> => Tail(outbox) \in Seq(Replies)
      BY <3>2
    <3> QED BY <3>1, <3>2, <3>3
  <2>4. client' \in {"stopped", "waiting", "running", "killing", "gone"}
    BY <1>1, <1>8 DEF ClientSends, ClientInterrupts, ClientReceives, ClientHangsUp, ConnectionTypes
  <2> QED BY <1>1, <2>1, <2>2, <2>3, <2>4
      DEF simulator, server, SimulatorTypes, ServerTypes, ConnectionTypes, HistoryTypes
<1>9. CASE Stopped \/ UNCHANGED vars
  BY <1>1, <1>9 DEF Stopped, vars, simulator, server, connection, history, SimulatorTypes,
                    ServerTypes, ConnectionTypes, HistoryTypes
<1> QED
  BY <1>2, <1>3, <1>4, <1>5, <1>6, <1>7, <1>8, <1>9 DEF Next, ServerStep

-----------------------------------------------------------------------------
(* Breakpoints *)

(* Between word-aligned instructions a breakpoint of four bytes stops at    *)
(* its own address and nowhere else, although breakpoint_hit compares every *)
(* byte of the instruction with ranges.                                     *)
THEOREM BreakpointsMatchExactly == Spec => []BreakpointsAreExact
<1>1. DebugInv => BreakpointsAreExact
  <2> SUFFICES ASSUME DebugInv, NEW p \in PCs, p % 4 = 0,
                      \A r \in instr_breakpoints : r[1] % 4 = 0 /\ r[2] = r[1] + 3
               PROVE  breakpoint_hit(p) <=> \E r \in instr_breakpoints : r[1] = p
    BY DEF BreakpointsAreExact
  <2>1. p \in Nat /\ \A r \in instr_breakpoints : r[1] \in Nat /\ r[2] \in Nat
    BY DebugAssumption DEF DebugInv
  <2>2. ASSUME NEW r \in instr_breakpoints, NEW i \in 0 .. 3, r[1] <= p + i, p + i <= r[2]
        PROVE  r[1] = p
    <3> DEFINE a == r[1]
    <3>1. a \in Nat /\ a % 4 = 0 /\ a <= p + i /\ p + i <= a + 3
      BY <2>1, <2>2
    <3> HIDE DEF a
    <3>2. a = p
      BY <2>1, <3>1
    <3> QED BY <3>2 DEF a
  <2>3. ASSUME NEW r \in instr_breakpoints, r[1] = p
        PROVE  r[1] <= p + 0 /\ p + 0 <= r[2]
    BY <2>1, <2>3
  <2> QED BY <2>2, <2>3 DEF breakpoint_hit, breakpoint_match
<1> QED BY <1>1, DebugInit, DebugStep, PTL DEF Spec

PolledInv == at = "execute" => polled \/ ~breakpoint_hit(pcs[core])

\* what BreakpointsStop and StoppedMeansStopped say of a step
BreakpointStep == Executes /\ breakpoint_hit(pcs[core]) => polled
StoppedStep    == Executes /\ TellsStopped => undecoded

LEMMA PolledStep ==
    ASSUME PolledInv, [Next]_vars
    PROVE  PolledInv'
<1>1. CASE (\E c \in Cores : BeginStep(c)) \/ EndRound \/ Execute \/ BrokenPipe
  <2>1. at' # "execute"
    BY <1>1 DEF BeginStep, EndRound, Execute, BrokenPipe
  <2> QED BY <2>1 DEF PolledInv
<1>2. CASE PreStepChecks
  <2>1. UNCHANGED <<core, pcs, instr_breakpoints>>
    BY <1>2 DEF PreStepChecks
  <2>2. at' = "execute" => ~breakpoint_hit(pcs[core])
    BY <1>2 DEF PreStepChecks
  <2> QED BY <2>1, <2>2 DEF PolledInv, breakpoint_hit, breakpoint_match
<1>3. CASE PollFails \/ PollServes
  <2>1. at' = "execute" => polled'
    BY <1>3 DEF PollFails, PollServes, Dispatch, WriteFails, PollReturns, KeepPolling
  <2> QED BY <2>1 DEF PolledInv
<1>4. CASE \/ \E r \in Requests : ClientSends(r)
           \/ ClientInterrupts \/ ClientReceives \/ ClientHangsUp \/ Stopped \/ UNCHANGED vars
  <2>1. UNCHANGED <<at, core, pcs, instr_breakpoints, polled>>
    BY <1>4 DEF ClientSends, ClientInterrupts, ClientReceives, ClientHangsUp, Stopped, vars,
                simulator, server, history
  <2> QED BY <2>1 DEF PolledInv, breakpoint_hit, breakpoint_match
<1> QED
  BY <1>1, <1>2, <1>3, <1>4 DEF Next, ServerStep

(* No instruction under a breakpoint is executed by a StepCore that did not *)
(* poll for requests (PreStepChecks, Poll), on any core.                    *)
THEOREM BreakpointsHold == Spec => BreakpointsStop
<1>1. Init => PolledInv
  BY DEF Init, PolledInv
<1>2. PolledInv /\ [Next]_vars => PolledInv'
  BY PolledStep
<1>3. PolledInv => [BreakpointStep]_vars
  BY DEF PolledInv, BreakpointStep, Executes
<1>4. [][BreakpointStep]_vars => BreakpointsStop
  BY PTL DEF BreakpointsStop, BreakpointStep
<1> QED BY <1>1, <1>2, <1>3, <1>4, PTL DEF Spec

-----------------------------------------------------------------------------
(* The session *)

Talk ==
    /\ Len(outbox) <= 1
    /\ \A i, j \in Pending : i = j
    /\ \A i \in Pending : outbox = <<>> /\ Halted /\ client = After(inbox[i])
    /\ outbox # <<>> => Halted /\ client # "stopped"
    /\ client # "running" => Halted

LEMMA Sessions ==
    Session <=> (client = "gone" => outbox = <<>>) /\ (undecoded \/ client = "gone" \/ Talk)
BY DEF Session, Talk

\* steps of the simulator that neither send nor poll
LEMMA QuietTalk ==
    ASSUME Talk, UNCHANGED connection, Halted => Halted'
    PROVE  Talk'
BY DEF Talk, connection, Pending, After, Halted

\* a stop reply goes to a client that waits for one
LEMMA StopTalk ==
    ASSUME DebugInv, Talk, ~Halted, Send("stop"), client # "gone", UNCHANGED <<inbox, client>>, Halted'
    PROVE  Talk'
<1>1. outbox = <<>> /\ Pending = {} /\ client = "running"
  BY DEF Talk
<1>2. outbox' = <<"stop">>
  BY <1>1 DEF Send
<1>3. Len(outbox') = 1 /\ outbox' # <<>>
  BY <1>2
<1>4. Pending' = {}
  BY <1>1 DEF Pending
<1> QED BY <1>1, <1>3, <1>4 DEF Talk

\* what is left of the requests after a read of k messages
LEMMA PendingAfterRead ==
    ASSUME DebugInv, NEW k \in 1 .. Len(inbox), inbox' = SubSeq(inbox, k + 1, Len(inbox))
    PROVE  \A i \in Pending' : i + k \in Pending /\ inbox'[i] = inbox[i + k] /\ i + k \notin 1 .. k
<1>1. inbox \in Seq(Messages) /\ Len(inbox) \in Nat /\ k \in Nat
  BY DEF DebugInv
<1>2. /\ Len(inbox') = Len(inbox) - k
      /\ \A i \in 1 .. Len(inbox) - k : inbox'[i] = inbox[i + k] /\ i + k \in 1 .. Len(inbox)
  BY <1>1, ReadFacts
<1> QED BY <1>1, <1>2 DEF Pending

LEMMA PollTalk ==
    ASSUME DebugInv, Talk, client # "gone", PollServes
    PROVE  Talk'
<1>1. UNCHANGED client /\ at = "poll" /\ Halted
  BY DEF PollServes, Halted
<1>2. PICK k \in 1 .. Len(inbox) :
         /\ inbox' = SubSeq(inbox, k + 1, Len(inbox))
         /\ \/ KeepPolling /\ UNCHANGED <<server, outbox>>
            \/ UNCHANGED server /\ WriteFails
            \/ /\ UNCHANGED at_start
               /\ \E i \in 1 .. k : inbox[i] \in Requests /\ Dispatch(inbox[i])
  BY PollServesCases
<1>3. \A i \in Pending' : i + k \in Pending /\ inbox'[i] = inbox[i + k] /\ i + k \notin 1 .. k
  BY <1>2, PendingAfterRead
<1>4. k \in Nat /\ Pending \subseteq Nat /\ Pending' \subseteq Nat /\ Len(inbox) \in Nat
  BY DEF Pending, DebugInv
<1>5. CASE KeepPolling /\ UNCHANGED <<server, outbox>>
  <2>1. Halted'
    BY <1>5 DEF KeepPolling, Halted
  <2>2. \A i, j \in Pending' : i = j
    BY <1>3, <1>4 DEF Talk
  <2>3. \A i \in Pending' : outbox' = <<>> /\ client' = After(inbox[i + k]) /\ inbox'[i] = inbox[i + k]
    BY <1>1, <1>3, <1>5 DEF Talk
  <2> QED BY <1>1, <1>5, <2>1, <2>2, <2>3 DEF Talk, After
<1>6. ASSUME NEW i \in 1 .. k, inbox[i] \in Requests, Dispatch(inbox[i])
      PROVE  Talk'
  <2>1. i \in Pending
    BY <1>4, <1>6 DEF Pending
  <2>2. Pending' = {}
    BY <1>3, <1>4, <2>1 DEF Talk
  <2>3. outbox = <<>> /\ client = After(inbox[i])
    BY <2>1 DEF Talk
  <2>4. CASE inbox[i].cmd \in {"c", "s"}
    <3>1. outbox' = <<>> /\ client' = "running" /\ Len(<<>>) = 0
      BY <1>1, <1>6, <2>3, <2>4 DEF Dispatch, After
    <3> QED BY <2>2, <3>1 DEF Talk
  <2>5. CASE inbox[i].cmd \notin {"c", "s"}
    <3>1. KeepPolling /\ Send(IF inbox[i].cmd = "k" THEN "X00" ELSE "reply")
      BY <1>6, <2>5 DEF Dispatch, WriteFails
    <3>2. Halted'
      BY <3>1 DEF KeepPolling, Halted
    <3>3. \E what : outbox' = <<what>>
      BY <2>3, <3>1 DEF Send
    <3>4. Len(outbox') = 1
      BY <3>3
    <3>5. client' # "stopped"
      BY <1>1, <1>6, <2>3, MessageKinds
    <3> QED BY <2>2, <3>2, <3>4, <3>5 DEF Talk
  <2> QED BY <2>4, <2>5
<1> QED BY <1>2, <1>5, <1>6 DEF WriteFails

\* messages that are no requests
LEMMA AppendOther ==
    ASSUME DebugInv, NEW m \in {Plus, Break}, inbox' = Append(inbox, m)
    PROVE  Pending' = Pending /\ \A i \in Pending : inbox'[i] = inbox[i]
<1>1. inbox \in Seq(Messages) /\ Len(inbox) \in Nat /\ m \in Messages /\ m \notin Requests
  BY MessageKinds DEF DebugInv, Messages
<1>2. /\ Len(inbox') = Len(inbox) + 1 /\ inbox'[Len(inbox) + 1] = m
      /\ \A i \in 1 .. Len(inbox) : inbox'[i] = inbox[i]
  BY <1>1
<1> QED BY <1>1, <1>2 DEF Pending

LEMMA SendsTalk ==
    ASSUME DebugInv, Talk, NEW r \in Requests, ClientSends(r)
    PROVE  Talk'
<1>1. client = "stopped" /\ UNCHANGED <<simulator, server, outbox>> /\ inbox' = Append(inbox, r) /\ client' = After(r)
  BY DEF ClientSends, After
<1>2. outbox = <<>> /\ Halted /\ Pending = {}
  BY <1>1, MessageKinds DEF Talk, Pending
<1>3. Halted'
  BY <1>1, <1>2 DEF Halted, simulator, server
<1>4. inbox \in Seq(Messages) /\ Len(inbox) \in Nat /\ r \in Messages
  BY DEF DebugInv, Messages
<1>5. /\ Len(inbox') = Len(inbox) + 1 /\ inbox'[Len(inbox) + 1] = r
      /\ \A i \in 1 .. Len(inbox) : inbox'[i] = inbox[i]
  BY <1>1, <1>4
<1>6. \A i \in Pending' : i = Len(inbox) + 1
  BY <1>2, <1>4, <1>5 DEF Pending
<1>7. outbox' = <<>> /\ Len(<<>>) = 0
  BY <1>1, <1>2
<1>8. \A i \in Pending' : inbox'[i] = r
  BY <1>5, <1>6
<1> QED BY <1>1, <1>3, <1>6, <1>7, <1>8 DEF Talk, After

LEMMA ReceivesTalk ==
    ASSUME DebugInv, Talk, ClientReceives, client' # "gone"
    PROVE  Talk'
<1>1. /\ outbox # <<>> /\ client' = "stopped" /\ outbox' = Tail(outbox) /\ inbox' = Append(inbox, Plus)
      /\ UNCHANGED <<simulator, server>>
  BY DEF ClientReceives
<1>2. Len(outbox) <= 1 /\ Halted /\ Pending = {} /\ outbox \in Seq(Replies)
  BY <1>1 DEF Talk, DebugInv
<1>3. Halted'
  BY <1>1, <1>2 DEF Halted, simulator, server
<1>4. Pending' = {}
  BY <1>1, <1>2, AppendOther
<1>5. Tail(outbox) \in Seq(Replies) /\ Len(Tail(outbox)) = 0
  <2>1. Len(outbox) \in Nat /\ Len(outbox) # 0
    BY <1>1, <1>2, EmptySeq
  <2>2. Tail(outbox) \in Seq(Replies) /\ Len(Tail(outbox)) = Len(outbox) - 1
    BY <1>1, <1>2
  <2> QED BY <1>2, <2>1, <2>2
<1>6. outbox' = <<>> /\ Len(outbox') = 0
  BY <1>1, <1>5, EmptySeq
<1> QED BY <1>3, <1>4, <1>6 DEF Talk

LEMMA SessionStep ==
    ASSUME DebugInv, Session, [Next]_vars
    PROVE  Session'
<1>1. CASE client = "gone"
  <2>1. client' = "gone" /\ outbox' = outbox
    BY <1>1 DEF Next, ServerStep, BeginStep, EndRound, PreStepChecks, PollFails, PollServes, Dispatch,
         WriteFails, Execute, BrokenPipe, ClientSends, ClientInterrupts, ClientReceives, ClientHangsUp,
         Stopped, Send, vars, connection
  <2> QED BY <1>1, <2>1, Sessions DEF Session
<1>2. CASE client # "gone" /\ client' = "gone"
  <2>1. outbox' = <<>>
    BY <1>2 DEF Next, ServerStep, BeginStep, EndRound, PreStepChecks, PollFails, PollServes, Execute,
         BrokenPipe, ClientSends, ClientInterrupts, ClientReceives, ClientHangsUp, Stopped, vars, connection
  <2> QED BY <1>2, <2>1 DEF Session
<1>3. CASE undecoded'
  BY <1>3, <1>1, <1>2 DEF Session
<1>4. CASE client # "gone" /\ client' # "gone" /\ ~undecoded'
  <2>1. ~undecoded
    BY <1>4 DEF Next, ServerStep, BeginStep, EndRound, PreStepChecks, PollFails, PollServes, Execute,
         BrokenPipe, ClientSends, ClientInterrupts, ClientReceives, ClientHangsUp, Stopped, vars, history
  <2>2. Talk
    BY <1>4, <2>1, Sessions
  <2> SUFFICES Talk'
    BY <1>4 DEF Session, Talk
  <2>3. CASE (\E c \in Cores : BeginStep(c)) \/ EndRound
    <3>1. UNCHANGED connection /\ (Halted => Halted')
      BY <2>3 DEF BeginStep, EndRound, Halted, server
    <3> QED BY <2>2, <3>1, QuietTalk
  <2>4. CASE PreStepChecks
    <3>1. CASE ~at_start /\ ~do_step /\ breakpoint_hit(pcs[core])
      <4>1. ~Halted /\ Send("stop") /\ UNCHANGED <<inbox, client>> /\ Halted'
        BY <2>4, <3>1 DEF PreStepChecks, Halted
      <4> QED BY <1>4, <2>2, <4>1, StopTalk
    <3>2. CASE ~(~at_start /\ ~do_step /\ breakpoint_hit(pcs[core]))
      <4>1. UNCHANGED connection /\ (Halted => Halted')
        BY <2>4, <3>2 DEF PreStepChecks, Halted, connection
      <4> QED BY <2>2, <4>1, QuietTalk
    <3> QED BY <3>1, <3>2
  <2>5. CASE PollFails
    BY <1>4, <2>5 DEF PollFails
  <2>6. CASE PollServes
    BY <1>4, <2>2, <2>6, PollTalk
  <2>7. CASE Execute
    <3>1. ~Halted
      BY <2>7 DEF Execute, Halted
    <3>2. CASE do_step
      <4>1. Send("stop") /\ UNCHANGED <<inbox, client>> /\ Halted'
        BY <2>7, <3>2 DEF Execute, Halted, server
      <4> QED BY <1>4, <2>2, <3>1, <4>1, StopTalk
    <3>3. CASE ~do_step
      <4>1. UNCHANGED connection
        BY <2>7, <3>3 DEF Execute, connection
      <4> QED BY <2>2, <3>1, <4>1, QuietTalk
    <3> QED BY <3>2, <3>3
  <2>8. CASE BrokenPipe
    BY <1>4, <2>8 DEF BrokenPipe
  <2>9. CASE \E r \in Requests : ClientSends(r)
    BY <2>2, <2>9, SendsTalk
  <2>10. CASE ClientInterrupts
    <3>1. UNCHANGED <<simulator, server, outbox, client>> /\ inbox' = Append(inbox, Break)
      BY <2>10 DEF ClientInterrupts
    <3>2. Pending' = Pending /\ \A i \in Pending : inbox'[i] = inbox[i]
      BY <3>1, AppendOther
    <3>3. Halted => Halted'
      BY <3>1 DEF Halted, simulator, server
    <3> QED BY <2>2, <3>1, <3>2, <3>3 DEF Talk, After
  <2>11. CASE ClientReceives
    BY <1>4, <2>2, <2>11, ReceivesTalk
  <2>12. CASE ClientHangsUp
    BY <1>4, <2>12 DEF ClientHangsUp
  <2>13. CASE Stopped \/ UNCHANGED vars
    <3>1. UNCHANGED connection /\ (Halted => Halted')
      BY <2>13 DEF Stopped, vars, simulator, server, Halted
    <3> QED BY <2>2, <3>1, QuietTalk
  <2> QED BY <2>3, <2>4, <2>5, <2>6, <2>7, <2>8, <2>9, <2>10, <2>11, <2>12, <2>13 DEF Next, ServerStep
<1> QED BY <1>1, <1>2, <1>3, <1>4 DEF DebugInv

LEMMA SessionInit == Init => Session
<1> SUFFICES ASSUME Init PROVE Session
  OBVIOUS
<1>1. inbox = <<>> /\ outbox = <<>> /\ Len(<<>>) = 0
  BY DEF Init
<1>2. Pending = {}
  BY <1>1 DEF Pending
<1>3. Halted
  BY DEF Init, Halted
<1> QED BY <1>1, <1>2, <1>3 DEF Session

(* The conversation is well formed: the server never has two answers on     *)
(* their way, unless a read did not decode (Poll, AcknowledgeBreakpoint,    *)
(* PostStepChecks).                                                         *)
THEOREM DebugTypeCorrect == Spec => []DebugTypeOK
<1>1. DebugInv /\ Session => DebugTypeOK
  <2> SUFFICES ASSUME DebugInv, Session PROVE DebugTypeOK
    OBVIOUS
  <2>1. Len(<<>>) = 0
    OBVIOUS
  <2>2. Len(outbox) <= 1 \/ undecoded
    BY <2>1 DEF Session
  <2> QED BY <2>2 DEF DebugInv, DebugTypeOK
<1>2. DebugInv /\ Session /\ [Next]_vars => Session'
  BY SessionStep
<1> QED BY <1>1, <1>2, SessionInit, DebugInit, DebugStep, PTL DEF Spec

(* While the client takes the target to be stopped no core executes an      *)
(* instruction, as long as every read decodes, for any number of cores,     *)
(* breakpoints, steps and requests (PreStepChecks, Poll, PostStepChecks).   *)
THEOREM StopsHold == Spec => StoppedMeansStopped
<1>1. DebugInv /\ Session => [StoppedStep]_vars
  <2> SUFFICES ASSUME DebugInv, Session, Executes, TellsStopped PROVE undecoded
    BY DEF StoppedStep
  <2>1. at = "execute" /\ client \in {"stopped", "waiting"}
    BY DEF Executes, TellsStopped
  <2>2. ~Halted
    BY <2>1 DEF Halted
  <2> QED BY <2>1, <2>2 DEF Session
<1>2. DebugInv /\ Session /\ [Next]_vars => Session'
  BY SessionStep
<1>3. [][StoppedStep]_vars => StoppedMeansStopped
  BY PTL DEF StoppedMeansStopped, StoppedStep
<1> QED BY <1>1, <1>2, <1>3, SessionInit, DebugInit, DebugStep, PTL DEF Spec
=============================================================================
