---------------------------------- MODULE Uart ----------------------------------
(***************************************************************************)
(* The PL011 uart (classes uart_queue, uart, UART_pl011) between stdin,    *)
(* stdout and the cores that reach its registers.  In one round of the     *)
(* simulator every core executes at most one instruction, then             *)
(* ServiceDevices runs ServiceIOs and ties the interrupt to core 0.        *)
(*                                                                         *)
(* A character is the number of its arrival, so that losing, repeating and *)
(* reordering show.  Registers are sets of the bits that mean something;   *)
(* RSR, ILPR, IBRD, FBRD, TCR and DMACR only matter to software, the ID    *)
(* registers are constant, and the thresholds of IFLS only decide whether  *)
(* SetTransmitInterrupt and SetReceiveInterrupt are called, which          *)
(* UART_pl011 overrides with empty bodies: none of these is state here.    *)
(***************************************************************************)
EXTENDS Integers, Sequences, FiniteSets, Functions

CONSTANTS
    NumCores,
    QueueSize,       \* uart_queue::configured_size, 16
    StdioSize,       \* characters getchar reads ahead at once
    Masks,           \* what software may write to IMSC,
    Clears,          \*  ... to TICR
    MaxTyped, MaxWritten, MaxPending \* bounds on the characters and on the terminal's queue

Cores      == 0 .. NumCores - 1
Null       == 0      \* the character 0
EOF        == -1     \* getchar at end of file: stored as the character 0xff
None       == -2     \* holding_register_primed is false
Interrupts == {"OE", "TX", "RX"}        \* bits 10, 5 and 4 of RIS and IMSC

ASSUME UartAssumption ==
    /\ {NumCores, QueueSize, StdioSize} \subseteq Nat \ {0}
    /\ {MaxTyped, MaxWritten, MaxPending} \subseteq Nat
    /\ Masks \subseteq SUBSET Interrupts /\ Clears \subseteq SUBSET Interrupts

VARIABLES
    rx, tx,          \* receive_queue, transmit_queue
    RIS, IMSC,
    meip,            \* MACHINE_EXTERNAL_INT is pending on core 0
    todo,            \* cores that have not stepped in this round
    kernel, stdio, closed,  \* stdin: what the terminal holds, what getchar has read ahead, end of file
    \* history:
    typed, got,      \* characters that arrived at stdin; those read from DR
    written, sent,   \* characters written to DR; those put to stdout
    drivers,         \* cores that have written DR or LCR_H
    switched         \* the FIFOs were switched on or off while the receive queue held characters

queues  == <<rx, tx>>
regs    == <<RIS, IMSC>>
stdin   == <<kernel, stdio, closed, typed>>
history == <<got, written, sent, drivers, switched>>
vars    == <<queues, regs, meip, todo, stdin, history>>

-----------------------------------------------------------------------------
(* uart_queue *)

Reset == [fifo |-> <<>>, enabled |-> FALSE, holding |-> None]

SetFIFOenable(q, enable) == [q EXCEPT !.enabled = enable]

Full(q)  == IF q.enabled THEN Len(q.fifo) >= QueueSize ELSE q.holding # None
Empty(q) == IF q.enabled THEN q.fifo = <<>> ELSE q.holding = None

\* the character GetChar returns, if the queue is not Empty
NextChar(q) == IF q.enabled THEN Head(q.fifo) ELSE q.holding

MutantGetChar(q) == IF q.enabled THEN [q EXCEPT !.fifo = Tail(@)] ELSE q

\*  ... and the queue it leaves
GetChar(q) == IF q.enabled THEN [q EXCEPT !.fifo = Tail(@)] ELSE [q EXCEPT !.holding = None]

MutantPutChar(q, c) ==
    IF q.enabled THEN [q EXCEPT !.fifo = Append(@, c)] ELSE [q EXCEPT !.holding = c]

MutantPutFront(q, c) ==
    IF ~q.enabled THEN [q EXCEPT !.holding = c]
    ELSE IF Len(q.fifo) >= QueueSize THEN q ELSE [q EXCEPT !.fifo = <<c>> \o @]

\* a full fifo refuses the character; the holding register is overwritten
PutChar(q, c) ==
    IF ~q.enabled THEN [q EXCEPT !.holding = c]
    ELSE IF Len(q.fifo) >= QueueSize THEN q ELSE [q EXCEPT !.fifo = Append(@, c)]

Held(q) == Range(q.fifo) \cup ({q.holding} \ {None})

Init ==
    /\ rx = Reset /\ tx = Reset
    /\ RIS = {} /\ IMSC = {}
    /\ meip = FALSE
    /\ todo = Cores
    /\ kernel = <<>> /\ stdio = <<>> /\ closed = FALSE
    /\ typed = 0 /\ got = {} /\ written = 0 /\ sent = {} /\ drivers = {} /\ switched = FALSE

-----------------------------------------------------------------------------
(* The registers.  A core that steps is done with this round; core 0 may   *)
(* take its interrupt at the start of the step, which clears it.           *)

StepOf(c) ==
    /\ c \in todo
    /\ todo' = todo \ {c}
    /\ meip' \in (IF c = 0 THEN {meip, FALSE} ELSE {meip})

\* an instruction that leaves the uart alone, reads a register other than DR, writes one
\* that is no state here, uses another size than a word or an address that is no
\* register's, or no instruction
Other(c) == StepOf(c) /\ UNCHANGED <<queues, regs, stdin, history>>

MutantReadDR(c) ==
    /\ StepOf(c)
    /\ rx' = [rx EXCEPT !.fifo = IF @ = <<>> THEN @ ELSE Tail(@), !.holding = None]
    /\ got' = IF Empty(rx) THEN got ELSE got \cup ({NextChar(rx)} \ {EOF})
    /\ UNCHANGED <<tx, regs, stdin, written, sent, drivers, switched>>

ReadDR(c) ==
    /\ StepOf(c)
    /\ rx' = IF Empty(rx) THEN rx ELSE GetChar(rx)
    /\ got' = IF Empty(rx) THEN got ELSE got \cup ({NextChar(rx)} \ {EOF})
    /\ UNCHANGED <<tx, regs, stdin, written, sent, drivers, switched>>

\* the result of PutChar is ignored
WriteDR(c) ==
    /\ written < MaxWritten
    /\ StepOf(c)
    /\ tx' = PutChar(tx, written + 1)
    /\ written' = written + 1
    /\ drivers' = drivers \cup {c}
    /\ UNCHANGED <<rx, regs, stdin, got, sent, switched>>

\* bit FEN of LCR_H switches both FIFOs; characters stay where they are
WriteLCR_H(c, FEN) ==
    /\ StepOf(c)
    /\ rx' = SetFIFOenable(rx, FEN)
    /\ tx' = SetFIFOenable(tx, FEN)
    /\ drivers' = drivers \cup {c}
    /\ switched' = (switched \/ (FEN # rx.enabled /\ Held(rx) # {}))
    /\ UNCHANGED <<regs, stdin, got, written, sent>>

WriteIMSC(c, mask) == StepOf(c) /\ IMSC' = mask /\ UNCHANGED <<queues, RIS, stdin, history>>

\* the bits written replace the raw interrupt status
WriteTICR(c, bits) == StepOf(c) /\ RIS' = bits /\ UNCHANGED <<queues, IMSC, stdin, history>>

-----------------------------------------------------------------------------
(* ServiceIOs, once per round *)

\* select looks at the terminal, not at what getchar has already read
input_chars_available == kernel # <<>> \/ closed

\* getchar: from the buffer, or from the terminal by way of the buffer
Input ==
    IF stdio # <<>> THEN [char |-> Head(stdio), stdio |-> Tail(stdio), kernel |-> kernel]
    ELSE IF kernel = <<>> THEN [char |-> EOF, stdio |-> <<>>, kernel |-> <<>>]
    ELSE LET n == IF Len(kernel) < StdioSize THEN Len(kernel) ELSE StdioSize
         IN  [char |-> Head(kernel), stdio |-> SubSeq(kernel, 2, n),
              kernel |-> SubSeq(kernel, n + 1, Len(kernel))]

MutantTransmit ==
    /\ tx' = IF ~tx.enabled \/ Empty(tx) THEN tx ELSE GetChar(tx)
    /\ sent' = IF ~tx.enabled \/ Empty(tx) THEN sent ELSE sent \cup {NextChar(tx)}

Transmit ==
    /\ tx' = IF Empty(tx) THEN tx ELSE GetChar(tx)
    /\ sent' = IF Empty(tx) THEN sent ELSE sent \cup {NextChar(tx)}

SetOverrun(overrun) == RIS' = IF overrun THEN RIS \cup {"OE"} ELSE RIS \ {"OE"}

MutantReceive ==
    /\ IF ~input_chars_available THEN UNCHANGED <<rx, kernel, stdio>>
       ELSE /\ rx' = IF Input.char = Null THEN rx ELSE PutChar(rx, Input.char)
            /\ kernel' = Input.kernel /\ stdio' = Input.stdio
    /\ SetOverrun(Full(rx))

\* nothing is read from stdin while the queue is full; the null character is dropped
Receive ==
    LET queue_up_char == ~Full(rx) /\ input_chars_available /\ Input.char # Null
    IN  /\ IF Full(rx) \/ ~input_chars_available THEN UNCHANGED <<kernel, stdio>>
           ELSE kernel' = Input.kernel /\ stdio' = Input.stdio
        /\ rx' = IF queue_up_char THEN PutChar(rx, Input.char) ELSE rx
        /\ SetOverrun(Full(rx))

MutantInterruptPending == (RIS' \cap IMSC) # {}

\* an interrupt is enabled if it is not masked
InterruptPending == (RIS' \ IMSC) # {}

MutantServiceIOs ==
    /\ todo = {} /\ input_chars_available
    /\ Transmit /\ Receive
    /\ meip' = (meip \/ InterruptPending)
    /\ todo' = Cores
    /\ UNCHANGED <<IMSC, closed, typed, got, written, drivers, switched>>

ServiceIOs ==
    /\ todo = {}
    /\ Transmit /\ Receive
    /\ meip' = (meip \/ InterruptPending)
    /\ todo' = Cores
    /\ UNCHANGED <<IMSC, closed, typed, got, written, drivers, switched>>

-----------------------------------------------------------------------------
(* The other end of stdin *)

Type ==
    /\ ~closed /\ typed < MaxTyped /\ Len(kernel) < MaxPending
    /\ typed' = typed + 1
    /\ kernel' = Append(kernel, typed')
    /\ UNCHANGED <<queues, regs, meip, todo, stdio, closed, history>>

TypeNull ==
    /\ ~closed /\ Len(kernel) < MaxPending
    /\ kernel' = Append(kernel, Null)
    /\ UNCHANGED <<queues, regs, meip, todo, stdio, closed, typed, history>>

Close ==
    /\ ~closed
    /\ closed' = TRUE
    /\ UNCHANGED <<queues, regs, meip, todo, kernel, stdio, typed, history>>

CoreStep(c) ==
    \/ Other(c) \/ ReadDR(c) \/ WriteDR(c)
    \/ \E FEN \in BOOLEAN : WriteLCR_H(c, FEN)
    \/ \E mask \in Masks : WriteIMSC(c, mask)
    \/ \E bits \in Clears : WriteTICR(c, bits)

Next == (\E c \in Cores : CoreStep(c)) \/ ServiceIOs \/ Type \/ TypeNull \/ Close

Spec == Init /\ [][Next]_vars

\* the simulator goes from round to round; the program and the terminal owe nothing
FairSpec == Spec /\ WF_vars((\E c \in Cores : CoreStep(c)) \/ ServiceIOs)

-----------------------------------------------------------------------------
(* Properties *)

Queue == [fifo : Seq(Int), enabled : BOOLEAN, holding : Int]

(* Both queues stay within configured_size, the receive queue because      *)
(* Receive looks before it reads, the transmit queue because put_fifo_char *)
(* refuses; switching the FIFOs switches both.                             *)
UartTypeOK ==
    /\ {rx, tx} \subseteq Queue
    /\ Len(rx.fifo) <= QueueSize /\ Len(tx.fifo) <= QueueSize
    /\ rx.enabled = tx.enabled
    /\ {RIS, IMSC} \subseteq SUBSET Interrupts
    /\ todo \subseteq Cores

(* Whatever the cores do to the FIFO switch, no                            *)
(* character that arrives at stdin is lost: Receive leaves it with stdin   *)
(* until the part of the queue in use has room.                            *)
NoInputLost ==
    1 .. typed \subseteq Range(kernel) \cup Range(stdio) \cup Held(rx) \cup got

(* Software reads the characters in the order they arrived, unless it      *)
(* switches the FIFOs while characters wait: those in the part that is     *)
(* then hidden fall behind the ones received later.                        *)
InputInOrder ==
    [][\A n \in got' \ got : n > 0 /\ ~switched => \A m \in 1 .. n - 1 : m \in got]_vars

(* Programs write to DR without looking at FR.  Nothing they write is lost *)
(* or reordered as long as one core drives the uart, even with the FIFOs   *)
(* off: a round has one of its instructions and sends one character.       *)
OneDriverLosesNothing ==
    Cardinality(drivers) <= 1 =>
        /\ 1 .. written \subseteq sent \cup Held(tx)
        /\ Cardinality(Held(tx)) <= 1

(* A character is put to stdout at most once, and one that is neither held *)
(* nor sent was refused or overwritten and never appears later.            *)
SentOnce ==
    [][\A n \in 1 .. written : /\ n \in sent => n \in sent' /\ n \notin Held(tx')
                               /\ n \notin sent \cup Held(tx) => n \notin sent' \cup Held(tx')]_vars

(* A receive queue that stays full interrupts core 0 unless the overrun    *)
(* interrupt is masked, even if software clears the raw status meanwhile.  *)
OverrunInterrupts == (Full(rx) /\ "OE" \notin IMSC) ~> (meip \/ ~Full(rx) \/ "OE" \in IMSC)

(* With one driver the transmit queue drains, so that by                   *)
(* OneDriverLosesNothing every character written appears on stdout.        *)
WrittenIsSent == Held(tx) # {} ~> (Held(tx) = {} \/ Cardinality(drivers) > 1)

(* Receive reads from 'unbuffered' stdin: a character that has arrived is  *)
(* received, or the queue is full.                                         *)
TypedIsReceived ==
    \A n \in 1 .. MaxTyped :
        (n <= typed) ~> (n \notin Range(kernel) \cup Range(stdio) \/ Full(rx))

=============================================================================
