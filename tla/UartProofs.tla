------------------------------- MODULE UartProofs -------------------------------
(***************************************************************************)
(* Proofs about Uart, for every number of cores, size of the queues and    *)
(* amount of input and output.                                             *)
(*                                                                         *)
(* Input: none of the steps takes a character out of stdin, the receive    *)
(* queue and what was read together.  Output: DriverInv says that while    *)
(* one core drives the uart the transmit queue holds a character only      *)
(* between that core's step and the end of the round, and in the part that *)
(* Transmit looks at.  DistinctInv says that no character is in the        *)
(* transmit queue twice, or in it and on stdout.                           *)
(***************************************************************************)
EXTENDS Uart, FiniteSetTheorems, SequenceTheorems, TLAPS

Bounded(q) == q \in Queue /\ Len(q.fifo) <= QueueSize

StdinOK == kernel \in Seq(Nat) /\ stdio \in Seq(Nat)

UartInv ==
    /\ UartTypeOK /\ StdinOK
    /\ typed \in Nat /\ written \in Nat /\ drivers \subseteq Cores

-----------------------------------------------------------------------------
(* Sequences as sets *)

LEMMA RangeEmpty == Range(<<>>) = {}
BY DEF Range

LEMMA RangeAppend ==
    ASSUME NEW S, NEW s \in Seq(S), NEW c \in S
    PROVE  Range(Append(s, c)) = Range(s) \cup {c}
<1>1. DOMAIN Append(s, c) = 1 .. Len(s) + 1 /\ DOMAIN s = 1 .. Len(s) /\ Len(s) \in Nat
  OBVIOUS
<1>2. \A i \in 1 .. Len(s) : Append(s, c)[i] = s[i]
  OBVIOUS
<1>3. Append(s, c)[Len(s) + 1] = c
  OBVIOUS
<1> QED BY <1>1, <1>2, <1>3 DEF Range

LEMMA RangeTail ==
    ASSUME NEW S, NEW s \in Seq(S), s # <<>>
    PROVE  Range(s) = {Head(s)} \cup Range(Tail(s)) /\ Head(s) \in S /\ Tail(s) \in Seq(S)
<1>1. DOMAIN s = 1 .. Len(s) /\ Len(s) \in Nat /\ Len(s) >= 1 /\ Head(s) = s[1]
  OBVIOUS
<1>2. Tail(s) \in Seq(S) /\ Len(Tail(s)) = Len(s) - 1 /\ DOMAIN Tail(s) = 1 .. Len(s) - 1
  OBVIOUS
<1>3. \A i \in 1 .. Len(s) - 1 : Tail(s)[i] = s[i + 1]
  OBVIOUS
<1>4. ASSUME NEW x \in Range(s) PROVE x = Head(s) \/ x \in Range(Tail(s))
  <2>1. PICK i \in 1 .. Len(s) : x = s[i]
    BY <1>1 DEF Range
  <2>2. CASE i # 1
    <3>1. i - 1 \in 1 .. Len(s) - 1 /\ Tail(s)[i - 1] = s[i]
      BY <1>1, <1>3, <2>2
    <3> QED BY <1>2, <2>1, <3>1, Zenon DEF Range
  <2> QED BY <1>1, <2>1, <2>2
<1>5. ASSUME NEW x \in Range(Tail(s)) PROVE x \in Range(s)
  <2>1. PICK i \in 1 .. Len(s) - 1 : x = Tail(s)[i]
    BY <1>2 DEF Range
  <2>2. i + 1 \in 1 .. Len(s) /\ x = s[i + 1]
    BY <1>1, <1>3, <2>1
  <2> QED BY <1>1, <2>2 DEF Range
<1>6. Head(s) \in Range(s)
  BY <1>1 DEF Range
<1> QED BY <1>1, <1>2, <1>4, <1>5, <1>6

\* getchar's refill takes the first n characters from the terminal
LEMMA SplitFacts ==
    ASSUME NEW S, NEW s \in Seq(S), NEW n \in 1 .. Len(s), NEW a, NEW b,
           a = SubSeq(s, 2, n), b = SubSeq(s, n + 1, Len(s))
    PROVE  /\ a \in Seq(S) /\ Len(a) = n - 1 /\ DOMAIN a = 1 .. n - 1 /\ \A i \in 1 .. n - 1 : a[i] = s[i + 1]
           /\ b \in Seq(S) /\ Len(b) = Len(s) - n /\ DOMAIN b = 1 .. Len(s) - n
           /\ \A i \in 1 .. Len(s) - n : b[i] = s[i + n]
<1>1. Len(s) \in Nat /\ n \in Nat /\ 1 <= n /\ n <= Len(s) /\ \A i \in 1 .. Len(s) : s[i] \in S
  OBVIOUS
<1>2. /\ a \in Seq(S) /\ Len(a) = (IF 2 <= n THEN n - 2 + 1 ELSE 0)
      /\ \A i \in 1 .. n - 2 + 1 : a[i] = s[2 + i - 1]
  BY <1>1, SubSeqProperties
<1>3. /\ b \in Seq(S) /\ Len(b) = (IF n + 1 <= Len(s) THEN Len(s) - (n + 1) + 1 ELSE 0)
      /\ \A i \in 1 .. Len(s) - (n + 1) + 1 : b[i] = s[(n + 1) + i - 1]
  BY <1>1, SubSeqProperties
<1>4. Len(a) = n - 1 /\ Len(b) = Len(s) - n
  BY <1>1, <1>2, <1>3
<1>5. DOMAIN a = 1 .. Len(a) /\ DOMAIN b = 1 .. Len(b)
  BY <1>2, <1>3
<1>6. \A i \in 1 .. n - 1 : i \in 1 .. n - 2 + 1 /\ 2 + i - 1 = i + 1
  BY <1>1
<1>7. \A i \in 1 .. Len(s) - n : i \in 1 .. Len(s) - (n + 1) + 1 /\ (n + 1) + i - 1 = i + n
  BY <1>1
<1>8. \A i \in 1 .. n - 1 : a[i] = s[i + 1]
  BY <1>2, <1>6
<1>9. \A i \in 1 .. Len(s) - n : b[i] = s[i + n]
  BY <1>3, <1>7
<1> QED BY <1>2, <1>3, <1>4, <1>5, <1>8, <1>9

\* getchar's refill: the first character, the rest of the buffer, the rest of the terminal
LEMMA RangeSplit ==
    ASSUME NEW S, NEW s \in Seq(S), NEW n \in 1 .. Len(s)
    PROVE  /\ Range(s) \subseteq {Head(s)} \cup Range(SubSeq(s, 2, n)) \cup Range(SubSeq(s, n + 1, Len(s)))
           /\ Head(s) \in S /\ SubSeq(s, 2, n) \in Seq(S) /\ SubSeq(s, n + 1, Len(s)) \in Seq(S)
<1> DEFINE a == SubSeq(s, 2, n)
           b == SubSeq(s, n + 1, Len(s))
<1>1. DOMAIN s = 1 .. Len(s) /\ Len(s) \in Nat /\ Len(s) >= 1 /\ Head(s) = s[1] /\ n \in Nat
  OBVIOUS
<1>2. a \in Seq(S) /\ DOMAIN a = 1 .. n - 1 /\ \A i \in 1 .. n - 1 : a[i] = s[i + 1]
  BY SplitFacts
<1>3. b \in Seq(S) /\ DOMAIN b = 1 .. Len(s) - n /\ \A i \in 1 .. Len(s) - n : b[i] = s[i + n]
  BY SplitFacts
<1> HIDE DEF a, b
<1>4. ASSUME NEW x \in Range(s) PROVE x = Head(s) \/ x \in Range(a) \/ x \in Range(b)
  <2>1. PICK i \in 1 .. Len(s) : x = s[i]
    BY <1>1 DEF Range
  <2>2. CASE i \in 2 .. n
    <3>1. i - 1 \in 1 .. n - 1 /\ a[i - 1] = s[i]
      BY <1>1, <1>2, <2>2
    <3> QED BY <1>2, <2>1, <3>1, Zenon DEF Range
  <2>3. CASE i > n
    <3>1. i - n \in 1 .. Len(s) - n /\ b[i - n] = s[i]
      BY <1>1, <1>3, <2>3
    <3> QED BY <1>3, <2>1, <3>1, Zenon DEF Range
  <2> QED BY <1>1, <2>1, <2>2, <2>3
<1> QED BY <1>1, <1>2, <1>3, <1>4 DEF a, b

-----------------------------------------------------------------------------
(* uart_queue *)

LEMMA SetFIFOFacts ==
    ASSUME NEW q, Bounded(q), NEW enable \in BOOLEAN
    PROVE  /\ Bounded(SetFIFOenable(q, enable)) /\ Held(SetFIFOenable(q, enable)) = Held(q)
           /\ SetFIFOenable(q, enable).enabled = enable
BY DEF Bounded, Queue, SetFIFOenable, Held

\* a queue takes no more than the character it is given
LEMMA PutCharFacts ==
    ASSUME NEW q, Bounded(q), NEW c \in Int
    PROVE  /\ Bounded(PutChar(q, c)) /\ PutChar(q, c).enabled = q.enabled
           /\ Held(PutChar(q, c)) \subseteq Held(q) \cup {c}
<1>1. q.fifo \in Seq(Int) /\ Len(q.fifo) \in Nat /\ q.enabled \in BOOLEAN /\ q.holding \in Int
  BY DEF Bounded, Queue
<1>2. CASE ~q.enabled
  <2>1. PutChar(q, c) = [q EXCEPT !.holding = c]
    BY <1>2 DEF PutChar
  <2> QED BY <2>1 DEF Bounded, Queue, Held
<1>3. CASE q.enabled /\ Len(q.fifo) >= QueueSize
  BY <1>3, Zenon DEF PutChar
<1>4. CASE q.enabled /\ ~(Len(q.fifo) >= QueueSize)
  <2>1. PutChar(q, c) = [q EXCEPT !.fifo = Append(q.fifo, c)]
    BY <1>4 DEF PutChar
  <2>2. Append(q.fifo, c) \in Seq(Int) /\ Len(Append(q.fifo, c)) = Len(q.fifo) + 1
    BY <1>1
  <2>3. Len(q.fifo) + 1 <= QueueSize
    BY <1>1, <1>4, UartAssumption
  <2>4. Bounded(PutChar(q, c)) /\ PutChar(q, c).enabled = q.enabled
    BY <2>1, <2>2, <2>3, Zenon DEF Bounded, Queue
  <2>5. PutChar(q, c).fifo = Append(q.fifo, c) /\ PutChar(q, c).holding = q.holding
    BY <2>1 DEF Bounded, Queue
  <2> QED BY <1>1, <2>4, <2>5, RangeAppend DEF Held
<1> QED BY <1>2, <1>3, <1>4

\* with room in the part in use it takes the character and keeps the others
LEMMA PutCharKeeps ==
    ASSUME NEW q, Bounded(q), NEW c \in Int \ {None}, ~Full(q)
    PROVE  Held(PutChar(q, c)) = Held(q) \cup {c}
<1>1. q.fifo \in Seq(Int) /\ q.enabled \in BOOLEAN
  BY DEF Bounded, Queue
<1>2. CASE ~q.enabled
  <2>1. PutChar(q, c).fifo = q.fifo /\ PutChar(q, c).holding = c /\ q.holding = None
    BY <1>2 DEF PutChar, Full, Bounded, Queue
  <2> QED BY <2>1 DEF Held
<1>3. CASE q.enabled
  <2>1. PutChar(q, c).fifo = Append(q.fifo, c) /\ PutChar(q, c).holding = q.holding
    BY <1>3 DEF PutChar, Full, Bounded, Queue
  <2>2. Range(Append(q.fifo, c)) = Range(q.fifo) \cup {c}
    BY <1>1, RangeAppend
  <2> QED BY <2>1, <2>2 DEF Held
<1> QED BY <1>1, <1>2, <1>3

\* GetChar takes the next character and keeps the others
LEMMA GetCharFacts ==
    ASSUME NEW q, Bounded(q), ~Empty(q)
    PROVE  /\ Bounded(GetChar(q)) /\ GetChar(q).enabled = q.enabled /\ NextChar(q) \in Int
           /\ Held(q) = Held(GetChar(q)) \cup {NextChar(q)}
<1>1. q.fifo \in Seq(Int) /\ q.enabled \in BOOLEAN /\ q.holding \in Int
  BY DEF Bounded, Queue
<1>2. CASE ~q.enabled
  <2>1. GetChar(q) = [q EXCEPT !.holding = None] /\ NextChar(q) = q.holding /\ q.holding # None
    BY <1>2 DEF GetChar, NextChar, Empty
  <2>2. GetChar(q).fifo = q.fifo /\ GetChar(q).holding = None
    BY <2>1 DEF Bounded, Queue
  <2>3. Bounded(GetChar(q)) /\ GetChar(q).enabled = q.enabled
    BY <2>1 DEF Bounded, Queue, None
  <2> QED BY <1>1, <2>1, <2>2, <2>3 DEF Held
<1>3. CASE q.enabled
  <2>1. GetChar(q) = [q EXCEPT !.fifo = Tail(q.fifo)] /\ NextChar(q) = Head(q.fifo) /\ q.fifo # <<>>
    BY <1>3 DEF GetChar, NextChar, Empty
  <2>2. GetChar(q).fifo = Tail(q.fifo) /\ GetChar(q).holding = q.holding
    BY <2>1 DEF Bounded, Queue
  <2>3. Tail(q.fifo) \in Seq(Int) /\ Len(Tail(q.fifo)) = Len(q.fifo) - 1
    BY <1>1, <2>1
  <2>4. Bounded(GetChar(q)) /\ GetChar(q).enabled = q.enabled
    <3>1. Len(q.fifo) \in Nat /\ QueueSize \in Nat
      BY <1>1, UartAssumption
    <3>2. Len(GetChar(q).fifo) <= QueueSize
      BY <2>2, <2>3, <3>1 DEF Bounded
    <3>3. GetChar(q) \in Queue /\ GetChar(q).enabled = q.enabled
      BY <1>1, <2>1, <2>3, Zenon DEF Bounded, Queue
    <3> QED BY <3>2, <3>3 DEF Bounded
  <2> QED BY <1>1, <2>1, <2>2, <2>4, RangeTail DEF Held
<1> QED BY <1>1, <1>2, <1>3

-----------------------------------------------------------------------------
(* stdin *)

\* getchar moves characters and loses none
LEMMA InputFacts ==
    ASSUME StdinOK
    PROVE  /\ Input.char \in Nat \cup {EOF} /\ Input.stdio \in Seq(Nat) /\ Input.kernel \in Seq(Nat)
           /\ Range(kernel) \cup Range(stdio)
                \subseteq {Input.char} \cup Range(Input.kernel) \cup Range(Input.stdio)
<1>1. CASE stdio # <<>>
  <2>1. Input.char = Head(stdio) /\ Input.stdio = Tail(stdio) /\ Input.kernel = kernel
    BY <1>1 DEF Input
  <2>2. /\ Range(stdio) = {Head(stdio)} \cup Range(Tail(stdio))
        /\ Head(stdio) \in Nat /\ Tail(stdio) \in Seq(Nat)
    BY <1>1, RangeTail DEF StdinOK
  <2> QED BY <2>1, <2>2 DEF StdinOK
<1>2. CASE stdio = <<>> /\ kernel = <<>>
  <2>1. Input.char = EOF /\ Input.stdio = <<>> /\ Input.kernel = <<>>
    BY <1>2 DEF Input
  <2> QED BY <1>2, <2>1, RangeEmpty DEF StdinOK
<1>3. CASE stdio = <<>> /\ kernel # <<>>
  <2> DEFINE n == IF Len(kernel) < StdioSize THEN Len(kernel) ELSE StdioSize
  <2>1. /\ Input.char = Head(kernel) /\ Input.stdio = SubSeq(kernel, 2, n)
        /\ Input.kernel = SubSeq(kernel, n + 1, Len(kernel))
    BY <1>3, Zenon DEF Input
  <2>2. n \in 1 .. Len(kernel)
    <3>1. Len(kernel) \in Nat /\ Len(kernel) >= 1 /\ StdioSize \in Nat /\ StdioSize >= 1
      BY <1>3, UartAssumption DEF StdinOK
    <3> QED BY <3>1
  <2> HIDE DEF n
  <2>3. /\ Range(kernel) \subseteq
               {Head(kernel)} \cup Range(SubSeq(kernel, 2, n)) \cup Range(SubSeq(kernel, n + 1, Len(kernel)))
        /\ Head(kernel) \in Nat
        /\ SubSeq(kernel, 2, n) \in Seq(Nat) /\ SubSeq(kernel, n + 1, Len(kernel)) \in Seq(Nat)
    BY <2>2, RangeSplit DEF StdinOK
  <2> QED BY <1>3, <2>1, <2>3, RangeEmpty
<1> QED BY <1>1, <1>2, <1>3

\* what ServiceIOs does to the receive queue and stdin
LEMMA ReceiveFacts ==
    ASSUME StdinOK, Bounded(rx), Receive, UNCHANGED closed
    PROVE  /\ StdinOK' /\ Bounded(rx') /\ rx'.enabled = rx.enabled
           /\ (Range(kernel) \cup Range(stdio) \cup Held(rx)) \ {Null}
                \subseteq Range(kernel') \cup Range(stdio') \cup Held(rx')
<1>1. Input.char \in Int \ {None}
  BY InputFacts DEF EOF, None
<1>2. CASE Full(rx) \/ ~input_chars_available
  BY <1>2 DEF Receive, StdinOK
<1>3. CASE ~Full(rx) /\ input_chars_available
  <2>1. kernel' = Input.kernel /\ stdio' = Input.stdio
    BY <1>3 DEF Receive
  <2>2. StdinOK'
    BY <2>1, InputFacts DEF StdinOK
  <2>3. CASE Input.char = Null
    <3>1. rx' = rx
      BY <2>3 DEF Receive
    <3> QED BY <2>1, <2>2, <2>3, <3>1, InputFacts
  <2>4. CASE Input.char # Null
    <3>1. rx' = PutChar(rx, Input.char)
      BY <1>3, <2>4 DEF Receive
    <3>2. Bounded(rx') /\ rx'.enabled = rx.enabled
      BY <1>1, <3>1, PutCharFacts
    <3>3. Held(rx') = Held(rx) \cup {Input.char}
      BY <1>1, <1>3, <3>1, PutCharKeeps
    <3> QED BY <2>1, <2>2, <3>2, <3>3, InputFacts
  <2> QED BY <2>3, <2>4
<1> QED BY <1>2, <1>3

LEMMA TransmitFacts ==
    ASSUME Bounded(tx), Transmit
    PROVE  Bounded(tx') /\ tx'.enabled = tx.enabled
BY GetCharFacts DEF Transmit

-----------------------------------------------------------------------------
(* The type invariant *)

LEMMA UartTypes ==
    UartTypeOK <=> /\ Bounded(rx) /\ Bounded(tx) /\ rx.enabled = tx.enabled
                   /\ RIS \subseteq Interrupts /\ IMSC \subseteq Interrupts /\ todo \subseteq Cores
BY DEF UartTypeOK, Bounded

LEMMA UartInit == Init => UartInv
<1> SUFFICES ASSUME Init PROVE UartInv
  OBVIOUS
<1>1. Bounded(Reset)
  BY UartAssumption DEF Reset, Bounded, Queue, None
<1>2. UartTypeOK
  BY <1>1, UartTypes DEF Init
<1>3. StdinOK /\ typed \in Nat /\ written \in Nat /\ drivers \subseteq Cores
  BY DEF Init, StdinOK
<1> QED BY <1>2, <1>3 DEF UartInv

LEMMA UartStep == UartInv /\ [Next]_vars => UartInv'
<1> SUFFICES ASSUME UartInv, [Next]_vars PROVE UartInv'
  OBVIOUS
<1>1. /\ Bounded(rx) /\ Bounded(tx) /\ rx.enabled = tx.enabled
      /\ RIS \subseteq Interrupts /\ IMSC \subseteq Interrupts /\ todo \subseteq Cores
      /\ StdinOK /\ typed \in Nat /\ written \in Nat /\ drivers \subseteq Cores
  BY UartTypes DEF UartInv
<1> SUFFICES UartTypeOK' /\ StdinOK' /\ typed' \in Nat /\ written' \in Nat /\ drivers' \subseteq Cores
  BY DEF UartInv
<1>2. ASSUME NEW c \in Cores, Other(c) \/ (\E mask \in Masks : WriteIMSC(c, mask))
                                \/ (\E bits \in Clears : WriteTICR(c, bits))
      PROVE  UartInv'
  <2>1. UNCHANGED <<rx, tx, kernel, stdio, typed, written, drivers>> /\ todo' \subseteq todo
    BY <1>2, Zenon DEF Other, WriteIMSC, WriteTICR, StepOf, queues, stdin, history
  <2>2. RIS' \subseteq Interrupts /\ IMSC' \subseteq Interrupts
    BY <1>1, <1>2, UartAssumption DEF Other, WriteIMSC, WriteTICR, regs
  <2> QED BY <1>1, <2>1, <2>2 DEF UartInv, UartTypeOK, Bounded, StdinOK
<1>3. ASSUME NEW c \in Cores, ReadDR(c) PROVE UartInv'
  <2>1. /\ UNCHANGED <<tx, RIS, IMSC, kernel, stdio, typed, written, drivers>> /\ todo' \subseteq todo
        /\ rx' = IF Empty(rx) THEN rx ELSE GetChar(rx)
    BY <1>3 DEF ReadDR, StepOf, regs, stdin
  <2>2. Bounded(rx') /\ rx'.enabled = rx.enabled
    BY <1>1, <2>1, GetCharFacts
  <2> QED BY <1>1, <2>1, <2>2 DEF UartInv, UartTypeOK, Bounded, StdinOK
<1>4. ASSUME NEW c \in Cores, WriteDR(c) PROVE UartInv'
  <2>1. /\ UNCHANGED <<rx, RIS, IMSC, kernel, stdio, typed>> /\ todo' \subseteq todo
        /\ tx' = PutChar(tx, written + 1) /\ written' = written + 1 /\ drivers' = drivers \cup {c}
    BY <1>4 DEF WriteDR, StepOf, regs, stdin
  <2>2. Bounded(tx') /\ tx'.enabled = tx.enabled /\ written' \in Nat
    BY <1>1, <2>1, PutCharFacts
  <2> QED BY <1>1, <2>1, <2>2 DEF UartInv, UartTypeOK, Bounded, StdinOK
<1>5. ASSUME NEW c \in Cores, NEW FEN \in BOOLEAN, WriteLCR_H(c, FEN) PROVE UartInv'
  <2>1. /\ UNCHANGED <<RIS, IMSC, kernel, stdio, typed, written>> /\ todo' \subseteq todo
        /\ rx' = SetFIFOenable(rx, FEN) /\ tx' = SetFIFOenable(tx, FEN) /\ drivers' = drivers \cup {c}
    BY <1>5 DEF WriteLCR_H, StepOf, regs, stdin
  <2>2. Bounded(tx') /\ Bounded(rx') /\ tx'.enabled = rx'.enabled
    BY <1>1, <2>1, SetFIFOFacts
  <2> QED BY <1>1, <2>1, <2>2 DEF UartInv, UartTypeOK, Bounded, StdinOK
<1>6. CASE ServiceIOs
  <2>1. UNCHANGED <<IMSC, closed, typed, written, drivers>> /\ todo' = Cores /\ Transmit /\ Receive
    BY <1>6 DEF ServiceIOs
  <2>2. RIS' \subseteq Interrupts
    BY <1>1, <2>1 DEF Receive, SetOverrun, Interrupts
  <2>3. Bounded(tx') /\ tx'.enabled = tx.enabled
    BY <1>1, <2>1, TransmitFacts
  <2>4. StdinOK' /\ Bounded(rx') /\ rx'.enabled = rx.enabled
    BY <1>1, <2>1, ReceiveFacts
  <2> QED BY <1>1, <2>1, <2>2, <2>3, <2>4 DEF UartInv, UartTypeOK, Bounded
<1>7. CASE Type \/ TypeNull \/ Close
  <2>1. UNCHANGED <<rx, tx, RIS, IMSC, todo, stdio, written, drivers>>
    BY <1>7 DEF Type, TypeNull, Close, queues, regs, history
  <2>2. typed' \in Nat /\ kernel' \in Seq(Nat)
    <3>1. CASE Type
      <4>1. typed' = typed + 1 /\ kernel' = Append(kernel, typed')
        BY <3>1 DEF Type
      <4>2. typed' \in Nat
        BY <1>1, <4>1
      <4> QED BY <1>1, <4>1, <4>2 DEF StdinOK
    <3>2. CASE TypeNull
      BY <1>1, <3>2 DEF TypeNull, StdinOK, Null
    <3>3. CASE Close
      BY <1>1, <3>3 DEF Close, StdinOK
    <3> QED BY <1>7, <3>1, <3>2, <3>3
  <2> QED BY <1>1, <2>1, <2>2 DEF UartInv, UartTypeOK, Bounded, StdinOK
<1>8. CASE UNCHANGED vars
  BY <1>1, <1>8 DEF vars, queues, regs, stdin, history, UartInv, UartTypeOK, StdinOK, Bounded
<1> QED
  BY <1>2, <1>3, <1>4, <1>5, <1>6, <1>7, <1>8 DEF Next, CoreStep, UartInv

(* Neither queue ever holds more than configured_size characters, and both  *)
(* are always switched together (PutChar, Receive, the write of LCR_H).     *)
THEOREM UartTypeCorrect == Spec => []UartTypeOK
<1>1. UartInv => UartTypeOK
  BY DEF UartInv
<1> QED BY <1>1, UartInit, UartStep, PTL DEF Spec

-----------------------------------------------------------------------------
(* Input *)

LEMMA InputStep ==
    ASSUME UartInv, NoInputLost, [Next]_vars
    PROVE  NoInputLost'
<1>1. /\ Bounded(rx) /\ StdinOK /\ typed \in Nat
      /\ 1 .. typed \subseteq Range(kernel) \cup Range(stdio) \cup Held(rx) \cup got
  BY UartTypes DEF UartInv, NoInputLost
<1>2. CASE UNCHANGED <<rx, kernel, stdio, typed, got>>
  BY <1>2 DEF NoInputLost
<1>3. ASSUME NEW c \in Cores, ReadDR(c) PROVE NoInputLost'
  <2>1. UNCHANGED <<kernel, stdio, typed>>
    BY <1>3 DEF ReadDR, stdin
  <2>2. Held(rx) \cup got \subseteq Held(rx') \cup got' \cup {EOF}
    <3>1. CASE Empty(rx)
      BY <1>3, <3>1 DEF ReadDR
    <3>2. CASE ~Empty(rx)
      <4>1. rx' = GetChar(rx) /\ got' = got \cup ({NextChar(rx)} \ {EOF})
        BY <1>3, <3>2 DEF ReadDR
      <4>2. Held(rx) = Held(rx') \cup {NextChar(rx)}
        BY <1>1, <3>2, <4>1, GetCharFacts
      <4> QED BY <4>1, <4>2
    <3> QED BY <3>1, <3>2
  <2>3. EOF \notin 1 .. typed
    BY <1>1 DEF EOF
  <2> QED BY <1>1, <2>1, <2>2, <2>3 DEF NoInputLost
<1>4. ASSUME NEW c \in Cores, NEW FEN \in BOOLEAN, WriteLCR_H(c, FEN) PROVE NoInputLost'
  <2>1. UNCHANGED <<kernel, stdio, typed, got>> /\ rx' = SetFIFOenable(rx, FEN)
    BY <1>4 DEF WriteLCR_H, stdin
  <2>2. Held(rx') = Held(rx)
    BY <1>1, <2>1, SetFIFOFacts
  <2> QED BY <2>1, <2>2 DEF NoInputLost
<1>5. CASE ServiceIOs
  <2>1. UNCHANGED <<typed, got, closed>> /\ Receive
    BY <1>5 DEF ServiceIOs
  <2>2. (Range(kernel) \cup Range(stdio) \cup Held(rx)) \ {Null}
          \subseteq Range(kernel') \cup Range(stdio') \cup Held(rx')
    BY <1>1, <2>1, ReceiveFacts
  <2>3. Null \notin 1 .. typed
    BY <1>1 DEF Null
  <2> QED BY <1>1, <2>1, <2>2, <2>3 DEF NoInputLost
<1>6. CASE Type
  <2>1. UNCHANGED <<rx, stdio, got>> /\ typed' = typed + 1 /\ kernel' = Append(kernel, typed')
    BY <1>6 DEF Type, queues, history
  <2>2. Range(kernel') = Range(kernel) \cup {typed + 1} /\ 1 .. typed' \subseteq 1 .. typed \cup {typed + 1}
    BY <1>1, <2>1, RangeAppend DEF StdinOK
  <2> QED BY <1>1, <2>1, <2>2 DEF NoInputLost
<1>7. CASE TypeNull
  <2>1. UNCHANGED <<rx, stdio, got, typed>> /\ kernel' = Append(kernel, Null)
    BY <1>7 DEF TypeNull, queues, history
  <2>2. Range(kernel') = Range(kernel) \cup {Null}
    BY <1>1, <2>1, RangeAppend DEF StdinOK, Null
  <2> QED BY <1>1, <2>1, <2>2 DEF NoInputLost
<1>8. ASSUME NEW c \in Cores, \/ Other(c) \/ WriteDR(c) \/ \E mask \in Masks : WriteIMSC(c, mask)
                              \/ \E bits \in Clears : WriteTICR(c, bits)
      PROVE  UNCHANGED <<rx, kernel, stdio, typed, got>>
  BY <1>8 DEF Other, WriteDR, WriteIMSC, WriteTICR, queues, stdin, history
<1>9. CASE Close \/ UNCHANGED vars
  <2>1. UNCHANGED <<rx, kernel, stdio, typed, got>>
    BY <1>9 DEF Close, vars, queues, stdin, history
  <2> QED BY <1>2, <2>1
<1> QED
  BY <1>2, <1>3, <1>4, <1>5, <1>6, <1>7, <1>8, <1>9 DEF Next, CoreStep

(* Every character that has arrived at stdin is still there, waits in the   *)
(* receive queue or was read by software, for any sequence of FIFO          *)
(* switches, reads and rounds (Receive, uart_queue).                        *)
THEOREM InputIsKept == Spec => []NoInputLost
<1>1. Init => NoInputLost
  BY DEF Init, NoInputLost
<1>2. UartInv /\ NoInputLost /\ [Next]_vars => NoInputLost'
  BY InputStep
<1> QED BY <1>1, <1>2, UartInit, UartStep, PTL DEF Spec

-----------------------------------------------------------------------------
(* Output *)

\* the steps that touch the transmit queue; all others leave this side alone
OutputUnchanged ==
    /\ tx' = tx /\ written' = written /\ sent' = sent /\ drivers' = drivers /\ todo' \subseteq todo

Switches(c, FEN) ==
    /\ c \in todo /\ tx' = SetFIFOenable(tx, FEN) /\ drivers' = drivers \cup {c}
    /\ written' = written /\ sent' = sent /\ todo' = todo \ {c}

Writes(c) ==
    /\ c \in todo /\ tx' = PutChar(tx, written + 1) /\ drivers' = drivers \cup {c}
    /\ written' = written + 1 /\ sent' = sent /\ todo' = todo \ {c}

Transmits == Transmit /\ written' = written /\ drivers' = drivers

OutputStep ==
    \/ OutputUnchanged \/ Transmits
    \/ \E c \in Cores, FEN \in BOOLEAN : Switches(c, FEN)
    \/ \E c \in Cores : Writes(c)

LEMMA OutputSteps ==
    ASSUME [Next]_vars
    PROVE  OutputStep
<1>1. ASSUME NEW c \in Cores, CoreStep(c) PROVE OutputStep
  <2>1. CASE \/ Other(c) \/ ReadDR(c) \/ \E mask \in Masks : WriteIMSC(c, mask)
             \/ \E bits \in Clears : WriteTICR(c, bits)
    <3>1. OutputUnchanged
      BY <2>1, Zenon DEF Other, ReadDR, WriteIMSC, WriteTICR, StepOf, queues, history, OutputUnchanged
    <3> QED BY <3>1 DEF OutputStep
  <2>2. CASE WriteDR(c)
    <3>1. Writes(c)
      BY <2>2 DEF WriteDR, StepOf, Writes
    <3> QED BY <3>1 DEF OutputStep
  <2>3. CASE \E FEN \in BOOLEAN : WriteLCR_H(c, FEN)
    <3>1. PICK FEN \in BOOLEAN : WriteLCR_H(c, FEN)
      BY <2>3
    <3>2. Switches(c, FEN)
      BY <3>1 DEF WriteLCR_H, StepOf, Switches
    <3> QED BY <3>2 DEF OutputStep
  <2> QED BY <1>1, <2>1, <2>2, <2>3 DEF CoreStep
<1>2. CASE ServiceIOs
  BY <1>2 DEF ServiceIOs, OutputStep, Transmits
<1>3. CASE Type \/ TypeNull \/ Close \/ UNCHANGED vars
  <2>1. OutputUnchanged
    BY <1>3 DEF Type, TypeNull, Close, vars, queues, history, OutputUnchanged
  <2> QED BY <2>1 DEF OutputStep
<1> QED BY <1>1, <1>2, <1>3 DEF Next

Idle(q) == q.fifo = <<>> /\ q.holding = None

\* one character, in the part of the queue in use
HoldsOne(q) ==
    IF q.enabled THEN Len(q.fifo) = 1 /\ q.holding = None ELSE q.fifo = <<>> /\ q.holding # None

OneDriver == \A c, d \in drivers : c = d

DriverInv ==
    OneDriver =>
        /\ 1 .. written \subseteq sent \cup Held(tx)
        /\ Idle(tx) \/ (HoldsOne(tx) /\ drivers # {} /\ drivers \cap todo = {})

LEMMA IdleHeld ==
    ASSUME NEW q, Idle(q)
    PROVE  Held(q) = {} /\ Empty(q)
BY RangeEmpty DEF Idle, Held, Empty

LEMMA OneElement ==
    ASSUME NEW s \in Seq(Int), Len(s) = 1
    PROVE  s # <<>> /\ Tail(s) = <<>>
<1>0. Len(<<>>) # 1
  OBVIOUS
<1>1. s # <<>>
  BY <1>0, Zenon
<1>2. Tail(s) \in Seq(Int) /\ Len(Tail(s)) = 0
  BY <1>1
<1> QED BY <1>1, <1>2, EmptySeq, Zenon

LEMMA HoldsOneFacts ==
    ASSUME NEW q, Bounded(q), HoldsOne(q)
    PROVE  ~Empty(q) /\ Idle(GetChar(q)) /\ Held(q) = {NextChar(q)}
<1>1. q.fifo \in Seq(Int) /\ q.enabled \in BOOLEAN
  BY DEF Bounded, Queue
<1>2. CASE ~q.enabled
  <2>1. Idle(GetChar(q)) /\ ~Empty(q)
    BY <1>2 DEF HoldsOne, GetChar, Idle, Bounded, Queue, Empty
  <2> QED BY <2>1, GetCharFacts, IdleHeld
<1>3. CASE q.enabled
  <2>1. Len(q.fifo) = 1 /\ q.holding = None
    BY <1>3 DEF HoldsOne
  <2>2. q.fifo # <<>> /\ Tail(q.fifo) = <<>>
    BY <1>1, <2>1, OneElement
  <2>3. GetChar(q).fifo = Tail(q.fifo) /\ GetChar(q).holding = q.holding
    BY <1>3 DEF GetChar, Bounded, Queue
  <2>4. Idle(GetChar(q)) /\ ~Empty(q)
    BY <1>3, <2>1, <2>2, <2>3 DEF Idle, Empty
  <2> QED BY <2>4, GetCharFacts, IdleHeld
<1> QED BY <1>1, <1>2, <1>3

LEMMA IdlePut ==
    ASSUME NEW q, Bounded(q), Idle(q), NEW c \in Int \ {None}
    PROVE  HoldsOne(PutChar(q, c)) /\ Held(PutChar(q, c)) = {c}
<1>1. q.fifo \in Seq(Int) /\ q.enabled \in BOOLEAN /\ QueueSize >= 1 /\ QueueSize \in Nat
  BY UartAssumption DEF Bounded, Queue
<1>2. ~Full(q)
  BY <1>1 DEF Full, Idle
<1>3. Held(PutChar(q, c)) = {c}
  BY <1>2, PutCharKeeps, IdleHeld
<1>4. CASE ~q.enabled
  <2>1. PutChar(q, c) = [q EXCEPT !.holding = c]
    BY <1>4 DEF PutChar
  <2> QED BY <1>3, <1>4, <2>1 DEF HoldsOne, Idle, Bounded, Queue
<1>5. CASE q.enabled
  <2>1. PutChar(q, c) = [q EXCEPT !.fifo = Append(q.fifo, c)]
    BY <1>2, <1>5 DEF PutChar, Full
  <2>2. Len(Append(q.fifo, c)) = 1
    BY <1>1 DEF Idle
  <2> QED BY <1>3, <1>5, <2>1, <2>2 DEF HoldsOne, Idle, Bounded, Queue
<1> QED BY <1>1, <1>4, <1>5

LEMMA DriverStep ==
    ASSUME UartInv, DriverInv, [Next]_vars
    PROVE  DriverInv'
<1> SUFFICES ASSUME OneDriver'
             PROVE  /\ 1 .. written' \subseteq sent' \cup Held(tx')
                    /\ Idle(tx') \/ (HoldsOne(tx') /\ drivers' # {} /\ drivers' \cap todo' = {})
  BY DEF DriverInv
<1>1. Bounded(tx) /\ written \in Nat
  BY UartTypes DEF UartInv
<1>2. OutputStep
  BY OutputSteps
<1>3. drivers \subseteq drivers'
  BY <1>2 DEF OutputStep, OutputUnchanged, Transmits, Switches, Writes
<1>4. /\ 1 .. written \subseteq sent \cup Held(tx)
      /\ Idle(tx) \/ (HoldsOne(tx) /\ drivers # {} /\ drivers \cap todo = {})
  BY <1>3 DEF DriverInv, OneDriver
<1>5. CASE OutputUnchanged
  BY <1>4, <1>5 DEF OutputUnchanged
<1>6. CASE Transmits
  <2>1. CASE Idle(tx)
    <3>1. tx' = tx /\ sent' = sent /\ written' = written
      BY <1>6, <2>1, IdleHeld DEF Transmits, Transmit
    <3> QED BY <1>4, <2>1, <3>1
  <2>2. CASE HoldsOne(tx)
    <3>1. tx' = GetChar(tx) /\ sent' = sent \cup {NextChar(tx)} /\ written' = written
      BY <1>1, <1>6, <2>2, HoldsOneFacts DEF Transmits, Transmit
    <3> QED BY <1>1, <1>4, <2>2, <3>1, HoldsOneFacts
  <2> QED BY <1>4, <2>1, <2>2
<1>7. ASSUME NEW c \in Cores, c \in todo, drivers' = drivers \cup {c}
      PROVE  Idle(tx)
  <2>1. drivers \subseteq {c}
    BY <1>7 DEF OneDriver
  <2> QED BY <1>4, <1>7, <2>1
<1>8. ASSUME NEW c \in Cores, NEW FEN \in BOOLEAN, Switches(c, FEN)
      PROVE  Idle(tx') /\ Held(tx') = Held(tx) /\ sent' = sent /\ written' = written
  <2>1. Idle(tx)
    BY <1>7, <1>8 DEF Switches
  <2> QED BY <1>1, <1>8, <2>1, SetFIFOFacts DEF Switches, SetFIFOenable, Idle, Bounded, Queue
<1>9. ASSUME NEW c \in Cores, Writes(c)
      PROVE  /\ 1 .. written' \subseteq sent' \cup Held(tx')
             /\ HoldsOne(tx') /\ drivers' # {} /\ drivers' \cap todo' = {}
  <2>1. Idle(tx) /\ written + 1 \in Int \ {None}
    BY <1>1, <1>7, <1>9 DEF Writes, None
  <2>2. HoldsOne(tx') /\ Held(tx') = {written + 1}
    BY <1>1, <1>9, <2>1, IdlePut DEF Writes
  <2>3. 1 .. written \subseteq sent
    BY <1>4, <2>1, IdleHeld
  <2>4. 1 .. written' \subseteq sent' \cup {written + 1}
    BY <1>1, <1>9, <2>3 DEF Writes
  <2>5. drivers' = {c} /\ todo' = todo \ {c}
    BY <1>9 DEF Writes, OneDriver
  <2> QED BY <2>2, <2>4, <2>5
<1> QED
  BY <1>2, <1>4, <1>5, <1>6, <1>8, <1>9 DEF OutputStep

(* As long as no two cores drive the uart, every character written to DR    *)
(* has been sent or is the one waiting: writing without looking at FR is    *)
(* safe, with and without FIFOs (WriteDR, Transmit once per round).         *)
THEOREM OutputIsKept == Spec => []OneDriverLosesNothing
<1>1. Init => DriverInv
  BY DEF Init, DriverInv, Reset, Idle
<1>2. UartInv /\ DriverInv /\ [Next]_vars => DriverInv'
  BY DriverStep
<1>3. UartInv /\ DriverInv => OneDriverLosesNothing
  <2> SUFFICES ASSUME UartInv, DriverInv, Cardinality(drivers) <= 1
               PROVE  1 .. written \subseteq sent \cup Held(tx) /\ Cardinality(Held(tx)) <= 1
    BY DEF OneDriverLosesNothing
  <2>1. IsFiniteSet(drivers)
    <3>1. IsFiniteSet(Cores)
      BY FS_Interval, UartAssumption DEF Cores
    <3> QED BY <3>1, FS_Subset DEF UartInv
  <2>2. OneDriver
    <3> SUFFICES ASSUME NEW c \in drivers, NEW d \in drivers, c # d PROVE FALSE
      BY DEF OneDriver
    <3>1. IsFiniteSet({c}) /\ Cardinality({c}) = 1
      BY FS_Singleton, Zenon
    <3>2. IsFiniteSet({c} \cup {d}) /\ Cardinality({c} \cup {d}) = 2
      BY <3>1, FS_AddElement
    <3>3. Cardinality({c} \cup {d}) <= Cardinality(drivers) /\ Cardinality(drivers) \in Nat
      BY <2>1, FS_Subset, FS_CardinalityType
    <3> QED BY <3>2, <3>3
  <2>3. Held(tx) = {} \/ \E n : Held(tx) = {n}
    BY <2>2, IdleHeld, HoldsOneFacts, UartTypes DEF DriverInv, UartInv
  <2>4. Cardinality(Held(tx)) <= 1
    <3>1. CASE Held(tx) = {}
      BY <3>1, FS_EmptySet
    <3>2. CASE \E n : Held(tx) = {n}
      <4>1. PICK n : Held(tx) = {n}
        BY <3>2
      <4>2. Cardinality({n}) = 1
        BY FS_Singleton, Zenon
      <4> QED BY <4>1, <4>2
    <3> QED BY <2>3, <3>1, <3>2
  <2> QED BY <2>2, <2>4 DEF DriverInv
<1> QED BY <1>1, <1>2, <1>3, UartInit, UartStep, PTL DEF Spec

-----------------------------------------------------------------------------
(* Nothing is sent twice *)

Distinct(s) == \A i, j \in 1 .. Len(s) : s[i] = s[j] => i = j

DistinctInv ==
    /\ sent \subseteq 1 .. written /\ Held(tx) \subseteq 1 .. written
    /\ sent \cap Held(tx) = {}
    /\ Distinct(tx.fifo) /\ tx.holding \notin Range(tx.fifo)

\* Append keeps a sequence free of repetitions, if the element is new
LEMMA DistinctAppend ==
    ASSUME NEW s \in Seq(Int), NEW c \in Int, Distinct(s), c \notin Range(s)
    PROVE  Distinct(Append(s, c))
<1>1. Len(s) \in Nat /\ Len(Append(s, c)) = Len(s) + 1 /\ Append(s, c)[Len(s) + 1] = c
  OBVIOUS
<1>2. \A i \in 1 .. Len(s) : Append(s, c)[i] = s[i] /\ s[i] # c
  BY DEF Range
<1>3. \A i \in 1 .. Len(s) + 1 : i \in 1 .. Len(s) \/ i = Len(s) + 1
  BY <1>1
<1> QED BY <1>1, <1>2, <1>3 DEF Distinct

\*  ... and Tail removes the head for good
LEMMA DistinctTail ==
    ASSUME NEW s \in Seq(Int), s # <<>>, Distinct(s)
    PROVE  Distinct(Tail(s)) /\ Head(s) \notin Range(Tail(s))
<1>1. Len(s) \in Nat /\ Len(s) >= 1 /\ Head(s) = s[1]
  OBVIOUS
<1>2. Len(Tail(s)) = Len(s) - 1 /\ DOMAIN Tail(s) = 1 .. Len(s) - 1
  OBVIOUS
<1>3. \A i \in 1 .. Len(s) - 1 : Tail(s)[i] = s[i + 1] /\ i + 1 \in 1 .. Len(s) /\ i + 1 # 1
  BY <1>1
<1>4. Distinct(Tail(s))
  <2> SUFFICES ASSUME NEW i \in 1 .. Len(s) - 1, NEW j \in 1 .. Len(s) - 1, s[i + 1] = s[j + 1]
               PROVE  i = j
    BY <1>2, <1>3 DEF Distinct
  <2>1. i + 1 = j + 1
    BY <1>3 DEF Distinct
  <2> QED BY <2>1
<1>5. \A i \in 1 .. Len(s) - 1 : s[i + 1] # s[1]
  <2>1. 1 \in 1 .. Len(s)
    BY <1>1
  <2> QED BY <1>3, <2>1 DEF Distinct
<1> QED BY <1>1, <1>2, <1>3, <1>4, <1>5 DEF Range

\* the shape of the queue
QueueDistinct(q) == Distinct(q.fifo) /\ q.holding \notin Range(q.fifo)

LEMMA GetCharDistinct ==
    ASSUME NEW q, Bounded(q), ~Empty(q), QueueDistinct(q), None \notin Held(q)
    PROVE  QueueDistinct(GetChar(q)) /\ NextChar(q) \notin Held(GetChar(q))
<1>1. q.fifo \in Seq(Int) /\ q.enabled \in BOOLEAN /\ q.holding \in Int
  BY DEF Bounded, Queue
<1>2. CASE ~q.enabled
  <2>1. NextChar(q) = q.holding /\ q.holding # None
    BY <1>2 DEF NextChar, Empty
  <2>2. GetChar(q).fifo = q.fifo /\ GetChar(q).holding = None
    BY <1>2 DEF GetChar, Bounded, Queue
  <2> QED BY <2>1, <2>2 DEF QueueDistinct, Held
<1>3. CASE q.enabled
  <2>1. NextChar(q) = Head(q.fifo) /\ q.fifo # <<>>
    BY <1>3 DEF NextChar, Empty
  <2>2. GetChar(q).fifo = Tail(q.fifo) /\ GetChar(q).holding = q.holding
    BY <1>3 DEF GetChar, Bounded, Queue
  <2>3. /\ Range(q.fifo) = {Head(q.fifo)} \cup Range(Tail(q.fifo))
        /\ Distinct(Tail(q.fifo)) /\ Head(q.fifo) \notin Range(Tail(q.fifo))
    BY <1>1, <2>1, RangeTail, DistinctTail DEF QueueDistinct
  <2> QED BY <2>1, <2>2, <2>3 DEF QueueDistinct, Held
<1> QED BY <1>1, <1>2, <1>3

LEMMA PutCharDistinct ==
    ASSUME NEW q, Bounded(q), QueueDistinct(q), NEW c \in Int \ {None}, c \notin Held(q)
    PROVE  QueueDistinct(PutChar(q, c))
<1>1. q.fifo \in Seq(Int) /\ q.enabled \in BOOLEAN /\ q.holding \in Int /\ c \notin Range(q.fifo) /\ c # q.holding
  BY DEF Bounded, Queue, Held
<1>2. CASE ~q.enabled
  <2>1. PutChar(q, c).fifo = q.fifo /\ PutChar(q, c).holding = c
    BY <1>2 DEF PutChar, Bounded, Queue
  <2> QED BY <1>1, <2>1 DEF QueueDistinct
<1>3. CASE q.enabled /\ Len(q.fifo) >= QueueSize
  BY <1>3 DEF PutChar
<1>4. CASE q.enabled /\ ~(Len(q.fifo) >= QueueSize)
  <2>1. PutChar(q, c).fifo = Append(q.fifo, c) /\ PutChar(q, c).holding = q.holding
    BY <1>4 DEF PutChar, Bounded, Queue
  <2> QED BY <1>1, <2>1, DistinctAppend, RangeAppend DEF QueueDistinct
<1> QED BY <1>1, <1>2, <1>3, <1>4

\* what SentOnce says of a step
SentOnceStep ==
    \A n \in 1 .. written : /\ n \in sent => n \in sent' /\ n \notin Held(tx')
                            /\ n \notin sent \cup Held(tx) => n \notin sent' \cup Held(tx')

LEMMA DistinctStep ==
    ASSUME UartInv, DistinctInv, [Next]_vars
    PROVE  DistinctInv' /\ SentOnceStep
<1>1. Bounded(tx) /\ written \in Nat /\ QueueDistinct(tx) /\ None \notin Held(tx)
  BY UartTypes DEF UartInv, DistinctInv, QueueDistinct, None
<1>2. OutputStep
  BY OutputSteps
<1>3. CASE OutputUnchanged
  BY <1>3 DEF OutputUnchanged, DistinctInv, SentOnceStep
<1>4. CASE Transmits
  <2>1. CASE Empty(tx)
    <3>1. tx' = tx /\ sent' = sent /\ written' = written
      BY <1>4, <2>1 DEF Transmits, Transmit
    <3> QED BY <3>1 DEF DistinctInv, SentOnceStep
  <2>2. CASE ~Empty(tx)
    <3>1. tx' = GetChar(tx) /\ sent' = sent \cup {NextChar(tx)} /\ written' = written
      BY <1>4, <2>2 DEF Transmits, Transmit
    <3>2. Held(tx) = Held(tx') \cup {NextChar(tx)}
      BY <1>1, <2>2, <3>1, GetCharFacts
    <3>3. QueueDistinct(tx') /\ NextChar(tx) \notin Held(tx')
      BY <1>1, <2>2, <3>1, GetCharDistinct
    <3> QED BY <3>1, <3>2, <3>3, Zenon DEF DistinctInv, QueueDistinct, SentOnceStep
  <2> QED BY <2>1, <2>2
<1>5. ASSUME NEW c \in Cores, NEW FEN \in BOOLEAN, Switches(c, FEN)
      PROVE  DistinctInv' /\ SentOnceStep
  <2>1. tx'.fifo = tx.fifo /\ tx'.holding = tx.holding /\ sent' = sent /\ written' = written
    BY <1>1, <1>5 DEF Switches, SetFIFOenable, Bounded, Queue
  <2>2. Held(tx') = Held(tx)
    BY <2>1 DEF Held
  <2> QED BY <2>1, <2>2 DEF DistinctInv, SentOnceStep
<1>6. ASSUME NEW c \in Cores, Writes(c)
      PROVE  DistinctInv' /\ SentOnceStep
  <2>1. tx' = PutChar(tx, written + 1) /\ sent' = sent /\ written' = written + 1
    BY <1>6 DEF Writes
  <2>2. /\ written + 1 \in Int \ {None} /\ written + 1 \notin 1 .. written
        /\ 1 .. written' = 1 .. written \cup {written + 1}
    BY <1>1, <2>1 DEF None
  <2>3. Held(tx') \subseteq Held(tx) \cup {written + 1}
    BY <1>1, <2>1, <2>2, PutCharFacts
  <2>4. QueueDistinct(tx')
    BY <1>1, <2>1, <2>2, PutCharDistinct DEF DistinctInv
  <2> QED BY <2>1, <2>2, <2>3, <2>4 DEF DistinctInv, QueueDistinct, SentOnceStep
<1> QED
  BY <1>2, <1>3, <1>4, <1>5, <1>6 DEF OutputStep

(* A character goes to stdout at most once, and one that the queue refused  *)
(* or overwrote never appears later, with any number of cores writing and   *)
(* switching (Transmit, PutChar, SetFIFOenable).                            *)
THEOREM OutputIsSentOnce == Spec => SentOnce
<1>1. Init => DistinctInv
  <2> SUFFICES ASSUME Init PROVE DistinctInv
    OBVIOUS
  <2>1. tx.fifo = <<>> /\ tx.holding = None /\ sent = {} /\ written = 0 /\ Len(<<>>) = 0
    BY DEF Init, Reset
  <2>2. Held(tx) = {} /\ tx.holding \notin Range(tx.fifo)
    BY <2>1, RangeEmpty DEF Held
  <2>3. Distinct(tx.fifo)
    BY <2>1 DEF Distinct
  <2> QED BY <2>1, <2>2, <2>3 DEF DistinctInv
<1>2. UartInv /\ DistinctInv /\ [Next]_vars => DistinctInv' /\ [SentOnceStep]_vars
  BY DistinctStep
<1>3. [][SentOnceStep]_vars => SentOnce
  BY PTL DEF SentOnce, SentOnceStep
<1> QED BY <1>1, <1>2, <1>3, UartInit, UartStep, PTL DEF Spec

-----------------------------------------------------------------------------
(* Input is read in order: the characters, which are numbered as they      *)
(* arrive, rise from the receive queue to getchar's buffer to the terminal *)

Rising(s) == \A i, j \in 1 .. Len(s) : i < j /\ s[i] > 0 /\ s[j] > 0 => s[i] < s[j]

Precede(A, B) == \A x \in A, y \in B : x > 0 /\ y > 0 => x < y

Waiting == Range(stdio) \cup Range(kernel)

StdinOrder == Rising(stdio) /\ Rising(kernel) /\ Precede(Range(stdio), Range(kernel))

QueueOrder ==
    /\ IF rx.enabled THEN rx.holding = None ELSE rx.fifo = <<>>
    /\ Rising(rx.fifo) /\ Precede(Held(rx), Waiting)

OrderInv ==
    /\ StdinOrder /\ \A x \in Waiting \cup Held(rx) : x \in Int /\ x <= typed
    /\ ~switched => QueueOrder

LEMMA RisingAppend ==
    ASSUME NEW s \in Seq(Int), NEW c \in Int, Rising(s), Precede(Range(s), {c})
    PROVE  Rising(Append(s, c))
<1>1. Len(s) \in Nat /\ Len(Append(s, c)) = Len(s) + 1 /\ Append(s, c)[Len(s) + 1] = c
  OBVIOUS
<1>2. \A i \in 1 .. Len(s) : Append(s, c)[i] = s[i] /\ s[i] \in Range(s)
  BY DEF Range
<1> SUFFICES ASSUME NEW i \in 1 .. Len(s) + 1, NEW j \in 1 .. Len(s) + 1, i < j,
                    Append(s, c)[i] > 0, Append(s, c)[j] > 0
             PROVE  Append(s, c)[i] < Append(s, c)[j]
  BY <1>1 DEF Rising
<1>3. i \in 1 .. Len(s)
  BY <1>1
<1>4. CASE j = Len(s) + 1
  BY <1>1, <1>2, <1>3, <1>4 DEF Precede
<1>5. CASE j \in 1 .. Len(s)
  BY <1>2, <1>3, <1>5 DEF Rising
<1> QED BY <1>1, <1>4, <1>5

\* a part of a rising sequence rises
LEMMA RisingPart ==
    ASSUME NEW s \in Seq(Int), Rising(s), NEW t \in Seq(Int), NEW k \in Nat,
           \A i \in 1 .. Len(t) : i + k \in 1 .. Len(s) /\ t[i] = s[i + k]
    PROVE  Rising(t)
<1> SUFFICES ASSUME NEW i \in 1 .. Len(t), NEW j \in 1 .. Len(t), i < j, t[i] > 0, t[j] > 0
             PROVE  t[i] < t[j]
  BY Zenon DEF Rising
<1>1. i + k \in 1 .. Len(s) /\ j + k \in 1 .. Len(s) /\ t[i] = s[i + k] /\ t[j] = s[j + k] /\ i + k < j + k
  OBVIOUS
<1> QED BY <1>1 DEF Rising

LEMMA RisingTail ==
    ASSUME NEW s \in Seq(Int), s # <<>>, Rising(s)
    PROVE  Rising(Tail(s)) /\ Precede({Head(s)}, Range(Tail(s)))
<1>1. Len(s) \in Nat /\ 1 \in 1 .. Len(s) /\ Head(s) = s[1]
  OBVIOUS
<1>2. Tail(s) \in Seq(Int) /\ Len(Tail(s)) = Len(s) - 1 /\ DOMAIN Tail(s) = 1 .. Len(s) - 1
  OBVIOUS
<1>3. \A i \in 1 .. Len(s) - 1 : i + 1 \in 1 .. Len(s) /\ 1 < i + 1 /\ Tail(s)[i] = s[i + 1]
  BY <1>1
<1>4. Rising(Tail(s))
  <2> DEFINE t == Tail(s)
  <2>1. t \in Seq(Int) /\ \A i \in 1 .. Len(t) : i + 1 \in 1 .. Len(s) /\ t[i] = s[i + 1]
    BY <1>2, <1>3
  <2> HIDE DEF t
  <2>2. Rising(t)
    BY <2>1, RisingPart, Zenon
  <2> QED BY <2>2 DEF t
<1>5. ASSUME NEW y \in Range(Tail(s)), Head(s) > 0, y > 0 PROVE Head(s) < y
  <2>1. PICK i \in 1 .. Len(s) - 1 : y = Tail(s)[i]
    BY <1>2 DEF Range
  <2> QED BY <1>1, <1>3, <1>5, <2>1 DEF Rising
<1> QED BY <1>4, <1>5 DEF Precede

LEMMA RisingSplit ==
    ASSUME NEW s \in Seq(Int), Rising(s), NEW n \in 1 .. Len(s)
    PROVE  LET a == SubSeq(s, 2, n)
               b == SubSeq(s, n + 1, Len(s))
           IN  /\ Rising(a) /\ Rising(b) /\ Precede(Range(a), Range(b))
               /\ Precede({Head(s)}, Range(a) \cup Range(b))
               /\ {Head(s)} \cup Range(a) \cup Range(b) \subseteq Range(s)
<1> DEFINE a == SubSeq(s, 2, n)
           b == SubSeq(s, n + 1, Len(s))
<1>1. DOMAIN s = 1 .. Len(s) /\ Len(s) \in Nat /\ 1 \in 1 .. Len(s) /\ Head(s) = s[1] /\ n \in Nat
  OBVIOUS
<1>2. a \in Seq(Int) /\ Len(a) = n - 1 /\ DOMAIN a = 1 .. n - 1 /\ \A i \in 1 .. n - 1 : a[i] = s[i + 1]
  BY SplitFacts
<1>3. /\ b \in Seq(Int) /\ Len(b) = Len(s) - n /\ DOMAIN b = 1 .. Len(s) - n
      /\ \A i \in 1 .. Len(s) - n : b[i] = s[i + n]
  BY SplitFacts
<1> HIDE DEF a, b
<1>4. \A i \in 1 .. n - 1 : i + 1 \in 1 .. Len(s) /\ 1 < i + 1 /\ i + 1 <= n
  BY <1>1
<1>5. \A i \in 1 .. Len(s) - n : i + n \in 1 .. Len(s) /\ n < i + n /\ 1 < i + n
  BY <1>1
<1>6. Rising(a) /\ Rising(b)
  <2>1. Rising(a)
    BY <1>2, <1>4, RisingPart, Zenon
  <2>2. Rising(b)
    BY <1>1, <1>3, <1>5, RisingPart, Zenon
  <2> QED BY <2>1, <2>2
<1>7. \A x \in Range(a) : \E i \in 2 .. n : i \in 1 .. Len(s) /\ x = s[i]
  <2> SUFFICES ASSUME NEW x \in Range(a) PROVE \E i \in 2 .. n : i \in 1 .. Len(s) /\ x = s[i]
    OBVIOUS
  <2>1. PICK i \in 1 .. n - 1 : x = a[i]
    BY <1>2 DEF Range
  <2>2. i + 1 \in 2 .. n /\ i + 1 \in 1 .. Len(s) /\ x = s[i + 1]
    BY <1>1, <1>2, <1>4, <2>1
  <2> QED BY <2>2
<1>8. \A x \in Range(b) : \E i \in 1 .. Len(s) : n < i /\ x = s[i]
  <2> SUFFICES ASSUME NEW x \in Range(b) PROVE \E i \in 1 .. Len(s) : n < i /\ x = s[i]
    OBVIOUS
  <2>1. PICK i \in 1 .. Len(s) - n : x = b[i]
    BY <1>3, Zenon DEF Range
  <2>2. i + n \in 1 .. Len(s) /\ n < i + n /\ x = s[i + n]
    BY <1>3, <1>5, <2>1
  <2> QED BY <2>2
<1>9. Precede(Range(a), Range(b))
  <2> SUFFICES ASSUME NEW x \in Range(a), NEW y \in Range(b), x > 0, y > 0 PROVE x < y
    BY DEF Precede
  <2>1. PICK i \in 2 .. n : i \in 1 .. Len(s) /\ x = s[i]
    BY <1>7
  <2>2. PICK j \in 1 .. Len(s) : n < j /\ y = s[j]
    BY <1>8
  <2>3. i < j
    BY <1>1, <2>1, <2>2
  <2> QED BY <2>1, <2>2, <2>3 DEF Rising
<1>10. Precede({Head(s)}, Range(a) \cup Range(b))
  <2> SUFFICES ASSUME NEW y \in Range(a) \cup Range(b), s[1] > 0, y > 0 PROVE s[1] < y
    BY <1>1 DEF Precede
  <2>1. PICK j \in 1 .. Len(s) : 1 < j /\ y = s[j]
    BY <1>1, <1>7, <1>8
  <2> QED BY <1>1, <2>1 DEF Rising
<1>11. {Head(s)} \cup Range(a) \cup Range(b) \subseteq Range(s)
  BY <1>1, <1>7, <1>8, Zenon DEF Range
<1> QED BY <1>6, <1>9, <1>10, <1>11 DEF a, b

\* getchar keeps the order
LEMMA InputOrder ==
    ASSUME StdinOK, StdinOrder
    PROVE  /\ Rising(Input.stdio) /\ Rising(Input.kernel)
           /\ Precede(Range(Input.stdio), Range(Input.kernel))
           /\ Precede({Input.char}, Range(Input.stdio) \cup Range(Input.kernel))
           /\ ({Input.char} \ {EOF}) \cup Range(Input.stdio) \cup Range(Input.kernel) \subseteq Waiting
<1>0. kernel \in Seq(Int) /\ stdio \in Seq(Int)
  BY DEF StdinOK
<1>1. CASE stdio # <<>>
  <2>1. Input.char = Head(stdio) /\ Input.stdio = Tail(stdio) /\ Input.kernel = kernel
    BY <1>1 DEF Input
  <2>2. Range(stdio) = {Head(stdio)} \cup Range(Tail(stdio))
    BY <1>0, <1>1, RangeTail
  <2>3. Rising(Tail(stdio)) /\ Precede({Head(stdio)}, Range(Tail(stdio)))
    BY <1>0, <1>1, RisingTail DEF StdinOrder
  <2> QED BY <2>1, <2>2, <2>3 DEF StdinOrder, Precede, Waiting
<1>2. CASE stdio = <<>> /\ kernel = <<>>
  <2>1. Input.char = EOF /\ Input.stdio = stdio /\ Input.kernel = kernel
    BY <1>2 DEF Input
  <2> QED BY <1>2, <2>1, RangeEmpty DEF StdinOrder, Precede, Waiting
<1>3. CASE stdio = <<>> /\ kernel # <<>>
  <2> DEFINE n == IF Len(kernel) < StdioSize THEN Len(kernel) ELSE StdioSize
  <2>1. /\ Input.char = Head(kernel) /\ Input.stdio = SubSeq(kernel, 2, n)
        /\ Input.kernel = SubSeq(kernel, n + 1, Len(kernel))
    BY <1>3, Zenon DEF Input
  <2>2. n \in 1 .. Len(kernel)
    <3>1. Len(kernel) \in Nat /\ Len(kernel) >= 1 /\ StdioSize \in Nat /\ StdioSize >= 1
      BY <1>3, UartAssumption DEF StdinOK
    <3> QED BY <3>1
  <2> HIDE DEF n
  <2> DEFINE a == SubSeq(kernel, 2, n)
             b == SubSeq(kernel, n + 1, Len(kernel))
  <2>3. /\ Rising(a) /\ Rising(b) /\ Precede(Range(a), Range(b))
        /\ Precede({Head(kernel)}, Range(a) \cup Range(b))
        /\ {Head(kernel)} \cup Range(a) \cup Range(b) \subseteq Range(kernel)
    BY <1>0, <2>2, RisingSplit, Zenon DEF StdinOrder
  <2> HIDE DEF a, b
  <2>4. Input.char = Head(kernel) /\ Input.stdio = a /\ Input.kernel = b
    BY <2>1 DEF a, b
  <2> QED BY <2>3, <2>4 DEF Waiting
<1> QED BY <1>1, <1>2, <1>3

LEMMA ReceiveOrder ==
    ASSUME UartInv, OrderInv, Receive, UNCHANGED <<typed, switched>>
    PROVE  OrderInv'
<1>1. Bounded(rx) /\ StdinOK /\ typed \in Nat /\ rx.fifo \in Seq(Int) /\ rx.enabled \in BOOLEAN
  BY UartTypes DEF UartInv, Bounded, Queue
<1>2. CASE Full(rx) \/ ~input_chars_available
  <2>1. UNCHANGED <<rx, kernel, stdio>>
    BY <1>2 DEF Receive
  <2> QED BY <2>1 DEF OrderInv, StdinOrder, QueueOrder, Waiting
<1>3. CASE ~Full(rx) /\ input_chars_available
  <2> DEFINE c == Input.char
  <2>1. kernel' = Input.kernel /\ stdio' = Input.stdio /\ rx' = IF c = Null THEN rx ELSE PutChar(rx, c)
    BY <1>3 DEF Receive
  <2>2. /\ StdinOrder' /\ Precede({c}, Waiting') /\ Waiting' \subseteq Waiting
        /\ ({c} \ {EOF}) \subseteq Waiting
    BY <1>1, <2>1, InputOrder DEF OrderInv, StdinOrder, Waiting
  <2>3. c \in Int \ {None}
    BY <1>1, InputFacts DEF EOF, None
  <2> HIDE DEF c
  <2>4. Held(rx') \subseteq Held(rx) \cup {c}
    BY <1>1, <2>1, <2>3, PutCharFacts
  <2>5. \A x \in Waiting' \cup Held(rx') : x \in Int /\ x <= typed'
    <3>1. c <= typed
      BY <1>1, <2>2, <2>3 DEF OrderInv, EOF
    <3> QED BY <2>2, <2>3, <2>4, <3>1 DEF OrderInv
  <2>6. ASSUME ~switched PROVE QueueOrder'
    <3>1. QueueOrder
      BY <2>6 DEF OrderInv
    <3>2. Precede(Held(rx'), Waiting')
      BY <2>2, <2>4, <3>1 DEF QueueOrder, Precede
    <3>3. CASE c = Null
      BY <2>1, <3>1, <3>2, <3>3 DEF QueueOrder
    <3>4. CASE c # Null /\ rx.enabled
      <4>1. rx' = [rx EXCEPT !.fifo = Append(rx.fifo, c)]
        BY <1>3, <2>1, <3>4 DEF PutChar, Full
      <4>2. rx'.fifo = Append(rx.fifo, c) /\ rx'.holding = rx.holding /\ rx'.enabled = rx.enabled
        BY <1>1, <4>1 DEF Bounded, Queue
      <4>3. Precede(Range(rx.fifo), {c})
        BY <2>2, <2>3, <3>1 DEF QueueOrder, Precede, Held, EOF
      <4>4. Rising(rx'.fifo)
        BY <1>1, <2>3, <3>1, <4>2, <4>3, RisingAppend DEF QueueOrder
      <4> QED BY <3>1, <3>2, <3>4, <4>2, <4>4 DEF QueueOrder
    <3>5. CASE c # Null /\ ~rx.enabled
      <4>1. rx' = [rx EXCEPT !.holding = c]
        BY <2>1, <3>5 DEF PutChar
      <4>2. rx'.fifo = rx.fifo /\ rx'.enabled = rx.enabled
        BY <1>1, <4>1 DEF Bounded, Queue
      <4> QED BY <3>1, <3>2, <3>5, <4>2 DEF QueueOrder
    <3> QED BY <1>1, <3>3, <3>4, <3>5
  <2> QED BY <2>2, <2>5, <2>6 DEF OrderInv
<1> QED BY <1>2, <1>3

\* a read takes the lowest character that software has not got
LEMMA ReadOrder ==
    ASSUME UartInv, OrderInv, NoInputLost, NEW c \in Cores, ReadDR(c)
    PROVE  /\ OrderInv'
           /\ \A n \in got' \ got : n > 0 /\ ~switched => \A m \in 1 .. n - 1 : m \in got
<1>1. Bounded(rx) /\ typed \in Nat /\ rx.fifo \in Seq(Int) /\ rx.enabled \in BOOLEAN /\ rx.holding \in Int
  BY UartTypes DEF UartInv, Bounded, Queue
<1>2. UNCHANGED <<kernel, stdio, typed, switched>>
  BY DEF ReadDR, stdin
<1>3. CASE Empty(rx)
  <2>1. rx' = rx /\ got' = got
    BY <1>3 DEF ReadDR
  <2> QED BY <1>2, <2>1 DEF OrderInv, StdinOrder, QueueOrder, Waiting
<1>4. CASE ~Empty(rx)
  <2>1. rx' = GetChar(rx) /\ got' = got \cup ({NextChar(rx)} \ {EOF})
    BY <1>4 DEF ReadDR
  <2>2. Held(rx) = Held(rx') \cup {NextChar(rx)} /\ rx'.enabled = rx.enabled /\ NextChar(rx) \in Int
    BY <1>1, <1>4, <2>1, GetCharFacts
  <2>3. ASSUME ~switched
        PROVE  QueueOrder' /\ Precede({NextChar(rx)}, Held(rx') \cup Waiting)
    <3>1. QueueOrder
      BY <2>3 DEF OrderInv
    <3>2. Precede(Held(rx'), Waiting')
      BY <1>2, <2>2, <3>1 DEF QueueOrder, Precede, Waiting
    <3>3. Precede({NextChar(rx)}, Waiting)
      BY <2>2, <3>1 DEF QueueOrder, Precede
    <3>4. CASE rx.enabled
      <4>1. rx.fifo # <<>> /\ NextChar(rx) = Head(rx.fifo) /\ rx' = [rx EXCEPT !.fifo = Tail(rx.fifo)]
        BY <1>4, <2>1, <3>4 DEF Empty, NextChar, GetChar
      <4>2. rx'.fifo = Tail(rx.fifo) /\ rx'.holding = rx.holding /\ rx.holding = None
        BY <1>1, <3>1, <3>4, <4>1 DEF Bounded, Queue, QueueOrder
      <4>3. Rising(Tail(rx.fifo)) /\ Precede({Head(rx.fifo)}, Range(Tail(rx.fifo)))
        BY <1>1, <3>1, <4>1, RisingTail, Zenon DEF QueueOrder
      <4>4. Held(rx') = Range(Tail(rx.fifo))
        BY <4>2 DEF Held
      <4> QED BY <2>2, <3>2, <3>3, <3>4, <4>1, <4>2, <4>3, <4>4, Zenon DEF QueueOrder, Precede
    <3>5. CASE ~rx.enabled
      <4>1. rx' = [rx EXCEPT !.holding = None]
        BY <2>1, <3>5 DEF GetChar
      <4>2. rx'.fifo = <<>> /\ rx'.holding = None /\ rx.fifo = <<>>
        BY <1>1, <3>1, <3>5, <4>1 DEF Bounded, Queue, QueueOrder
      <4>3. Held(rx') = {}
        BY <4>2, RangeEmpty DEF Held
      <4> QED BY <2>2, <3>1, <3>2, <3>3, <3>5, <4>2, <4>3 DEF QueueOrder, Precede
    <3> QED BY <1>1, <3>4, <3>5
  <2>4. OrderInv'
    <3>1. StdinOrder' /\ Waiting' = Waiting
      BY <1>2 DEF OrderInv, StdinOrder, Waiting
    <3>2. \A x \in Waiting' \cup Held(rx') : x \in Int /\ x <= typed'
      BY <1>2, <2>2, <3>1 DEF OrderInv
    <3> QED BY <1>2, <2>3, <3>1, <3>2 DEF OrderInv
  <2>5. ASSUME NEW n \in got' \ got, n > 0, ~switched, NEW m \in 1 .. n - 1
        PROVE  m \in got
    <3>1. n = NextChar(rx) /\ n \in Int /\ n <= typed
      BY <2>1, <2>2, <2>5 DEF OrderInv
    <3>2. m \in 1 .. typed /\ m < n /\ m > 0 /\ m \in Int
      BY <1>1, <3>1
    <3>3. m \in Waiting \cup Held(rx) \cup got
      BY <3>2 DEF NoInputLost, Waiting
    <3>4. m \notin Held(rx') \cup Waiting
      <4>1. Precede({n}, Held(rx') \cup Waiting)
        BY <2>3, <2>5, <3>1
      <4> QED BY <2>5, <3>1, <3>2, <4>1 DEF Precede
    <3> QED BY <2>2, <3>1, <3>2, <3>3, <3>4
  <2> QED BY <2>4, <2>5
<1> QED BY <1>3, <1>4

\* what InputInOrder says of a step
InOrderStep == \A n \in got' \ got : n > 0 /\ ~switched => \A m \in 1 .. n - 1 : m \in got

LEMMA OrderStep ==
    ASSUME UartInv, OrderInv, NoInputLost, [Next]_vars
    PROVE  OrderInv' /\ InOrderStep
<1>1. Bounded(rx) /\ StdinOK /\ typed \in Nat
  BY UartTypes DEF UartInv
<1>2. CASE UNCHANGED <<rx, kernel, stdio, typed, got, switched>>
  BY <1>2 DEF OrderInv, StdinOrder, QueueOrder, Waiting, InOrderStep
<1>3. ASSUME NEW c \in Cores, ReadDR(c) PROVE OrderInv' /\ InOrderStep
  BY <1>3, ReadOrder DEF InOrderStep
<1>4. ASSUME NEW c \in Cores, NEW FEN \in BOOLEAN, WriteLCR_H(c, FEN) PROVE OrderInv' /\ InOrderStep
  <2>1. /\ UNCHANGED <<kernel, stdio, typed, got>> /\ rx' = SetFIFOenable(rx, FEN)
        /\ switched' = (switched \/ (FEN # rx.enabled /\ Held(rx) # {}))
    BY <1>4 DEF WriteLCR_H, stdin
  <2>2. rx'.fifo = rx.fifo /\ rx'.holding = rx.holding /\ rx'.enabled = FEN /\ rx.fifo \in Seq(Int)
    BY <1>1, <2>1 DEF SetFIFOenable, Bounded, Queue
  <2>3. Held(rx') = Held(rx) /\ Waiting' = Waiting /\ (StdinOrder' <=> StdinOrder)
    BY <2>1, <2>2 DEF Held, Waiting, StdinOrder
  <2>4. ASSUME ~switched' PROVE QueueOrder'
    <3>1. ~switched /\ QueueOrder /\ (FEN = rx.enabled \/ Held(rx) = {})
      BY <2>1, <2>4, Zenon DEF OrderInv
    <3>2. CASE FEN = rx.enabled
      BY <2>2, <2>3, <3>1, <3>2 DEF QueueOrder
    <3>3. CASE Held(rx) = {}
      <4>1. rx.holding = None /\ Range(rx.fifo) = {}
        BY <3>3 DEF Held
      <4>2. rx.fifo = <<>>
        BY <2>2, <4>1, RangeTail
      <4> QED BY <2>2, <2>3, <3>1, <4>1, <4>2 DEF QueueOrder
    <3> QED BY <3>1, <3>2, <3>3
  <2> QED BY <2>1, <2>3, <2>4 DEF OrderInv, InOrderStep
<1>5. CASE ServiceIOs
  <2>1. UNCHANGED <<typed, got, switched>> /\ Receive
    BY <1>5 DEF ServiceIOs
  <2> QED BY <2>1, ReceiveOrder DEF InOrderStep
<1>6. CASE Type \/ TypeNull
  <2>1. UNCHANGED <<rx, stdio, got, switched>>
    BY <1>6 DEF Type, TypeNull, queues, history
  <2>2. PICK c \in Int : /\ kernel' = Append(kernel, c) /\ (c = Null \/ c = typed + 1)
                         /\ c <= typed' /\ typed <= typed' /\ typed' \in Nat
    BY <1>1, <1>6 DEF Type, TypeNull, Null
  <2>3. Range(kernel') = Range(kernel) \cup {c} /\ kernel \in Seq(Int)
    <3>1. kernel \in Seq(Int)
      BY <1>1 DEF StdinOK
    <3>2. Range(Append(kernel, c)) = Range(kernel) \cup {c}
      BY <3>1, RangeAppend
    <3> QED BY <2>2, <3>1, <3>2
  <2>4. Precede(Waiting \cup Held(rx), {c})
    BY <1>1, <2>2 DEF Precede, OrderInv, Null
  <2>5. StdinOrder'
    <3>1. Rising(kernel')
      BY <2>2, <2>3, <2>4, RisingAppend DEF OrderInv, StdinOrder, Precede, Waiting
    <3> QED BY <2>1, <2>3, <2>4, <3>1 DEF OrderInv, StdinOrder, Precede, Waiting
  <2>6. Waiting' = Waiting \cup {c}
    BY <2>1, <2>3 DEF Waiting
  <2>7. \A x \in Waiting' \cup Held(rx') : x \in Int /\ x <= typed'
    BY <1>1, <2>1, <2>2, <2>6 DEF OrderInv
  <2>8. ASSUME ~switched PROVE QueueOrder'
    BY <2>1, <2>4, <2>6, <2>8 DEF OrderInv, QueueOrder, Precede
  <2> QED BY <2>1, <2>5, <2>7, <2>8 DEF OrderInv, InOrderStep
<1>7. ASSUME NEW c \in Cores, \/ Other(c) \/ WriteDR(c) \/ \E mask \in Masks : WriteIMSC(c, mask)
                              \/ \E bits \in Clears : WriteTICR(c, bits)
      PROVE  UNCHANGED <<rx, kernel, stdio, typed, got, switched>>
  BY <1>7 DEF Other, WriteDR, WriteIMSC, WriteTICR, queues, stdin, history
<1>8. CASE Close \/ UNCHANGED vars
  <2>1. UNCHANGED <<rx, kernel, stdio, typed, got, switched>>
    BY <1>8 DEF Close, vars, queues, stdin, history
  <2> QED BY <1>2, <2>1
<1> QED
  BY <1>2, <1>3, <1>4, <1>5, <1>6, <1>7, <1>8 DEF Next, CoreStep

(* Software reads the characters in the order of their arrival as long as   *)
(* it does not switch the FIFOs while some wait, for any sizes of the queue *)
(* and of getchar's buffer (ReadDR, Receive, uart_queue).                   *)
THEOREM InputIsInOrder == Spec => InputInOrder
<1>1. Init => OrderInv /\ NoInputLost
  <2> SUFFICES ASSUME Init PROVE OrderInv /\ NoInputLost
    OBVIOUS
  <2>1. /\ stdio = <<>> /\ kernel = <<>> /\ rx.fifo = <<>> /\ rx.holding = None /\ rx.enabled = FALSE
        /\ typed = 0 /\ Len(<<>>) = 0
    BY DEF Init, Reset
  <2>2. Waiting = {} /\ Held(rx) = {}
    BY <2>1, RangeEmpty DEF Waiting, Held
  <2>3. Rising(<<>>)
    BY <2>1 DEF Rising
  <2>4. OrderInv
    BY <2>1, <2>2, <2>3, RangeEmpty DEF OrderInv, StdinOrder, QueueOrder, Precede
  <2> QED BY <2>1, <2>4 DEF NoInputLost
<1>2. UartInv /\ OrderInv /\ NoInputLost /\ [Next]_vars => OrderInv' /\ NoInputLost' /\ [InOrderStep]_vars
  BY OrderStep, InputStep
<1>3. [][InOrderStep]_vars => InputInOrder
  BY PTL DEF InputInOrder, InOrderStep
<1> QED BY <1>1, <1>2, <1>3, UartInit, UartStep, PTL DEF Spec
=============================================================================
