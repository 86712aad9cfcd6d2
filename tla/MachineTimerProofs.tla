--------------------------- MODULE MachineTimerProofs ---------------------------
(* The machine timer keeps its two values in range, and its compare value is *)
(* programmed low word first, for every width of a word.                     *)
EXTENDS MCMachineTimer, Induction, SequenceTheorems

-----------------------------------------------------------------------------
(* Powers of two, and the bitwise OR *)

LEMMA Pow2Equation ==
  Pow2 = [n \in Nat |-> IF n = 0 THEN 1 ELSE 2 * Pow2[n - 1]]
  <1> DEFINE A == Nat \ {0}
             one == 1
             g == [x \in A |-> 2 * x]
             Eq(f) == f = [n \in Nat |-> IF n = 0 THEN 1 ELSE 2 * f[n - 1]]
  <1>1. one \in A /\ g \in [A -> A]
    OBVIOUS
  <1>2. PICK f \in [Nat -> A] : f[0] = one /\ \A n \in Nat : f[n + 1] = g[f[n]]
    <2> HIDE DEF A, g, one
    <2> QED
      BY <1>1, Recursion
  <1>3. ASSUME NEW n \in Nat PROVE f[n] = IF n = 0 THEN 1 ELSE 2 * f[n - 1]
    <2>1. CASE n = 0
      BY <1>2, <2>1
    <2>2. CASE n # 0
      <3>1. n - 1 \in Nat /\ n - 1 + 1 = n
        BY <2>2
      <3>2. f[n - 1 + 1] = g[f[n - 1]]
        BY <1>2, <3>1
      <3>3. f[n - 1] \in A
        BY <1>2, <3>1
      <3> QED
        BY <2>2, <3>1, <3>2, <3>3
    <2> QED
      BY <2>1, <2>2
  <1>4. Eq(f)
    BY <1>2, <1>3
  <1>5. Pow2 = CHOOSE h : Eq(h)
    BY DEF Pow2
  <1> HIDE DEF Eq
  <1>6. Eq(Pow2)
    BY <1>4, <1>5
  <1> QED
    BY <1>6 DEF Eq

LEMMA Pow2Step == Pow2[0] = 1 /\ \A n \in Nat : Pow2[n + 1] = 2 * Pow2[n]
  <1>1. Pow2[0] = 1
    BY Pow2Equation
  <1>2. ASSUME NEW n \in Nat PROVE Pow2[n + 1] = 2 * Pow2[n]
    <2>1. n + 1 \in Nat /\ n + 1 # 0 /\ n + 1 - 1 = n
      OBVIOUS
    <2>2. Pow2[n + 1] = IF n + 1 = 0 THEN 1 ELSE 2 * Pow2[n + 1 - 1]
      BY <2>1, Pow2Equation
    <2> QED
      BY <2>1, <2>2
  <1> QED
    BY <1>1, <1>2

LEMMA Pow2Type == \A n \in Nat : Pow2[n] \in Nat \ {0}
  <1> DEFINE S == {n \in Nat : Pow2[n] \in Nat \ {0}}
  <1>1. 0 \in S
    BY Pow2Step
  <1>2. ASSUME NEW n \in Nat, n \in S PROVE n + 1 \in S
    BY <1>2, Pow2Step
  <1>3. \A n \in Nat : n \in S
    <2> HIDE DEF S
    <2> QED
      BY <1>1, <1>2, SetInduction
  <1> QED
    BY <1>3

\* the last bit of a | b
LastOr(p) == IF p[1] % 2 = 1 \/ p[2] % 2 = 1 THEN 1 ELSE 0

Halves(p) == <<p[1] \div 2, p[2] \div 2>>

LEMMA HalvesType ==
  ASSUME NEW p \in Nat \X Nat
  PROVE  Halves(p) \in Nat \X Nat /\ LastOr(p) \in {0, 1}
  BY DEF Halves, LastOr

LEMMA BitOrEquation ==
  BitOr = [n \in Nat |-> [p \in Nat \X Nat |->
             IF n = 0 THEN 0 ELSE 2 * BitOr[n - 1][Halves(p)] + LastOr(p)]]
  <1> DEFINE A == [Nat \X Nat -> Nat]
             zero == [p \in Nat \X Nat |-> 0]
             g == [h \in A |-> [p \in Nat \X Nat |-> 2 * h[Halves(p)] + LastOr(p)]]
             Eq(f) == f = [n \in Nat |-> [p \in Nat \X Nat |->
                             IF n = 0 THEN 0 ELSE 2 * f[n - 1][Halves(p)] + LastOr(p)]]
  <1>1. zero \in A /\ g \in [A -> A]
    <2>1. ASSUME NEW h \in A, NEW p \in Nat \X Nat
          PROVE  2 * h[Halves(p)] + LastOr(p) \in Nat
      <3>1. h[Halves(p)] \in Nat /\ LastOr(p) \in {0, 1}
        BY HalvesType
      <3> QED
        BY <3>1
    <2> QED
      BY <2>1
  <1>2. PICK f \in [Nat -> A] : f[0] = zero /\ \A n \in Nat : f[n + 1] = g[f[n]]
    <2> HIDE DEF A, g, zero
    <2> QED
      BY <1>1, Recursion
  <1>3. ASSUME NEW n \in Nat
        PROVE  f[n] = [p \in Nat \X Nat |->
                          IF n = 0 THEN 0 ELSE 2 * f[n - 1][Halves(p)] + LastOr(p)]
    <2>1. CASE n = 0
      BY <1>2, <2>1
    <2>2. CASE n # 0
      <3>1. n - 1 \in Nat /\ n - 1 + 1 = n
        BY <2>2
      <3>2. f[n] = g[f[n - 1]] /\ f[n - 1] \in A
        BY <1>2, <3>1
      <3>3. g[f[n - 1]] = [p \in Nat \X Nat |-> 2 * f[n - 1][Halves(p)] + LastOr(p)]
        BY <3>2
      <3> HIDE DEF g
      <3> QED
        BY <2>2, <3>2, <3>3
    <2> QED
      BY <2>1, <2>2
  <1>4. Eq(f)
    BY <1>2, <1>3
  <1>5. BitOr = CHOOSE h : Eq(h)
    BY DEF BitOr, Halves, LastOr
  <1> HIDE DEF Eq
  <1>6. Eq(BitOr)
    BY <1>4, <1>5
  <1> QED
    BY <1>6 DEF Eq

LEMMA BitOrStep ==
  /\ \A p \in Nat \X Nat : BitOr[0][p] = 0
  /\ \A n \in Nat, p \in Nat \X Nat : BitOr[n + 1][p] = 2 * BitOr[n][Halves(p)] + LastOr(p)
  <1>1. ASSUME NEW p \in Nat \X Nat PROVE BitOr[0][p] = 0
    BY BitOrEquation
  <1>2. ASSUME NEW n \in Nat, NEW p \in Nat \X Nat
        PROVE  BitOr[n + 1][p] = 2 * BitOr[n][Halves(p)] + LastOr(p)
    <2>1. n + 1 \in Nat /\ n + 1 # 0 /\ n + 1 - 1 = n
      OBVIOUS
    <2>2. \A k \in Nat : BitOr[k] = [q \in Nat \X Nat |->
             IF k = 0 THEN 0 ELSE 2 * BitOr[k - 1][Halves(q)] + LastOr(q)]
      BY BitOrEquation
    <2>3. BitOr[n + 1] = [q \in Nat \X Nat |-> 2 * BitOr[n][Halves(q)] + LastOr(q)]
      BY <2>1, <2>2
    <2> QED
      BY <2>3
  <1> QED
    BY <1>1, <1>2

LEMMA BitOrType ==
  \A n \in Nat, p \in Nat \X Nat : BitOr[n][p] \in 0 .. Pow2[n] - 1
  <1> DEFINE S == {n \in Nat : \A p \in Nat \X Nat : BitOr[n][p] \in 0 .. Pow2[n] - 1}
  <1>1. 0 \in S
    BY BitOrStep, Pow2Step
  <1>2. ASSUME NEW n \in Nat, n \in S PROVE n + 1 \in S
    <2>1. ASSUME NEW p \in Nat \X Nat PROVE BitOr[n + 1][p] \in 0 .. Pow2[n + 1] - 1
      <3>1. BitOr[n][Halves(p)] \in 0 .. Pow2[n] - 1 /\ LastOr(p) \in {0, 1}
        BY <1>2, HalvesType
      <3>2. BitOr[n + 1][p] = 2 * BitOr[n][Halves(p)] + LastOr(p)
        BY BitOrStep
      <3>3. Pow2[n] \in Nat \ {0} /\ Pow2[n + 1] = 2 * Pow2[n]
        BY Pow2Type, Pow2Step
      <3> QED
        BY <3>1, <3>2, <3>3
    <2> QED
      BY <2>1
  <1>3. \A n \in Nat : n \in S
    <2> HIDE DEF S
    <2> QED
      BY <1>1, <1>2, SetInduction
  <1> QED
    BY <1>3

\* 0 | b is b
LEMMA BitOrZero ==
  \A n \in Nat : \A b \in 0 .. Pow2[n] - 1 : BitOr[n][<<0, b>>] = b
  <1> DEFINE S == {n \in Nat : \A b \in 0 .. Pow2[n] - 1 : BitOr[n][<<0, b>>] = b}
  <1>1. 0 \in S
    BY BitOrStep, Pow2Step
  <1>2. ASSUME NEW n \in Nat, n \in S PROVE n + 1 \in S
    <2>1. Pow2[n] \in Nat \ {0} /\ Pow2[n + 1] = 2 * Pow2[n]
      BY Pow2Type, Pow2Step
    <2>2. ASSUME NEW b \in 0 .. Pow2[n + 1] - 1 PROVE BitOr[n + 1][<<0, b>>] = b
      <3> DEFINE h == b \div 2
      <3>1. b \in Nat /\ h \in 0 .. Pow2[n] - 1 /\ b = 2 * h + (b % 2) /\ b % 2 \in {0, 1}
        BY <2>1
      <3>2. Halves(<<0, b>>) = <<0, h>> /\ LastOr(<<0, b>>) = b % 2
        BY <3>1 DEF Halves, LastOr
      <3>3. BitOr[n + 1][<<0, b>>] = 2 * BitOr[n][Halves(<<0, b>>)] + LastOr(<<0, b>>)
        BY <3>1, BitOrStep
      <3>4. BitOr[n][<<0, h>>] = h
        BY <1>2, <3>1
      <3> HIDE DEF h
      <3> QED
        BY <3>1, <3>2, <3>3, <3>4
    <2> QED
      BY <2>2
  <1>3. \A n \in Nat : n \in S
    <2> HIDE DEF S
    <2> QED
      BY <1>1, <1>2, SetInduction
  <1> QED
    BY <1>3

\* (h << k) | a is their sum, when a has no more than k bits
LEMMA BitOrShifted ==
  ASSUME NEW m \in Nat, NEW h \in 0 .. Pow2[m] - 1
  PROVE  \A k \in Nat : \A a \in 0 .. Pow2[k] - 1 :
            BitOr[k + m][<<a, h * Pow2[k]>>] = h * Pow2[k] + a
  <1> DEFINE S == {k \in Nat : \A a \in 0 .. Pow2[k] - 1 :
                      BitOr[k + m][<<a, h * Pow2[k]>>] = h * Pow2[k] + a}
  <1>0. h \in Nat
    BY Pow2Type
  <1>1. 0 \in S
    <2>1. Pow2[0] = 1 /\ 0 + m = m /\ h * 1 = h /\ h + 0 = h
      BY <1>0, Pow2Step
    <2>2. BitOr[m][<<0, h>>] = h
      BY BitOrZero
    <2> QED
      BY <2>1, <2>2
  <1>2. ASSUME NEW k \in Nat, k \in S PROVE k + 1 \in S
    <2> DEFINE x == h * Pow2[k]
    <2>1. Pow2[k] \in Nat \ {0} /\ Pow2[k + 1] = 2 * Pow2[k]
      BY Pow2Type, Pow2Step
    <2>2. x \in Nat
      BY <1>0, <2>1
    <2>3. h * Pow2[k + 1] = 2 * x
      BY <1>0, <2>1
    <2> HIDE DEF x
    <2>4. ASSUME NEW a \in 0 .. Pow2[k + 1] - 1
          PROVE  BitOr[k + 1 + m][<<a, 2 * x>>] = 2 * x + a
      <3> DEFINE c == a \div 2
      <3>1. a \in Nat /\ c \in 0 .. Pow2[k] - 1 /\ a = 2 * c + (a % 2) /\ a % 2 \in {0, 1}
        BY <2>1
      <3>2. (2 * x) \div 2 = x /\ (2 * x) % 2 = 0 /\ 2 * x \in Nat
        BY <2>2
      <3>3. Halves(<<a, 2 * x>>) = <<c, x>> /\ LastOr(<<a, 2 * x>>) = a % 2
        BY <3>1, <3>2 DEF Halves, LastOr
      <3>4. BitOr[k + m + 1][<<a, 2 * x>>]
              = 2 * BitOr[k + m][Halves(<<a, 2 * x>>)] + LastOr(<<a, 2 * x>>)
        <4>1. k + m \in Nat /\ <<a, 2 * x>> \in Nat \X Nat
          BY <3>1, <3>2
        <4> QED
          BY <4>1, BitOrStep
      <3>5. BitOr[k + m][<<c, x>>] = x + c
        BY <1>2, <3>1 DEF x
      <3>6. k + 1 + m = k + m + 1
        OBVIOUS
      <3> HIDE DEF c
      <3> QED
        BY <2>2, <3>1, <3>3, <3>4, <3>5, <3>6
    <2> QED
      BY <2>3, <2>4
  <1>3. \A n \in Nat : n \in S
    <2> HIDE DEF S
    <2> QED
      BY <1>1, <1>2, SetInduction
  <1> QED
    BY <1>3

-----------------------------------------------------------------------------
(* The timer *)

LEMMA WordFacts ==
  /\ WordSize \in Nat \ {0} /\ Pow2[2 * WordBits] \in Nat \ {0}
  /\ Word \subseteq DblWord /\ Word \subseteq Nat /\ DblWord \subseteq Nat
  <1> DEFINE S == {k \in Nat : Pow2[WordBits + k] >= Pow2[WordBits]}
  <1>1. WordBits \in Nat
    BY TimerAssumption
  <1>2. 0 \in S
    BY <1>1, Pow2Type
  <1>3. ASSUME NEW k \in Nat, k \in S PROVE k + 1 \in S
    <2>1. WordBits + k \in Nat /\ WordBits + (k + 1) = (WordBits + k) + 1
      BY <1>1
    <2>2. Pow2[(WordBits + k) + 1] = 2 * Pow2[WordBits + k]
      BY <2>1, Pow2Step
    <2>3. Pow2[WordBits + k] \in Nat /\ Pow2[WordBits] \in Nat
      BY <1>1, <2>1, Pow2Type
    <2> QED
      BY <1>3, <2>1, <2>2, <2>3
  <1>4. \A k \in Nat : k \in S
    <2> HIDE DEF S
    <2> QED
      BY <1>2, <1>3, SetInduction
  <1>5. Pow2[WordBits + WordBits] >= Pow2[WordBits] /\ 2 * WordBits = WordBits + WordBits
    BY <1>1, <1>4
  <1>6. Pow2[WordBits] \in Nat \ {0} /\ Pow2[WordBits + WordBits] \in Nat \ {0}
    BY <1>1, Pow2Type
  <1> QED
    BY <1>5, <1>6 DEF WordSize, Word, DblWord

LEMMA OrHiType ==
  ASSUME NEW v \in DblWord, NEW rval \in Word
  PROVE  OrHi(v, rval) \in DblWord
  <1>1. v \in Nat /\ rval * WordSize \in Nat /\ 2 * WordBits \in Nat
    BY WordFacts, TimerAssumption
  <1> QED
    BY <1>1, BitOrType DEF OrHi, DblWord

\* a high word ORed to a low word: the two words side by side
LEMMA OrHiOfLo ==
  ASSUME NEW lo \in Word, NEW hi \in Word
  PROVE  OrHi(lo, hi) = hi * WordSize + lo
  <1>1. WordBits \in Nat /\ 2 * WordBits = WordBits + WordBits
    BY TimerAssumption
  <1> QED
    BY <1>1, BitOrShifted DEF OrHi, Word, WordSize

LEMMA AdvanceTimerType ==
  ASSUME TimerTypeOK, AdvanceTimer
  PROVE  TimerTypeOK'
  BY WordFacts, TimerAssumption DEF TimerTypeOK, AdvanceTimer, DblWord

LEMMA WriteType ==
  ASSUME TimerTypeOK, NEW reg \in Registers, NEW rval \in Word, Write(reg, rval)
  PROVE  TimerTypeOK'
  <1>1. rval \in DblWord /\ OrHi(timer, rval) \in DblWord /\ OrHi(timer_compare, rval) \in DblWord
    BY WordFacts, OrHiType DEF TimerTypeOK
  <1> QED
    BY <1>1 DEF TimerTypeOK, Write

(* For every width of a word and every advance, the counter and the compare *)
(* value stay in two words: AdvanceTimer wraps, and Write stores a word or  *)
(* ORs one into the upper half.                                             *)
THEOREM TimerTyped == Spec => []TimerTypeOK
  <1>1. Init => TimerTypeOK
    BY WordFacts DEF Init, TimerTypeOK, DblWord
  <1>2. TimerTypeOK /\ [Next]_timer_vars => TimerTypeOK'
    <2> SUFFICES ASSUME TimerTypeOK, [Next]_timer_vars PROVE TimerTypeOK'
      OBVIOUS
    <2>1. CASE AdvanceTimer
      BY <2>1, AdvanceTimerType
    <2>2. CASE \E reg \in Registers, rval \in Word : Write(reg, rval)
      BY <2>2, WriteType
    <2>3. CASE UNCHANGED timer_vars
      BY <2>3 DEF timer_vars, TimerTypeOK
    <2> QED
      BY <2>1, <2>2, <2>3 DEF Next
  <1> QED
    BY <1>1, <1>2, PTL DEF Spec

-----------------------------------------------------------------------------
(* Programming the compare value *)

ProgramInv == TimerTypeOK /\ written \in Seq(Word) /\ LoThenHiPrograms

LEMMA MCAdvanceKeeps ==
  ASSUME ProgramInv, MCAdvance
  PROVE  ProgramInv'
  <1>1. TimerTypeOK'
    BY AdvanceTimerType DEF ProgramInv, MCAdvance
  <1>2. UNCHANGED <<timer_compare, written>>
    BY DEF MCAdvance, AdvanceTimer
  <1> QED
    BY <1>1, <1>2 DEF ProgramInv, LoThenHiPrograms

LEMMA MCWriteKeeps ==
  ASSUME ProgramInv, NEW reg \in Registers, NEW rval \in Word,
         Write(reg, rval), History(reg, rval)
  PROVE  ProgramInv'
  <1>1. TimerTypeOK'
    BY WriteType DEF ProgramInv
  <1>2. written \in Seq(Word) /\ Len(written) \in Nat
    BY DEF ProgramInv
  <1>3. CASE reg = "TIMER_COMPARE_LO"
    <2>1. timer_compare' = rval /\ written' = <<rval>>
      BY <1>3 DEF Write, History
    <2>2. written' \in Seq(Word) /\ Len(written') = 1 /\ written'[1] = rval
      BY <2>1
    <2> QED
      BY <1>1, <2>1, <2>2 DEF ProgramInv, LoThenHiPrograms
  <1>4. CASE reg = "TIMER_COMPARE_HI" /\ Len(written) \in {1, 2}
    <2>1. timer_compare' = OrHi(timer_compare, rval) /\ written' = Append(written, rval)
      BY <1>4 DEF Write, History
    <2>2. /\ written' \in Seq(Word) /\ Len(written') = Len(written) + 1
          /\ written'[1] = written[1] /\ written'[Len(written) + 1] = rval
      BY <1>2, <1>4, <2>1
    <2>3. ASSUME Len(written') = 2
          PROVE  timer_compare' = written'[2] * WordSize + written'[1]
      <3> DEFINE n == Len(written)
      <3>0. n \in Nat /\ n + 1 = 2
        BY <1>2, <2>2, <2>3
      <3>1. Len(written) = 1
        <4> HIDE DEF n
        <4>1. n = 1
          BY <3>0
        <4> QED
          BY <4>1 DEF n
      <3>2. timer_compare = written[1]
        BY <3>1 DEF ProgramInv, LoThenHiPrograms
      <3>3. written[1] \in Word
        BY <1>2, <3>1
      <3> QED
        BY <2>1, <2>2, <3>1, <3>2, <3>3, OrHiOfLo
    <2>4. Len(written') # 1
      BY <1>2, <1>4, <2>2
    <2> QED
      BY <1>1, <2>2, <2>3, <2>4 DEF ProgramInv, LoThenHiPrograms
  <1>5. CASE reg = "TIMER_COMPARE_HI" /\ Len(written) = 3
    <2>1. written' = [written EXCEPT ![3] = rval]
      BY <1>5 DEF History
    <2>2. written' \in Seq(Word)
      <3>1. 3 \in 1 .. Len(written)
        BY <1>5
      <3>2. [written EXCEPT ![3] = rval] \in Seq(Word)
        BY <1>2, <3>1, ExceptSeq
      <3> QED
        BY <2>1, <3>2
    <2>3. Len(written') = 3
      BY <1>2, <1>5, <2>1
    <2> QED
      BY <1>1, <2>2, <2>3 DEF ProgramInv, LoThenHiPrograms
  <1>6. CASE reg = "TIMER_COMPARE_HI" /\ Len(written) \notin {1, 2, 3}
    <2>1. written' = written
      BY <1>6 DEF History
    <2> QED
      BY <1>1, <1>2, <1>6, <2>1 DEF ProgramInv, LoThenHiPrograms
  <1>7. CASE reg \notin {"TIMER_COMPARE_LO", "TIMER_COMPARE_HI"}
    <2>1. written' = written /\ timer_compare' = timer_compare
      BY <1>7 DEF History, Write
    <2> QED
      BY <1>1, <2>1 DEF ProgramInv, LoThenHiPrograms
  <1> QED
    BY <1>3, <1>4, <1>5, <1>6, <1>7

(* For every width of a word: a low word and then a high word program that   *)
(* compare value (MachineTimer::Write), whatever the value was before and    *)
(* however the timer advances meanwhile.                                     *)
THEOREM ProgrammedLoThenHi == MCSpec => []LoThenHiPrograms
  <1>1. MCInit => ProgramInv
    <2> SUFFICES ASSUME MCInit PROVE ProgramInv
      OBVIOUS
    <2>1. TimerTypeOK
      BY WordFacts DEF MCInit, Init, TimerTypeOK, DblWord
    <2>2. written \in Seq(Word) /\ Len(written) = 0
      BY DEF MCInit
    <2> QED
      BY <2>1, <2>2 DEF ProgramInv, LoThenHiPrograms
  <1>2. ProgramInv /\ [MCWrite \/ MCAdvance]_mc_vars => ProgramInv'
    <2> SUFFICES ASSUME ProgramInv, [MCWrite \/ MCAdvance]_mc_vars PROVE ProgramInv'
      OBVIOUS
    <2>1. CASE MCWrite
      BY <2>1, MCWriteKeeps DEF MCWrite
    <2>2. CASE MCAdvance
      BY <2>2, MCAdvanceKeeps
    <2>3. CASE UNCHANGED mc_vars
      BY <2>3 DEF mc_vars, timer_vars, ProgramInv, TimerTypeOK, LoThenHiPrograms
    <2> QED
      BY <2>1, <2>2, <2>3
  <1>3. ProgramInv => LoThenHiPrograms
    BY DEF ProgramInv
  <1> QED
    BY <1>1, <1>2, <1>3, PTL DEF MCSpec
=============================================================================
