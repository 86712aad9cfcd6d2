------------------------------ MODULE ByteMemory ------------------------------
(***************************************************************************)
(* What the physical memory promises its callers: a map from addresses to  *)
(* bytes.  A byte nobody has written has an arbitrary initial value, which *)
(* is Unknown until the memory commits to it and never changes after that. *)
(* A byte is defined once it has been written, or read with init_if_free.  *)
(***************************************************************************)
EXTENDS Integers

CONSTANTS
    Addresses, Values, Unknown,
    Sizes           \* of a read or write, in bytes

VARIABLES
    contents,       \* what a read of each address returns
    initial,        \* the value each address had before the program changed it
    defined,        \* the addresses that have been given a value
    reply           \* the last operation, its address and what it returned

vars == <<contents, initial, defined, reply>>

Maps == [Addresses -> Values \cup {Unknown}]

Span(a, n) == a .. a + n - 1

\* the return codes of a read
ALL_BYTES_DEFINED    == 0
SOME_BYTES_UNDEFINED == 1
ALL_BYTES_FREE       == 2

ReadCode(S) ==
    IF S \subseteq defined THEN ALL_BYTES_DEFINED
    ELSE IF S \cap defined = {} THEN ALL_BYTES_FREE ELSE SOME_BYTES_UNDEFINED

Init ==
    /\ contents = [x \in Addresses |-> Unknown]
    /\ initial = [x \in Addresses |-> Unknown]
    /\ defined = {}
    /\ reply = [kind |-> "none"]

\* a step may settle unknown bytes, but outside of S it changes no known one
Keeps(map, new, S) ==
    /\ new \in Maps
    /\ \A x \in Addresses \ S : map[x] # Unknown => new[x] = map[x]

\* the reply repeats the buffer written; initial_values makes its bytes the initial ones too
Write(a, n, initial_values) ==
    LET S == Span(a, n)
        new == contents'
        newInitial == initial'
    IN  /\ S \subseteq Addresses
        /\ reply'.kind = "written" /\ reply'.address = a
        /\ reply'.data = [i \in 0 .. n - 1 |-> new[a + i]]
        /\ defined' = defined \cup S
        /\ Keeps(contents, new, S)
        /\ \A x \in S : new[x] \in Values
        /\ Keeps(initial, newInitial, IF initial_values THEN S ELSE {})
        /\ initial_values => \A x \in S : newInitial[x] = new[x]

Read(a, n, init_if_free) ==
    LET S == Span(a, n)
        new == contents'
        newInitial == initial'
    IN  /\ S \subseteq Addresses
        /\ reply'.kind = "read" /\ reply'.address = a
        /\ reply'.data = [i \in 0 .. n - 1 |-> new[a + i]]
        /\ reply'.rcode = ReadCode(S)
        /\ defined' = IF init_if_free THEN defined \cup S ELSE defined
        /\ Keeps(contents, new, {})
        /\ Keeps(initial, newInitial, {})
        /\ \A x \in S : new[x] \in Values
        /\ \A x \in S \ defined : new[x] = newInitial[x]

\* an operation that fails, even if the process ends there, leaves the memory alone
Fail ==
    /\ reply'.kind \in {"refused", "terminated", "error"}
    /\ UNCHANGED <<contents, initial, defined>>

\* the bytes for the dump file: those that are defined, anything for the others
Dump(a, n) ==
    LET S == Span(a, n)
    IN  /\ S \subseteq Addresses
        /\ reply'.kind = "dump" /\ reply'.address = a
        /\ UNCHANGED <<contents, initial, defined>>
        /\ \A x \in S \cap defined : reply'.data[x - a] = contents[x]

Next ==
    \/ \E a \in Addresses, n \in Sizes :
          \/ \E initial_values \in BOOLEAN : Write(a, n, initial_values)
          \/ \E init_if_free \in BOOLEAN : Read(a, n, init_if_free)
          \/ Dump(a, n)
    \/ Fail

Spec == Init /\ [][Next]_vars
=============================================================================
