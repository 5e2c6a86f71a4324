--------------------------- MODULE MCIopCounters ---------------------------
(***************************************************************************)
(* Instances of IopCounters.tla: registers of a few counts, and rates in    *)
(* halves of a cycle instead of 4096ths.  The 32-bit counter's range is     *)
(* longer than the longest delay, as in the code.                           *)
(***************************************************************************)
EXTENDS IopCounters

\* Counters 1 and 3; the rates are one cycle, and two and a half for the other source.
Counter16 == [range |-> 6, math |-> 256, wide |-> FALSE, gated |-> TRUE, rates |-> {2, 5}]
Counter32 == [range |-> 6, math |-> 65536, wide |-> TRUE, gated |-> TRUE, rates |-> {2, 5}]
\* Counter 2 knows no gate, and stops in two of the gate modes.
Counter2 == [range |-> 6, math |-> 256, wide |-> FALSE, gated |-> FALSE, rates |-> {2, 5}]

AllKinds == {Counter16, Counter32, Counter2}
WideKind == {Counter32}

\* Targets at, next to and far from zero.
SomeCounts == {0, 1, 4}

\* Both interrupts, the two zero returns, and the four gates.
SomeModes ==
  {{}, {"INT_TARGET", "INT_OVERFLOW", "TOGGLE"},
   {"INT_TARGET", "ZERO_RETURN"}, {"ZERO_RETURN", "REPEAT"},
   {"ENABLE_GATE", "INT_TARGET"}, {"ENABLE_GATE", "GATE_1"},
   {"ENABLE_GATE", "GATE_2", "INT_OVERFLOW"},
   {"ENABLE_GATE", "GATE_1", "GATE_2"}}
=============================================================================
