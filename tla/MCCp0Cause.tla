------------------------------ MODULE MCCp0Cause ------------------------------
EXTENDS Cp0Cause

\* Status values an MTC0 Status writes: kernel with interrupts enabled or
\* not, user mode with CU0 clear, with CU1, or with CU0 set (CP0 usable),
\* and an exception level about to return to user mode
MCStatusWrites ==
    {[cu |-> {}, ksu |-> 0, exl |-> FALSE, erl |-> FALSE, ie |-> TRUE, im |-> Lines],
     [cu |-> {}, ksu |-> 0, exl |-> FALSE, erl |-> FALSE, ie |-> FALSE, im |-> Lines],
     [cu |-> {}, ksu |-> 2, exl |-> FALSE, erl |-> FALSE, ie |-> TRUE, im |-> Lines],
     [cu |-> {1}, ksu |-> 2, exl |-> FALSE, erl |-> FALSE, ie |-> TRUE, im |-> {0, 7}],
     [cu |-> {0}, ksu |-> 2, exl |-> FALSE, erl |-> FALSE, ie |-> TRUE, im |-> {0}],
     [cu |-> {}, ksu |-> 2, exl |-> TRUE, erl |-> FALSE, ie |-> TRUE, im |-> Lines]}
=============================================================================
