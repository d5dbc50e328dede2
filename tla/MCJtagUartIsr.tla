---------------------------- MODULE MCJtagUartIsr ----------------------------
EXTENDS JtagUartIsr
MCBudgets == {[tx |-> 3, rx |-> 0]}
=============================================================================
