----------------------------- MODULE MCJtagUart ------------------------------
EXTENDS JtagUart
MCBudgets == {[tx |-> 3, rx |-> 0], [tx |-> 0, rx |-> 4]}
=============================================================================
