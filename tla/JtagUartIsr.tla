---------------------------- MODULE JtagUartIsr -----------------------------
(***************************************************************************)
(* The JTAG UART when an interrupt handler prints as well, as that of the  *)
(* touch controller does whenever a transfer fails (mtc2_ISR, which calls  *)
(* OC_I2C_Read).  uC/OS-II lets no handler wait: neither OSSemPend nor     *)
(* OSFlagPend does anything there, and write looks at no error code.       *)
(***************************************************************************)
EXTENDS JtagUart

CONSTANTS
    Handler,    \* the name of the bytes the touch handler prints
    MaxLock     \* bound: how high its posts may raise the semaphore

\* All the room of the ring, in one piece or in two.
Room == (tx_out + BufLen - 1 - tx_in) % BufLen

\* altera_avalon_jtag_uart_write, from first to last, in a handler.  Bytes
\* that do not fit keep it in its loop, and with it the processor: the only
\* way out is a host that was found silent before.
HandlerPrints ==
    /\ isr.at = "off" /\ write_lock < MaxLock
    /\ \E c \in 1 .. MaxCount :
        LET fits == Least(Room, c)
            put == {(tx_in + k) % BufLen : k \in 0 .. fits - 1}
        IN  /\ Len(written) + c <= budget.tx
            /\ tx_buf' = [k \in Index |-> IF k \in put THEN Handler
                                          ELSE tx_buf[k]]
            /\ tx_in' = (tx_in + fits) % BufLen
            /\ written' = written \o [k \in 1 .. fits |-> Handler]
            /\ IF fits = c \/ host_inactive > 0
               THEN write_lock' = write_lock + 1 /\ UNCHANGED isr
               ELSE isr' = [isr EXCEPT !.at = "print"] /\ UNCHANGED write_lock
    /\ we' = TRUE
    /\ UNCHANGED <<tx_out, sent, rxVars, re, host_inactive, events, read_lock,
                   callVars, hwVars, budget>>

IsrSpec == Init /\ [][Next \/ HandlerPrints]_vars

\* "This ensures that writing to the device is thread-safe": what leaves the
\* ring is what was written, in that order, whoever writes.  A handler that
\* prints while a task is between its look at the ring and its copy is
\* overwritten, and its bytes never leave (altera_avalon_jtag_uart_write.c:96).
WritingIsSafe ==
    Len(sent) <= Len(written) /\ SubSeq(written, 1, Len(sent)) = sent

=============================================================================
