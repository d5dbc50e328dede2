---------------------------- MODULE MCUcosEvents -----------------------------
EXTENDS UcosEvents
MCTasks == {4, 6, 8}
MCWaits ==
    {[flags |-> {"rdy", "timeout"}, clr |-> FALSE, all |-> FALSE, consume |-> TRUE],
     [flags |-> {"rdy", "timeout"}, clr |-> FALSE, all |-> TRUE, consume |-> FALSE],
     [flags |-> {"rdy"}, clr |-> TRUE, all |-> FALSE, consume |-> FALSE]}
=============================================================================
