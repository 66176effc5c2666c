\* Four lines of input, two of which fit into the driver's FIFO and into
\* uart_buf.  The console waits for ever once the terminal is silent.
CONSTANTS
    MaxLines = 4
    RxCap = 2
    BufCap = 2
SPECIFICATION FairSpec
INVARIANT MutexHandOver
PROPERTIES CommandStable OneCommandAtATime MutexReleased AcceptedIsExecuted
CHECK_DEADLOCK FALSE
