---------------------------- MODULE CommandSlot ----------------------------
(***************************************************************************)
(* What the command console of onemo_main.c and onemo_uart_demo.c promises *)
(* its user: one command is in service at a time, a command that has been  *)
(* accepted is executed exactly once, with the text it was accepted with,  *)
(* and the console then takes the next one.                                *)
(***************************************************************************)
EXTENDS Sequences

CONSTANTS Commands,  \* parsed commands
          Nothing    \* the empty slot

VARIABLES slot,     \* the command in service, or Nothing
          done      \* the commands executed so far, oldest first

slotVars == <<slot, done>>

SlotInit ==
    /\ slot = Nothing
    /\ done = << >>

\* The console takes a command while none is in service.
Accept ==
    /\ slot = Nothing
    /\ slot' \in Commands
    /\ UNCHANGED done

\* The command in service is executed and leaves the slot.
Execute ==
    /\ slot # Nothing
    /\ done' = Append(done, slot)
    /\ slot' = Nothing

SlotNext == Accept \/ Execute

SlotSpec == SlotInit /\ [][SlotNext]_slotVars
=============================================================================
