---------------------------- MODULE MCCfgBusIrq ----------------------------
EXTENDS CfgBusIrq

\* Three peripherals with interrupt handlers, on one ConfigBus: two share
\* device 1, and the third's register index equals the device number of
\* another, so that an address built with its arguments swapped collides.
MCNode == {"p1", "p2", "p3"}
MCHeads == {"irq_list"}
MCDevOf == [x \in MCNode |-> IF x = "p1" THEN 0 ELSE 1]
MCRegOf == [x \in MCNode |-> IF x = "p2" THEN 0 ELSE 1]
=============================================================================
