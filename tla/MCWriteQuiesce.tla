-------------------------- MODULE MCWriteQuiesce --------------------------
EXTENDS WriteQuiesce, TLC
CONSTANTS c1, c2, b1, pA, pB
\* Playbooks have a partition of their own.
Partition == [j \in Job |-> IF j = b1 THEN pB ELSE pA]
Setting(sh, h, t, st) == [shared |-> sh, held |-> h, ticks |-> t, stop |-> st]
\* Private and shared repositories, with card mutations that await their commit
\* locked and with others, and with a pull or a manual sync or with a shutdown.
All == { Setting(FALSE, {}, 1, "stays"), Setting(FALSE, {c1}, 0, "up"),
         Setting(TRUE, {}, 1, "stays"), Setting(TRUE, {c1}, 1, "stays"),
         Setting(TRUE, {}, 0, "up") }
Private == {Setting(FALSE, {}, 1, "stays")}
=============================================================================
