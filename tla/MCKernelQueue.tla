--------------------------- MODULE MCKernelQueue ---------------------------
(* Small instances of KernelQueue for TLC.                                 *)
EXTENDS KernelQueue, TLC

CONSTANTS t1, t2, t3, idle

TwoPrios == [t \in Tasks |-> IF t = t1 THEN 2 ELSE 1]

\* A receiver of high priority that also peeks, delays itself and resets the
\* queue, a sender, and a task that does both.
ReceiverThatResets ==
  [t \in Tasks |->
     CASE t = t1 -> {<<"recv", "max">>, <<"peek", "finite">>,
                     <<"delay", "finite">>, <<"reset", "zero">>}
       [] t = t2 -> {<<"send", "finite">>, <<"send", "max">>}
       [] t = t3 -> {<<"recv", "max">>, <<"peek", "max">>, <<"send", "max">>}]
=============================================================================
