----------------------------- MODULE MCFullSync -----------------------------
(* Small instances of FullSync for TLC. *)
EXTENDS FullSync

CONSTANTS c1, c2, c3

TwoDbs == {0, 1}

\* A capable and an incapable replica with everything that shares the child and the
\* file; and three replicas that attach to one another.
Files == [clients |-> {c1, c3}, eof |-> {c1}, writes |-> 2, flushes |-> 1,
          configs |-> 0, saves |-> 1]
Attaching == [clients |-> {c1, c2, c3}, eof |-> {c1, c2}, writes |-> 1, flushes |-> 0,
              configs |-> 1, saves |-> 0]

Safe == {Files, Attaching}
=============================================================================
