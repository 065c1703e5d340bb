-------------------------- MODULE ThreadProgramsMC --------------------------
EXTENDS ThreadPrograms

\* Matrices in which every product differs from the others.
MCX == [i \in 0..Row - 1 |-> [k \in 0..Inner - 1 |-> 1 + i + 2 * k]]
MCY == [k \in 0..Inner - 1 |-> [j \in 0..Col - 1 |-> 1 + 3 * k + j]]
=============================================================================
