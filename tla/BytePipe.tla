------------------------------ MODULE BytePipe ------------------------------
(***************************************************************************)
(* What a stream promises the two applications that use it: each end reads *)
(* a growing prefix of the bytes the other end wrote.  A byte is named by  *)
(* its position among all the bytes its writer wrote.                      *)
(***************************************************************************)
EXTENDS Integers

CONSTANTS
    Near, Far,   \* the two ends
    MaxBytes     \* bound: bytes an application writes in all

VARIABLES
    written,     \* written[e]: how many bytes e has written
    read         \* read[e][i]: the byte e was given as the i-th one

pipeVars == <<written, read>>

Ends == {Near, Far}
Peer(e) == IF e = Near THEN Far ELSE Near

\* The first n bytes of a stream, every byte at its own position.
Prefix(n) == [i \in 0 .. n - 1 |-> i]

PipeInit ==
    /\ written = [e \in Ends |-> 0]
    /\ read = [e \in Ends |-> Prefix(0)]

Write(e) ==
    /\ \E n \in written[e] + 1 .. MaxBytes : written' = [written EXCEPT ![e] = n]
    /\ UNCHANGED read

Read(e) ==
    /\ \E n \in 1 .. written[Peer(e)] :
         /\ read[e] \in {Prefix(m) : m \in 0 .. n - 1}
         /\ read' = [read EXCEPT ![e] = Prefix(n)]
    /\ UNCHANGED written

PipeNext == \E e \in Ends : Write(e) \/ Read(e)

PipeSpec == PipeInit /\ [][PipeNext]_pipeVars
=============================================================================
