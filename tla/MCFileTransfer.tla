--------------------------- MODULE MCFileTransfer ---------------------------
(* An instance of FileTransfer for TLC: the sizes of its files.            *)
EXTENDS FileTransfer

CONSTANTS f1, f2, f3

\* Two and three lines, and one that is appended to its header: with
\* PacketBytes = 3 and MaxUnencoded = 4 what is left to send is never a
\* multiple of a line.
OffBoundary == [f \in Files |-> CASE f = f1 -> 5 [] f = f2 -> 6 [] OTHER -> 1]

\* One file is just a line long.
OnBoundary == [f \in Files |-> CASE f = f1 -> 4 [] f = f2 -> 7 [] OTHER -> 1]

=============================================================================
