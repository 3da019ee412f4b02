------------------------------- MODULE MCSal -------------------------------
(* Instance of ScsiAtaLayer for TLC.  The counts are those at which the      *)
(* split changes: none, 256 as 0, less than one fragment, one, one and a     *)
(* bit, two, and four; the last range passes the end of the drive.           *)
EXTENDS ScsiAtaLayer, TLC

MCVerifies == {Verify6(0, 0), Verify6(7, 255), Verify10(7, 0), Verify10(1, 256),
               Verify10(1, 257), Verify10(0, 512), Verify10(1, 770),
               Verify10(69000, 1001)}

MCDiskSize == [lba48 \in BOOLEAN |-> IF lba48 THEN 70000 ELSE 800]

ScbSymmetry == Permutations(Scbs)

\* The split of every count a VERIFY10 can carry, the largest included: a first
\* fragment of the remainder and whole ones make up the count.
ASSUME SplitCoversCount ==
  \A n \in 1..65535 :
    LET first == IF n % 256 = 0 THEN 256 ELSE n % 256
    IN first + 256 * (SplitCount(Verify10(0, n)) - 1) = n

=============================================================================
