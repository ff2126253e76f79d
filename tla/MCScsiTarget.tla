---------------------------- MODULE MCScsiTarget ----------------------------
(***************************************************************************)
(* Instances of ScsiTarget for TLC: a LUN of two blocks of one bit each.   *)
(***************************************************************************)
EXTENDS ScsiInterference

CONSTANTS t1, t2

B(x) == [i \in {0} |-> x]
BB(x, y) == [i \in 0 .. 1 |-> IF i = 0 THEN x ELSE y]
Cmd(o, a, n, b, c, bit) ==
  [op |-> o, lba |-> a, tl |-> n, out |-> b, cmp |-> c, bit |-> bit]

X == {1}

(* Commands that end at once, on each of their ways out. *)
ImmediateCommands ==
  {Cmd("SYNCHRONIZE_CACHE", 0, 0, << >>, << >>, "immed"),
   Cmd("UNMAP", 1, 2, B(Zero), << >>, "none"),
   Cmd("UNMAP", 0, 1, B(Zero), << >>, "none"),
   Cmd("COMPARE_AND_WRITE", 0, 2, B(X), B(Zero), "none"),
   Cmd("WRITE_SAME", 0, 1, B(X), << >>, "unmap"),
   Cmd("WRITE_SAME", 0, 0, B(X), << >>, "none")}

(* Commands over one block and over both, and one behind the end. *)
TransferCommands ==
  {Cmd("READ", 0, 2, << >>, << >>, "none"),
   Cmd("WRITE", 1, 1, B(Zero), << >>, "none"),
   Cmd("WRITE_VERIFY", 0, 2, BB(X, Zero), << >>, "none"),
   Cmd("VERIFY", 1, 1, B(X), << >>, "none"),
   Cmd("ORWRITE", 0, 2, BB(Zero, X), << >>, "none"),
   Cmd("COMPARE_AND_WRITE", 0, 2, BB(X, Zero), BB(Zero, X), "none"),
   Cmd("WRITE_SAME", 0, 2, B(Zero), << >>, "stamp"),
   Cmd("WRITE_SAME", 1, 2, B(Zero), << >>, "none")}

(* One thread gets every command; the other gets in its way. *)
AllCommands(t) ==
  IF t = t1 THEN ImmediateCommands \cup TransferCommands
            ELSE {Cmd("ORWRITE", 1, 1, B(X), << >>, "none")}
=============================================================================
