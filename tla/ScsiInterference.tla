--------------------------- MODULE ScsiInterference ---------------------------
(***************************************************************************)
(* ScsiTarget with a history of the medium for each command, to say what a *)
(* command may rely on when others run at the same time.  No lock spans    *)
(* the read and the write of COMPARE_AND_WRITE and ORWRITE, so the medium  *)
(* may have changed since, but never in a way the command could not have   *)
(* met.                                                                    *)
(***************************************************************************)
EXTENDS ScsiTarget

VARIABLE seen  \* what each block of a command held while the command read

SeenInit == Init /\ seen = [t \in Threads |-> [a \in DOMAIN medium |-> {}]]

(* The blocks a command reads. *)
Addressed(c) == c.lba .. c.lba + ReadLength(c) - 1

(* The command's own write comes after its read, and for WRITE_VERIFY      *)
(* before it.                                                              *)
Observe ==
  seen' = [t \in Threads |-> [a \in DOMAIN medium |->
             IF pc'[t] = "idle" \/ a \notin Addressed(cmd'[t]) THEN {}
             ELSE seen[t][a] \cup {b \in {medium'[a]} : pc'[t] \in {"read_call", "read_ret"}}]]

SeenNext == Next /\ Observe
SeenSpec == SeenInit /\ [][SeenNext]_<<vars, seen>> /\ Fairness

(***************************************************************************)
(* Under interference, a command that has ended used only blocks that were *)
(* on the medium while it read: READ returned such blocks, a compare that  *)
(* was GOOD met every expected block, one that was a MISCOMPARE met        *)
(* another one, and ORWRITE merged into such blocks.                       *)
(***************************************************************************)
Met(t, i, block) == block \in seen[t][cmd[t].lba + i]

UsesOnlyMetBlocks ==
  \A t \in Threads : pc[t] = "end" =>
    /\ cmd[t].op = "READ" /\ sense[t] = "GOOD" => \A i \in DOMAIN buf[t] : Met(t, i, buf[t][i])
    /\ Comparing(t) /\ sense[t] = "GOOD" =>
         \A i \in DOMAIN Expected(t) : Met(t, i, Expected(t)[i])
    /\ sense[t] = "MISCOMPARE" =>
         \E i \in DOMAIN Expected(t) : seen[t][cmd[t].lba + i] # {Expected(t)[i]}
    /\ cmd[t].op = "ORWRITE" /\ sense[t] = "GOOD" =>
         \A i \in DOMAIN out[t] :
           \E b \in seen[t][cmd[t].lba + i] : out[t][i] = b \cup cmd[t].out[i]
=============================================================================
