------------------------- MODULE ConflictMitigation -------------------------
(***************************************************************************)
(* The Filter of the conflict mitigation modules.  A batch is the set of   *)
(* the commands of the default LM and of another one, each with whether it *)
(* is of the default LM; an LM has at most one command for a UE and lists  *)
(* them in the order of the UEs.  For NR commands OranCmmHandover, which   *)
(* looks at LTE handovers only, is OranCmmNoop.                            *)
(***************************************************************************)
EXTENDS Naturals

\* OranCmmNoop: all commands.
FilterNoop(batch) == batch

\* Of two commands for a node, f is kept and not e: the command selected first stays,
\* unless it is not of the default LM and a later one is.  So the default LM prevails
\* in whichever order the LMs are processed, and within an LM the first command.
Prevails(f, e) == IF f.default = e.default THEN f.cmd.ue < e.cmd.ue ELSE f.default

\* OranCmmSingleCommandPerNode: the one command selected for every affected node;
\* affected is the node of every command of the batch.
FilterSingleCommandPerNode(batch, affected) ==
    {e \in batch : \A f \in batch : affected[f] = affected[e] => ~Prevails(f, e)}
=============================================================================
