-------------------------- MODULE HandoverControl ---------------------------
(***************************************************************************)
(* The control loop around NrHandover: UEs report the cell and the RNTI    *)
(* they have, Logic Modules command handovers from the rows the repository *)
(* holds, the RIC collects them, a conflict mitigation module filters each *)
(* batch, and the commands travel to the gNBs, where they may arrive after *)
(* the UE has moved.  A default LM and another one decide freely, and when *)
(* a batch is processed is left open (RicQueryCycle says when): what an LM *)
(* has answered stays until it is processed or the LM answers again, so a  *)
(* batch may mix the commands of several cycles.                           *)
(***************************************************************************)
EXTENDS NrHandover, ConflictMitigation, Functions

CONSTANTS
    Cmm,            \* the conflict mitigation module: "noop" or "single"
    MaxCommands     \* bound: commands the Logic Modules issue

ASSUME HandoverControlAssumption ==
    /\ Cmm \in {"noop", "single"}
    /\ MaxCommands \in Nat

VARIABLES
    servingRow,  \* place in a UE's newest serving row of table nruersrprsrq
    ueAt,        \* UE in the newest row of table nruecell for a place, 0 if none
    lmQueryCommands,  \* m_lmQueryCommands: the last answer of every LM that has one
    issued       \* count of the commands issued

ricVars == <<servingRow, ueAt, lmQueryCommands, issued>>
vars    == <<nrVars, ricVars>>

Lms == {"default", "other"}

HandoverCommands == [ue : Ues, cell : Cells, rnti : Rntis, to : Cells]

NoCommands == [l \in {} |-> {}]

Init ==
    /\ NrInit
    /\ servingRow = [u \in Ues |-> FirstPlace(u)]
    /\ ueAt = [p \in Places |-> IF HasUeManager(p) THEN ueMap[p].imsi ELSE 0]
    /\ lmQueryCommands = NoCommands /\ issued = 0

\* A report with the serving cell's RSRP is stored.
SaveNrUeRsrpRsrq(u) ==
    /\ servingRow' = [servingRow EXCEPT ![u] = ue[u].at]
    /\ UNCHANGED <<nrVars, ueAt, lmQueryCommands, issued>>

\* A report with the UE's cell is stored.
SaveNrUeCellInfo(u) ==
    /\ ueAt' = [ueAt EXCEPT ![ue[u].at] = u]
    /\ UNCHANGED <<nrVars, servingRow, lmQueryCommands, issued>>

\* The commands of a Logic Module that chose targets for some of the UEs.
Commands(to) ==
    {[ue |-> u, cell |-> servingRow[u].cell, rnti |-> servingRow[u].rnti, to |-> to[u]] :
       u \in {v \in Ues : to[v] # 0}}

\* What a Logic Module may choose: another cell than the one in the UE's row.
Decisions == {to \in [Ues -> Cells \cup {0}] :
              \A u \in Ues : to[u] # servingRow[u].cell}

\* GetNrUeE2NodeIdFromCellInfo: 0 when no row names the place.
AffectedNode(m) == ueAt[At(m.cell, m.rnti)]

\* Mutant: the filter is switched off.
FilterNothing(batch) == FilterNoop(batch)

Filter(batch) ==
    LET affected == [e \in batch |-> AffectedNode(e.cmd)]
    IN  IF Cmm = "single" THEN FilterSingleCommandPerNode(batch, affected)
                          ELSE FilterNoop(batch)

\* All commands collected, each with whether it is of the default LM.
Batch(collected) ==
    UNION {{[default |-> l = "default", cmd |-> m] : m \in collected[l]} : l \in DOMAIN collected}

\* What was collected is filtered, sent and forgotten.
SendSelected(collected) ==
    LET selected == Filter(Batch(collected))
        SelectedOf(default) == {e.cmd : e \in {f \in selected : f.default = default}}
    IN  /\ cmds' = cmds (+) SetToBag(SelectedOf(TRUE)) (+) SetToBag(SelectedOf(FALSE))
        /\ lmQueryCommands' = NoCommands

\* An LM is done: its answer takes the place of an earlier one, and the batch is
\* processed when it is the last one and in time, that is before the processing event
\* or without a maximum wait time.  Late commands are collected for a later batch (SAVE);
\* an answer without commands stands for DROP as well.
NotifyLmFinished(lm, to, inTime) ==
    LET collected == [l \in DOMAIN lmQueryCommands \cup {lm} |->
                        IF l = lm THEN Commands(to) ELSE lmQueryCommands[l]]
    IN  /\ issued' = issued + Cardinality(Commands(to)) /\ issued' <= MaxCommands
        /\ IF inTime /\ DOMAIN collected = Lms
           THEN SendSelected(collected)
           ELSE lmQueryCommands' = collected /\ UNCHANGED cmds
        /\ UNCHANGED <<gnbVars, rrcVars, x2, coreVars, expired, abort, servingRow, ueAt>>

\* The processing event: the maximum wait time is over.
ProcessLmQueryCommands ==
    /\ SendSelected(lmQueryCommands)
    /\ UNCHANGED <<gnbVars, rrcVars, x2, coreVars, expired, abort, servingRow, ueAt, issued>>

\* Bound: after a timer has expired, which the ideal RRC protocol does not survive,
\* the control loop starts nothing more.
Ric ==
    /\ ~expired
    /\ \/ \E u \in Ues : SaveNrUeRsrpRsrq(u) \/ SaveNrUeCellInfo(u)
       \/ \E lm \in Lms, to \in Decisions, inTime \in BOOLEAN : NotifyLmFinished(lm, to, inTime)
       \/ ProcessLmQueryCommands

\* What the control loop could still do is done: the LMs have issued their commands, which
\* were sent or displaced, and the rows have the UEs' places.
Settled ==
    /\ lmQueryCommands = NoCommands /\ issued = MaxCommands
    /\ \A u \in Ues : servingRow[u] = ue[u].at /\ ueAt[ue[u].at] = u

\* Bound: so the first timer expires only when the control loop has settled, which it can
\* from any state without a step of a gNB or a UE: no state of theirs is lost.
Next ==
    /\ abort = "none"
    /\ \/ Events /\ UNCHANGED ricVars
       \/ Timeouts /\ (expired \/ Settled) /\ UNCHANGED ricVars
       \/ Ric

\* The simulator executes the events of messages and random access that are due.
Fairness == WF_vars(abort = "none" /\ Events /\ UNCHANGED ricVars)

Spec == Init /\ [][Next]_vars /\ Fairness

-----------------------------------------------------------------------------
(* Properties.                                                             *)

\* Every variable has its type, a gNB has no RNTI above the last one handed out, and an
\* answer of an LM has at most one command for a UE.
TypeOK ==
    /\ DOMAIN ueMap \subseteq Places /\ Range(ueMap) \subseteq Managers
    /\ lastRnti \in [Cells -> 0 .. MaxRnti]
    /\ \A p \in DOMAIN ueMap : p.rnti <= lastRnti[p.cell]
    /\ ue \in [Ues -> [state : {"CONNECTED_NORMALLY", "CONNECTED_HANDOVER"}, at : Places]]
    /\ mme \in [Ues -> Cells]
    /\ imsiRnti \in [Cells -> [Ues -> Rntis \cup {0}]]
    /\ modify \in [Ues -> Nat]
    /\ servingRow \in [Ues -> Places]
    /\ ueAt \in [Places -> Ues \cup {0}]
    /\ DOMAIN lmQueryCommands \subseteq Lms
    /\ \A l \in DOMAIN lmQueryCommands :
          /\ lmQueryCommands[l] \subseteq HandoverCommands
          /\ \A m, n \in lmQueryCommands[l] : m.ue = n.ue => m = n
    /\ expired \in BOOLEAN /\ abort \in Reasons \cup {"none"}

\* No handler of the gNBs' and the UEs' RRC is called in a state it does not expect,
\* and none looks for a UE manager that is gone, whatever commands arrive in whatever
\* order (the fatal errors and assertions of NrUeManager and NrGnbRrc), as long as no
\* handover timer expires.  The exceptions are a command that finds its UE in the
\* state CONNECTION_RECONFIGURATION, and a random access that fails.
NoUnexpectedState == expired \/ abort \in {"none", "reconfiguring", "RLF"}

ReleaseUnderWay(p) ==
    \E c \in Cells : \E m \in Range(x2[c][p.cell]) : m.type = "release" /\ m.old = p.rnti

\* The gNBs, the UE and the core agree on where a UE is: its place has a UE manager of
\* its own; each other one it has is about to be joined, its timer running and the
\* source waiting for it, or is being left: for the UE's place, in a handover that is
\* not over, or in an earlier one whose UE CONTEXT RELEASE is still on its way; and once
\* the handover is over the MME has the UE's cell.  A UE has at most one path switch
\* under way.
PlacesAgree ==
    abort = "none" /\ ~expired =>
      \A u \in Ues :
        LET at == ue[u].at
        IN  /\ HasUeManager(at) /\ ueMap[at].imsi = u
            /\ \A p \in DOMAIN ueMap \ {at} : ueMap[p].imsi = u =>
                 \/ /\ ueMap[p].state = "HANDOVER_JOINING" /\ ueMap[p].timer = "joining"
                    /\ ueMap[p].source = at
                    /\ ueMap[at].state \in {"HANDOVER_PREPARATION", "HANDOVER_LEAVING"}
                 \/ /\ ueMap[p].state = "HANDOVER_LEAVING"
                    /\ \/ /\ ueMap[p].target = at /\ ueMap[at].source = p
                          /\ ueMap[at].state \in {"HANDOVER_JOINING", "HANDOVER_PATH_SWITCH"}
                       \/ ReleaseUnderWay(p)
            /\ modify[u] \in 0 .. 1
            /\ ueMap[at].state \in {"CONNECTED_NORMALLY", "CONNECTION_RECONFIGURATION"} =>
                 mme[u] = at.cell /\ modify[u] = 0

\* A command, which names its UE by a gNB and an RNTI, never starts the handover of
\* another UE, however late it arrives ("it's a stale command -> DROP").
RightUe ==
    [][\A m \in BagToSet(cmds (-) cmds') :
         LET p == At(m.cell, m.rnti)
         IN  HasUeManager(p) /\ ueMap'[p] # ueMap[p] => ueMap[p].imsi = m.ue]_vars

\* The node a command is taken to affect, collected or under way, is the UE it was meant
\* for, or unknown: no other UE has reported the place (GetNrUeE2NodeIdFromCellInfo).
AffectedIsMeant ==
    \A m \in BagToSet(cmds) \cup UNION Range(lmQueryCommands) : AffectedNode(m) \in {0, m.ue}

\* OranCmmSingleCommandPerNode: whenever the batch is processed, a UE for which commands
\* are collected at places the repository knows gets exactly one of them.  The commands
\* may be of several cycles and name different places, one of which the UE has left;
\* none is kept beside another, and none is lost to a command for another UE.  (A command
\* at a place no row names counts as one for the node 0, and may be sent besides or be
\* lost to another such command.)
OneCommandPerNode ==
    LET batch == Batch(lmQueryCommands)
    IN  \A u \in Ues :
          LET known == {e \in batch : e.cmd.ue = u /\ AffectedNode(e.cmd) # 0}
          IN  known # {} => \E e \in known : known \cap Filter(batch) = {e}

InHandover(u) ==
    \E p \in DOMAIN ueMap : /\ ueMap[p].imsi = u
                            /\ ueMap[p].state \notin {"CONNECTED_NORMALLY",
                                                      "CONNECTION_RECONFIGURATION"}

\* Handovers end: the UEs are connected to one gNB each again, or the simulation is
\* over.
HandoversEnd ==
    (\E u \in Ues : InHandover(u)) ~> (abort # "none" \/ \A u \in Ues : ~InHandover(u))
=============================================================================
