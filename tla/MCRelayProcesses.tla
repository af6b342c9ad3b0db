-------------------------- MODULE MCRelayProcesses --------------------------
(***************************************************************************)
(* Small instances of RelayProcesses: two agents that compete for one lane *)
(* and one file.                                                           *)
(***************************************************************************)
EXTENDS RelayProcesses

First == CHOOSE a \in Agents : TRUE

\* The first agent releases its lane, the other hands it to the first with a contract.
MCCommands ==
  {c \in AllCommands :
     \/ c.op \in {"status", "acquire", "force-release"}
     \/ c.op = "release" /\ ~c.message
          /\ IF c.agent = First THEN c.next = None /\ c.contract = None
                                ELSE c.next = First /\ c.contract # None
     \/ c.op = "claim-files" /\ c.files # {}}

=============================================================================
