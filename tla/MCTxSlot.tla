------------------------------ MODULE MCTxSlot ------------------------------
(***************************************************************************)
(* An output that the orchestrator wires with the pushes it sends: one     *)
(* that gives every field, one that gives none but `enabled`, and one that *)
(* turns the generator on with a label.                                    *)
(***************************************************************************)
EXTENDS TxSlot

MCPush ==
  {[enabled |-> TRUE, provisioned |-> {TRUE}, shmIn |-> {None}, scan |-> {"p"}, other |-> {FALSE},
    user |-> {FALSE}, pattern |-> {Bars}, label |-> FALSE, fallback |-> {Black}],
   [enabled |-> FALSE, provisioned |-> {}, shmIn |-> {}, scan |-> {}, other |-> {},
    user |-> {}, pattern |-> {}, label |-> FALSE, fallback |-> {None}],
   [enabled |-> TRUE, provisioned |-> {TRUE}, shmIn |-> Source, scan |-> {}, other |-> {},
    user |-> {TRUE}, pattern |-> {Test}, label |-> TRUE, fallback |-> {}]}
=============================================================================
