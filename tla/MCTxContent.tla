------------------------------ MODULE MCTxContent ------------------------------
(* The bounds TxContent is checked with.                                    *)
EXTENDS TxContent

\* A wired source that goes and comes back; an operator who does everything on a
\* sender without source, three times; and twice on one whose source is there.
MCSetups ==
  {[sources |-> {"gone", "empty", "live"}, changes |-> {"wire"}, moves |-> 1],
   [sources |-> {"gone"}, changes |-> {"wire", "unwire", "slate"}, moves |-> 3],
   [sources |-> {"live"}, changes |-> {"wire", "unwire", "slate"}, moves |-> 2]}
=============================================================================
