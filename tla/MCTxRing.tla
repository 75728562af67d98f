------------------------------ MODULE MCTxRing ------------------------------
(***************************************************************************)
(* The sessions TLC starts a ring under.  Libmtl asks for a frame while    *)
(* the previous one is on the card: with the default settings, with        *)
(* serve_newest and a throttle of two, and with port stops that lose       *)
(* frames.  One frame at a time: port stops with serve_newest, and without *)
(* a black picture at the setup.                                           *)
(***************************************************************************)
EXTENDS TxRing

Session(newest, advance, depth, lossy, blank) ==
  [newest |-> newest, advance |-> advance, depth |-> depth,
   lossy |-> lossy, slow |-> FALSE, blank |-> blank]

Default == Session(FALSE, 0, 2, FALSE, FALSE)

MCSettings ==
  { Default, Session(TRUE, 2, 2, FALSE, FALSE), Session(FALSE, 0, 2, TRUE, FALSE),
    Session(TRUE, 0, 1, TRUE, FALSE), Session(FALSE, 0, 1, TRUE, TRUE),
    Session(FALSE, 0, 2, FALSE, TRUE) }

MCDefault == {Default}
=============================================================================
