---------------------------- MODULE MCSubscription ----------------------------
(***************************************************************************)
(* The engines and the outputs TLC joins: two ports paced by the card in   *)
(* two classes and paired, or paced by the program and on their own; an    *)
(* output at the rate of its fields with all its essences and two legs,    *)
(* and one of 5994 with a packet time that is not a valid one.             *)
(***************************************************************************)
EXTENDS Subscription

Ports == <<"p0", "p1">>

Other(p) == IF p = "p0" THEN "p1" ELSE "p0"

Paired == [pair |-> [p \in Port |-> Other(p)], hw |-> [p \in Port |-> TRUE],
           profile |-> [p \in Port |-> "narrow"], auto |-> Ports]
Alone == [pair |-> [p \in Port |-> NoPort], hw |-> [p \in Port |-> FALSE],
          profile |-> [p \in Port |-> ""], auto |-> Ports]
Mixed == [Alone EXCEPT !.hw = [p \in Port |-> p = "p1"]]
MCNodes == {Paired, Alone}

Out(v, v2, a, d, fps, scan, ptime) ==
  [v |-> v, v2 |-> v2, a |-> a, a2 |-> NoAddr, d |-> d, d2 |-> NoAddr, pt |-> 96, apt |-> 97, dpt |-> 98,
   size |-> "hd", fps |-> fps, scan |-> scan, ptime |-> ptime, pin |-> NoPort]

MCOuts == { Out("v1", "v2", "a1", "d1", 5000, "i", 120),
            Out("v1", NoAddr, "a1", NoAddr, 5994, "p", 500),
            Out("v3", "v4", NoAddr, "d1", 2398, "p", 1000) }
=============================================================================
