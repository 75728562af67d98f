-------------------------------- MODULE Sender --------------------------------
(***************************************************************************)
(* What a ring of framebuffers promises, whatever the threads that share   *)
(* it do: every page has one owner, exactly one page is held to be sent    *)
(* again, only an announced page goes on air, a page on air stays where it *)
(* is until it is done, and only then does it take the place of the held   *)
(* one.  All that ends when a page is done while the held one is on air    *)
(* again (Release): the ring then frees a page libmtl is reading.  TxRing  *)
(* implements it.                                                          *)
(***************************************************************************)
EXTENDS FiniteSets

CONSTANT Page     \* framebuffers

VARIABLES
  owner,   \* who has each page: nobody, the worker, the ring as ready, the ring as held
  onAir,   \* pages libmtl has
  kept     \* no page was yet sent to its end over a held page that is on air

vars == <<owner, onAir, kept>>

Owners == {"free", "worker", "ready", "held"}

Init ==
  /\ \E h \in Page : owner = [i \in Page |-> IF i = h THEN "held" ELSE "free"]
  /\ onAir = {}
  /\ kept = TRUE

\* The worker takes one free page at a time, and announces it.
Take(i) ==
  /\ owner[i] = "free" /\ \A j \in Page : owner[j] # "worker"
  /\ owner' = [owner EXCEPT ![i] = "worker"]
  /\ UNCHANGED onAir

Announce(i) ==
  /\ owner[i] = "worker"
  /\ owner' = [owner EXCEPT ![i] = "ready"]
  /\ UNCHANGED onAir

\* Announced pages that are not on air may go back without being sent.
Back(S) ==
  /\ \A j \in S : owner[j] = "ready" /\ j \notin onAir
  /\ owner' = [j \in Page |-> IF j \in S THEN "free" ELSE owner[j]]

GiveBack(S) == Back(S) /\ UNCHANGED onAir

\* A ready page goes on air, or the held one again; older ones may be dropped.
Serve(i, S) ==
  /\ owner[i] \in {"ready", "held"} /\ i \notin onAir /\ i \notin S
  /\ Back(S)
  /\ onAir' = onAir \cup {i}

\* A page has been sent: it becomes the held one, whose predecessor, no longer
\* on air, is free.
Done(i) ==
  /\ i \in onAir /\ onAir' = onAir \ {i}
  /\ \/ owner[i] = "held" /\ UNCHANGED owner
     \/ /\ owner[i] = "ready" /\ \A j \in onAir : owner[j] # "held"
        /\ owner' = [j \in Page |-> IF j = i THEN "held"
                                    ELSE IF owner[j] = "held" THEN "free" ELSE owner[j]]

\* The port stops: the pages on air never come back.
Lose == onAir # {} /\ onAir' = {} /\ UNCHANGED owner

Keeps ==
  \/ \E i \in Page : Take(i) \/ Announce(i) \/ Done(i)
  \/ \E S \in SUBSET Page : GiveBack(S) \/ \E i \in Page : Serve(i, S)
  \/ Lose

\* A page has been sent while the held one is on air again: nothing is promised
\* of who has what from then on.
Release ==
  /\ \E i, j \in onAir : owner[i] = "ready" /\ owner[j] = "held"
  /\ kept' = FALSE

Next ==
  \/ kept /\ Keeps /\ UNCHANGED kept
  \/ kept /\ Release
  \/ ~kept /\ UNCHANGED kept

Spec == Init /\ [][Next]_vars

\* Until then there is always one page to send again and no more than one; the
\* worker fills one at a time; and whatever is on air belongs to the ring, never to
\* the worker nor to nobody.
Promise ==
  kept =>
    /\ owner \in [Page -> Owners] /\ onAir \subseteq Page
    /\ \E h \in Page : \A i \in Page : owner[i] = "held" <=> i = h
    /\ \A i, j \in Page : owner[i] = "worker" /\ owner[j] = "worker" => i = j
    /\ \A i \in onAir : owner[i] \in {"ready", "held"}
=============================================================================
