----------------------------- MODULE TxSlot_proofs -----------------------------
(***************************************************************************)
(* For every set of sources and patterns, whatever the pushes carry and    *)
(* however many requests there are: the output keeps its type; and a       *)
(* recomputation that no other request overlapped puts right what the      *)
(* sender reads, and takes no wired source off the output, whatever        *)
(* overlapping requests made of the output before (TxSlot).                *)
(***************************************************************************)
EXTENDS TxSlot, TLAPS

\* A fallback that fills in is a pattern.
HasMotif ==
  \A x \in Server : at[x] = "fillGen" => got[x].user \/ got[x].fallback # None

TypeInv == TypeOK /\ HasMotif

LEMMA NothingType == Nothing \in Read
  BY SlotAssumption DEF Nothing, Read, Scan, Pattern

LEMMA InitType == Init => TypeInv
  <1> SUFFICES ASSUME Init PROVE TypeInv
    OBVIOUS
  <1> USE SlotAssumption
  <1>1. at \in [Server -> Places] /\ got \in [Server -> Read]
    BY NothingType DEF Init, Places
  <1>2. 0 \in 0..MaxRequests
    OBVIOUS
  <1> QED
    BY <1>1, <1>2 DEF Init, TypeInv, TypeOK, HasMotif, Scan, Pattern

\* A server goes to a place.
LEMMA GoType ==
  ASSUME TypeInv, NEW x \in Server, NEW p \in Places, To(x, p)
  PROVE  at' \in [Server -> Places]
  BY DEF TypeInv, TypeOK, To

\* One that keeps what it has read and does not go to the filling has a motif.
LEMMA GoMotif ==
  ASSUME TypeInv, NEW x \in Server, NEW p \in Places \ {"fillGen"}, To(x, p),
         \A y \in Server : y # x => got'[y] = got[y]
  PROVE  HasMotif'
  BY DEF TypeInv, TypeOK, To, HasMotif

LEMMA BeginType ==
  ASSUME TypeInv, NEW x \in Server, NEW p \in Places \ {"fillGen"},
         Begin(x, p), \A y \in Server : y # x => got'[y] = got[y]
  PROVE  /\ at' \in [Server -> Places] /\ requests' \in 0..MaxRequests /\ HasMotif'
         /\ alone' \in BOOLEAN
  <1>1. To(x, p) /\ requests' \in 0..MaxRequests
    BY SlotAssumption DEF Begin, TypeInv, TypeOK
  <1>2. alone' \in BOOLEAN
    BY Zenon DEF Begin
  <1> QED
    BY <1>1, <1>2, GoType, GoMotif

\* A request leaves the types of the output.
LEMMA RequestType == TypeInv /\ Request => TypeInv'
  <1> SUFFICES ASSUME TypeInv, Request PROVE TypeInv'
    OBVIOUS
  <1>s. /\ {"agent", "control"} \subseteq Server
        /\ {"readTx", "pubTx", "testGen", "txUser"} \subseteq Places \ {"fillGen"}
    BY DEF Server, Places
  <1>k. UNCHANGED got => \A x, y \in Server : y # x => got'[y] = got[y]
    OBVIOUS
  <1>1. ASSUME NEW s \in Source \cup {None}, NEW sc \in Scan, Input(s, sc) PROVE TypeInv'
    <2>1. at' \in [Server -> Places] /\ requests' \in 0..MaxRequests /\ HasMotif' /\ alone' \in BOOLEAN
      BY <1>1, <1>s, <1>k, BeginType DEF Input
    <2> QED
      BY <1>1, <2>1 DEF Input, TypeInv, TypeOK, restVars, slotVars, outputVars, airVars
  <1>2. ASSUME NEW on \in BOOLEAN, InputOther(on) PROVE TypeInv'
    <2>1. at' \in [Server -> Places] /\ requests' \in 0..MaxRequests /\ HasMotif' /\ alone' \in BOOLEAN
      BY <1>2, <1>s, <1>k, BeginType DEF InputOther
    <2> QED
      BY <1>2, <2>1 DEF InputOther, TypeInv, TypeOK, restVars, slotVars, outputVars, airVars
  <1>3. ASSUME NEW on \in BOOLEAN, NEW p \in Pattern, GenTx(on, p) PROVE TypeInv'
    <2>1. at' \in [Server -> Places] /\ requests' \in 0..MaxRequests /\ HasMotif' /\ alone' \in BOOLEAN
      BY <1>3, <1>s, <1>k, BeginType DEF GenTx
    <2> QED
      BY <1>3, <2>1 DEF GenTx, TypeInv, TypeOK, restVars, slotVars, outputVars, airVars
  <1>4. CASE TestOn \/ TestOff
    <2>1. PICK u \in BOOLEAN : got' = [got EXCEPT !["control"].user = u]
      BY <1>4 DEF TestOn, TestOff
    <2>2. got' \in [Server -> Read]
      <3>1. [got["control"] EXCEPT !.user = u] \in Read
        BY <1>s DEF Read, TypeInv, TypeOK
      <3> QED
        BY <2>1, <3>1 DEF TypeInv, TypeOK
    <2>3. cable' \in Source \cup {None} /\ scan' \in Scan
          /\ saved' \in SUBSET ((Source \cup {None}) \X Scan)
      BY <1>4 DEF TestOn, TestOff, Scan, TypeInv, TypeOK
    <2>4. at' \in [Server -> Places] /\ requests' \in 0..MaxRequests /\ HasMotif' /\ alone' \in BOOLEAN
      BY <1>4, <1>s, <2>1, BeginType DEF TestOn, TestOff
    <2>5. UNCHANGED <<provisioned, fallback, other, user, pattern, restVars>>
      BY <1>4 DEF TestOn, TestOff
    <2> QED
      BY <2>2, <2>3, <2>4, <2>5 DEF TypeInv, TypeOK, restVars, slotVars, outputVars, airVars
  <1>5. CASE Ident
    <2>1. at' \in [Server -> Places] /\ requests' \in 0..MaxRequests /\ HasMotif' /\ alone' \in BOOLEAN
      BY <1>5, <1>s, <1>k, BeginType DEF Ident
    <2> QED
      BY <1>5, <2>1 DEF Ident, TypeInv, TypeOK, restVars, slotVars, outputVars, airVars
  <1>6. ASSUME NEW p \in Push, Tx(p) PROVE TypeInv'
    <2>1. /\ p.enabled \in BOOLEAN /\ p.shmIn \subseteq Source \cup {None} /\ p.scan \subseteq Scan
          /\ p.provisioned \subseteq BOOLEAN /\ p.other \subseteq BOOLEAN
      BY SlotAssumption
    <2>2. got' \in [Server -> Read] /\ \A y \in Server : y # "agent" => got'[y] = got[y]
      BY <1>6 DEF Tx, Read, TypeInv, TypeOK
    <2>3. at' \in [Server -> Places] /\ requests' \in 0..MaxRequests /\ HasMotif' /\ alone' \in BOOLEAN
      BY <1>6, <1>s, <2>2, BeginType DEF Tx
    <2>4. shmIn' \in Source \cup {None, Gen} /\ scan' \in Scan
      BY <1>6, <2>1 DEF Tx, Given, TypeInv, TypeOK
    <2>5. provisioned' \in BOOLEAN /\ other' \in BOOLEAN /\ enabled' \in BOOLEAN
      BY <1>6, <2>1 DEF Tx, Given, TypeInv, TypeOK
    <2> QED
      BY <1>6, <2>2, <2>3, <2>4, <2>5 DEF Tx, TypeInv, TypeOK, slotVars, airVars
  <1> QED
    BY <1>1, <1>2, <1>3, <1>4, <1>5, <1>6 DEF Request

\* A section of _tx_gen_apply leaves the types of the output.
LEMMA ApplyType == ASSUME TypeInv, NEW x \in Server, Apply(x) PROVE TypeInv'
  <1>s. /\ {"idle", "txFallback", "readGen", "capTx", "capGen", "wireTx", "wireGen", "askTx",
            "askGen", "stillTx", "stillGen", "moveTx", "dropTx", "dropGen", "pubTx", "pubGen",
            "remove", "render", "put"} \subseteq Places \ {"fillGen"}
        /\ "fillGen" \in Places
    BY DEF Places
  <1>g. got[x] \in Read /\ got[x].then \in {"idle", "txFallback"}
        /\ got[x].cable \in Source \cup {None} /\ got[x].fallback \in Still \cup {None}
        /\ got[x].motif \in Pattern /\ got[x].user \in BOOLEAN
    BY DEF TypeInv, TypeOK, Read
  <1>1. CASE ReadTx(x)
    <2>1. got' \in [Server -> Read] /\ \A y \in Server : y # x => got'[y] = got[y]
      BY <1>1 DEF ReadTx, TypeInv, TypeOK, Read
    <2>2. at' \in [Server -> Places] /\ HasMotif'
      BY <1>1, <1>s, <2>1, GoType, GoMotif DEF ReadTx
    <2> QED
      BY <1>1, <2>1, <2>2 DEF ReadTx, TypeInv, TypeOK, slotVars, inputVars,
         outputVars, airVars
  <1>2. CASE ReadGen(x)
    <2>1. got' \in [Server -> Read] /\ \A y \in Server : y # x => got'[y] = got[y]
      BY <1>2 DEF ReadGen, TypeInv, TypeOK, Read
    <2>2. at' \in [Server -> Places]
      BY <1>2, <1>s, GoType DEF ReadGen
    <2>3. HasMotif'
      <3> SUFFICES ASSUME NEW y \in Server, at'[y] = "fillGen"
                   PROVE  got'[y].user \/ got'[y].fallback # None
        BY DEF HasMotif
      <3>1. CASE y = x
        BY <1>2, <3>1 DEF ReadGen, To, TypeInv, TypeOK, Read
      <3>2. CASE y # x
        BY <1>2, <2>1, <3>2 DEF ReadGen, To, TypeInv, TypeOK, HasMotif
      <3> QED
        BY <3>1, <3>2
    <2> QED
      BY <1>2, <2>1, <2>2, <2>3 DEF ReadGen, TypeInv, TypeOK, slotVars, inputVars,
         outputVars, airVars
  <1>3. ASSUME NEW p, NEW q \in Places \ {"fillGen"}, NEW shm \in Source \cup {None, Gen},
               NEW on \in BOOLEAN, Write(x, p, q, shm, on)
        PROVE  TypeInv'
    <2>1. at' \in [Server -> Places] /\ HasMotif'
      BY <1>3, GoType, GoMotif DEF Write
    <2> QED
      BY <1>3, <2>1 DEF Write, TypeInv, TypeOK, slotVars, inputVars, airVars
  <1>4. ASSUME NEW p, NEW q \in Places \ {"fillGen"}, NEW on \in BOOLEAN, Switch(x, p, q, on)
        PROVE  TypeInv'
    <2>1. at' \in [Server -> Places] /\ HasMotif'
      BY <1>4, GoType, GoMotif DEF Switch
    <2> QED
      BY <1>4, <2>1 DEF Switch, TypeInv, TypeOK, slotVars, inputVars, airVars
  <1>5. CASE Cap(x) \/ Wire(x) \/ Drop(x) \/ FillOut(x)
    BY <1>3, <1>4, <1>5, <1>s, <1>g DEF Cap, Wire, Drop, FillOut, TypeInv, TypeOK
  <1>6. CASE Fill(x)
    <2>1. at' \in [Server -> Places] /\ HasMotif'
      BY <1>6, <1>s, GoType, GoMotif DEF Fill
    <2>2. pattern' \in Pattern
      BY <1>6, <1>g DEF Fill, TypeInv, TypeOK, HasMotif, Pattern
    <2> QED
      BY <1>6, <2>1, <2>2 DEF Fill, TypeInv, TypeOK, slotVars, inputVars, airVars
  <1>7. ASSUME NEW p, NEW q \in Places \ {"fillGen"}, AskTx(x, p, q) PROVE TypeInv'
    <2>1. got' \in [Server -> Read] /\ \A y \in Server : y # x => got'[y] = got[y]
      <3> DEFINE r == [got[x] EXCEPT !.cable = cable, !.scan = scan, !.fallback = fallback]
      <3>1. r \in Read
        BY <1>g DEF TypeInv, TypeOK, Read
      <3>2. got' = [got EXCEPT ![x] = r]
        BY <1>7, <1>g DEF AskTx, TypeInv, TypeOK, Read
      <3> QED
        BY <3>1, <3>2 DEF TypeInv, TypeOK
    <2>2. at' \in [Server -> Places] /\ HasMotif'
      BY <1>7, <2>1, GoType, GoMotif DEF AskTx
    <2> QED
      BY <1>7, <2>1, <2>2 DEF AskTx, TypeInv, TypeOK, slotVars, inputVars,
         outputVars, airVars
  <1>8. ASSUME NEW p, NEW q \in Places \ {"fillGen"}, NEW r \in Places \ {"fillGen"}, AskGen(x, p, q, r)
        PROVE  TypeInv'
    <2>1. at' \in [Server -> Places] /\ HasMotif'
      BY <1>8, GoType, GoMotif DEF AskGen
    <2> QED
      BY <1>8, <2>1 DEF AskGen, TypeInv, TypeOK, slotVars, inputVars,
         outputVars, airVars
  <1>9. CASE Ask(x)
    BY <1>7, <1>8, <1>9, <1>s DEF Ask
  <1>10. CASE Remove(x) \/ Put(x)
    <2>1. got' \in [Server -> Read] /\ \A y \in Server : y # x => got'[y] = got[y]
      BY <1>10, NothingType DEF Remove, Put, Read, TypeInv, TypeOK
    <2>2. at' \in [Server -> Places] /\ HasMotif'
      BY <1>10, <1>s, <1>g, <2>1, GoType, GoMotif DEF Remove, Put
    <2>3. file' \in Pattern \cup {None}
      BY <1>10, <1>g DEF Remove, Put
    <2> QED
      BY <1>10, <2>1, <2>2, <2>3 DEF Remove, Put, TypeInv, TypeOK, slotVars, inputVars,
         outputVars, airVars
  <1>11. CASE Render(x)
    <2>1. got' \in [Server -> Read] /\ \A y \in Server : y # x => got'[y] = got[y]
      BY <1>11 DEF Render, TypeInv, TypeOK, Read
    <2>2. at' \in [Server -> Places] /\ HasMotif'
      BY <1>11, <1>s, <2>1, GoType, GoMotif DEF Render
    <2> QED
      BY <1>11, <2>1, <2>2 DEF Render, TypeInv, TypeOK, slotVars, inputVars,
         outputVars, airVars
  <1> QED
    BY <1>1, <1>2, <1>5, <1>6, <1>9, <1>10, <1>11 DEF Apply

\* The rest of a request, the manager and the generator leave them too.
LEMMA RestType ==
  ASSUME TypeInv, TestGen \/ TxUser \/ TxPattern \/ TxFallback \/ Manager \/ Generator
  PROVE  TypeInv'
  <1>s. /\ {"agent", "control"} \subseteq Server
        /\ {"readTx", "txPattern", "txFallback", "pubTx"} \subseteq Places \ {"fillGen"}
    BY DEF Server, Places
  <1>1. CASE TestGen
    <2>1. at' \in [Server -> Places] /\ HasMotif'
      BY <1>1, <1>s, GoType, GoMotif DEF TestGen
    <2> QED
      BY <1>1, <2>1, SlotAssumption
      DEF TestGen, TypeInv, TypeOK, Read, Pattern, Server, restVars, slotVars, outputVars, airVars
  <1>p. ASSUME NEW p \in got["agent"].push
        PROVE  /\ p.user \subseteq BOOLEAN /\ p.pattern \subseteq Pattern
               /\ p.fallback \subseteq Still \cup {None}
    <2>1. p \in Push
      BY <1>s DEF TypeInv, TypeOK, Read
    <2> QED
      BY <2>1, SlotAssumption
  <1>2. CASE TxUser
    <2>1. at' \in [Server -> Places] /\ HasMotif'
      BY <1>2, <1>s, GoType, GoMotif DEF TxUser
    <2>2. user' \in BOOLEAN
      BY <1>2, <1>p DEF TxUser, Given, TypeInv, TypeOK
    <2> QED
      BY <1>2, <2>1, <2>2 DEF TxUser, TypeInv, TypeOK, restVars, slotVars, outputVars, airVars
  <1>5. CASE TxFallback
    <2>1. got' \in [Server -> Read] /\ \A y \in Server : y # "agent" => got'[y] = got[y]
      BY <1>5 DEF TxFallback, TypeInv, TypeOK, Read
    <2>2. at' \in [Server -> Places] /\ HasMotif'
      BY <1>5, <1>s, <2>1, GoType, GoMotif DEF TxFallback
    <2>3. fallback' \in Still \cup {None}
      BY <1>5, <1>p DEF TxFallback, Given, TypeInv, TypeOK
    <2> QED
      BY <1>5, <2>1, <2>2, <2>3
      DEF TxFallback, TypeInv, TypeOK, restVars, slotVars, outputVars, airVars
  <1>3. CASE TxPattern
    <2>1. got' \in [Server -> Read] /\ \A y \in Server : y # "agent" => got'[y] = got[y]
      BY <1>3 DEF TxPattern, TypeInv, TypeOK, Read
    <2>2. at' \in [Server -> Places] /\ HasMotif'
      BY <1>3, <1>s, <2>1, GoType, GoMotif DEF TxPattern
    <2>3. pattern' \in Pattern
      BY <1>3, <1>p DEF TxPattern, Given, TypeInv, TypeOK
    <2> QED
      BY <1>3, <2>1, <2>2, <2>3 DEF TxPattern, TypeInv, TypeOK, inputVars, restVars, slotVars,
         outputVars, airVars
  <1>4. CASE Manager \/ Generator
    BY <1>4 DEF Manager, Generator, TypeInv, TypeOK, HasMotif, slotVars, inputVars, outputVars
  <1> QED
    BY <1>1, <1>2, <1>3, <1>4, <1>5

LEMMA NextType == TypeInv /\ [Next]_vars => TypeInv'
  <1> SUFFICES ASSUME TypeInv, [Next]_vars PROVE TypeInv'
    OBVIOUS
  <1>1. CASE UNCHANGED vars
    BY <1>1 DEF vars, slotVars, inputVars, outputVars, airVars, TypeInv, TypeOK, HasMotif
  <1> QED
    BY <1>1, RequestType, ApplyType, RestType DEF Next, Handler

\* The wiring, the generator, the file and the servers keep the types of their
\* state.
THEOREM TypeCorrect == Spec => []TypeOK
  <1>1. TypeInv => TypeOK
    BY DEF TypeInv
  <1> QED
    BY <1>1, InitType, NextType, PTL DEF Spec

-----------------------------------------------------------------------------
(* What the sender reads.                                                  *)

\* The output has nothing wired and a pattern to give; which one; and whether
\* the generator has to draw it.
Fills == active /\ cable = None /\ (user \/ fallback # None)
Chosen == IF user THEN pattern ELSE fallback
Moves == Chosen \in Moving \/ scan = "i"

\* The output is right, the file aside.
Out ==
  /\ ~active => shmIn = None /\ ~genOn /\ ~enabled
  /\ active /\ cable # None => shmIn = cable /\ ~genOn /\ enabled
  /\ Fills => /\ pattern = Chosen /\ enabled /\ (genOn <=> Moves)
              /\ shmIn = IF Moves THEN Gen ELSE None
  /\ active /\ cable = None /\ ~user /\ fallback = None =>
       shmIn = None /\ ~genOn /\ (enabled <=> other)

Right == Out /\ file = IF Fills /\ ~Moves THEN Chosen ELSE None

\* The servers take turns.
Alone == \A x, y \in Server : at[x] # "idle" /\ at[y] # "idle" => x = y

\* What a server read of the output is still so.
Current(x) == got[x].cable = cable /\ got[x].fallback = fallback

\* Where a server is in its choice tells what the output is to read...
AtChoice(x) ==
  /\ at[x] = "readGen" => active /\ Current(x)
  /\ at[x] \in {"capTx", "capGen"} => ~active
  /\ at[x] \in {"wireTx", "wireGen"} => active /\ got[x].cable = cable /\ cable # None
  /\ at[x] \in {"dropTx", "dropGen"} => active /\ cable = None /\ ~user /\ fallback = None
  /\ at[x] = "fillGen" => Fills /\ Current(x) /\ (got[x].user <=> user)
  /\ at[x] \in {"askTx", "askGen", "stillTx", "stillGen", "moveTx"} => Fills /\ pattern = Chosen
  /\ at[x] \in {"stillTx", "stillGen"} => ~Moves
  /\ at[x] = "moveTx" => Moves
  /\ at[x] \in {"askGen", "pubGen"} => Current(x) /\ got[x].scan = scan

\* ... what it has written of it...
AtWrite(x) ==
  /\ at[x] = "capGen" => shmIn = None /\ ~enabled
  /\ at[x] = "wireGen" => shmIn = cable /\ enabled
  /\ at[x] = "dropGen" => shmIn = None /\ (enabled <=> other)
  /\ at[x] \in {"askTx", "askGen", "moveTx"} => genOn
  /\ at[x] = "stillGen" => shmIn = None /\ enabled

Publishing == {"pubTx", "pubGen", "remove", "render", "put"}

\* ... and what it publishes: the output is right by then, unless the server is
\* in the middle of a /tx.
AtPublish(x) ==
  /\ at[x] \in Publishing /\ got[x].then = "idle" => Out
  /\ at[x] = "remove" => ~(Fills /\ ~Moves)
  /\ at[x] \in {"render", "put"} => Fills /\ ~Moves
  /\ at[x] = "put" => got[x].motif = pattern

\* Only a /tx has something left to do after it has published.
Ending == \A x \in Server : at[x] \notin Publishing => got[x].then = "idle"

\* What holds while no request overlaps another.
SlotInv ==
  /\ Alone
  /\ \A x \in Server : AtChoice(x) /\ AtWrite(x) /\ AtPublish(x)
  /\ Idle => Right

\* Then the sender reads what it is to read.
LEMMA RightSettled == TypeOK /\ (alone /\ Idle => Right) => Settled
  <1> SUFFICES ASSUME TypeOK, Idle, alone, Right PROVE Settled
    BY DEF Settled
  <1> USE SlotAssumption DEF TypeOK, Right, Out, Fills, Chosen, Moves, Pattern, Scan
  <1>1. CASE ~active
    <2>1. Promise = None
      BY <1>1 DEF Promise
    <2> QED
      BY <1>1, <2>1 DEF Settled
  <1>2. CASE active /\ cable # None
    <2>1. Promise = cable
      BY <1>2 DEF Promise
    <2> QED
      BY <1>2, <2>1 DEF Settled
  <1>3. CASE active /\ cable = None /\ (user \/ fallback # None)
    <2>1. Promise = Chosen /\ Promise \in Pattern
      BY <1>3 DEF Promise
    <2> QED
      BY <1>3, <2>1 DEF Settled
  <1>4. CASE active /\ cable = None /\ ~user /\ fallback = None
    <2>1. Promise = None
      BY <1>4 DEF Promise
    <2> QED
      BY <1>4, <2>1 DEF Settled
  <1> QED
    BY <1>1, <1>2, <1>3, <1>4

\* A server has something left to do only in the middle of a /tx that publishes.
LEMMA EndingStep == TypeInv /\ Ending /\ [Next]_vars => Ending'
  <1> SUFFICES ASSUME TypeInv, Ending, [Next]_vars PROVE Ending'
    OBVIOUS
  <1>s. {"agent", "control"} \subseteq Server
    BY DEF Server
  <1>g. DOMAIN at = Server /\ DOMAIN got = Server /\ \A x \in Server : got[x] \in Read
    BY DEF TypeInv, TypeOK
  <1>1. ASSUME NEW x \in Server, at[x] \notin Publishing \/ at'[x] \in Publishing,
               \A y \in Server : y # x => at'[y] = at[y] /\ got'[y] = got[y],
               got'[x].then = got[x].then
        PROVE  Ending'
    BY <1>1 DEF Ending
  <1>2. ASSUME NEW x \in Server, Remove(x) \/ Put(x) PROVE Ending'
    <2>1. \A y \in Server : y # x => at'[y] = at[y] /\ got'[y] = got[y]
      BY <1>2, <1>g DEF Remove, Put, To
    <2>2. got'[x].then = "idle"
      BY <1>2, <1>g DEF Remove, Put, Nothing
    <2> QED
      BY <2>1, <2>2 DEF Ending
  <1>3. ASSUME NEW x \in Server, Apply(x), ~(Remove(x) \/ Put(x)) PROVE Ending'
    <2>1. \A y \in Server : y # x => at'[y] = at[y] /\ got'[y] = got[y]
      BY <1>3, <1>g DEF Apply, ReadTx, ReadGen, Cap, Wire, Fill, FillOut, Drop, Ask, Render, Write,
         Switch, AskTx, AskGen, To
    <2>2. got'[x].then = got[x].then
      BY <1>3, <1>g DEF Apply, ReadTx, ReadGen, Cap, Wire, Fill, FillOut, Drop, Ask, Render, Write,
         Switch, AskTx, AskGen, Read
    <2>3. at[x] \notin Publishing \/ at'[x] \in Publishing
      BY <1>3, <1>g DEF Apply, ReadTx, ReadGen, Cap, Wire, Fill, FillOut, Drop, Ask, Render, Write,
         Switch, AskTx, AskGen, To, Publishing
    <2> QED
      BY <1>1, <2>1, <2>2, <2>3
  <1>4. CASE TxPattern
    <2>1. /\ \A y \in Server : y # "agent" => at'[y] = at[y] /\ got'[y] = got[y]
          /\ \/ at'["agent"] = "pubTx"
             \/ at["agent"] = "txPattern" /\ got' = got
      BY <1>4, <1>s, <1>g DEF TxPattern, To
    <2> QED
      BY <2>1, <1>s DEF Ending, Publishing
  <1>6. ASSUME NEW x \in Server, at[x] \in {"idle", "testGen", "txUser", "txFallback"},
               \A y \in Server : y # x => at'[y] = at[y] /\ got'[y] = got[y],
               got'[x].then = got[x].then
        PROVE  Ending'
    BY <1>1, <1>6 DEF Publishing
  <1>7. CASE TestGen \/ TxUser \/ TxFallback
    <2>1. PICK x \in {"agent", "control"} :
            /\ at[x] \in {"testGen", "txUser", "txFallback"}
            /\ \A y \in Server : y # x => at'[y] = at[y]
            /\ got' = got \/ got' = [got EXCEPT ![x].push = {}]
      BY <1>7, <1>g, <1>s DEF TestGen, TxUser, TxFallback, To
    <2>2. got'[x].then = got[x].then /\ \A y \in Server : y # x => got'[y] = got[y]
      BY <2>1, <1>g, <1>s DEF Read
    <2> QED
      BY <2>1, <2>2, <1>s, <1>6
  <1>8. CASE Request
    <2>1. PICK x \in {"agent", "control"} :
            /\ at[x] = "idle" /\ \A y \in Server : y # x => at'[y] = at[y]
            /\ \/ got' = got
               \/ \E u : got' = [got EXCEPT ![x].user = u]
               \/ \E p : got' = [got EXCEPT ![x].push = p]
      BY <1>8, <1>g, <1>s DEF Request, Input, InputOther, GenTx, Ident, TestOn, TestOff, Tx, Begin, To
    <2>2. got'[x].then = got[x].then /\ \A y \in Server : y # x => got'[y] = got[y]
      BY <2>1, <1>g, <1>s DEF Read
    <2> QED
      BY <2>1, <2>2, <1>s, <1>6
  <1>9. CASE Manager \/ Generator \/ UNCHANGED vars
    BY <1>9 DEF Manager, Generator, vars, Ending
  <1> QED
    BY <1>2, <1>3, <1>4, <1>7, <1>8, <1>9 DEF Next, Handler

\* A step of the server that has its turn: the other stays at rest.
LEMMA TurnInv ==
  ASSUME TypeInv, NEW x \in Server, NEW p,
         \A y \in Server : y # x => at[y] = "idle" /\ got'[y] = got[y],
         To(x, p), AtChoice(x)', AtWrite(x)', AtPublish(x)',
         p = "idle" => Right'
  PROVE  SlotInv'
  <1>1. at'[x] = p /\ \A y \in Server : y # x => at'[y] = "idle"
    BY DEF To, TypeInv, TypeOK
  <1>2. Alone'
    BY <1>1 DEF Alone
  <1>3. \A y \in Server : y # x => AtChoice(y)' /\ AtWrite(y)' /\ AtPublish(y)'
    BY <1>1 DEF AtChoice, AtWrite, AtPublish, Publishing
  <1>4. Idle' => Right'
    BY <1>1 DEF Idle
  <1> QED
    BY <1>2, <1>3, <1>4 DEF SlotInv

\* A request that begins with both servers at rest has the output to itself,
\* whatever it finds of it.
LEMMA RequestInv ==
  ASSUME TypeInv, alone => SlotInv, Request, alone'
  PROVE  SlotInv'
  <1>s. {"agent", "control"} \subseteq Server
    BY DEF Server
  <1>1. ASSUME NEW x \in Server, NEW p \in {"readTx", "testGen", "txUser"}, Begin(x, p),
               \A y \in Server : y # x => got'[y] = got[y]
        PROVE  SlotInv'
    <2>1. To(x, p) /\ at'[x] = p /\ \A y \in Server : at[y] = "idle"
      BY <1>1 DEF Begin, To, Idle, TypeInv, TypeOK
    <2>3. AtChoice(x)' /\ AtWrite(x)' /\ AtPublish(x)'
      BY <1>1, <2>1 DEF AtChoice, AtWrite, AtPublish, Publishing
    <2> QED
      BY <1>1, <2>1, <2>3, TurnInv
  <1>2. CASE Ident
    <2>1. /\ To("control", "pubTx") /\ at'["control"] = "pubTx" /\ got' = got
          /\ \A y \in Server : at[y] = "idle"
      BY <1>2, <1>s DEF Ident, Begin, To, Idle, TypeInv, TypeOK
    <2>2. UNCHANGED <<active, cable, scan, fallback, other, user, pattern, shmIn, enabled, genOn,
                      got>>
      BY <1>2 DEF Ident, restVars, slotVars, outputVars
    <2>3. Out
      BY <1>2, <2>1 DEF Ident, Begin, SlotInv, Idle, Right
    <2>4. AtChoice("control")' /\ AtWrite("control")' /\ AtPublish("control")'
      BY <2>1, <2>2, <2>3 DEF AtChoice, AtWrite, AtPublish, Publishing, Out, Fills, Chosen, Moves
    <2> QED
      BY <1>s, <2>1, <2>4, TurnInv
  <1>3. CASE TestOn \/ TestOff
    <2>1. PICK u \in BOOLEAN : got' = [got EXCEPT !["control"].user = u]
      BY <1>3 DEF TestOn, TestOff
    <2> QED
      BY <1>1, <1>3, <1>s, <2>1 DEF TestOn, TestOff
  <1>4. ASSUME NEW p \in Push, Tx(p) PROVE SlotInv'
    BY <1>1, <1>4, <1>s DEF Tx
  <1> QED
    BY <1>1, <1>2, <1>3, <1>4, <1>s DEF Request, Input, InputOther, GenTx, restVars

\* The recomputation, up to what it publishes.
LEMMA ChoiceStep ==
  ASSUME TypeInv, SlotInv, NEW x \in Server,
         ReadTx(x) \/ ReadGen(x) \/ Cap(x) \/ Wire(x) \/ Drop(x) \/ Fill(x) \/ FillOut(x)
  PROVE  SlotInv'
  <1> USE DEF To, AtChoice, AtWrite, AtPublish, Publishing, Current, Fills, Chosen, Moves
  <1>t. at[x] # "idle" => \A y \in Server : y # x => at[y] = "idle"
    BY DEF SlotInv, Alone
  <1>i. AtChoice(x) /\ AtWrite(x) /\ AtPublish(x)
    BY DEF SlotInv
  <1>g. got[x] \in Read /\ DOMAIN at = Server /\ DOMAIN got = Server
    BY DEF TypeInv, TypeOK
  <1>1. CASE ReadTx(x)
    <2>1. CASE ~active
      BY <1>1, <2>1, <1>t, <1>i, <1>g, TurnInv DEF ReadTx, slotVars
    <2>2. CASE active
      <3>1. /\ got'[x] = [got[x] EXCEPT !.cable = cable, !.fallback = fallback]
            /\ \A y \in Server : y # x => got'[y] = got[y]
        BY <1>1, <2>2, <1>g DEF ReadTx
      <3>2. got'[x].cable = cable /\ got'[x].fallback = fallback /\ got'[x].then = got[x].then
        BY <3>1, <1>g DEF Read
      <3>3. To(x, "readGen") /\ at'[x] = "readGen" /\ at[x] = "readTx"
        BY <1>1, <2>2, <1>g DEF ReadTx
      <3>4. AtChoice(x)' /\ AtWrite(x)' /\ AtPublish(x)'
        BY <1>1, <2>2, <1>i, <3>2, <3>3 DEF ReadTx, slotVars, inputVars
      <3> QED
        BY <1>t, <3>1, <3>3, <3>4, TurnInv
    <2> QED
      BY <2>1, <2>2
  <1>2. CASE ReadGen(x)
    <2>1. /\ got'[x] = [got[x] EXCEPT !.user = user]
          /\ \A y \in Server : y # x => got'[y] = got[y]
      BY <1>2, <1>g DEF ReadGen
    <2>2. /\ got'[x].cable = got[x].cable /\ got'[x].fallback = got[x].fallback
          /\ got'[x].then = got[x].then /\ got'[x].user = user
      BY <2>1, <1>g DEF Read
    <2>3. at[x] = "readGen" /\ active /\ Current(x)
      BY <1>2, <1>i DEF ReadGen
    <2>4. UNCHANGED <<active, cable, scan, fallback, other, user, pattern, shmIn, enabled, genOn>>
      BY <1>2 DEF ReadGen, slotVars, inputVars, outputVars
    <2>5. /\ To(x, at'[x]) /\ at'[x] \in {"wireTx", "fillGen", "dropTx"}
          /\ at'[x] = "wireTx" => cable # None
          /\ at'[x] = "fillGen" => cable = None /\ (user \/ fallback # None)
          /\ at'[x] = "dropTx" => cable = None /\ ~user /\ fallback = None
      BY <1>2, <1>g, <2>3 DEF ReadGen
    <2>6. AtChoice(x)' /\ AtWrite(x)' /\ AtPublish(x)'
      BY <1>i, <2>2, <2>3, <2>4, <2>5
    <2> HIDE DEF To, AtChoice, AtWrite, AtPublish
    <2> QED
      BY <1>t, <2>1, <2>3, <2>5, <2>6, TurnInv
  <1>3. ASSUME NEW p, NEW q \in Places \ {"idle"}, NEW shm, NEW on, at[x] # "idle",
               Write(x, p, q, shm, on) \/ Switch(x, p, q, on),
               AtChoice(x)', AtWrite(x)', AtPublish(x)'
        PROVE  SlotInv'
    <2>1. To(x, q) /\ q # "idle" /\ UNCHANGED got
      BY <1>3 DEF Write, Switch
    <2> HIDE DEF To, AtChoice, AtWrite, AtPublish
    <2> QED
      BY <1>3, <1>t, <2>1, TurnInv
  <1>p. {"capGen", "pubTx", "wireGen", "dropGen", "stillGen"} \subseteq Places \ {"idle"}
    BY DEF Places
  <1>4. CASE Cap(x)
    <2>1. CASE Write(x, "capTx", "capGen", None, FALSE)
      <3>1. AtChoice(x)' /\ AtWrite(x)' /\ AtPublish(x)' /\ at[x] # "idle"
        BY <2>1, <1>i, <1>g DEF Write, slotVars, inputVars
      <3> QED
        BY <1>3, <1>p, <2>1, <3>1
    <2>2. CASE Switch(x, "capGen", "pubTx", FALSE)
      <3>1. AtChoice(x)' /\ AtWrite(x)' /\ AtPublish(x)' /\ at[x] # "idle"
        BY <2>2, <1>i, <1>g DEF Switch, slotVars, inputVars, Out
      <3> QED
        BY <1>3, <1>p, <2>2, <3>1
    <2> QED
      BY <1>4, <2>1, <2>2 DEF Cap
  <1>5. CASE Wire(x)
    <2>1. CASE Write(x, "wireTx", "wireGen", got[x].cable, TRUE)
      <3>1. AtChoice(x)' /\ AtWrite(x)' /\ AtPublish(x)' /\ at[x] # "idle"
        BY <2>1, <1>i, <1>g DEF Write, slotVars, inputVars
      <3> QED
        BY <1>3, <1>p, <2>1, <3>1
    <2>2. CASE Switch(x, "wireGen", "pubTx", FALSE)
      <3>1. AtChoice(x)' /\ AtWrite(x)' /\ AtPublish(x)' /\ at[x] # "idle"
        BY <2>2, <1>i, <1>g DEF Switch, slotVars, inputVars, Out
      <3> QED
        BY <1>3, <1>p, <2>2, <3>1
    <2> QED
      BY <1>5, <2>1, <2>2 DEF Wire
  <1>6. CASE Drop(x)
    <2>1. CASE Write(x, "dropTx", "dropGen", None, other)
      <3>1. AtChoice(x)' /\ AtWrite(x)' /\ AtPublish(x)' /\ at[x] # "idle"
        BY <2>1, <1>i, <1>g DEF Write, slotVars, inputVars
      <3> QED
        BY <1>3, <1>p, <2>1, <3>1
    <2>2. CASE Switch(x, "dropGen", "pubTx", FALSE)
      <3>1. AtChoice(x)' /\ AtWrite(x)' /\ AtPublish(x)' /\ at[x] # "idle"
        BY <2>2, <1>i, <1>g DEF Switch, slotVars, inputVars, Out
      <3> QED
        BY <1>3, <1>p, <2>2, <3>1
    <2> QED
      BY <1>6, <2>1, <2>2 DEF Drop
  <1>7. CASE Fill(x)
    <2>1. at[x] = "fillGen" /\ at'[x] = "askTx" /\ To(x, "askTx") /\ UNCHANGED got /\ genOn' = TRUE
      BY <1>7, <1>g DEF Fill
    <2>2. pattern' = Chosen /\ UNCHANGED <<active, cable, scan, fallback, user, other>>
      BY <1>7, <1>i, <2>1 DEF Fill, slotVars, inputVars
    <2>3. AtChoice(x)' /\ AtWrite(x)' /\ AtPublish(x)'
      BY <1>i, <2>1, <2>2
    <2> HIDE DEF To, AtChoice, AtWrite, AtPublish
    <2> QED
      BY <1>t, <2>1, <2>3, TurnInv
  <1>8. CASE FillOut(x)
    <2>1. CASE Write(x, "stillTx", "stillGen", None, TRUE)
      <3>1. AtChoice(x)' /\ AtWrite(x)' /\ AtPublish(x)' /\ at[x] # "idle"
        BY <2>1, <1>i, <1>g DEF Write, slotVars, inputVars
      <3> QED
        BY <1>3, <1>p, <2>1, <3>1
    <2>2. CASE Switch(x, "stillGen", "pubTx", FALSE)
      <3>1. AtChoice(x)' /\ AtWrite(x)' /\ AtPublish(x)' /\ at[x] # "idle"
        BY <2>2, <1>i, <1>g DEF Switch, slotVars, inputVars, Out
      <3> QED
        BY <1>3, <1>p, <2>2, <3>1
    <2>3. CASE Write(x, "moveTx", "pubTx", Gen, TRUE)
      <3>1. AtChoice(x)' /\ AtWrite(x)' /\ AtPublish(x)' /\ at[x] # "idle"
        BY <2>3, <1>i, <1>g DEF Write, slotVars, inputVars, Out
      <3> QED
        BY <1>3, <1>p, <2>3, <3>1
    <2> QED
      BY <1>8, <2>1, <2>2, <2>3 DEF FillOut
  <1> QED
    BY <1>1, <1>2, <1>4, <1>5, <1>6, <1>7, <1>8

\* The publication, which ends the recomputation or the first part of a /tx.
LEMMA PublishStep ==
  ASSUME TypeInv, SlotInv, NEW x \in Server,
         Ask(x) \/ Remove(x) \/ Render(x) \/ Put(x)
  PROVE  SlotInv'
  <1> USE DEF AtChoice, AtWrite, AtPublish, Publishing, Current, Fills, Chosen, Moves
  <1>t. at[x] # "idle" => \A y \in Server : y # x => at[y] = "idle"
    BY DEF SlotInv, Alone
  <1>i. AtChoice(x) /\ AtWrite(x) /\ AtPublish(x)
    BY DEF SlotInv
  <1>g. got[x] \in Read /\ DOMAIN at = Server /\ DOMAIN got = Server
    BY DEF TypeInv, TypeOK
  <1>1. CASE AskTx(x, "askTx", "askGen") \/ AskTx(x, "pubTx", "pubGen")
    <2>0. PICK p, q : /\ AskTx(x, p, q)
                      /\ \/ p = "askTx" /\ q = "askGen"
                         \/ p = "pubTx" /\ q = "pubGen"
      BY <1>1
    <2>1. /\ got'[x] = [got[x] EXCEPT !.cable = cable, !.scan = scan, !.fallback = fallback]
          /\ \A y \in Server : y # x => got'[y] = got[y]
      BY <2>0, <1>g DEF AskTx
    <2>2. /\ got'[x].cable = cable /\ got'[x].scan = scan /\ got'[x].fallback = fallback
          /\ got'[x].then = got[x].then
      BY <2>1, <1>g DEF Read
    <2>3. at[x] = p /\ at'[x] = q /\ To(x, q)
      BY <2>0, <1>g DEF AskTx, To
    <2>4. UNCHANGED <<active, cable, scan, fallback, other, user, pattern, shmIn, enabled, genOn>>
      BY <2>0 DEF AskTx, slotVars, inputVars, outputVars
    <2>5. AtChoice(x)' /\ AtWrite(x)' /\ AtPublish(x)'
      BY <2>0, <1>i, <2>2, <2>3, <2>4 DEF Out
    <2> HIDE DEF AtChoice, AtWrite, AtPublish
    <2> QED
      BY <2>0, <1>t, <2>1, <2>3, <2>5, TurnInv
  <1>2. CASE \/ AskGen(x, "askGen", "stillTx", "moveTx")
             \/ AskGen(x, "pubGen", "render", "remove")
    <2>0. PICK p, q, r : /\ AskGen(x, p, q, r)
                         /\ \/ p = "askGen" /\ q = "stillTx" /\ r = "moveTx"
                            \/ p = "pubGen" /\ q = "render" /\ r = "remove"
      BY <1>2
    <2>1. at[x] = p /\ Current(x) /\ got[x].scan = scan
      BY <2>0, <1>i DEF AskGen
    <2>2. Applicable(got[x], user, pattern) <=> Fills /\ ~Moves
      BY <2>1 DEF Applicable, TypeInv, TypeOK, Scan
    <2>3. To(x, at'[x]) /\ at'[x] \in {q, r} /\ (at'[x] = q <=> Fills /\ ~Moves) /\ got' = got
      BY <2>0, <1>g, <2>2 DEF AskGen, To
    <2>4. UNCHANGED <<active, cable, scan, fallback, other, user, pattern, shmIn, enabled, genOn>>
      BY <2>0 DEF AskGen, slotVars, inputVars, outputVars
    <2>5. AtChoice(x)' /\ AtWrite(x)' /\ AtPublish(x)'
      BY <2>0, <1>i, <2>1, <2>3, <2>4 DEF Out
    <2> HIDE DEF AtChoice, AtWrite, AtPublish
    <2> QED
      BY <2>0, <1>t, <2>1, <2>3, <2>5, TurnInv
  <1>3. CASE Ask(x)
    BY <1>1, <1>2, <1>3 DEF Ask
  <1>4. CASE Render(x)
    <2>1. /\ got'[x] = [got[x] EXCEPT !.motif = pattern]
          /\ \A y \in Server : y # x => got'[y] = got[y]
      BY <1>4, <1>g DEF Render
    <2>2. got'[x].motif = pattern /\ got'[x].then = got[x].then
      BY <2>1, <1>g DEF Read
    <2>3. at[x] = "render" /\ at'[x] = "put" /\ To(x, "put")
      BY <1>4, <1>g DEF Render, To
    <2>4. UNCHANGED <<active, cable, scan, fallback, other, user, pattern, shmIn, enabled, genOn>>
      BY <1>4 DEF Render, slotVars, inputVars, outputVars
    <2>5. AtChoice(x)' /\ AtWrite(x)' /\ AtPublish(x)'
      BY <1>i, <2>2, <2>3, <2>4 DEF Out
    <2> HIDE DEF AtChoice, AtWrite, AtPublish
    <2> QED
      BY <1>t, <2>1, <2>3, <2>5, TurnInv
  <1>5. CASE Remove(x) \/ Put(x)
    <2>1. /\ got'[x] = [Nothing EXCEPT !.push = got[x].push]
          /\ \A y \in Server : y # x => got'[y] = got[y]
          /\ To(x, got[x].then) /\ at'[x] = got[x].then /\ at[x] \in {"remove", "put"}
      BY <1>5, <1>g DEF Remove, Put, To
    <2>2. got[x].then \in {"idle", "txFallback"} /\ got'[x].then = "idle"
      BY <1>g, <2>1 DEF Read, Nothing
    <2>3. UNCHANGED <<active, cable, scan, fallback, other, user, pattern, shmIn, enabled, genOn>>
      BY <1>5 DEF Remove, Put, slotVars, inputVars, outputVars
    <2>4. AtChoice(x)' /\ AtWrite(x)' /\ AtPublish(x)'
      BY <2>1, <2>2
    <2>5. ASSUME got[x].then = "idle" PROVE Right'
      <3>1. Out /\ Out'
        BY <1>i, <2>1, <2>3, <2>5 DEF Out
      <3>2. file' = IF Fills /\ ~Moves THEN Chosen ELSE None
        BY <1>5, <1>i, <3>1 DEF Remove, Put, Out
      <3> QED
        BY <2>3, <3>1, <3>2 DEF Right
    <2> HIDE DEF AtChoice, AtWrite, AtPublish
    <2> QED
      BY <1>t, <2>1, <2>4, <2>5, TurnInv
  <1> QED
    BY <1>3, <1>4, <1>5

\* The rest of a request is alone too, and nothing else touches the output.
LEMMA RestInv ==
  ASSUME TypeInv, SlotInv,
         TestGen \/ TxUser \/ TxPattern \/ TxFallback \/ Manager \/ Generator \/ UNCHANGED vars
  PROVE  SlotInv'
  <1>s. {"agent", "control"} \subseteq Server
    BY DEF Server
  <1>1. ASSUME NEW x \in Server, NEW p \in {"readTx", "txPattern", "txFallback"}, To(x, p),
               at[x] \in {"testGen", "txUser", "txPattern", "txFallback"},
               \A y \in Server : y # x => got'[y] = got[y]
        PROVE  SlotInv'
    <2>1. at'[x] = p /\ \A y \in Server : y # x => at[y] = "idle"
      BY <1>1 DEF To, TypeInv, TypeOK, SlotInv, Alone
    <2>3. AtChoice(x)' /\ AtWrite(x)' /\ AtPublish(x)'
      BY <1>1, <2>1 DEF AtChoice, AtWrite, AtPublish, Publishing
    <2> QED
      BY <1>1, <2>1, <2>3, TurnInv
  <1>2. ASSUME TxPattern, To("agent", "pubTx"), got' = [got EXCEPT !["agent"].then = "txFallback"]
        PROVE  SlotInv'
    <2>1. /\ got["agent"] \in Read /\ got'["agent"] = [got["agent"] EXCEPT !.then = "txFallback"]
          /\ \A y \in Server : y # "agent" => got'[y] = got[y]
      BY <1>2, <1>s DEF TypeInv, TypeOK
    <2>2. got'["agent"].then = "txFallback"
      BY <2>1 DEF Read
    <2>3. at["agent"] = "txPattern" /\ at'["agent"] = "pubTx"
      BY <1>2, <1>s DEF TxPattern, To, TypeInv, TypeOK
    <2>4. \A y \in Server : y # "agent" => at[y] = "idle"
      BY <1>s, <2>3 DEF SlotInv, Alone
    <2>5. AtChoice("agent")' /\ AtWrite("agent")' /\ AtPublish("agent")'
      BY <2>2, <2>3 DEF AtChoice, AtWrite, AtPublish, Publishing
    <2> QED
      BY <1>s, <2>1, <2>3, <2>4, <2>5, <1>2, TurnInv
  <1>3. CASE Manager \/ Generator \/ UNCHANGED vars
    <2>1. UNCHANGED <<active, inputVars, outputVars, pattern, file, at, got>>
      BY <1>3 DEF Manager, Generator, vars, slotVars
    <2> QED
      BY <2>1 DEF SlotInv, Alone, Idle, AtChoice, AtWrite, AtPublish, Current, Right, Out, Fills,
         Chosen, Moves, inputVars, outputVars
  <1>4. CASE TxFallback
    <2>1. \A y \in Server : y # "agent" => got'[y] = got[y]
      BY <1>4 DEF TxFallback, TypeInv, TypeOK
    <2> QED
      BY <1>1, <1>4, <1>s, <2>1 DEF TxFallback
  <1>5. CASE TxPattern
    BY <1>1, <1>2, <1>5, <1>s DEF TxPattern
  <1> QED
    BY <1>1, <1>3, <1>4, <1>5, <1>s DEF TestGen, TxUser

\* Either requests overlap, or the output is as it should be.
SlotKept == TypeInv /\ Ending /\ (alone => SlotInv)

LEMMA SlotStep == SlotKept /\ [Next]_vars => SlotKept'
  <1> SUFFICES ASSUME SlotKept, [Next]_vars, alone' PROVE SlotInv'
    BY NextType, EndingStep DEF SlotKept
  <1> USE DEF SlotKept
  <1>1. CASE Request
    BY <1>1, RequestInv
  <1>2. CASE ~Request
    <2>1. alone' = alone
      BY <1>2 DEF Next, Handler, Apply, ReadTx, ReadGen, Cap, Wire, Fill, FillOut, Drop, Ask, Remove,
         Render, Put, Write, Switch, AskTx, AskGen, TestGen, TxUser, TxPattern, TxFallback, Manager,
         Generator, vars
    <2>2. ASSUME NEW x \in Server, Apply(x) PROVE SlotInv'
      BY <2>1, <2>2, ChoiceStep, PublishStep DEF Apply
    <2> QED
      BY <1>2, <2>1, <2>2, RestInv DEF Next, Handler
  <1> QED
    BY <1>1, <1>2

\* The induction behind the two theorems that follow.
LEMMA SlotCorrect == Spec => []SlotKept
  <1>1. Init => Ending /\ (alone => SlotInv)
    BY DEF Init, Ending, Nothing
  <1>2. Init => SlotKept
    BY <1>1, InitType DEF SlotKept
  <1> QED
    BY <1>2, SlotStep, PTL DEF Spec

\* For any sources and patterns, whatever the pushes carry and however many
\* requests overlap: once the servers are at rest after a recomputation that no
\* other request overlapped, the sender reads the wired source, the generator with
\* its thread on, or the still frame in the file, as the priorities say.
THEOREM SettledCorrect == Spec => []Settled
  <1>1. SlotKept => Settled
    BY RightSettled DEF SlotKept, TypeInv, SlotInv
  <1> QED
    BY <1>1, SlotCorrect, PTL

\* A section that writes the output reads what was wired.
LEMMA HoldsStep ==
  ASSUME TypeInv, SlotInv, [Next]_vars, NEW s \in Source,
         active, shmIn = s, cable = s, cable' = s, requests' = requests
  PROVE  shmIn' = s
  <1>0. s # None
    BY SlotAssumption
  <1>1. ASSUME Request PROVE FALSE
    <2>1. \A x, p : ~Begin(x, p)
      BY DEF Begin, TypeInv, TypeOK
    <2> QED
      BY <1>1, <2>1 DEF Request, Input, InputOther, GenTx, TestOn, TestOff, Ident, Tx
  <1>2. ASSUME NEW x \in Server, Apply(x) PROVE shmIn' = s
    <2>1. AtChoice(x)
      BY DEF SlotInv
    <2>2. CASE Cap(x) \/ Wire(x) \/ Drop(x) \/ FillOut(x)
      BY <1>0, <2>1, <2>2 DEF Cap, Wire, Drop, FillOut, Write, Switch, AtChoice, Fills
    <2>3. CASE ReadTx(x) \/ ReadGen(x) \/ Fill(x) \/ Ask(x) \/ Remove(x) \/ Render(x) \/ Put(x)
      BY <2>3 DEF ReadTx, ReadGen, Fill, Ask, AskTx, AskGen, Remove, Render, Put, outputVars
    <2> QED
      BY <1>2, <2>2, <2>3 DEF Apply
  <1>3. CASE TestGen \/ TxUser \/ TxPattern \/ TxFallback \/ Manager \/ Generator \/ UNCHANGED vars
    BY <1>3 DEF TestGen, TxUser, TxPattern, TxFallback, Manager, Generator, vars, restVars, outputVars
  <1> QED
    BY <1>1, <1>2, <1>3 DEF Next, Handler

\* No recomputation, of the fallback, of the generator or of the still frame, takes
\* a wired source off the output while no other request overlaps it, whatever the
\* requests before it did.
THEOREM HoldsCorrect == Spec => WiringHolds
  <1>1. SlotKept /\ [Next]_vars
          => \A s \in Source :
               alone /\ active /\ shmIn = s /\ cable = s /\ cable' = s /\ requests' = requests
                 => shmIn' = s
    BY HoldsStep DEF SlotKept
  <1> QED
    BY <1>1, SlotCorrect, PTL DEF Spec, WiringHolds
=============================================================================
