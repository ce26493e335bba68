---------------------------- MODULE DaemonProofs -----------------------------
(***************************************************************************)
(* Theorems about Daemon for every set of sessions, names and connections, *)
(* every configuration and every number of reloads.  The type invariant is *)
(* proved first (it already says that nothing in use has been freed); the  *)
(* others are inductive given it, ClientOfOne and ShownIsServed once it is *)
(* added where else in a switch they must hold.                            *)
(***************************************************************************)
EXTENDS Daemon, TLAPS

LEMMA InitDaemonTypeOK == DaemonInit => DaemonTypeOK
  <1> SUFFICES ASSUME DaemonInit PROVE DaemonTypeOK
    OBVIOUS
  <1> USE DaemonAssumption
  <1>1. WorldTypeOK
    BY DEF DaemonInit, LifeInit, WorldTypeOK
  <1>2. ConnsTypeOK
    BY DEF DaemonInit, ConnsTypeOK, NoReq, Request, Before
  <1>3. \A c \in Conns : HandlesLive(c)
    BY DEF DaemonInit, HandlesLive, Unattached, Switching, Moving
  <1> QED
    BY <1>1, <1>2, <1>3 DEF DaemonTypeOK

LEMMA RequestType ==
  /\ NoReq \in Request
  /\ \A n \in Names, b \in BOOLEAN, v \in 0 .. MaxReloads :
       [name |-> n, create |-> b, conf |-> v] \in Request
  /\ \A r \in Request : r.name \in Names /\ r.create \in BOOLEAN /\ r.conf \in 0 .. MaxReloads
  /\ 0 \in 0 .. MaxReloads
  BY DaemonAssumption DEF NoReq, Request

(* What a successful build leaves: its result exists, nothing stopped      *)
(* existing, and every mapped session still exists.                        *)
LEMMA Built ==
  ASSUME WorldTypeOK, NEW s \in Sessions, NEW n \in Names, NEW v \in 0 .. MaxReloads,
         Insert(s, n, v) \/ CreateDeclared(s, n, v),
         killing' = killing, version' = version, clients' = clients,
         todo' \in SUBSET (Names \X (0 .. MaxReloads))
  PROVE  /\ WorldTypeOK'
         /\ phase'[s] # "none"
         /\ \A t \in Sessions : phase[t] # "none" => phase'[t] # "none"
  <1>1. ASSUME Insert(s, n, v)
        PROVE  /\ WorldTypeOK' /\ phase'[s] # "none"
               /\ \A t \in Sessions : phase[t] # "none" => phase'[t] # "none"
    <2>1. /\ phase'   = [phase EXCEPT ![s] = "live"]
          /\ closing' = closing
          /\ reg'     = [reg EXCEPT ![n] = s]
          /\ name'    = [name EXCEPT ![s] = n]
          /\ conf'    = [conf EXCEPT ![s] = v]
      BY <1>1 DEF Insert, Born
    <2>2. phase'[s] # "none" /\ \A t \in Sessions : phase[t] # "none" => phase'[t] # "none"
      BY <2>1 DEF WorldTypeOK
    <2>3. \A m \in Names : reg'[m] # None => phase'[reg'[m]] # "none"
      BY <2>1, <2>2 DEF WorldTypeOK
    <2>4. WorldTypeOK'
      BY <2>1, <2>2, <2>3 DEF WorldTypeOK
    <2> QED
      BY <2>2, <2>4
  <1>2. ASSUME CreateDeclared(s, n, v), Found(n) # None
        PROVE  /\ WorldTypeOK' /\ phase'[s] # "none"
               /\ \A t \in Sessions : phase[t] # "none" => phase'[t] # "none"
    <2>1. /\ s = reg[n] /\ reg[n] # None
          /\ phase' = phase /\ closing' = closing /\ reg' = reg /\ name' = name /\ conf' = conf
      BY <1>2 DEF CreateDeclared, Found, Unbuilt, lifeVars
    <2>2. WorldTypeOK'
      BY <2>1 DEF WorldTypeOK
    <2> QED
      BY <2>1, <2>2 DEF WorldTypeOK
  <1>3. Insert(s, n, v) \/ (CreateDeclared(s, n, v) /\ Found(n) # None)
    BY DEF CreateDeclared
  <1> QED
    BY <1>1, <1>2, <1>3

(* What a lookup yields and leaves.                                        *)
LEMMA Lookup ==
  ASSUME WorldTypeOK, NEW n \in Names
  PROVE  /\ Found(n) \in Sessions \cup {None}
         /\ Found(n) # None => phase[Found(n)] # "none"
         /\ Pruned(n) \in [Names -> Sessions \cup {None}]
         /\ \A m \in Names : Pruned(n)[m] # None => phase[Pruned(n)[m]] # "none"
  BY DaemonAssumption DEF WorldTypeOK, Found, Pruned

LEMMA LookupKeepsWorld ==
  ASSUME WorldTypeOK, NEW n \in Names, reg' = Pruned(n),
         phase' = phase, closing' = closing, name' = name, conf' = conf, clients' = clients,
         killing' = killing, version' = version, todo' = todo
  PROVE  WorldTypeOK'
  BY Lookup DEF WorldTypeOK

LEMMA StillWorld ==
  ASSUME WorldTypeOK, reg' = reg,
         phase' = phase, closing' = closing, name' = name, conf' = conf,
         clients' \in [Sessions -> SUBSET Conns],
         killing' = killing, version' = version, todo' = todo
  PROVE  WorldTypeOK'
  BY DEF WorldTypeOK

(* A step of one connection, the others left alone.                        *)
LEMMA OneConn ==
  ASSUME DaemonTypeOK, NEW c \in Conns, WorldTypeOK', ConnsTypeOK', HandlesLive(c)',
         \A d \in Conns \ {c} : pc'[d] = pc[d] /\ sess'[d] = sess[d] /\ other'[d] = other[d],
         \A t \in Sessions : phase[t] # "none" => phase'[t] # "none"
  PROVE  DaemonTypeOK'
  <1>1. ASSUME NEW d \in Conns \ {c} PROVE HandlesLive(d)'
    <2>1. /\ sess[d] \in Sessions \cup {None} /\ other[d] \in Sessions \cup {None}
          /\ HandlesLive(d)
      BY DEF DaemonTypeOK, ConnsTypeOK
    <2> QED
      BY <2>1 DEF HandlesLive
  <1> QED
    BY <1>1 DEF DaemonTypeOK

(* A step that leaves the connections alone.                               *)
LEMMA NoConn ==
  ASSUME DaemonTypeOK, WorldTypeOK',
         pc' = pc, req' = req, sess' = sess, other' = other,
         rend' \in [Conns -> Sessions \cup {None, "exited"}],
         \A t \in Sessions : phase[t] # "none" =>
              \/ phase'[t] # "none"
              \/ \A c \in Conns : t \notin {sess[c], other[c]}
  PROVE  DaemonTypeOK'
  <1>1. ConnsTypeOK'
    BY DEF DaemonTypeOK, ConnsTypeOK
  <1>2. ASSUME NEW d \in Conns PROVE HandlesLive(d)'
    <2>1. /\ sess[d] \in Sessions \cup {None} /\ other[d] \in Sessions \cup {None}
          /\ HandlesLive(d)
      BY DEF DaemonTypeOK, ConnsTypeOK
    <2> QED
      BY <2>1 DEF HandlesLive
  <1> QED
    BY <1>1, <1>2 DEF DaemonTypeOK

(* The steps of a connection that look nothing up and build nothing.       *)
PlainStep(c) ==
  \/ Refused(c) \/ RegisterCheck(c) \/ RegisterPush(c) \/ Announce(c) \/ SwitchCheck(c)
  \/ SwitchPush(c) \/ SwitchBind(c) \/ SwitchLeave(c) \/ Stop(c) \/ Cleanup(c) \/ InputPanic(c)

LEMMA PlainKeepsWorld ==
  ASSUME DaemonTypeOK, NEW c \in Conns, PlainStep(c)
  PROVE  WorldTypeOK' /\ phase' = phase
  <1>1. /\ phase' = phase /\ closing' = closing /\ reg' = reg /\ name' = name /\ conf' = conf
        /\ killing' = killing /\ version' = version /\ todo' = todo
    BY DEF PlainStep, Refused, RegisterCheck, RegisterPush, Announce, SwitchCheck, SwitchPush,
       SwitchBind, SwitchLeave, Stop, Cleanup, InputPanic, lifeVars, regVars, sessVars
  <1>2. \/ clients' = clients
        \/ \E s : \/ clients' = [clients EXCEPT ![s] = @ \cup {c}]
                 \/ clients' = [clients EXCEPT ![s] = @ \ {c}]
    BY DEF PlainStep, Refused, RegisterCheck, RegisterPush, Announce, SwitchCheck, SwitchPush,
       SwitchBind, SwitchLeave, Stop, Cleanup, InputPanic, sessVars
  <1>3. clients' \in [Sessions -> SUBSET Conns]
    BY <1>2 DEF DaemonTypeOK, WorldTypeOK
  <1> QED
    BY <1>1, <1>3, StillWorld DEF DaemonTypeOK

(* A plain step of c leaves it at p with x and y in hand.                  *)
LEMMA PlainMoves ==
  ASSUME DaemonTypeOK, NEW c \in Conns, PlainStep(c), NEW p, NEW x, NEW y,
         pc' = [pc EXCEPT ![c] = p],
         sess' = [sess EXCEPT ![c] = x] \/ (sess' = sess /\ x = sess[c]),
         other' = [other EXCEPT ![c] = y] \/ (other' = other /\ y = other[c]),
         req' = req, rend' \in [Conns -> Sessions \cup {None, "exited"}],
         p \in Before \cup Serving \cup Moving \cup Gone,
         x \in {sess[c], other[c], None}, y \in {sess[c], other[c], None},
         x = None <=> p \in Unattached, y = None <=> p \notin Switching
  PROVE  DaemonTypeOK'
  <1>1. WorldTypeOK' /\ phase' = phase
    BY PlainKeepsWorld
  <1>2. /\ sess[c] \in Sessions \cup {None} /\ other[c] \in Sessions \cup {None}
        /\ HandlesLive(c)
    BY DEF DaemonTypeOK, ConnsTypeOK
  <1>3. ConnsTypeOK'
    BY <1>2 DEF DaemonTypeOK, ConnsTypeOK
  <1>4. /\ pc'[c] = p /\ sess'[c] = x /\ other'[c] = y
        /\ \A d \in Conns \ {c} : pc'[d] = pc[d] /\ sess'[d] = sess[d] /\ other'[d] = other[d]
    BY DEF DaemonTypeOK, ConnsTypeOK
  <1>5. HandlesLive(c)'
    BY <1>1, <1>2, <1>4 DEF HandlesLive
  <1> QED
    BY <1>1, <1>3, <1>4, <1>5, OneConn

LEMMA PlainKeepsType == ASSUME DaemonTypeOK, NEW c \in Conns, PlainStep(c) PROVE DaemonTypeOK'
  <1>0. /\ sess[c] \in Sessions \cup {None} /\ other[c] \in Sessions \cup {None}
        /\ pc[c] \in Unattached <=> sess[c] = None
        /\ pc[c] \in Switching <=> other[c] # None
        /\ rend \in [Conns -> Sessions \cup {None, "exited"}]
    BY DEF DaemonTypeOK, ConnsTypeOK, HandlesLive
  <1> USE DEF Before, Serving, Moving, Gone, Unattached, Switching
  <1>1. CASE Refused(c)
    <2>1. /\ pc[c] = "exists" /\ pc' = [pc EXCEPT ![c] = "idle"]
          /\ sess' = sess /\ other' = other /\ req' = req
      BY <1>1 DEF Refused, At, Goto, connVars
    <2>2. rend' \in [Conns -> Sessions \cup {None, "exited"}]
      BY <1>0, <1>1 DEF Refused
    <2> QED
      BY <1>0, <2>1, <2>2, PlainMoves
  <1>2. CASE RegisterPush(c)
    <2>1. /\ pc[c] = "push" /\ pc' = [pc EXCEPT ![c] = "announce"]
          /\ sess' = sess /\ other' = other /\ req' = req
      BY <1>2 DEF RegisterPush, At, Goto, connVars
    <2>2. rend' \in [Conns -> Sessions \cup {None, "exited"}]
      BY <1>0, <1>2 DEF RegisterPush
    <2> QED
      BY <1>0, <2>1, <2>2, PlainMoves
  <1>3. CASE SwitchPush(c)
    <2>1. /\ pc[c] = "switch-push" /\ pc' = [pc EXCEPT ![c] = "switch-bind"]
          /\ sess' = sess /\ other' = other /\ req' = req
      BY <1>3 DEF SwitchPush, At, Goto, connVars
    <2>2. rend' \in [Conns -> Sessions \cup {None, "exited"}]
      BY <1>0, <1>3 DEF SwitchPush
    <2> QED
      BY <1>0, <2>1, <2>2, PlainMoves
  <1>4. CASE SwitchBind(c)
    <2>1. /\ pc[c] = "switch-bind" /\ pc' = [pc EXCEPT ![c] = "switch-leave"]
          /\ sess' = [sess EXCEPT ![c] = other[c]] /\ other' = [other EXCEPT ![c] = sess[c]] /\ req' = req
      BY <1>4 DEF SwitchBind, At, Goto, connVars
    <2>2. rend' \in [Conns -> Sessions \cup {None, "exited"}]
      BY <1>0, <1>4 DEF SwitchBind
    <2> QED
      BY <1>0, <2>1, <2>2, PlainMoves
  <1>5. CASE SwitchLeave(c)
    <2>1. /\ pc[c] = "switch-leave" /\ pc' = [pc EXCEPT ![c] = "serve"]
          /\ sess' = sess /\ other' = [other EXCEPT ![c] = None] /\ req' = req
      BY <1>5 DEF SwitchLeave, At, Goto, connVars
    <2>2. rend' \in [Conns -> Sessions \cup {None, "exited"}]
      BY <1>0, <1>5 DEF SwitchLeave
    <2> QED
      BY <1>0, <2>1, <2>2, PlainMoves
  <1>6. CASE Stop(c)
    <2>1. /\ pc[c] = "serve" /\ pc' = [pc EXCEPT ![c] = "cleanup"]
          /\ sess' = sess /\ other' = other /\ req' = req
      BY <1>6 DEF Stop, At, Goto, connVars
    <2>2. rend' \in [Conns -> Sessions \cup {None, "exited"}]
      BY <1>0, <1>6 DEF Stop
    <2> QED
      BY <1>0, <2>1, <2>2, PlainMoves
  <1>7. CASE Cleanup(c)
    <2>1. /\ pc[c] = "cleanup" /\ pc' = [pc EXCEPT ![c] = "idle"]
          /\ sess' = [sess EXCEPT ![c] = None] /\ other' = other /\ req' = req
      BY <1>7 DEF Cleanup, At, Goto, connVars
    <2>2. rend' \in [Conns -> Sessions \cup {None, "exited"}]
      BY <1>0, <1>7 DEF Cleanup
    <2> QED
      BY <1>0, <2>1, <2>2, PlainMoves
  <1>8. CASE InputPanic(c)
    <2>1. /\ pc[c] = "serve" /\ pc' = [pc EXCEPT ![c] = "panicked"]
          /\ sess' = [sess EXCEPT ![c] = None] /\ other' = other /\ req' = req
      BY <1>8 DEF InputPanic, At, Goto, connVars
    <2>2. rend' \in [Conns -> Sessions \cup {None, "exited"}]
      BY <1>0, <1>8 DEF InputPanic
    <2> QED
      BY <1>0, <2>1, <2>2, PlainMoves
  <1>9. CASE RegisterCheck(c)
    <2>1. pc[c] = "check" /\ other' = other /\ req' = req /\ rend' = rend
      BY <1>9 DEF RegisterCheck, At
    <2>2. CASE closing[sess[c]]
      <3>1. pc' = [pc EXCEPT ![c] = "idle"] /\ sess' = [sess EXCEPT ![c] = None]
        BY <1>9, <2>2 DEF RegisterCheck, Goto
      <3> QED
        BY <1>0, <2>1, <3>1, PlainMoves
    <2>3. CASE ~closing[sess[c]]
      <3>1. pc' = [pc EXCEPT ![c] = "push"] /\ sess' = [sess EXCEPT ![c] = sess[c]]
        BY <1>9, <2>3 DEF RegisterCheck, Goto
      <3> QED
        BY <1>0, <2>1, <3>1, PlainMoves
    <2> QED
      BY <2>2, <2>3
  <1>10. CASE SwitchCheck(c)
    <2>1. pc[c] = "switch-check" /\ sess' = sess /\ req' = req /\ rend' = rend
      BY <1>10 DEF SwitchCheck, At
    <2>2. CASE closing[other[c]]
      <3>1. pc' = [pc EXCEPT ![c] = "serve"] /\ other' = [other EXCEPT ![c] = None]
        BY <1>10, <2>2 DEF SwitchCheck, Goto
      <3> QED
        BY <1>0, <2>1, <3>1, PlainMoves
    <2>3. CASE ~closing[other[c]]
      <3>1. pc' = [pc EXCEPT ![c] = "switch-push"] /\ other' = [other EXCEPT ![c] = other[c]]
        BY <1>10, <2>3 DEF SwitchCheck, Goto
      <3> QED
        BY <1>0, <2>1, <3>1, PlainMoves
    <2> QED
      BY <2>2, <2>3
  <1>11. CASE Announce(c)
    <2>1. pc[c] = "announce" /\ other' = other /\ req' = req
      BY <1>11 DEF Announce, At
    <2>2. rend' \in [Conns -> Sessions \cup {None, "exited"}]
      BY <1>0, <1>11 DEF Announce
    <2>3. CASE pc' = [pc EXCEPT ![c] = "serve"] /\ sess' = sess
      BY <1>0, <2>1, <2>2, <2>3, PlainMoves
    <2>4. CASE pc' = [pc EXCEPT ![c] = "lost"] /\ sess' = [sess EXCEPT ![c] = None]
      BY <1>0, <2>1, <2>2, <2>4, PlainMoves
    <2> QED
      BY <1>11, <2>3, <2>4 DEF Announce, Goto
  <1> QED
    BY <1>1, <1>2, <1>3, <1>4, <1>5, <1>6, <1>7, <1>8, <1>9, <1>10, <1>11 DEF PlainStep

LEMMA NextDaemonTypeOK == DaemonTypeOK /\ [DaemonNext]_daemonVars => DaemonTypeOK'
  <1> SUFFICES ASSUME DaemonTypeOK, [DaemonNext]_daemonVars PROVE DaemonTypeOK'
    OBVIOUS
  <1>0. /\ WorldTypeOK /\ ConnsTypeOK
        /\ \A c \in Conns : /\ HandlesLive(c)
                            /\ sess[c] \in Sessions \cup {None} /\ other[c] \in Sessions \cup {None}
                            /\ Wanted(c) \in Names /\ req[c].conf \in 0 .. MaxReloads
        /\ clients \in [Sessions -> SUBSET Conns]
        /\ rend \in [Conns -> Sessions \cup {None, "exited"}]
    BY RequestType DEF DaemonTypeOK, WorldTypeOK, ConnsTypeOK, Wanted
  <1>1. CASE UNCHANGED daemonVars
    <2>1. WorldTypeOK'
      BY <1>0, <1>1, StillWorld DEF daemonVars, lifeVars, regVars, sessVars
    <2> QED
      BY <1>0, <1>1, <2>1, NoConn DEF daemonVars, lifeVars, connVars
  <1>2. CASE DaemonNext
    <2> USE DEF lifeVars, regVars, sessVars, connVars
    <2>1. ASSUME NEW n \in Names, KillRemove(n) PROVE DaemonTypeOK'
      <3>1. WorldTypeOK'
        <4>1. /\ reg[n] \in Sessions /\ phase[reg[n]] # "none"
              /\ reg' = [reg EXCEPT ![n] = None] /\ killing' = killing \cup {reg[n]}
          BY <1>0, <2>1 DEF KillRemove, WorldTypeOK
        <4>2. /\ phase' = phase /\ closing' = closing /\ name' = name /\ conf' = conf
              /\ clients' = clients /\ version' = version /\ todo' = todo
          BY <2>1 DEF KillRemove
        <4> QED
          BY <1>0, <4>1, <4>2 DEF WorldTypeOK
      <3> QED
        BY <1>0, <2>1, <3>1, NoConn DEF KillRemove
    <2>2. ASSUME NEW n \in Names, NEW v \in 0 .. MaxReloads, BuildDeclared(n, v) PROVE DaemonTypeOK'
      <3>0. /\ todo' \in SUBSET (Names \X (0 .. MaxReloads))
            /\ killing' = killing /\ version' = version /\ clients' = clients
            /\ pc' = pc /\ req' = req /\ sess' = sess /\ other' = other /\ rend' = rend
        BY <1>0, <2>2 DEF BuildDeclared, WorldTypeOK
      <3>1. ASSUME NEW s \in Sessions, CreateDeclared(s, n, v) PROVE DaemonTypeOK'
        <4>1. /\ WorldTypeOK'
              /\ \A t \in Sessions : phase[t] # "none" => phase'[t] # "none"
          BY <1>0, <3>0, <3>1, Built
        <4> QED
          BY <1>0, <3>0, <4>1, NoConn
      <3>2. CASE Unbuilt
        <4>1. WorldTypeOK'
          BY <1>0, <3>0, <3>2 DEF Unbuilt, WorldTypeOK
        <4> QED
          BY <1>0, <3>0, <3>2, <4>1, NoConn DEF Unbuilt
      <3> QED
        BY <2>2, <3>1, <3>2 DEF BuildDeclared
    <2>3. ASSUME NEW o \in Names, NEW n \in Names, Rename(o, n) PROVE DaemonTypeOK'
      <3>1. /\ reg[o] \in Sessions /\ phase[reg[o]] # "none"
            /\ reg' = [reg EXCEPT ![n] = reg[o], ![o] = None]
            /\ name' = [name EXCEPT ![reg[o]] = n]
        BY <1>0, <2>3 DEF Rename, WorldTypeOK
      <3>2. /\ phase' = phase /\ closing' = closing /\ conf' = conf
            /\ clients' = clients /\ killing' = killing /\ version' = version /\ todo' = todo
        BY <2>3 DEF Rename
      <3>3. reg' \in [Names -> Sessions \cup {None}]
        BY <1>0, <3>1 DEF WorldTypeOK
      <3>4. name' \in [Sessions -> Names \cup {None}]
        BY <1>0, <3>1 DEF WorldTypeOK
      <3>5. \A m \in Names : reg'[m] # None => phase[reg'[m]] # "none"
        BY <1>0, <3>1 DEF WorldTypeOK
      <3>6. WorldTypeOK'
        BY <1>0, <3>2, <3>3, <3>4, <3>5 DEF WorldTypeOK
      <3> QED
        BY <1>0, <2>3, <3>2, <3>6, NoConn DEF Rename
    <2>4. CASE List
      <3>1. /\ reg' = [m \in Names |-> Found(m)]
            /\ phase' = phase /\ closing' = closing /\ name' = name /\ conf' = conf
            /\ clients' = clients /\ killing' = killing /\ version' = version /\ todo' = todo
        BY <2>4 DEF List
      <3>2. \A m \in Names : reg'[m] \in Sessions \cup {None} /\ (reg'[m] # None => phase[reg'[m]] # "none")
        BY <1>0, <3>1, Lookup
      <3>3. WorldTypeOK'
        BY <1>0, <3>1, <3>2 DEF WorldTypeOK
      <3> QED
        BY <1>0, <2>4, <3>1, <3>3, NoConn DEF List
    <2>5. CASE Reload
      <3>1. /\ version' \in 0 .. MaxReloads
            /\ conf' \in [Sessions -> 0 .. MaxReloads]
            /\ todo' \in SUBSET (Names \X (0 .. MaxReloads))
        <4>1. version' \in 0 .. MaxReloads
          BY <1>0, <2>5, DaemonAssumption DEF Reload, WorldTypeOK
        <4>2. conf' \in [Sessions -> 0 .. MaxReloads]
          BY <1>0, <2>5, <4>1 DEF Reload, WorldTypeOK
        <4>3. Declared[version'] \in SUBSET Names
          BY <4>1, DaemonAssumption
        <4>4. todo' = todo \cup (Declared[version'] \X {version'})
          BY <2>5 DEF Reload
        <4>5. todo' \in SUBSET (Names \X (0 .. MaxReloads))
          BY <1>0, <4>1, <4>3, <4>4 DEF WorldTypeOK
        <4> QED
          BY <4>1, <4>2, <4>5
      <3>2. /\ phase' = phase /\ closing' = closing /\ reg' = reg /\ name' = name
            /\ clients' = clients /\ killing' = killing
        BY <2>5 DEF Reload
      <3>3. WorldTypeOK'
        BY <1>0, <3>1, <3>2 DEF WorldTypeOK
      <3> QED
        BY <1>0, <2>5, <3>2, <3>3, NoConn DEF Reload
    <2>6. ASSUME NEW c \in Conns, Attach(c) PROVE DaemonTypeOK'
      <3>1. /\ pc[c] = "idle" /\ phase' = phase
            /\ sess' = sess /\ other' = other /\ rend' = rend
            /\ clients' = clients
        BY <2>6 DEF Attach, At
      <3>2. WorldTypeOK'
        BY <1>0, <2>6, StillWorld DEF Attach
      <3>3. req' \in [Conns -> Request]
        <4>1. PICK n \in Names, b \in BOOLEAN : req' = [req EXCEPT ![c] = [name |-> n, create |-> b, conf |-> 0]]
          BY <2>6, DaemonAssumption DEF Attach, Ask
        <4> QED
          BY <1>0, <4>1, RequestType DEF ConnsTypeOK
      <3>4. PICK p \in {"resolve", "attach"} : pc' = [pc EXCEPT ![c] = p]
        BY <2>6 DEF Attach, Goto
      <3>5. ConnsTypeOK'
        BY <1>0, <3>1, <3>3, <3>4 DEF ConnsTypeOK, Before
      <3>6. pc'[c] = p /\ \A d \in Conns \ {c} : pc'[d] = pc[d]
        BY <1>0, <3>4 DEF ConnsTypeOK
      <3>7. HandlesLive(c)'
        BY <1>0, <3>1, <3>6 DEF HandlesLive, Unattached, Switching, Moving
      <3> QED
        BY <1>0, <3>1, <3>2, <3>5, <3>6, <3>7, OneConn
    <2>7. ASSUME NEW c \in Conns, Resolve(c) \/ AttachFast(c) PROVE DaemonTypeOK'
      <3> DEFINE t == Found(Wanted(c))
      <3>1. /\ pc[c] \in {"resolve", "attach"} /\ phase' = phase
            /\ reg' = Pruned(Wanted(c))
            /\ sess' = [sess EXCEPT ![c] = t]
            /\ other' = other /\ rend' = rend
        BY <2>7 DEF Resolve, AttachFast, At
      <3>2. WorldTypeOK'
        BY <1>0, <2>7, <3>1, LookupKeepsWorld DEF Resolve, AttachFast
      <3>3. req' \in [Conns -> Request]
        BY <1>0, <2>7, RequestType DEF Resolve, AttachFast, Answered, ConnsTypeOK
      <3>4. PICK p \in IF t = None THEN {"attach", "idle", "build"} ELSE {"check"} :
                 pc' = [pc EXCEPT ![c] = p]
        BY <2>7 DEF Resolve, AttachFast, Goto
      <3>5. t \in Sessions \cup {None} /\ (t # None => phase[t] # "none")
        BY <1>0, Lookup
      <3>6. ConnsTypeOK'
        <4> HIDE DEF t
        <4> QED
          BY <1>0, <3>1, <3>3, <3>4, <3>5 DEF ConnsTypeOK, Before
      <3>7. /\ pc'[c] = p /\ \A d \in Conns \ {c} : pc'[d] = pc[d]
            /\ sess'[c] = t /\ \A d \in Conns \ {c} : sess'[d] = sess[d]
        BY <1>0, <3>1, <3>4 DEF ConnsTypeOK
      <3>8. HandlesLive(c)'
        <4> HIDE DEF t
        <4> QED
          BY <1>0, <3>1, <3>4, <3>5, <3>7 DEF HandlesLive, Unattached, Switching, Moving, Gone
      <3> QED
        BY <1>0, <3>1, <3>2, <3>6, <3>7, <3>8, OneConn
    <2>8. ASSUME NEW c \in Conns, AttachBuild(c) PROVE DaemonTypeOK'
      <3>0. todo' \in SUBSET (Names \X (0 .. MaxReloads))
        BY <1>0, <2>8 DEF AttachBuild, WorldTypeOK
      <3>1. /\ pc[c] = "build"
            /\ killing' = killing /\ version' = version /\ todo' = todo /\ clients' = clients
            /\ other' = other /\ rend' = rend
        BY <2>8 DEF AttachBuild, At
      <3>2. req' \in [Conns -> Request]
        BY <1>0, <2>8, RequestType DEF AttachBuild, Answered, ConnsTypeOK
      <3>3. ASSUME NEW s \in Sessions,
                   \/ Insert(s, Wanted(c), req[c].conf)
                   \/ CreateDeclared(s, Wanted(c), req[c].conf),
                   sess' = [sess EXCEPT ![c] = s], pc' = [pc EXCEPT ![c] = "check"]
            PROVE  DaemonTypeOK'
        <4>1. /\ WorldTypeOK' /\ phase'[s] # "none"
              /\ \A u \in Sessions : phase[u] # "none" => phase'[u] # "none"
          BY <1>0, <3>0, <3>1, <3>3, Built
        <4>2. ConnsTypeOK'
          BY <1>0, <3>1, <3>2, <3>3 DEF ConnsTypeOK, Before
        <4>3. /\ pc'[c] = "check" /\ \A d \in Conns \ {c} : pc'[d] = pc[d]
              /\ sess'[c] = s /\ \A d \in Conns \ {c} : sess'[d] = sess[d]
          BY <1>0, <3>3 DEF ConnsTypeOK
        <4>4. HandlesLive(c)'
          BY <1>0, <3>1, <4>1, <4>3, DaemonAssumption DEF HandlesLive, Unattached, Switching, Moving, Gone
        <4> QED
          BY <3>1, <4>1, <4>2, <4>3, <4>4, OneConn
      <3>4. ASSUME NEW p \in {"exists", "idle"}, pc' = [pc EXCEPT ![c] = p], Unbuilt, sess' = sess
            PROVE  DaemonTypeOK'
        <4>1. WorldTypeOK' /\ phase' = phase
          BY <1>0, <3>1, <3>4, StillWorld DEF Unbuilt
        <4>2. ConnsTypeOK'
          BY <1>0, <3>1, <3>2, <3>4 DEF ConnsTypeOK, Before
        <4>3. pc'[c] = p /\ \A d \in Conns \ {c} : pc'[d] = pc[d]
          BY <1>0, <3>4 DEF ConnsTypeOK
        <4>4. HandlesLive(c)'
          BY <1>0, <3>1, <3>4, <4>1, <4>3 DEF HandlesLive, Unattached, Switching, Moving, Gone
        <4> QED
          BY <3>1, <3>4, <4>1, <4>2, <4>3, <4>4, OneConn
      <3> QED
        BY <2>8, <3>3, <3>4 DEF AttachBuild, Goto
    <2>10. ASSUME NEW c \in Conns, PlainStep(c) PROVE DaemonTypeOK'
      BY <2>10, PlainKeepsType
    <2>11. ASSUME NEW c \in Conns, NEW n \in Names, SwitchResolve(c, n) PROVE DaemonTypeOK'
      <3>1. /\ pc[c] = "serve" /\ phase' = phase /\ reg' = Pruned(n)
            /\ sess' = sess /\ rend' = rend
        BY <2>11 DEF SwitchResolve, At
      <3>2. WorldTypeOK'
        BY <1>0, <2>11, <3>1, LookupKeepsWorld DEF SwitchResolve
      <3>3. CASE /\ Found(n) # None
                 /\ other' = [other EXCEPT ![c] = Found(n)]
                 /\ pc' = [pc EXCEPT ![c] = "switch-check"] /\ req' = req
        <4>1. Found(n) \in Sessions /\ phase[Found(n)] # "none"
          BY <1>0, <3>3, Lookup
        <4>2. ConnsTypeOK'
          BY <1>0, <3>1, <3>3, <4>1 DEF ConnsTypeOK, Serving
        <4>3. /\ pc'[c] = "switch-check" /\ \A d \in Conns \ {c} : pc'[d] = pc[d]
              /\ other'[c] = Found(n) /\ \A d \in Conns \ {c} : other'[d] = other[d]
          BY <1>0, <3>3 DEF ConnsTypeOK
        <4>4. HandlesLive(c)'
          BY <1>0, <3>1, <3>3, <4>1, <4>3 DEF HandlesLive, Unattached, Switching, Moving, Gone
        <4> QED
          BY <3>1, <3>2, <4>2, <4>3, <4>4, OneConn
      <3>4. CASE /\ Ask(c, n, FALSE, conf[sess[c]])
                 /\ pc' = [pc EXCEPT ![c] = "switch-build"] /\ other' = other
        <4>1. sess[c] \in Sessions
          BY <1>0, <3>1 DEF HandlesLive, Unattached, Gone
        <4>2. conf[sess[c]] \in 0 .. MaxReloads
          BY <1>0, <4>1 DEF WorldTypeOK
        <4>3. req' \in [Conns -> Request]
          BY <1>0, <3>4, <4>2, RequestType DEF Ask, ConnsTypeOK
        <4>4. ConnsTypeOK'
          BY <1>0, <3>1, <3>4, <4>3 DEF ConnsTypeOK, Serving
        <4>5. pc'[c] = "switch-build" /\ \A d \in Conns \ {c} : pc'[d] = pc[d]
          BY <1>0, <3>4 DEF ConnsTypeOK
        <4>6. HandlesLive(c)'
          BY <1>0, <3>1, <3>4, <4>5 DEF HandlesLive, Unattached, Switching, Moving, Gone
        <4> QED
          BY <3>1, <3>2, <3>4, <4>4, <4>5, <4>6, OneConn
      <3> QED
        BY <2>11, <3>3, <3>4 DEF SwitchResolve, Goto
    <2>12. ASSUME NEW c \in Conns, SwitchBuild(c) PROVE DaemonTypeOK'
      <3>0. todo' \in SUBSET (Names \X (0 .. MaxReloads))
        BY <1>0, <2>12 DEF SwitchBuild, WorldTypeOK
      <3>1. /\ pc[c] = "switch-build"
            /\ killing' = killing /\ version' = version /\ todo' = todo /\ clients' = clients
            /\ sess' = sess /\ rend' = rend
        BY <2>12 DEF SwitchBuild, At
      <3>2. req' \in [Conns -> Request]
        BY <1>0, <2>12, RequestType DEF SwitchBuild, Answered, ConnsTypeOK
      <3>3. sess[c] # None /\ other[c] = None /\ phase[sess[c]] # "none"
        BY <1>0, <3>1 DEF HandlesLive, Unattached, Switching, Moving, Gone
      <3>4. ASSUME pc' = [pc EXCEPT ![c] = "serve"], other' = other, WorldTypeOK',
                   \A u \in Sessions : phase[u] # "none" => phase'[u] # "none"
            PROVE  DaemonTypeOK'
        <4>1. ConnsTypeOK'
          BY <1>0, <3>1, <3>2, <3>4 DEF ConnsTypeOK, Serving
        <4>2. pc'[c] = "serve" /\ \A d \in Conns \ {c} : pc'[d] = pc[d]
          BY <1>0, <3>4 DEF ConnsTypeOK
        <4>3. HandlesLive(c)'
          BY <1>0, <3>1, <3>3, <3>4, <4>2 DEF HandlesLive, Unattached, Switching, Moving, Gone
        <4> QED
          BY <3>1, <3>4, <4>1, <4>2, <4>3, OneConn
      <3>5. ASSUME NEW s \in Sessions, CreateDeclared(s, Wanted(c), req[c].conf)
            PROVE  /\ WorldTypeOK' /\ phase'[s] # "none"
                   /\ \A u \in Sessions : phase[u] # "none" => phase'[u] # "none"
        BY <1>0, <3>0, <3>1, <3>5, Built
      <3>6. ASSUME NEW s \in Sessions, CreateDeclared(s, Wanted(c), req[c].conf),
                   pc' = [pc EXCEPT ![c] = "switch-check"], other' = [other EXCEPT ![c] = s]
            PROVE  DaemonTypeOK'
        <4>1. /\ WorldTypeOK' /\ phase'[s] # "none"
              /\ \A u \in Sessions : phase[u] # "none" => phase'[u] # "none"
          BY <3>5, <3>6
        <4>2. ConnsTypeOK'
          BY <1>0, <3>1, <3>2, <3>6 DEF ConnsTypeOK, Serving
        <4>3. /\ pc'[c] = "switch-check" /\ \A d \in Conns \ {c} : pc'[d] = pc[d]
              /\ other'[c] = s /\ \A d \in Conns \ {c} : other'[d] = other[d]
          BY <1>0, <3>6 DEF ConnsTypeOK
        <4>4. HandlesLive(c)'
          BY <1>0, <3>1, <3>3, <4>1, <4>3, DaemonAssumption DEF HandlesLive, Unattached, Switching, Moving, Gone
        <4> QED
          BY <3>1, <4>1, <4>2, <4>3, <4>4, OneConn
      <3>7. ASSUME Unbuilt PROVE WorldTypeOK' /\ phase' = phase
        BY <1>0, <3>1, <3>7, StillWorld DEF Unbuilt
      <3> QED
        BY <2>12, <3>4, <3>5, <3>6, <3>7 DEF SwitchBuild, Goto
    <2>13. ASSUME NEW c \in Conns, RendererExits(c) PROVE DaemonTypeOK'
      <3>1. WorldTypeOK'
        BY <1>0, <2>13, StillWorld DEF RendererExits
      <3>2. rend' \in [Conns -> Sessions \cup {None, "exited"}]
        BY <1>0, <2>13 DEF RendererExits
      <3> QED
        BY <2>13, <3>1, <3>2, NoConn DEF RendererExits
    <2>14. ASSUME NEW s \in Sessions, KillClose(s) PROVE DaemonTypeOK'
      <3>1. /\ phase' \in [Sessions -> {"none", "live", "doomed", "over"}]
            /\ closing' \in [Sessions -> BOOLEAN]
            /\ \A t \in Sessions : phase[t] # "none" => phase'[t] # "none"
        BY <1>0, <2>14 DEF KillClose, Close, WorldTypeOK
      <3>2. /\ killing' = killing \ {s} /\ reg' = reg /\ name' = name /\ conf' = conf
            /\ clients' = clients /\ version' = version /\ todo' = todo
        BY <2>14 DEF KillClose
      <3>3. WorldTypeOK'
        BY <1>0, <3>1, <3>2 DEF WorldTypeOK
      <3> QED
        BY <1>0, <2>14, <3>1, <3>2, <3>3, NoConn DEF KillClose
    <2>15. ASSUME NEW s \in Sessions, Drop(s) PROVE DaemonTypeOK'
      <3>1. /\ phase' = [phase EXCEPT ![s] = "none"] /\ closing' = [closing EXCEPT ![s] = FALSE]
            /\ name' = [name EXCEPT ![s] = None] /\ conf' = [conf EXCEPT ![s] = 0]
            /\ clients' = [clients EXCEPT ![s] = {}]
            /\ reg' = reg /\ killing' = killing /\ version' = version /\ todo' = todo
            /\ s \notin killing /\ \A n \in Names : reg[n] # s
            /\ \A c \in Conns : s \notin {sess[c], other[c]}
        BY <2>15 DEF Drop, Registered
      <3>2. \A t \in Sessions : t # s => phase'[t] = phase[t]
        BY <1>0, <3>1 DEF WorldTypeOK
      <3>3. /\ \A n \in Names : reg'[n] # None => phase'[reg'[n]] # "none"
            /\ \A t \in killing' : phase'[t] # "none"
        BY <1>0, <3>1, <3>2 DEF WorldTypeOK
      <3>4. WorldTypeOK'
        BY <1>0, <3>1, <3>3, RequestType DEF WorldTypeOK
      <3>5. \A t \in Sessions : phase[t] # "none" =>
                \/ phase'[t] # "none"
                \/ \A c \in Conns : t \notin {sess[c], other[c]}
        BY <3>1, <3>2
      <3> QED
        BY <1>0, <2>15, <3>4, <3>5, NoConn DEF Drop
    <2>16. ASSUME NEW s \in Sessions, Alone(Doom(s)) \/ Alone(Break(s)) \/ Alone(WindDown(s))
           PROVE DaemonTypeOK'
      <3>1. /\ phase'   \in [Sessions -> {"none", "live", "doomed", "over"}]
            /\ closing' \in [Sessions -> BOOLEAN]
            /\ \A t \in Sessions : phase[t] # "none" => phase'[t] # "none"
        BY <1>0, <2>16 DEF Alone, Doom, Break, WindDown, End, Close, WorldTypeOK
      <3>2. /\ reg' = reg /\ name' = name /\ conf' = conf /\ clients' = clients
            /\ killing' = killing /\ version' = version /\ todo' = todo
            /\ pc' = pc /\ req' = req /\ sess' = sess /\ other' = other /\ rend' = rend
        BY <2>16 DEF Alone
      <3>3. WorldTypeOK'
        BY <1>0, <3>1, <3>2 DEF WorldTypeOK
      <3> QED
        BY <1>0, <3>1, <3>2, <3>3, NoConn
    <2> QED
      BY <1>2, <2>1, <2>2, <2>3, <2>4, <2>5, <2>6, <2>7, <2>8, <2>10, <2>11, <2>12, <2>13,
         <2>14, <2>15, <2>16
         DEF DaemonNext, ConnStep, StopOnExit, PlainStep
  <1> QED
    BY <1>1, <1>2

(* Every variable stays in its range, and whatever a name is mapped to, a  *)
(* kill is about to close, or a connection has in hand is a session that   *)
(* exists.                                                                 *)
THEOREM DaemonTypeCorrect == DaemonSpec => []DaemonTypeOK
  BY InitDaemonTypeOK, NextDaemonTypeOK, PTL DEF DaemonSpec

-----------------------------------------------------------------------------
(* What a step does to the registry, the names and the lives of the        *)
(* sessions: connections only ever look up or build.                       *)
LooksUp(n)     == reg' = Pruned(n) /\ UNCHANGED <<lifeVars, killing, name>>
Builds(s, n)   == /\ Found(n) = None
                  /\ \E v \in 0 .. MaxReloads : Insert(s, n, v)
                  /\ UNCHANGED killing
RegistryStep ==
  \/ \E n \in Names : LooksUp(n) \/ KillRemove(n)
  \/ \E s \in Sessions, n \in Names : Builds(s, n)
  \/ \E o, n \in Names : Rename(o, n)
  \/ List
  \/ \E s \in Sessions : \/ KillClose(s) \/ Drop(s)
                         \/ Alone(Doom(s)) \/ Alone(Break(s)) \/ Alone(WindDown(s))
  \/ UNCHANGED <<lifeVars, reg, killing, name>>

LEMMA StepOfRegistry ==
  ASSUME DaemonTypeOK, [DaemonNext]_daemonVars
  PROVE  RegistryStep
  <1> USE DEF lifeVars, regVars, sessVars, connVars
  <1>1. CASE UNCHANGED daemonVars
    BY <1>1 DEF daemonVars, RegistryStep
  <1>2. ASSUME NEW s \in Sessions, NEW n \in Names, NEW v \in 0 .. MaxReloads,
               CreateDeclared(s, n, v), UNCHANGED killing
        PROVE  RegistryStep
    BY <1>2 DEF CreateDeclared, Unbuilt, Builds, RegistryStep
  <1>3. ASSUME Unbuilt, UNCHANGED killing PROVE RegistryStep
    BY <1>3 DEF Unbuilt, RegistryStep
  <1>4. ASSUME NEW n \in Names, NEW v \in 0 .. MaxReloads, BuildDeclared(n, v) PROVE RegistryStep
    BY <1>2, <1>3, <1>4 DEF BuildDeclared
  <1>5. ASSUME NEW c \in Conns,
               \/ Attach(c) \/ Refused(c) \/ RegisterCheck(c) \/ RegisterPush(c) \/ Announce(c)
               \/ SwitchCheck(c) \/ SwitchPush(c) \/ SwitchBind(c) \/ SwitchLeave(c)
               \/ RendererExits(c) \/ Stop(c) \/ Cleanup(c) \/ InputPanic(c)
        PROVE  RegistryStep
    BY <1>5 DEF Attach, Refused, RegisterCheck, RegisterPush, Announce, SwitchCheck, SwitchPush,
         SwitchBind, SwitchLeave, RendererExits, Stop, Cleanup, InputPanic, RegistryStep
  <1>6. ASSUME NEW c \in Conns PROVE Wanted(c) \in Names /\ req[c].conf \in 0 .. MaxReloads
    BY RequestType DEF Wanted, DaemonTypeOK, ConnsTypeOK
  <1>7. ASSUME NEW c \in Conns, Resolve(c) \/ AttachFast(c) PROVE RegistryStep
    BY <1>6, <1>7 DEF Resolve, AttachFast, LooksUp, RegistryStep
  <1>8. ASSUME NEW c \in Conns, NEW n \in Names, SwitchResolve(c, n) PROVE RegistryStep
    BY <1>8 DEF SwitchResolve, LooksUp, RegistryStep
  <1>9. ASSUME NEW c \in Conns, AttachBuild(c) PROVE RegistryStep
    <2> DEFINE n == Wanted(c)
               v == req[c].conf
    <2>1. UNCHANGED killing
      BY <1>9 DEF AttachBuild
    <2>2. ASSUME NEW s \in Sessions, reg[n] = None /\ Insert(s, n, v) PROVE RegistryStep
      BY <1>6, <2>1, <2>2 DEF Found, Builds, RegistryStep
    <2> QED
      BY <1>2, <1>3, <1>6, <1>9, <2>1, <2>2 DEF AttachBuild
  <1>10. ASSUME NEW c \in Conns, SwitchBuild(c) PROVE RegistryStep
    BY <1>2, <1>3, <1>6, <1>10 DEF SwitchBuild
  <1>11. CASE Reload
    BY <1>11 DEF Reload, RegistryStep
  <1>12. ASSUME NEW n \in Names, KillRemove(n) PROVE RegistryStep
    BY <1>12 DEF RegistryStep
  <1>13. ASSUME NEW o \in Names, NEW n \in Names, Rename(o, n) PROVE RegistryStep
    BY <1>13 DEF RegistryStep
  <1>14. CASE List
    BY <1>14 DEF RegistryStep
  <1>15. ASSUME NEW s \in Sessions,
                \/ KillClose(s) \/ Drop(s)
                \/ Alone(Doom(s)) \/ Alone(Break(s)) \/ Alone(WindDown(s))
         PROVE  RegistryStep
    BY <1>15 DEF RegistryStep
  <1> QED
    BY <1>1, <1>4, <1>5, <1>7, <1>8, <1>9, <1>10, <1>11, <1>12, <1>13, <1>14, <1>15
       DEF DaemonNext, ConnStep, StopOnExit

LEMMA NextKeyIsName ==
  ASSUME DaemonTypeOK, DaemonTypeOK', KeyIsName, [DaemonNext]_daemonVars
  PROVE  KeyIsName'
  <1> USE DaemonAssumption DEF DaemonTypeOK, WorldTypeOK, KeyIsName, lifeVars, regVars, sessVars, connVars
  <1>1. ASSUME NEW n \in Names, LooksUp(n) PROVE KeyIsName'
    BY <1>1 DEF LooksUp, Pruned, Found
  <1>2. ASSUME NEW n \in Names, KillRemove(n) PROVE KeyIsName'
    BY <1>2 DEF KillRemove
  <1>3. ASSUME NEW s \in Sessions, NEW n \in Names, Builds(s, n) PROVE KeyIsName'
    BY <1>3 DEF Builds, Insert, Born
  <1>4. ASSUME NEW o \in Names, NEW n \in Names, Rename(o, n) PROVE KeyIsName'
    BY <1>4 DEF Rename
  <1>5. CASE List
    BY <1>5 DEF List, Found
  <1>6. ASSUME NEW s \in Sessions, Drop(s) PROVE KeyIsName'
    BY <1>6 DEF Drop, Registered
  <1>7. CASE UNCHANGED <<reg, name>>
    BY <1>7
  <1> QED
    BY <1>1, <1>2, <1>3, <1>4, <1>5, <1>6, <1>7, StepOfRegistry
       DEF RegistryStep, KillClose, Alone

LEMMA NextNoOrphan ==
  ASSUME DaemonTypeOK, DaemonTypeOK', KeyIsName, NoOrphan, [DaemonNext]_daemonVars
  PROVE  NoOrphan'
  <1> USE DaemonAssumption
        DEF DaemonTypeOK, WorldTypeOK, NoOrphan, Registered, lifeVars, regVars, sessVars, connVars
  <1>1. ASSUME NEW n \in Names, LooksUp(n) PROVE NoOrphan'
    BY <1>1 DEF LooksUp, Pruned, Found
  <1>2. ASSUME NEW n \in Names, KillRemove(n) PROVE NoOrphan'
    BY <1>2 DEF KillRemove
  <1>3. ASSUME NEW s \in Sessions, NEW n \in Names, Builds(s, n) PROVE NoOrphan'
    BY <1>3 DEF Builds, Insert, Born, Found
  <1>4. ASSUME NEW o \in Names, NEW n \in Names, Rename(o, n) PROVE NoOrphan'
    <2> SUFFICES ASSUME NEW s \in Sessions, phase[s] # "none", ~closing[s], s \notin killing
                 PROVE  \E k \in Names : reg'[k] = s
      BY <1>4 DEF Rename
    <2>1. PICK m \in Names : reg[m] = s
      OBVIOUS
    <2>2. reg' = [reg EXCEPT ![n] = reg[o], ![o] = None] /\ reg[n] = None
      BY <1>4 DEF Rename
    <2>3. CASE m = o
      <3> reg'[n] = s
        BY <2>1, <2>2, <2>3
      <3> QED
        OBVIOUS
    <2>4. CASE m # o
      <3> reg'[m] = s
        BY <2>1, <2>2, <2>4
      <3> QED
        OBVIOUS
    <2> QED
      BY <2>3, <2>4
  <1>5. CASE List
    BY <1>5 DEF List, Found
  <1>6. ASSUME NEW s \in Sessions, KillClose(s) PROVE NoOrphan'
    BY <1>6 DEF KillClose, Close
  <1>7. ASSUME NEW s \in Sessions, Drop(s) PROVE NoOrphan'
    BY <1>7 DEF Drop
  <1>8. ASSUME NEW s \in Sessions, Alone(Doom(s)) \/ Alone(Break(s)) \/ Alone(WindDown(s))
        PROVE  NoOrphan'
    BY <1>8 DEF Alone, Doom, Break, WindDown, End, Close
  <1>9. CASE UNCHANGED <<lifeVars, reg, killing, name>>
    BY <1>9
  <1> QED
    BY <1>1, <1>2, <1>3, <1>4, <1>5, <1>6, <1>7, <1>8, <1>9, StepOfRegistry DEF RegistryStep

(* The key a session is mapped under is its live name, and it is mapped    *)
(* under no other.                                                         *)
THEOREM KeysAreNames == DaemonSpec => []KeyIsName
  <1>1. DaemonInit => KeyIsName
    BY DEF DaemonInit, KeyIsName
  <1>2. DaemonTypeOK /\ DaemonTypeOK' /\ KeyIsName /\ [DaemonNext]_daemonVars => KeyIsName'
    BY NextKeyIsName
  <1> QED
    BY <1>1, <1>2, DaemonTypeCorrect, PTL DEF DaemonSpec

(* No interleaving of attach, build, prune, rename and kill leaves a       *)
(* running session that no command can end.                                *)
THEOREM NoneIsOrphaned == DaemonSpec => []NoOrphan
  <1>1. DaemonInit => NoOrphan
    BY DEF DaemonInit, LifeInit, NoOrphan
  <1>2. /\ DaemonTypeOK /\ DaemonTypeOK' /\ KeyIsName /\ NoOrphan
        /\ [DaemonNext]_daemonVars
        => NoOrphan'
    BY NextNoOrphan
  <1> QED
    BY <1>1, <1>2, DaemonTypeCorrect, KeysAreNames, PTL DEF DaemonSpec

-----------------------------------------------------------------------------
(* The connections.  ClientOfOne is inductive once a switch is known to be *)
(* between two sessions (or leaving the source would leave the target), and*)
(* ShownIsServed once it is known to hold wherever a switch passes.        *)
Shown == {"serve", "switch-build", "cleanup"} \cup Switching

ConnOf(c) ==
  /\ pc[c] \in Before    => \A s \in Sessions : c \notin clients[s]
  /\ pc[c] \in Serving   => \A s \in Sessions : c \in clients[s] <=> s = sess[c]
  /\ pc[c] \in Moving    => \A s \in Sessions : c \in clients[s] <=> s \in {sess[c], other[c]}
  /\ pc[c] \in Switching => sess[c] # other[c]
  /\ pc[c] \in Shown     => rend[c] \in {sess[c], "exited"}

ConnInv == \A c \in Conns : ConnOf(c)

LEMMA NextConnInv ==
  ASSUME DaemonTypeOK, DaemonTypeOK', ConnInv, [DaemonNext]_daemonVars
  PROVE  ConnInv'
  <1> USE DaemonAssumption
        DEF DaemonTypeOK, WorldTypeOK, ConnsTypeOK, HandlesLive, ConnInv, ConnOf, Shown, Before, Serving, Moving, Gone,
            Unattached, Switching, regVars, sessVars, connVars
  <1>1. CASE UNCHANGED <<clients, connVars>>
    BY <1>1
  <1>2. ASSUME NEW c \in Conns, Attach(c) PROVE ConnInv'
    <2>1. pc' = [pc EXCEPT ![c] = "resolve"] \/ pc' = [pc EXCEPT ![c] = "attach"]
      BY <1>2 DEF Attach, Goto
    <2>2. /\ pc[c] = "idle"
          /\ UNCHANGED <<clients, sess, other, rend>>
      BY <1>2 DEF Attach, At
    <2> QED
      BY <2>1, <2>2
  <1>3. ASSUME NEW c \in Conns, Resolve(c) PROVE ConnInv'
    BY <1>3 DEF Resolve, At, Goto
  <1>4. ASSUME NEW c \in Conns, AttachFast(c) PROVE ConnInv'
    BY <1>4 DEF AttachFast, At, Goto
  <1>5. ASSUME NEW c \in Conns, AttachBuild(c) PROVE ConnInv'
    <2>1. \E l \in {"check", "exists", "idle"} : pc' = [pc EXCEPT ![c] = l]
      BY <1>5 DEF AttachBuild, Goto
    <2>2. /\ pc[c] = "build"
          /\ \A d \in Conns \ {c} : sess'[d] = sess[d]
          /\ UNCHANGED <<clients, other, rend>>
      BY <1>5 DEF AttachBuild, At
    <2> QED
      BY <2>1, <2>2
  <1>6. ASSUME NEW c \in Conns, Refused(c) PROVE ConnInv'
    BY <1>6 DEF Refused, At, Goto
  <1>7. ASSUME NEW c \in Conns, RegisterCheck(c) PROVE ConnInv'
    BY <1>7 DEF RegisterCheck, At, Goto
  <1>8. ASSUME NEW c \in Conns, RegisterPush(c) PROVE ConnInv'
    BY <1>8 DEF RegisterPush, At, Goto
  <1>9. ASSUME NEW c \in Conns, Announce(c) PROVE ConnInv'
    <2>1. pc[c] = "announce" /\ clients' = clients /\ other' = other
      BY <1>9 DEF Announce, At
    <2>2. CASE /\ pc' = [pc EXCEPT ![c] = "serve"]
               /\ rend' = [rend EXCEPT ![c] = sess[c]] /\ sess' = sess
      BY <2>1, <2>2
    <2>3. CASE /\ pc' = [pc EXCEPT ![c] = "lost"]
               /\ sess' = [sess EXCEPT ![c] = None] /\ rend' = rend
      BY <2>1, <2>3
    <2> QED
      BY <1>9, <2>2, <2>3 DEF Announce, Goto
  <1>10. ASSUME NEW c \in Conns, SwitchBuild(c) PROVE ConnInv'
    BY <1>10 DEF SwitchBuild, At, Goto
  <1>11. ASSUME NEW c \in Conns, SwitchCheck(c) PROVE ConnInv'
    BY <1>11 DEF SwitchCheck, At, Goto
  <1>12. ASSUME NEW c \in Conns, SwitchPush(c) PROVE ConnInv'
    BY <1>12 DEF SwitchPush, At, Goto
  <1>13. ASSUME NEW c \in Conns, SwitchBind(c) PROVE ConnInv'
    BY <1>13 DEF SwitchBind, At, Goto
  <1>14. ASSUME NEW c \in Conns, SwitchLeave(c) PROVE ConnInv'
    BY <1>14 DEF SwitchLeave, At, Goto
  <1>15. ASSUME NEW c \in Conns, Cleanup(c) PROVE ConnInv'
    BY <1>15 DEF Cleanup, At, Goto
  <1>16. ASSUME NEW c \in Conns, RendererExits(c) PROVE ConnInv'
    BY <1>16 DEF RendererExits, At, Goto
  <1>17. ASSUME NEW c \in Conns, Stop(c) PROVE ConnInv'
    BY <1>17 DEF Stop, At, Goto
  <1>18. ASSUME NEW c \in Conns, InputPanic(c) PROVE ConnInv'
    BY <1>18 DEF InputPanic, At, Goto
  <1>19. ASSUME NEW c \in Conns, NEW n \in Names, SwitchResolve(c, n) PROVE ConnInv'
    <2>1. pc[c] = "serve" /\ UNCHANGED <<clients, sess, rend>>
      BY <1>19 DEF SwitchResolve, At
    <2>2. CASE /\ name[Found(n)] # name[sess[c]]
               /\ other' = [other EXCEPT ![c] = Found(n)]
               /\ Goto(c, "switch-check")
      BY <2>1, <2>2 DEF Goto
    <2>3. CASE Goto(c, "switch-build") /\ UNCHANGED other
      BY <2>1, <2>3 DEF Goto
    <2> QED
      BY <1>19, <2>2, <2>3 DEF SwitchResolve
  <1>20. ASSUME NEW s \in Sessions, Drop(s) PROVE ConnInv'
    BY <1>20 DEF Drop
  <1> QED
    BY <1>1, <1>2, <1>3, <1>4, <1>5, <1>6, <1>7, <1>8, <1>9, <1>10, <1>11, <1>12, <1>13, <1>14, <1>15, <1>16, <1>17, <1>18, <1>19, <1>20
       DEF DaemonNext, ConnStep, StopOnExit, daemonVars, KillRemove, BuildDeclared, Rename, List,
           Reload, KillClose, Alone

LEMMA ConnInvHolds == DaemonSpec => []ConnInv
  <1>1. DaemonInit => ConnInv
    BY DEF DaemonInit, ConnInv, ConnOf, Before, Serving, Moving, Switching, Shown
  <1>2. DaemonTypeOK /\ DaemonTypeOK' /\ ConnInv /\ [DaemonNext]_daemonVars => ConnInv'
    BY NextConnInv
  <1> QED
    BY <1>1, <1>2, DaemonTypeCorrect, PTL DEF DaemonSpec

(* A connection is counted as a client of exactly the session it serves (of*)
(* both during a switch), and of none before and after.                    *)
THEOREM ClientsAreServed == DaemonSpec => []ClientOfOne
  <1>1. DaemonTypeOK /\ ConnInv => ClientOfOne
    BY DaemonAssumption DEF DaemonTypeOK, ConnsTypeOK, HandlesLive, ConnInv, ConnOf, ClientOfOne, Homes, Before, Serving, Moving,
       Unattached, Switching, Gone
  <1> QED
    BY <1>1, DaemonTypeCorrect, ConnInvHolds, PTL

(* The client sees the session its keys go to, or has been told it ended.  *)
THEOREM ServedIsShown == DaemonSpec => []ShownIsServed
  <1>1. ConnInv => ShownIsServed
    BY DEF ConnInv, ConnOf, Shown, ShownIsServed
  <1> QED
    BY <1>1, ConnInvHolds, PTL
=============================================================================
