------------------------------- MODULE Daemon --------------------------------
(***************************************************************************)
(* The daemon around its sessions: the registry that maps names to them    *)
(* (registry.rs), and one task per attached client (connection.rs,         *)
(* serve_attach) with the renderer task it spawns (renderer.rs).  Sessions *)
(* are taken at what Session is shown to implement, SessionLife.           *)
(*                                                                         *)
(* Every hold of the registry lock is one action; what a handler reads     *)
(* under one hold and uses under the next is kept in between, as are       *)
(* register_client's check of `closing` and its push.                      *)
(***************************************************************************)
EXTENDS SessionLife, Naturals, FiniteSets

CONSTANTS
  Names,        \* session names in use
  DefaultName,  \* "main": what an attach without a name asks for
  Conns,        \* client connections, one task each
  MaxReloads,   \* bound: clean configuration reloads in a behaviour
  Declared,     \* Declared[v]: the session names version v of the configuration declares
  None          \* no session

ASSUME DaemonAssumption ==
  /\ DefaultName \in Names
  /\ MaxReloads \in Nat
  /\ Declared \in [0 .. MaxReloads -> SUBSET Names]
  /\ None \notin Sessions \cup Names
  /\ "exited" \notin Sessions \cup {None}

VARIABLES
  reg,      \* SessionRegistry::inner
  name,     \* Session::name
  conf,     \* the version of the configuration in the session's slot
  clients,  \* the connections registered in Session::clients
  killing,  \* sessions removed by kill, their begin_close still to come
  version,  \* the version of the configuration last loaded cleanly
  todo,     \* <<name, version>> pairs boot or a reload has still to build
  pc,       \* where the connection's task is
  req,      \* the name it asks for, its create_if_missing, the configuration it would build from
  sess,     \* the session it attaches to or serves
  other,    \* during a switch: the target, then the source
  rend      \* the session its renderer shows, or "exited" once the client was told

regVars    == <<reg, killing, version, todo>>
sessVars   == <<name, conf, clients>>
connVars   == <<pc, req, sess, other, rend>>
daemonVars == <<lifeVars, regVars, sessVars, connVars>>

Request == [name : Names, create : BOOLEAN, conf : 0 .. MaxReloads]
NoReq   == [name |-> DefaultName, create |-> FALSE, conf |-> 0]

DaemonInit ==
  /\ LifeInit
  /\ reg     = [n \in Names |-> None]
  /\ name    = [s \in Sessions |-> None]
  /\ conf    = [s \in Sessions |-> 0]
  /\ clients = [s \in Sessions |-> {}]
  /\ killing = {}
  /\ version = 0
  /\ todo    = Declared[0] \X {0}
  /\ pc      = [c \in Conns |-> "idle"]
  /\ req     = [c \in Conns |-> NoReq]
  /\ sess    = [c \in Conns |-> None]
  /\ other   = [c \in Conns |-> None]
  /\ rend    = [c \in Conns |-> None]

-----------------------------------------------------------------------------
(* registry.rs                                                             *)

Registered(s) == \E n \in Names : reg[n] = s

(* What get, list and the first hold of attach_or_create find under a name,*)
(* and the map they leave: an entry that is closing is pruned.             *)
Found(n)  == IF reg[n] # None /\ ~closing[reg[n]] THEN reg[n] ELSE None
Pruned(n) == [reg EXCEPT ![n] = Found(n)]

(* Session::new or build_from_template, and the insert, in one hold.       *)
Insert(s, n, v) ==
  /\ Born(s)
  /\ reg'  = [reg EXCEPT ![n] = s]
  /\ name' = [name EXCEPT ![s] = n]
  /\ conf' = [conf EXCEPT ![s] = v]

Unbuilt == UNCHANGED <<lifeVars, reg, name, conf>>

(* create_declared: a live session of that name is the result, and anything*)
(* else under it is replaced.                                              *)
CreateDeclared(s, n, v) ==
  IF Found(n) # None THEN s = Found(n) /\ Unbuilt ELSE Insert(s, n, v)

(* One template of build_declared, at boot and after a reload: a failure   *)
(* is logged and the template skipped.                                     *)
BuildDeclared(n, v) ==
  /\ <<n, v>> \in todo
  /\ todo' = todo \ {<<n, v>>}
  /\ \/ \E s \in Sessions : CreateDeclared(s, n, v)
     \/ Unbuilt
  /\ UNCHANGED <<killing, version, clients, connVars>>

(* A clean reload: every mapped session gets the new configuration in one  *)
(* hold, then the declared sessions are built one hold each.  (A failed    *)
(* load changes neither.)                                                  *)
Reload ==
  /\ version < MaxReloads
  /\ version' = version + 1
  /\ conf' = [s \in Sessions |-> IF Registered(s) THEN version' ELSE conf[s]]
  /\ todo' = todo \cup (Declared[version'] \X {version'})
  /\ UNCHANGED <<lifeVars, reg, killing, name, clients, connVars>>

List ==
  /\ reg' = [n \in Names |-> Found(n)]
  /\ UNCHANGED <<lifeVars, killing, version, todo, sessVars, connVars>>

(* Mutant: the map is re-keyed and the live name left for later.           *)
RenameKeyOnly(o, n) ==
  /\ reg[n] = None /\ reg[o] # None
  /\ reg' = [reg EXCEPT ![n] = reg[o], ![o] = None]
  /\ UNCHANGED <<lifeVars, killing, version, todo, sessVars, connVars>>

(* rename_session: the new name must be free, also of a closing entry.     *)
Rename(o, n) ==
  /\ reg[n] = None /\ reg[o] # None
  /\ reg'  = [reg EXCEPT ![n] = reg[o], ![o] = None]
  /\ name' = [name EXCEPT ![reg[o]] = n]
  /\ UNCHANGED <<lifeVars, killing, version, todo, conf, clients, connVars>>

(* kill: the entry goes first, begin_close comes after the lock.           *)
KillRemove(n) ==
  /\ reg[n] # None
  /\ reg'     = [reg EXCEPT ![n] = None]
  /\ killing' = killing \cup {reg[n]}
  /\ UNCHANGED <<lifeVars, version, todo, sessVars, connVars>>

KillClose(s) ==
  /\ s \in killing
  /\ killing' = killing \ {s}
  /\ Close(s)
  /\ UNCHANGED <<reg, version, todo, sessVars, connVars>>

-----------------------------------------------------------------------------
(* connection.rs, serve_attach: resolving the session                      *)

At(c, here)  == pc[c] = here
Goto(c, next) == pc' = [pc EXCEPT ![c] = next]

Ask(c, n, b, v) == req' = [req EXCEPT ![c] = [name |-> n, create |-> b, conf |-> v]]
Wanted(c)       == req[c].name
Answered(c)     == req' = [req EXCEPT ![c] = NoReq]

(* The connection's first message: a name and a policy, or no name, which  *)
(* is attach_or_create of the default one.  Connections are accepted once  *)
(* the sessions declared at boot are built, and every one of them is given *)
(* the configuration of that moment.                                       *)
Attach(c) ==
  /\ At(c, "idle")
  /\ \A n \in Names : <<n, 0>> \notin todo
  /\ \/ \E n \in Names, b \in BOOLEAN : Ask(c, n, b, 0) /\ Goto(c, "resolve")
     \/ Ask(c, DefaultName, TRUE, 0) /\ Goto(c, "attach")
  /\ UNCHANGED <<lifeVars, regVars, sessVars, sess, other, rend>>

(* registry.get of the name given.                                         *)
Resolve(c) ==
  /\ At(c, "resolve")
  /\ reg'  = Pruned(Wanted(c))
  /\ sess' = [sess EXCEPT ![c] = Found(Wanted(c))]
  /\ IF Found(Wanted(c)) = None /\ req[c].create
     THEN Goto(c, "attach") /\ UNCHANGED req
     ELSE Goto(c, IF Found(Wanted(c)) # None THEN "check" ELSE "idle") /\ Answered(c)
  /\ UNCHANGED <<lifeVars, killing, version, todo, sessVars, other, rend>>

(* attach_or_create, the first hold: a live session, else prune.           *)
AttachFast(c) ==
  /\ At(c, "attach")
  /\ reg'  = Pruned(Wanted(c))
  /\ sess' = [sess EXCEPT ![c] = Found(Wanted(c))]
  /\ IF Found(Wanted(c)) = None
     THEN Goto(c, "build") /\ UNCHANGED req
     ELSE Goto(c, "check") /\ Answered(c)
  /\ UNCHANGED <<lifeVars, killing, version, todo, sessVars, other, rend>>

(* Mutant: create inserts over whatever has taken the name meanwhile.      *)
AttachBuildOver(c) ==
  /\ At(c, "build")
  /\ \E s \in Sessions : /\ Insert(s, Wanted(c), req[c].conf)
                         /\ sess' = [sess EXCEPT ![c] = s]
                         /\ Goto(c, "check")
  /\ Answered(c)
  /\ UNCHANGED <<killing, version, todo, clients, other, rend>>

(* attach_or_create, the second hold: create_declared for a declared name, *)
(* else create, which refuses a name that is mapped.  The child may fail to*)
(* spawn.                                                                  *)
AttachBuild(c) ==
  /\ At(c, "build")
  /\ LET n == Wanted(c)
         v == req[c].conf IN
       \/ \E s \in Sessions :
            /\ IF n \in Declared[v]
               THEN CreateDeclared(s, n, v)
               ELSE reg[n] = None /\ Insert(s, n, v)
            /\ sess' = [sess EXCEPT ![c] = s]
            /\ Goto(c, "check")
       \/ /\ n \notin Declared[v] /\ reg[n] # None
          /\ Goto(c, "exists")
          /\ Unbuilt /\ UNCHANGED sess
       \/ Goto(c, "idle") /\ Unbuilt /\ UNCHANGED sess
  /\ Answered(c)
  /\ UNCHANGED <<killing, version, todo, clients, other, rend>>

(* The client was sent SessionAlreadyExists; the connection ends.          *)
Refused(c) ==
  /\ At(c, "exists") /\ Goto(c, "idle")
  /\ UNCHANGED <<lifeVars, regVars, sessVars, req, sess, other, rend>>

(* register_client: the check of `closing`, then the push.                 *)
RegisterCheck(c) ==
  /\ At(c, "check")
  /\ Goto(c, IF closing[sess[c]] THEN "idle" ELSE "push")
  /\ sess' = [sess EXCEPT ![c] = IF closing[@] THEN None ELSE @]
  /\ UNCHANGED <<lifeVars, regVars, sessVars, req, other, rend>>

RegisterPush(c) ==
  /\ At(c, "push") /\ Goto(c, "announce")
  /\ clients' = [clients EXCEPT ![sess[c]] = @ \cup {c}]
  /\ UNCHANGED <<lifeVars, regVars, name, conf, req, sess, other, rend>>

(* Attached is sent and the renderer spawned; or the write fails and the   *)
(* handler returns with `?`.                                               *)
Announce(c) ==
  /\ At(c, "announce")
  /\ \/ Goto(c, "serve") /\ rend' = [rend EXCEPT ![c] = sess[c]] /\ UNCHANGED sess
     \/ Goto(c, "lost") /\ sess' = [sess EXCEPT ![c] = None] /\ UNCHANGED rend
  /\ UNCHANGED <<lifeVars, regVars, sessVars, req, other>>

-----------------------------------------------------------------------------
(* connection.rs, switch_session                                           *)

(* The target: a live session, else a declared name to build, else stay.   *)
SwitchResolve(c, n) ==
  /\ At(c, "serve")
  /\ reg' = Pruned(n)
  /\ LET t == Found(n)
         v == conf[sess[c]] IN
       \/ /\ t # None /\ name[t] # name[sess[c]]
          /\ other' = [other EXCEPT ![c] = t]
          /\ Goto(c, "switch-check") /\ UNCHANGED req
       \/ /\ t = None /\ n \in Declared[v]
          /\ Ask(c, n, FALSE, v)
          /\ Goto(c, "switch-build") /\ UNCHANGED other
  /\ UNCHANGED <<lifeVars, killing, version, todo, sessVars, sess, rend>>

(* create_declared of the target; its failure, or the target turning out   *)
(* to be the session already served, leaves the client where it is.        *)
SwitchBuild(c) ==
  /\ At(c, "switch-build")
  /\ \/ \E t \in Sessions :
          /\ CreateDeclared(t, Wanted(c), req[c].conf)
          /\ IF name'[t] = name'[sess[c]]
             THEN Goto(c, "serve") /\ UNCHANGED other
             ELSE Goto(c, "switch-check") /\ other' = [other EXCEPT ![c] = t]
     \/ Goto(c, "serve") /\ Unbuilt /\ UNCHANGED other
  /\ Answered(c)
  /\ UNCHANGED <<killing, version, todo, clients, sess, rend>>

(* Mutant: a refused switch forgets to let go of its target.               *)
SwitchCheckKeepsTarget(c) ==
  /\ At(c, "switch-check")
  /\ Goto(c, IF closing[other[c]] THEN "serve" ELSE "switch-push")
  /\ UNCHANGED <<lifeVars, regVars, sessVars, req, sess, other, rend>>

(* register_client on the target; if it is closing the client stays.       *)
SwitchCheck(c) ==
  /\ At(c, "switch-check")
  /\ Goto(c, IF closing[other[c]] THEN "serve" ELSE "switch-push")
  /\ other' = [other EXCEPT ![c] = IF closing[@] THEN None ELSE @]
  /\ UNCHANGED <<lifeVars, regVars, sessVars, req, sess, rend>>

SwitchPush(c) ==
  /\ At(c, "switch-push") /\ Goto(c, "switch-bind")
  /\ clients' = [clients EXCEPT ![other[c]] = @ \cup {c}]
  /\ UNCHANGED <<lifeVars, regVars, name, conf, req, sess, other, rend>>

(* Mutant: the loop's session is swapped, the renderer left on the source. *)
SwitchBindNoRenderer(c) ==
  /\ At(c, "switch-bind") /\ Goto(c, "switch-leave")
  /\ sess'  = [sess EXCEPT ![c] = other[c]]
  /\ other' = [other EXCEPT ![c] = sess[c]]
  /\ UNCHANGED <<lifeVars, regVars, sessVars, req, rend>>

(* The renderer is re-pointed (unless it has already told the client that  *)
(* the source ended), and the loop's session replaced.                     *)
SwitchBind(c) ==
  /\ At(c, "switch-bind") /\ Goto(c, "switch-leave")
  /\ rend'  = [rend EXCEPT ![c] = IF @ = "exited" THEN @ ELSE other[c]]
  /\ sess'  = [sess EXCEPT ![c] = other[c]]
  /\ other' = [other EXCEPT ![c] = sess[c]]
  /\ UNCHANGED <<lifeVars, regVars, sessVars, req>>

(* Mutant: the client is not taken off the session it left.                *)
SwitchLeaveNothing(c) ==
  /\ At(c, "switch-leave") /\ Goto(c, "serve")
  /\ other' = [other EXCEPT ![c] = None]
  /\ UNCHANGED <<lifeVars, regVars, sessVars, req, sess, rend>>

SwitchLeave(c) ==
  /\ At(c, "switch-leave") /\ Goto(c, "serve")
  /\ clients' = [clients EXCEPT ![other[c]] = @ \ {c}]
  /\ other'   = [other EXCEPT ![c] = None]
  /\ UNCHANGED <<lifeVars, regVars, name, conf, req, sess, rend>>

-----------------------------------------------------------------------------
(* The end of a connection                                                 *)

(* The frame channel has closed: the renderer writes Exited and returns.   *)
RendererExits(c) ==
  /\ rend[c] \in Sessions /\ phase[rend[c]] = "over"
  /\ rend' = [rend EXCEPT ![c] = "exited"]
  /\ UNCHANGED <<lifeVars, regVars, sessVars, pc, req, sess, other>>

(* The client detaches or its stream ends, or the renderer has returned.   *)
Stop(c) ==
  /\ At(c, "serve") /\ Goto(c, "cleanup")
  /\ UNCHANGED <<lifeVars, regVars, sessVars, req, sess, other, rend>>

StopOnExit(c) == rend[c] = "exited" /\ Stop(c)

(* cleanup_and_exit: deregister, abort the renderer.                       *)
Cleanup(c) ==
  /\ At(c, "cleanup") /\ Goto(c, "idle")
  /\ clients' = [clients EXCEPT ![sess[c]] = @ \ {c}]
  /\ sess' = [sess EXCEPT ![c] = None]
  /\ rend' = [rend EXCEPT ![c] = None]
  /\ UNCHANGED <<lifeVars, regVars, name, conf, req, other>>

(* A batch of input reaches a session whose windows are gone and whose end *)
(* has not reached this client yet: active_pane_id panics in active_index, *)
(* and the task unwinds without cleanup.  Its renderer goes on alone.      *)
InputPanic(c) ==
  /\ At(c, "serve") /\ phase[sess[c]] \in {"doomed", "over"}
  /\ Goto(c, "panicked")
  /\ sess' = [sess EXCEPT ![c] = None]
  /\ UNCHANGED <<lifeVars, regVars, sessVars, req, other, rend>>

(* Mutant: the session is freed while connections hold it.                 *)
DropUnderClients(s) ==
  /\ phase[s] = "over" /\ closing[s]
  /\ ~Registered(s) /\ s \notin killing
  /\ phase'   = [phase EXCEPT ![s] = "none"]
  /\ closing' = [closing EXCEPT ![s] = FALSE]
  /\ name'    = [name EXCEPT ![s] = None]
  /\ conf'    = [conf EXCEPT ![s] = 0]
  /\ clients' = [clients EXCEPT ![s] = {}]
  /\ UNCHANGED <<regVars, connVars>>

(* The last Arc of an ended session goes: registry, connections, kill and  *)
(* the session's own tasks have let go of it.  Its identity is free again  *)
(* (the renderer of a panicked connection, which holds no Arc, is waited   *)
(* for so that an identity is never reused under it).                      *)
Drop(s) ==
  /\ phase[s] = "over" /\ closing[s]
  /\ ~Registered(s) /\ s \notin killing
  /\ \A c \in Conns : s \notin {sess[c], other[c], rend[c]}
  /\ phase'   = [phase EXCEPT ![s] = "none"]
  /\ closing' = [closing EXCEPT ![s] = FALSE]
  /\ name'    = [name EXCEPT ![s] = None]
  /\ conf'    = [conf EXCEPT ![s] = 0]
  /\ clients' = [clients EXCEPT ![s] = {}]
  /\ UNCHANGED <<regVars, connVars>>

-----------------------------------------------------------------------------
(* The session's own steps, seen from here.                                *)
Alone(A) == A /\ UNCHANGED <<regVars, sessVars, connVars>>

ConnStep(c) ==
  \/ Resolve(c) \/ AttachFast(c) \/ AttachBuild(c) \/ Refused(c)
  \/ RegisterCheck(c) \/ RegisterPush(c) \/ Announce(c)
  \/ SwitchBuild(c) \/ SwitchCheck(c) \/ SwitchPush(c) \/ SwitchBind(c) \/ SwitchLeave(c)
  \/ StopOnExit(c) \/ Cleanup(c)

DaemonNext ==
  \/ \E n \in Names : KillRemove(n) \/ \E v \in 0 .. MaxReloads : BuildDeclared(n, v)
  \/ \E o, n \in Names : Rename(o, n)
  \/ List \/ Reload
  \/ \E c \in Conns : \/ ConnStep(c) \/ Attach(c) \/ Stop(c) \/ InputPanic(c)
                      \/ RendererExits(c)
                      \/ \E n \in Names : SwitchResolve(c, n)
  \/ \E s \in Sessions : \/ KillClose(s) \/ Drop(s)
                         \/ Alone(Doom(s)) \/ Alone(Break(s)) \/ Alone(WindDown(s))

DaemonSpec == DaemonInit /\ [][DaemonNext]_daemonVars

(* The runtime runs every task that is not waiting for a client; a doomed  *)
(* session winds down (Session, WindsDown); an Arc count at zero drops.    *)
(* Stopping is strongly fair: the loop's select is biased to the finished  *)
(* renderer, but a batch of input may hold several switches before the loop*)
(* comes back to it.                                                       *)
DaemonFairness ==
  /\ \A c \in Conns : /\ WF_daemonVars(ConnStep(c)) /\ SF_daemonVars(StopOnExit(c))
                      /\ WF_daemonVars(RendererExits(c))
  /\ \A s \in Sessions : /\ WF_daemonVars(KillClose(s)) /\ WF_daemonVars(Drop(s))
                         /\ WF_daemonVars(Alone(WindDown(s)))

DaemonFairSpec == DaemonSpec /\ DaemonFairness

-----------------------------------------------------------------------------
Before  == {"idle", "resolve", "attach", "build", "exists", "check", "push"}
Serving == {"announce", "serve", "switch-build", "switch-check", "switch-push", "cleanup"}
Moving  == {"switch-bind", "switch-leave"}
Gone    == {"lost", "panicked"}

Unattached == {"idle", "resolve", "attach", "build", "exists"} \cup Gone
Switching  == {"switch-check", "switch-push"} \cup Moving

WorldTypeOK ==
  /\ phase   \in [Sessions -> {"none", "live", "doomed", "over"}]
  /\ closing \in [Sessions -> BOOLEAN]
  /\ reg     \in [Names -> Sessions \cup {None}]
  /\ name    \in [Sessions -> Names \cup {None}]
  /\ conf    \in [Sessions -> 0 .. MaxReloads]
  /\ clients \in [Sessions -> SUBSET Conns]
  /\ killing \in SUBSET Sessions
  /\ version \in 0 .. MaxReloads
  /\ todo    \in SUBSET (Names \X (0 .. MaxReloads))
  /\ \A n \in Names : reg[n] # None => phase[reg[n]] # "none"
  /\ \A s \in killing : phase[s] # "none"

ConnsTypeOK ==
  /\ pc      \in [Conns -> Before \cup Serving \cup Moving \cup Gone]
  /\ req     \in [Conns -> Request]
  /\ sess    \in [Conns -> Sessions \cup {None}]
  /\ other   \in [Conns -> Sessions \cup {None}]
  /\ rend    \in [Conns -> Sessions \cup {None, "exited"}]

HandlesLive(c) ==
  /\ sess[c] = None <=> pc[c] \in Unattached
  /\ other[c] = None <=> pc[c] \notin Switching
  /\ sess[c] # None => phase[sess[c]] # "none"
  /\ other[c] # None => phase[other[c]] # "none"

(* Every variable stays in its range, and whatever a name is mapped to, a  *)
(* kill is about to close, or a connection has in hand is a session that   *)
(* exists (the Arcs of registry.rs and connection.rs).                     *)
DaemonTypeOK ==
  /\ WorldTypeOK
  /\ ConnsTypeOK
  /\ \A c \in Conns : HandlesLive(c)

(* The key a session is mapped under is its live name, and it is mapped    *)
(* under no other (registry.rs, rename_session: key and name move together)*)
KeyIsName == \A n \in Names : reg[n] # None => name[reg[n]] = n

(* A session nobody asked to close can always be reached by its name, or a *)
(* kill already holds it: no interleaving of attach, build, prune, rename  *)
(* and kill leaves a running session that no command can end (registry.rs).*)
NoOrphan ==
  \A s \in Sessions : phase[s] # "none" /\ ~closing[s] => Registered(s) \/ s \in killing

Homes(c) == {s \in Sessions : c \in clients[s]}

(* A connection is counted as a client of exactly the session it serves (of*)
(* both during a switch), and of none before and after: every client weighs*)
(* on the size and the focus of one session (connection.rs, switch_session *)
(* and cleanup_and_exit).                                                  *)
ClientOfOne ==
  \A c \in Conns :
    /\ pc[c] \in Before  => Homes(c) = {}
    /\ pc[c] \in Serving => Homes(c) = {sess[c]}
    /\ pc[c] \in Moving  => Homes(c) = {sess[c], other[c]}

(* The client sees the session its keys go to, or has been told its session*)
(* ended (connection.rs and renderer.rs, the switch channel).              *)
ShownIsServed == \A c \in Conns : pc[c] = "serve" => rend[c] \in {sess[c], "exited"}

(* An ended session that has left the registry is freed: every client that *)
(* was attached, was attaching, or was switching to or from it lets go.    *)
EndedIsFreed ==
  \A s \in Sessions : (phase[s] = "over" /\ ~Registered(s)) ~> phase[s] = "none"

(* attach_or_create attaches to the live session if there is one: it does  *)
(* not answer that the session already exists (registry.rs:212).           *)
AttachFindsTheLive == \A c \in Conns : pc[c] # "exists"

(* A session is built from the configuration last loaded (configuration.md,*)
(* Reload and switch).                                                     *)
BuiltFromCurrent ==
  [][\A s \in Sessions : phase[s] = "none" /\ phase'[s] = "live" => conf'[s] = version']_daemonVars

(* A client that is gone is no longer among the clients of a live session  *)
(* (session/mod.rs:757).                                                   *)
GoneIsDropped ==
  \A c \in Conns, s \in Sessions : pc[c] \in Gone /\ phase[s] = "live" => c \notin clients[s]
=============================================================================
