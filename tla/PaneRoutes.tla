----------------------------- MODULE PaneRoutes -----------------------------
(***************************************************************************)
(* The routes that reach into one pane: reading a run (internal/server/    *)
(* runs.go), reading a pane (snapshot.go) and attaching a terminal         *)
(* (terminalroute.go), against a pane whose occupant Herdr replaces at any *)
(* time and a state engine that learns of it at its next poll.             *)
(*                                                                         *)
(* An occupant is a number; 0 is an absent pane.  The engine's part is     *)
(* what the routes see of it: the generation it gives the pane it last     *)
(* saw.  Response texts, encodings and the audit log are left out.         *)
(***************************************************************************)
EXTENDS Integers, FiniteSets

CONSTANTS
    Requests,        \* requests, each used once
    Sessions,        \* browser sessions
    Confirmations,          \* takeover confirmations, each minted once
    MaxOccupants     \* bound: occupants the pane ever has

ASSUME RoutesAssumption ==
    /\ MaxOccupants \in Nat \ {0}
    /\ Sessions \cap {"none", "used", "expired"} = {}

VARIABLES
    occ,      \* who occupies the pane at Herdr
    fresh,    \* occupants used so far
    agents,   \* the occupants that are agents
    known,    \* the engine's view: occupant, generation, and how often it
              \* has forgotten the pane (a forgotten pane restarts at 1)
    nonce,    \* confirmations: scope, or "none" / "used" / "expired"
    req       \* requests; run is the occupant the engine named

routeVars == <<occ, fresh, agents, known, nonce, req>>

Idle == [at |-> "idle"]
Scope(s, g) == [s |-> s, g |-> g]
Unminted == Scope("none", 0)

RouteInit ==
    /\ occ = 1 /\ fresh = 1 /\ agents \in {{}, {1}}
    /\ known = [occ |-> 1, gen |-> 1, life |-> 0]
    /\ nonce = [n \in Confirmations |-> Unminted]
    /\ req = [r \in Requests |-> Idle]

(* Herdr replaces or removes the occupant, or a new pane takes the id. *)
Replace ==
    /\ fresh < MaxOccupants
    /\ \/ occ' = 0 /\ occ # 0 /\ UNCHANGED <<fresh, agents>>
       \/ /\ occ' = fresh + 1 /\ fresh' = fresh + 1
          /\ agents' \in {agents, agents \cup {fresh + 1}}
    /\ UNCHANGED <<known, nonce, req>>

(* A poll of the engine: updateGenerationsLocked for this pane. *)
Poll ==
    /\ known' = IF occ = known.occ THEN known
                ELSE IF occ = 0 THEN [occ |-> 0, gen |-> 0, life |-> known.life + 1]
                ELSE [occ |-> occ, gen |-> known.gen + 1, life |-> known.life]
    /\ UNCHANGED <<occ, fresh, agents, nonce, req>>

-----------------------------------------------------------------------------
(***************************************************************************)
(* A browser asserts the generation of a snapshot it was shown: this one   *)
(* or an earlier one.  stale remembers that the engine had moved on.       *)
(***************************************************************************)
Begin(r, kind, s, g, n) ==
    /\ req[r] = Idle
    /\ g \in 1 .. known.gen
    /\ req' = [req EXCEPT ![r] =
         [at |-> IF kind = "takeover" THEN "nonce"
                 ELSE IF kind = "pane" THEN "read" ELSE "guard",
          kind |-> kind, s |-> s, g |-> g, n |-> n,
          stale |-> g # known.gen, run |-> 0, gen |-> 0, out |-> 0]]
    /\ UNCHANGED <<occ, fresh, agents, known, nonce>>

(* handleTerminal: a takeover consumes its confirmation before the guard. *)
Granted(r) == nonce[req[r].n] = Scope(req[r].s, req[r].g)

Consume(r) ==
    /\ req[r].at = "nonce"
    /\ nonce' = [nonce EXCEPT ![req[r].n] =
                   IF @ = Unminted THEN @ ELSE Scope("used", 0)]
    /\ req' = [req EXCEPT ![r].at = IF Granted(r) THEN "guard" ELSE "refused"]
    /\ UNCHANGED <<occ, fresh, agents, known>>

(* State.Generation, before anything is asked of Herdr. *)
Passes(r) == known.occ # 0 /\ known.gen = req[r].g

(* Mutant: an earlier generation passes. *)
GuardLoose(r) ==
    /\ req[r].at = "guard"
    /\ req' = [req EXCEPT ![r].at =
         IF known.occ = 0 \/ known.gen < req[r].g THEN "refused"
         ELSE IF req[r].kind = "run" THEN "find" ELSE "launch"]
    /\ UNCHANGED <<occ, fresh, agents, known, nonce>>

Guard(r) ==
    /\ req[r].at = "guard"
    /\ req' = [req EXCEPT
         ![r].at = IF ~Passes(r) THEN "refused"
                   ELSE IF req[r].kind = "run" THEN "find" ELSE "launch",
         ![r].run = known.occ]
    /\ UNCHANGED <<occ, fresh, agents, known, nonce>>

(* findRun, a second read of the engine, and the comparison that follows. *)
FindRun(r) ==
    /\ req[r].at = "find"
    /\ req' = [req EXCEPT ![r] =
         IF known.occ \notin agents \/ known.gen # req[r].g
         THEN [@ EXCEPT !.at = "refused"]
         ELSE [@ EXCEPT !.at = "read", !.run = known.occ, !.gen = known.gen]]
    /\ UNCHANGED <<occ, fresh, agents, known, nonce>>

(* ReadPane returns what the pane shows now; it may fail. *)
ReadPane(r) ==
    /\ req[r].at = "read"
    /\ \/ occ # 0 /\ req' = [req EXCEPT ![r].at = "ok", ![r].out = occ]
       \/ req' = [req EXCEPT ![r].at = "failed"]
    /\ UNCHANGED <<occ, fresh, agents, known, nonce>>

(* The upgrade, and the controller that attaches to whoever is there. *)
Launch(r) ==
    /\ req[r].at = "launch"
    /\ \/ occ # 0 /\ req' = [req EXCEPT ![r].at = "ok", ![r].out = occ]
       \/ req' = [req EXCEPT ![r].at = "failed"]
    /\ UNCHANGED <<occ, fresh, agents, known, nonce>>

(* handleConfirmation for terminal.takeover, under the same guard. *)
Mint(n, s) ==
    /\ nonce[n] = Unminted /\ known.occ # 0
    /\ nonce' = [nonce EXCEPT ![n] = Scope(s, known.gen)]
    /\ UNCHANGED <<occ, fresh, agents, known, req>>

Expire(n) ==
    /\ nonce[n].s \in Sessions
    /\ nonce' = [nonce EXCEPT ![n] = Scope("expired", 0)]
    /\ UNCHANGED <<occ, fresh, agents, known, req>>

RouteNext ==
    \/ Replace \/ Poll
    \/ \E r \in Requests :
         \/ \E kind \in {"run", "pane", "attach", "takeover"}, s \in Sessions,
               g \in 1 .. known.gen, n \in Confirmations : Begin(r, kind, s, g, n)
         \/ Consume(r) \/ Guard(r) \/ FindRun(r) \/ ReadPane(r) \/ Launch(r)
    \/ \E n \in Confirmations : Expire(n) \/ (\E s \in Sessions : Mint(n, s))

RouteSpec == RouteInit /\ [][RouteNext]_routeVars

-----------------------------------------------------------------------------
(* Generations stay within the number of occupants the engine saw. *)
RouteTypeOK ==
    /\ occ \in 0 .. MaxOccupants /\ fresh \in 1 .. MaxOccupants
    /\ known.gen \in 0 .. fresh
    /\ known.occ = 0 <=> known.gen = 0
    /\ \A r \in Requests : req[r].at \in
         {"idle", "nonce", "guard", "find", "read", "launch", "ok", "refused", "failed"}

Answered(r, kinds) == req[r].at = "ok" /\ req[r].kind \in kinds

(***************************************************************************)
(* A run is answered under the generation that was asserted, although the  *)
(* guard and the projection are two reads ("fail closed rather than return *)
(* a run bound to a generation the client did not assert", handleRun).     *)
(***************************************************************************)
RunAsserted ==
    \A r \in Requests : Answered(r, {"run"}) => req[r].gen = req[r].g

(***************************************************************************)
(* A replacement the engine had already seen when the request arrived is   *)
(* never read through or attached to, as long as it has not forgotten the  *)
(* pane and begun its generations anew.                                    *)
(***************************************************************************)
SeenReplacementRefused ==
    \A r \in Requests :
        Answered(r, {"run", "attach", "takeover"}) /\ known.life = 0 => ~req[r].stale

(* A takeover that its confirmation let pass. *)
Admitted(r) ==
    req[r].at \in {"guard", "launch", "ok", "failed"} /\ req[r].kind = "takeover"

(***************************************************************************)
(* A confirmation admits one takeover, however many requests present it at *)
(* once and whatever becomes of the one it admitted.                       *)
(***************************************************************************)
TakeoverOnce ==
    \A q, r \in Requests :
        Admitted(q) /\ Admitted(r) /\ req[q].n = req[r].n => q = r

(***************************************************************************)
(* A pane route answers for the occupant that was asked for: a run under   *)
(* the asserted generation although guard and projection are two reads,    *)
(* nothing through a replacement the engine had seen, one takeover per     *)
(* confirmation (handleRun, handleTerminal).                               *)
(***************************************************************************)
RoutesGuarded == RunAsserted /\ SeenReplacementRefused /\ TakeoverOnce

(* The output answered for a run is its occupant's. *)
OutputIsRuns ==
    \A r \in Requests : Answered(r, {"run"}) => req[r].out = req[r].run

(* A terminal is attached to the occupant whose generation was asserted. *)
AttachIsCurrent ==
    \A r \in Requests : Answered(r, {"attach", "takeover"}) => req[r].out = req[r].run
=============================================================================
