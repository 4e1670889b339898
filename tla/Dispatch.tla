------------------------------ MODULE Dispatch ------------------------------
(***************************************************************************)
(* The three tables a browser mutation passes through, composed: the       *)
(* server's allowlist (server/mutations.go), which says which parameter    *)
(* names the resource that is guarded and confirmed; the dispatcher        *)
(* (integration/mutate.go), which decodes the parameters strictly and      *)
(* picks the typed client call; and the client (herdr/mutations.go,        *)
(* herdr/agents.go), which validates its arguments and writes the request  *)
(* Herdr sees.  Each table is written by hand in its own package, so that  *)
(* they agree is a property of the composition.                            *)
(*                                                                         *)
(* A request's parameters are a function from the field names it carries   *)
(* to values.  Free text that no check reads (label, env, focus, text,     *)
(* base, args, ratio, amount) is the one field "detail".  Junk is a JSON   *)
(* value of a type the field does not have.                                *)
(***************************************************************************)
EXTENDS Naturals, FiniteSets, Functions, TLC

CONSTANTS
    Ids,        \* resource ids
    Live,       \* the pane ids whose expected generation is current
    MaxFields   \* bound on the fields of one request

None == "none"
Junk == "junk"

DispatchAssumption ==
    /\ Live \subseteq Ids
    /\ {"", None, Junk} \cap Ids = {}
    /\ MaxFields \in Nat

IdFields == {"workspace_id", "tab_id", "pane_id", "worktree_id",
             "target_pane_id", "target"}

(* The typed pane.move destination; its other members are not validated. *)
Destinations ==
    [type : {"tab", "new_tab", "new_workspace", "window"},
     tab_id : {"", "tab"}, split : {"right", "sideways"}]

(* The well-typed values of a field. *)
Values(f) ==
    CASE f \in IdFields -> Ids
      [] f = "direction" -> {"right", "left", "sideways"}
      [] f = "mode" -> {"on", "sometimes"}
      [] f = "insert_index" -> {"natural", "negative"}
      [] f = "keys" -> {"valid", "invalid"}
      [] f = "name" -> {"valid", "invalid"}
      [] f = "kind" -> {"startable", "unknown"}
      [] OTHER -> {"text"}

(* What a request can hold in a field. *)
Held(f) == IF f = "destination" THEN Destinations ELSE Values(f) \cup {Junk}

(* A string field: "" when it is absent or of another type. *)
paramString(p, f) == IF f \in DOMAIN p /\ p[f] # Junk THEN p[f] ELSE ""

-----------------------------------------------------------------------------
(* The server's allowlist: [resource field, alternate field, confirmed]. *)

Spec3(field, alt, confirm) ==
    [resourceField |-> field, alt |-> alt, confirm |-> confirm]

Each(ops, spec) == [o \in ops |-> spec]

worktreeOperations ==
    Each({"worktree.create", "worktree.open"}, Spec3("", "", FALSE))
    @@ Each({"worktree.remove", "worktree.remove_force"},
            Spec3("worktree_id", "workspace_id", TRUE))

agentOperations ==
    Each({"agent.focus", "agent.prompt", "agent.send_keys", "agent.rename"},
         Spec3("pane_id", "target", FALSE))
    @@ ("agent.start" :> Spec3("pane_id", "", FALSE))

operations ==
    Each({"workspace.create", "tab.create"}, Spec3("", "", FALSE))
    @@ Each({"workspace.focus", "workspace.rename"}, Spec3("workspace_id", "", FALSE))
    @@ ("workspace.close" :> Spec3("workspace_id", "", TRUE))
    @@ Each({"tab.focus", "tab.rename", "tab.move"}, Spec3("tab_id", "", FALSE))
    @@ ("tab.close" :> Spec3("tab_id", "", TRUE))
    @@ Each({"pane.focus", "pane.split", "pane.resize", "pane.zoom", "pane.swap",
             "pane.move", "pane.rename"}, Spec3("pane_id", "", FALSE))
    @@ ("pane.close" :> Spec3("pane_id", "", TRUE))
    @@ agentOperations
    @@ worktreeOperations

(* The actions a confirmation nonce can be issued for, and its resource field. *)
confirmable ==
    ("workspace.close" :> "workspace_id")
    @@ ("tab.close" :> "tab_id")
    @@ Each({"pane.close", "terminal.takeover"}, "pane_id")
    @@ Each({"worktree.remove", "worktree.remove_force"}, "worktree_id")

generationChecked(o) == operations[o].resourceField = "pane_id"

divergentAlt(p, alt, canonical) ==
    alt # "" /\ paramString(p, alt) \notin {"", canonical}

-----------------------------------------------------------------------------
(* The dispatcher: the fields an operation's strict decode accepts, the     *)
(* client function it calls and the field passed as that call's subject.    *)

Entry(fields, call, subject) ==
    [fields |-> fields, call |-> call, subject |-> subject, force |-> FALSE]

workspaceDispatch ==
    ("workspace.create" :> Entry({"cwd", "detail"}, "WorkspaceCreate", ""))
    @@ ("workspace.focus" :> Entry({"workspace_id"}, "WorkspaceFocus", "workspace_id"))
    @@ ("workspace.rename" :>
            Entry({"workspace_id", "detail"}, "WorkspaceRename", "workspace_id"))
    @@ ("workspace.close" :> Entry({"workspace_id"}, "WorkspaceClose", "workspace_id"))

tabDispatch ==
    ("tab.create" :>
            Entry({"workspace_id", "cwd", "detail"}, "TabCreate", "workspace_id"))
    @@ ("tab.focus" :> Entry({"tab_id"}, "TabFocus", "tab_id"))
    @@ ("tab.rename" :> Entry({"tab_id", "detail"}, "TabRename", "tab_id"))
    @@ ("tab.move" :> Entry({"tab_id", "insert_index"}, "TabMove", "tab_id"))
    @@ ("tab.close" :> Entry({"tab_id"}, "TabClose", "tab_id"))

(* Mutant: the split pane is taken from a separate target field. *)
paneDispatchTarget ==
    ("pane.focus" :> Entry({"pane_id"}, "PaneFocus", "pane_id"))
    @@ ("pane.split" :> Entry({"pane_id", "target_pane_id", "direction", "cwd", "detail"},
                              "PaneSplit", "target_pane_id"))

paneDispatch ==
    ("pane.focus" :> Entry({"pane_id"}, "PaneFocus", "pane_id"))
    @@ ("pane.split" :>
            Entry({"pane_id", "direction", "cwd", "detail"}, "PaneSplit", "pane_id"))

layoutDispatch ==
    ("pane.resize" :> Entry({"pane_id", "direction", "detail"}, "PaneResize", "pane_id"))
    @@ ("pane.zoom" :> Entry({"pane_id", "mode"}, "PaneZoom", "pane_id"))
    @@ ("pane.swap" :> Entry({"pane_id", "target_pane_id"}, "PaneSwap", "pane_id"))

paneEditDispatch ==
    ("pane.move" :> Entry({"pane_id", "destination", "detail"}, "PaneMove", "pane_id"))
    @@ ("pane.rename" :> Entry({"pane_id", "detail"}, "PaneRename", "pane_id"))
    @@ ("pane.close" :> Entry({"pane_id"}, "PaneClose", "pane_id"))

agentDispatch ==
    ("agent.focus" :> Entry({"pane_id"}, "AgentFocus", "pane_id"))
    @@ ("agent.prompt" :> Entry({"pane_id", "detail"}, "AgentPrompt", "pane_id"))
    @@ ("agent.send_keys" :> Entry({"pane_id", "keys"}, "AgentSendKeys", "pane_id"))
    @@ ("agent.rename" :> Entry({"pane_id", "name"}, "AgentRename", "pane_id"))
    @@ ("agent.start" :> Entry({"pane_id", "kind", "name", "detail"}, "AgentStart", "pane_id"))

worktreeDispatch ==
    ("worktree.create" :> Entry({"workspace_id", "cwd", "branch", "path", "detail"},
                                "WorktreeCreate", "workspace_id"))
    @@ ("worktree.open" :> Entry({"workspace_id", "cwd", "branch", "path", "detail"},
                                 "WorktreeOpen", "workspace_id"))

(* worktree_id carries the workspace id that Herdr's worktree.remove expects. *)
worktreeRemove ==
    LET remove == Entry({"worktree_id"}, "WorktreeRemove", "worktree_id")
    IN  ("worktree.remove" :> remove)
        @@ ("worktree.remove_force" :> [remove EXCEPT !.force = TRUE])

dispatchMutation ==
    workspaceDispatch @@ tabDispatch @@ paneDispatch @@ layoutDispatch
    @@ paneEditDispatch @@ agentDispatch @@ worktreeDispatch @@ worktreeRemove

(* The strict decode: no field the operation does not name, none of another type. *)
decodes(o, p) ==
    \A f \in DOMAIN p :
        f \in dispatchMutation[o].fields /\ (f # "destination" => p[f] # Junk)

-----------------------------------------------------------------------------
(* The client's calls: the method each writes, whether it refuses an empty  *)
(* subject id, the fields it refuses to do without, the sets of fields of   *)
(* which it needs at least one, and the values it accepts of the fields it  *)
(* validates.  What it refuses never reaches Herdr.                         *)

Call(method, subject, needs, oneOf, accepts) ==
    [method |-> method, subject |-> subject, needs |-> needs, oneOf |-> oneOf,
     accepts |-> accepts]

Plain(method) == Call(method, TRUE, {}, {}, <<>>)

workspaceCalls ==
    ("WorkspaceCreate" :> Call("workspace.create", FALSE, {}, {}, <<>>))
    @@ ("WorkspaceFocus" :> Plain("workspace.focus"))
    @@ ("WorkspaceRename" :> Plain("workspace.rename"))
    @@ ("WorkspaceClose" :> Plain("workspace.close"))

(* Without a workspace id a tab is created in the focused workspace. *)
tabCalls ==
    ("TabCreate" :> Call("tab.create", FALSE, {}, {}, <<>>))
    @@ ("TabFocus" :> Plain("tab.focus"))
    @@ ("TabRename" :> Plain("tab.rename"))
    @@ ("TabMove" :> Call("tab.move", TRUE, {}, {}, "insert_index" :> {"natural"}))
    @@ ("TabClose" :> Plain("tab.close"))

SplitDirections == {"right", "down"}

PaneDirections == {"left", "right", "up", "down"}

paneCalls ==
    ("PaneSplit" :>
        Call("pane.split", TRUE, {"direction"}, {}, "direction" :> SplitDirections))
    @@ ("PaneFocus" :> Plain("pane.focus"))
    @@ ("PaneRename" :> Plain("pane.rename"))

(* A missing zoom mode is a toggle. *)
layoutCalls ==
    ("PaneResize" :>
        Call("pane.resize", TRUE, {"direction"}, {}, "direction" :> PaneDirections))
    @@ ("PaneZoom" :> Call("pane.zoom", TRUE, {}, {}, "mode" :> {"toggle", "on", "off"}))
    @@ ("PaneSwap" :> Call("pane.swap", TRUE, {"target_pane_id"}, {}, <<>>))

(* The destinations the wire form accepts: a tab needs its id and a split. *)
wireDestinations ==
    {d \in Destinations :
        \/ d.type = "tab" /\ d.tab_id # "" /\ d.split \in SplitDirections
        \/ d.type \in {"new_tab", "new_workspace"}}

moveCalls ==
    ("PaneMove" :>
        Call("pane.move", TRUE, {"destination"}, {}, "destination" :> wireDestinations))
    @@ ("PaneClose" :> Plain("pane.close"))

(* A rename without a name clears it; every key must be valid, and one present. *)
agentCalls ==
    ("AgentFocus" :> Plain("agent.focus"))
    @@ ("AgentPrompt" :> Plain("agent.prompt"))
    @@ ("AgentSendKeys" :> Call("agent.send_keys", TRUE, {"keys"}, {}, "keys" :> {"valid"}))
    @@ ("AgentRename" :> Call("agent.rename", TRUE, {}, {}, "name" :> {"valid"}))
    @@ ("AgentStart" :> Call("agent.start", TRUE, {"kind", "name"}, {}, "name" :> {"valid"}))

worktreeCalls ==
    ("WorktreeCreate" :>
        Call("worktree.create", FALSE, {}, {{"workspace_id", "cwd"}}, <<>>))
    @@ ("WorktreeOpen" :> Call("worktree.open", FALSE, {}, {{"path", "branch"}}, <<>>))
    @@ ("WorktreeRemove" :> Plain("worktree.remove"))

calls == workspaceCalls @@ tabCalls @@ paneCalls @@ layoutCalls @@ moveCalls
         @@ agentCalls @@ worktreeCalls

(* Whether the client sends the call rather than refuse its arguments. *)
Sends(c, subject, p) ==
    /\ c.subject => subject # ""
    /\ c.needs \subseteq DOMAIN p
    /\ \A fs \in c.oneOf : fs \cap DOMAIN p # {}
    /\ \A f \in DOMAIN c.accepts \cap DOMAIN p : p[f] \in c.accepts[f]

-----------------------------------------------------------------------------
VARIABLES
    phase,      \* "idle", "received", "guarded", "failed" or "sent"
    op, params, \* the request
    nonce,      \* the confirmation it presents: [op, resource] or NoNonce
    resource,   \* the id the server guarded, confirmed and audited
    failure,    \* why it failed
    wire        \* the request Herdr saw, or NoWire

vars == <<phase, op, params, nonce, resource, failure, wire>>

NoNonce == [op |-> "", resource |-> ""]
NoWire == [method |-> "", subject |-> "", force |-> FALSE]

Init == /\ phase = "idle" /\ op = None /\ params = <<>> /\ nonce = NoNonce
        /\ resource = "" /\ failure = None /\ wire = NoWire

(* The fields of a request for op: resource ids, what the dispatcher        *)
(* decodes, and one field nobody knows.                                     *)
RequestFields(o) ==
    IdFields \cup {"other"}
    \cup IF o \in DOMAIN dispatchMutation THEN dispatchMutation[o].fields ELSE {}

(* A nonce issued by the confirmations route, for an action and a resource. *)
Nonces == [op : DOMAIN confirmable, resource : Ids]

(* A client composes a request: its operation, then its fields. *)
Ask ==
    /\ phase = "idle"
    /\ op' \in DOMAIN operations \cup {"server.stop"}
    /\ phase' = "received"
    /\ UNCHANGED <<params, nonce, resource, failure, wire>>

AddField ==
    /\ phase = "received"
    /\ Cardinality(DOMAIN params) < MaxFields
    /\ \E f \in RequestFields(op) \ DOMAIN params : \E v \in Held(f) :
          params' = (f :> v) @@ params
    /\ UNCHANGED <<phase, op, nonce, resource, failure, wire>>

Fail(why) ==
    /\ phase' = "failed"
    /\ failure' = why
    /\ UNCHANGED <<op, params, wire>>

(* handleMutations up to the dispatch: the allowlist, the conflicting       *)
(* identifiers, the confirmation and the pane's generation.                 *)
Guard ==
    /\ phase = "received"
    /\ IF op \notin DOMAIN operations THEN Fail("unknown") /\ UNCHANGED <<nonce, resource>>
       ELSE LET spec == operations[op]
                r == paramString(params, spec.resourceField)
            IN  /\ resource' = r
                /\ \/ /\ divergentAlt(params, spec.alt, r)
                      /\ Fail("conflict") /\ UNCHANGED nonce
                   \/ /\ ~divergentAlt(params, spec.alt, r)
                      /\ \E n \in IF spec.confirm THEN Nonces \cup {NoNonce} ELSE {NoNonce} :
                           /\ nonce' = n
                           /\ IF \/ spec.confirm /\ n = NoNonce
                                 \/ generationChecked(op) /\ r \notin Live
                              THEN Fail("refused")
                              ELSE /\ phase' = "guarded"
                                   /\ UNCHANGED <<op, params, failure, wire>>

(* The nonce is consumed only for the action and resource it was issued for. *)
NonceMatches == nonce.op = op /\ nonce.resource = resource

RefuseNonce ==
    /\ phase = "guarded"
    /\ operations[op].confirm /\ ~NonceMatches
    /\ Fail("confirmation")
    /\ UNCHANGED <<nonce, resource>>

(* agent.start is checked against the kinds this Herdr reports it can start. *)
KindAllowed == op = "agent.start" => paramString(params, "kind") = "startable"

(* The adapter and the dispatcher, down to the request Herdr sees. *)
Mutate ==
    /\ phase = "guarded"
    /\ operations[op].confirm => NonceMatches
    /\ UNCHANGED <<nonce, resource>>
    /\ \/ ~KindAllowed /\ Fail("kind")
       \/ /\ KindAllowed /\ op \notin DOMAIN dispatchMutation
          /\ Fail("unimplemented")
       \/ /\ KindAllowed /\ op \in DOMAIN dispatchMutation
          /\ LET entry == dispatchMutation[op]
                 c == calls[entry.call]
                 s == paramString(params, entry.subject)
             IN  IF ~decodes(op, params) THEN Fail("decode")
                 ELSE IF ~Sends(c, s, params) THEN Fail("arguments")
                 ELSE /\ phase' = "sent"
                      /\ wire' = [method |-> c.method, subject |-> s, force |-> entry.force]
                      /\ UNCHANGED <<op, params, failure>>

(* The response is written and the next request comes. *)
Respond ==
    /\ phase \in {"failed", "sent"}
    /\ phase' = "idle" /\ op' = None /\ params' = <<>> /\ nonce' = NoNonce
    /\ resource' = "" /\ failure' = None /\ wire' = NoWire

Next == Ask \/ AddField \/ Guard \/ RefuseNonce \/ Mutate \/ Respond

Spec == Init /\ [][Next]_vars

-----------------------------------------------------------------------------
Sent == phase = "sent"

(* What an operation's nonce promises to run. *)
Promised(o) ==
    [method |-> IF o = "worktree.remove_force" THEN "worktree.remove" ELSE o,
     force |-> o = "worktree.remove_force"]

(***************************************************************************)
(* Type invariant.                                                         *)
(***************************************************************************)
TypeOK ==
    /\ phase \in {"idle", "received", "guarded", "failed", "sent"}
    /\ op \in DOMAIN operations \cup {"server.stop", None}
    /\ nonce = NoNonce \/ nonce \in Nonces
    /\ resource \in Ids \cup {""}
    /\ failure \in {None, "unknown", "conflict", "refused", "confirmation", "kind",
                     "unimplemented", "decode", "arguments"}
    /\ Sent <=> wire # NoWire

(***************************************************************************)
(* The guard and the dispatch act on one resource (mutate.go: "so guard    *)
(* and dispatch always act on one pane", "the confirmation binding and the *)
(* dispatched call address the same resource"): whenever the allowlist     *)
(* names a resource field, the request Herdr sees is for the id the server *)
(* read from that field, which is not empty, and a pane so addressed had   *)
(* its generation checked.                                                 *)
(***************************************************************************)
GuardAndDispatchAgree ==
    Sent /\ operations[op].resourceField # "" =>
        /\ wire.subject = resource /\ resource # ""
        /\ wire.method \notin {"workspace.focus", "workspace.rename", "workspace.close",
                               "tab.focus", "tab.rename", "tab.move", "tab.close",
                               "worktree.remove"} => resource \in Live

(***************************************************************************)
(* Nothing is destroyed without its own confirmation (herdr/mutations.go:  *)
(* "Gate behind a confirmation nonce at the HTTP layer", and a forced      *)
(* removal needs "a second, explicit force confirmation"): a close or a    *)
(* removal that reaches Herdr was confirmed by a nonce issued for exactly  *)
(* that method, that force and that resource.                              *)
(***************************************************************************)
DestructionConfirmed ==
    Sent /\ wire.method \in {"workspace.close", "tab.close", "pane.close",
                             "worktree.remove"} =>
        /\ nonce # NoNonce
        /\ Promised(nonce.op) = [method |-> wire.method, force |-> wire.force]
        /\ nonce.resource = wire.subject

(***************************************************************************)
(* "Every branch here corresponds to exactly one entry in the server's     *)
(* mutation allowlist" (mutate.go): an allowlisted request never ends as   *)
(* not implemented, an operation outside the allowlist never reaches the   *)
(* dispatcher, and what reaches Herdr is the method of that name.          *)
(***************************************************************************)
AllowlistImplemented ==
    /\ failure # "unimplemented"
    /\ Sent => [method |-> wire.method, force |-> wire.force] = Promised(op)
    /\ DOMAIN dispatchMutation = DOMAIN operations

(***************************************************************************)
(* agent.start never reaches Herdr for a kind that discovery did not       *)
(* report (adapters.go: "a stale or guessed kind is rejected rather than   *)
(* attempted").                                                            *)
(***************************************************************************)
StartsKnownKinds == Sent /\ op = "agent.start" => params["kind"] = "startable"

(***************************************************************************)
(* "Use explicit IDs on every mutation. Never rely on Herdr UI focus."     *)
(* (SPEC.md section 10): every request Herdr sees other than the creation  *)
(* of a workspace or the choice of a worktree by path names its subject.   *)
(***************************************************************************)
ExplicitIds ==
    Sent /\ wire.method \notin {"workspace.create", "worktree.create", "worktree.open"}
        => wire.subject # ""

(***************************************************************************)
(* "The dispatcher prefers "target" over "pane_id" when present" and       *)
(* "prefers "workspace_id" for removal" (server/mutations.go): a request   *)
(* whose alternate identifier agrees with the canonical one, and that      *)
(* carries nothing else unexpected, is not refused by the decode.          *)
(***************************************************************************)
AlternateUnderstood ==
    failure = "decode" /\ operations[op].alt # "" =>
        ~ /\ operations[op].alt \in DOMAIN params
          /\ paramString(params, operations[op].alt) = resource
          /\ decodes(op, Restrict(params, DOMAIN params \ {operations[op].alt}))

=============================================================================
