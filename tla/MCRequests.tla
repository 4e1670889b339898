----------------------------- MODULE MCRequests -----------------------------
(***************************************************************************)
(* What a request may ask for and what may come back.  Side by side: the   *)
(* rate limiter and the routes into one pane (the modules it extends), the *)
(* three tables a mutation passes, the key syntax, the functions that cut  *)
(* text, and the terminal filter on two alphabets.  A behaviour is one of  *)
(* the component `part' names; the others rest in their initial state.     *)
(***************************************************************************)
EXTENDS RateLimiter, PaneRoutes, TLC

VARIABLES part,
    phase, op, params, confirmation, resource, failure, wire,
    key, text,
    filter, emitted, again, screen, source

Tables == INSTANCE Dispatch WITH Ids <- {"p", "q"}, Live <- {"p"}, MaxFields <- 3,
                              nonce <- confirmation
Syntax == INSTANCE KeySyntax WITH MaxSymbols <- 5
Texts == INSTANCE TextBounds WITH MaxBytes <- 6

(* Bytes of control sequences, and bytes of strings and characters. *)
CsiBytes == {"ESC", "ENQ", "CAN", "DEL", "CSI", "[", "P", "Z", "m", "n", "p", "q", "x",
             "y", "0", ">", "SP", "$", "*"}
OscBytes == {"ESC", "BEL", "CAN", "OSC", "ST", "DCS", "NEL", "]", "BSL", "m", "0", "2",
             "5", "8", "?", "C2", "E2", "A5"}
Ansi == INSTANCE AnsiFilter WITH Bytes <- CsiBytes \cup OscBytes, MaxSeq <- 5, MaxStr <- 2

tableVars == <<phase, op, params, confirmation, resource, failure, wire>>
ansiVars == <<filter, emitted, again, screen, source>>

ASSUME /\ Tables!DispatchAssumption /\ Syntax!KeyAssumption /\ Texts!BoundsAssumption
       /\ Ansi!AnsiAssumption

MCInit ==
    /\ part \in {"limit", "tables", "keys", "text", "routes", "csi", "osc"}
    /\ LimitInit /\ Tables!Init /\ Syntax!Init /\ Texts!Init /\ RouteInit /\ Ansi!Init
    /\ part # "routes" => agents = {}

Read(alphabet) == Ansi!Reset \/ \E b \in alphabet : Ansi!Feed(b)

MCNext ==
    /\ part' = part
    /\ \/ part = "limit" /\ LimitNext /\ UNCHANGED <<tableVars, key, text, routeVars, ansiVars>>
       \/ part = "tables" /\ Tables!Next /\ UNCHANGED <<limitVars, key, text, routeVars, ansiVars>>
       \/ part = "keys" /\ Syntax!Next /\ UNCHANGED <<limitVars, tableVars, text, routeVars, ansiVars>>
       \/ part = "text" /\ Texts!Next /\ UNCHANGED <<limitVars, tableVars, key, routeVars, ansiVars>>
       \/ part = "routes" /\ RouteNext /\ UNCHANGED <<limitVars, tableVars, key, text, ansiVars>>
       \/ part = "csi" /\ Read(CsiBytes) /\ UNCHANGED <<limitVars, tableVars, key, text, routeVars>>
       \/ part = "osc" /\ Read(OscBytes) /\ UNCHANGED <<limitVars, tableVars, key, text, routeVars>>

MCSpec == MCInit /\ [][MCNext]_<<part, limitVars, tableVars, key, text, routeVars, ansiVars>>

MCSymmetry ==
    Permutations(Keys) \cup Permutations(Callers)
    \cup Permutations(Requests) \cup Permutations(Sessions)

(* The tables of mutations agree: what reaches Herdr is for the id the server
   guarded; a close or removal was confirmed for exactly that method, force and
   resource; allowlist and dispatcher name the same operations; only discovered
   kinds are started (handleMutations, dispatchMutation, mutate.go). *)
TablesAgree ==
    part = "tables" =>
        /\ Tables!GuardAndDispatchAgree /\ Tables!DestructionConfirmed
        /\ Tables!AllowlistImplemented /\ Tables!StartsKnownKinds

(* Keys and text are bounded as documented: ValidateLogicalKey accepts the
   documented syntax and nothing else; a cut falls on a character boundary and
   loses no more than it must; a WebSocket close reason is legal; the last lines
   of a text are its last lines. *)
TextChecked ==
    /\ part = "keys" => Syntax!OnlyDocumentedKeys /\ Syntax!DocumentedKeysAccepted
    /\ part = "text" =>
          /\ Texts!TailIsLongest /\ Texts!CutIsLongest
          /\ Texts!ReasonIsLegal /\ Texts!LinesAreEnds

(* The output filter, for every stream and every cut of it: no control on the
   list of stripped ones gets out, a second filter changes nothing, and what only
   draws is kept (Filter.Write). *)
FilterSound ==
    part \in {"csi", "osc"} =>
        Ansi!OutputHarmless /\ Ansi!Idempotent /\ Ansi!DrawingPreserved
=============================================================================
