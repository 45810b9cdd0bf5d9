--------------------------- MODULE ProviderRouting ---------------------------
(***************************************************************************)
(* Provider profiles, model assignments and routed calls of a project      *)
(* (backend/app/llm: provider_profiles.py, provider_model_assignment.py,   *)
(* provider_model_discovery.py, provider_router.py, provider_gateway.py,   *)
(* openai_compatible_provider.py, and their handlers in main.py).          *)
(*                                                                         *)
(* Profiles and assignments are files of the project.  A call lists the    *)
(* enabled profiles, loads the assignments, lets the router choose, and    *)
(* then tries the chosen providers in turn; nothing is locked meanwhile.   *)
(* A policy is what can refuse a request: its content, or a model that is  *)
(* not local.                                                              *)
(***************************************************************************)
EXTENDS Integers, Sequences, FiniteSets

CONSTANTS
    Workers,   \* threads of the request pool
    Profiles,  \* provider profile ids
    ModelIds,  \* model ids in their sort order, a sequence
    Uses,      \* use cases of the router
    JsonUses,  \* JSON_ROUTING_USE_CASES
    Shapes,    \* what a user writes in a profile
    Rules,     \* what a user assigns to a use case
    Contexts,  \* what callers ask for
    Fetched,   \* model lists a provider may answer a synchronisation with
    Defaults,  \* default_model_capabilities: what the registry lists for nothing
    NoProfile, \* no file for the profile
    NoRule,    \* no enabled rule for the use case
    MaxOps     \* bound on requests

NoTarget == <<>>
Models == {ModelIds[i] : i \in DOMAIN ModelIds}
ModelCaps == [id : Models, json : BOOLEAN]
Contents == {"plain", "sensitive", "mature"}

\* A profile has at least one model; primary_model_id is the first.  usable: its
\* key and its base url can be resolved.
ProfileShapes == [enabled : BOOLEAN, usable : BOOLEAN, local : BOOLEAN,
                  attempts : Nat \ {0}, models : Seq(ModelCaps) \ {<<>>}]
Targets == Profiles \X Models
Policies == [refuses : SUBSET Contents, local : BOOLEAN, matureLocal : BOOLEAN]
RoutingRules == [primary : Targets, fallback : Targets \cup {NoTarget},
                 json : BOOLEAN, local : BOOLEAN, policy : Policies]
RoutingContexts == [use : Uses, content : Contents, allowed : BOOLEAN,
                    local : BOOLEAN, override : BOOLEAN]

ASSUME RoutingAssumption ==
    /\ ModelIds \in Seq(Models) /\ JsonUses \subseteq Uses
    /\ Shapes \subseteq ProfileShapes /\ Rules \subseteq RoutingRules
    /\ Contexts \subseteq RoutingContexts
    /\ \A found \in Fetched : found \in Seq(ModelCaps)
    /\ Defaults \in [Profiles -> ProfileShapes \cup {NoProfile}]
    /\ NoProfile \notin ProfileShapes /\ NoRule \notin RoutingRules
    /\ MaxOps \in Nat

VARIABLES
    profiles,  \* providers/profiles/<id>.yaml
    config,    \* providers/model_assignments.yaml, a rule per use case
    req,       \* the request each worker is in the middle of
    ops

vars == <<profiles, config, req, ops>>

Idle == [pc |-> "idle"]
At(w, pc) == req[w].pc = pc
Goto(w, r) == req' = [req EXCEPT ![w] = r]
Begin(w) == At(w, "idle") /\ ops < MaxOps /\ ops' = ops + 1

-----------------------------------------------------------------------------
(* The router: registry r maps a profile id to what is known of the profile *)

\* build_project_provider_registry: an empty list of profiles is falsy, and the
\* registry takes its defaults instead.
Registry(listed) == IF \A p \in Profiles : listed[p] = NoProfile THEN Defaults ELSE listed

\* _require_provider and _require_model
Known(r, t) == /\ t # NoTarget /\ r[t[1]] # NoProfile
               /\ \E i \in DOMAIN r[t[1]].models : r[t[1]].models[i].id = t[2]
SpeaksJson(r, t) == \E i \in DOMAIN r[t[1]].models :
                       r[t[1]].models[i] = [id |-> t[2], json |-> TRUE]

NeedsJson(use, rule) == rule.json \/ use \in JsonUses

\* _model_constraint_errors
Constrained(r, rule, t) == rule.local /\ ~r[t[1]].local

\* Primary without JSON, fallback with it: a warning, not an error.
JsonByFallback(r, use, rule) ==
    /\ NeedsJson(use, rule) /\ Known(r, rule.primary) /\ ~SpeaksJson(r, rule.primary)
    /\ Known(r, rule.fallback) /\ SpeaksJson(r, rule.fallback)

\* validate_routing_rule
RuleOk(r, use, rule) ==
    /\ Known(r, rule.primary) /\ ~Constrained(r, rule, rule.primary)
    /\ rule.fallback # NoTarget =>
          Known(r, rule.fallback) /\ ~Constrained(r, rule, rule.fallback)
    /\ NeedsJson(use, rule) => SpeaksJson(r, rule.primary) \/ JsonByFallback(r, use, rule)

\* Mutant: the fallback may be a model without JSON.
ValidFallbackAnyOutput(r, use, rule) ==
    Known(r, rule.fallback) /\ ~Constrained(r, rule, rule.fallback)

\* _valid_fallback
ValidFallback(r, use, rule) ==
    /\ Known(r, rule.fallback) /\ ~Constrained(r, rule, rule.fallback)
    /\ NeedsJson(use, rule) => SpeaksJson(r, rule.fallback)

\* _policy_errors
Forbidden(c, policy, r, t) ==
    \/ c.content \in policy.refuses
    \/ c.content = "mature" /\ policy.matureLocal /\ ~r[t[1]].local
    \/ (c.local \/ policy.local) /\ ~c.override /\ ~r[t[1]].local

\* ProviderSafetyPolicy()
DefaultPolicy == [refuses |-> {"sensitive", "mature"}, local |-> FALSE, matureLocal |-> FALSE]

\* select_model_for_use_case for a rule without errors.  It knows the use, not the
\* request: no policy is asked about the fallback it takes.
Select(r, use, rule) == IF JsonByFallback(r, use, rule) THEN rule.fallback ELSE rule.primary

\* fallback_for_use_case
Second(r, c, rule) ==
    IF ValidFallback(r, c.use, rule) /\ ~Forbidden(c, rule.policy, r, rule.fallback)
    THEN rule.fallback ELSE NoTarget

\* resolve_provider_for_use_case with a rule; NoTarget is its ValueError.
First(r, c, rule) ==
    IF RuleOk(r, c.use, rule) /\ ~Forbidden(c, rule.policy, r, rule.primary)
    THEN Select(r, c.use, rule) ELSE Second(r, c, rule)

\* _provider_chain
Chain(r, c, rule) ==
    LET first == First(r, c, rule)
        second == Second(r, c, rule)
    IN  IF first = NoTarget THEN <<>>
        ELSE IF second \in {NoTarget, first} THEN <<first>> ELSE <<first, second>>

\* _default_model_for_use_case prefers recommended models, which are not
\* modelled: any model that will do may come first.
DefaultChains(r, c) ==
    LET able == {t \in Targets : Known(r, t) /\ (c.use \in JsonUses => SpeaksJson(r, t))}
    IN  IF able = {} THEN {<<>>}
        ELSE {IF Forbidden(c, DefaultPolicy, r, t) THEN <<>> ELSE <<t>> : t \in able}

\* Mutant: the first check of the rating is missing.
ChainsAnyRating(r, c, rule) ==
    IF rule = NoRule THEN DefaultChains(r, c) ELSE {Chain(r, c, rule)}

\* reject_or_downgrade_by_policy comes first.
Chains(r, c, rule) ==
    IF c.content = "mature" /\ ~c.allowed THEN {<<>>}
    ELSE IF rule = NoRule THEN DefaultChains(r, c) ELSE {Chain(r, c, rule)}

-----------------------------------------------------------------------------
(* Profiles and assignments *)

\* The process finds profiles, and assignments that were accepted for them.
Init ==
    /\ profiles \in [Profiles -> Shapes \cup {NoProfile}]
    /\ config \in [Uses -> Rules \cup {NoRule}]
    /\ \A u \in Uses : config[u] # NoRule => RuleOk(Registry(profiles), u, config[u])
    /\ req = [w \in Workers |-> Idle]
    /\ ops = 0

\* create_project_provider_profile; POST overwrites.
PutProfile(w, p, s) ==
    /\ Begin(w)
    /\ profiles' = [profiles EXCEPT ![p] = s]
    /\ UNCHANGED <<config, req>>

DeleteProfile(w, p) ==
    /\ Begin(w)
    /\ profiles' = [profiles EXCEPT ![p] = NoProfile]
    /\ UNCHANGED <<config, req>>

\* sync_project_provider_models loads the profile, asks the provider, ...
Sync(w, p) ==
    /\ Begin(w) /\ profiles[p] # NoProfile
    /\ Goto(w, [pc |-> "sync", profile |-> p, loaded |-> profiles[p]])
    /\ UNCHANGED <<profiles, config>>

Ids(models) == {models[i].id : i \in DOMAIN models}
CapsOf(models, id) == CHOOSE caps \in ModelCaps : caps.id = id /\ \E i \in DOMAIN models : models[i] = caps

\* The ids of a set as ModelIds sorts them.
Sorted(ids) ==
    LET sorted[i \in 0..Len(ModelIds)] ==
            IF i = 0 THEN <<>>
            ELSE IF ModelIds[i] \in ids THEN Append(sorted[i - 1], ModelIds[i]) ELSE sorted[i - 1]
    IN  sorted[Len(ModelIds)]

\* Mutant: what the provider lists replaces what was known.
ReplacedModels(old, found) == found

\* sync_provider_models_safe: what the provider lists replaces what was known of
\* it, the rest stays, and the list is sorted by id.
MergedModels(old, found) ==
    LET order == Sorted(Ids(old) \cup Ids(found))
    IN  [i \in DOMAIN order |-> CapsOf(IF order[i] \in Ids(found) THEN found ELSE old, order[i])]

\* ... and saves the profile it had loaded with the merged models.
SyncSave(w, found) ==
    /\ At(w, "sync")
    /\ profiles' = [profiles EXCEPT ![req[w].profile] =
                       [req[w].loaded EXCEPT !.models = MergedModels(@, found)]]
    /\ Goto(w, Idle)
    /\ UNCHANGED <<config, ops>>

SyncFail(w) == At(w, "sync") /\ Goto(w, Idle) /\ UNCHANGED <<profiles, config, ops>>

\* save_project_provider_model_assignments: every profile counts, enabled or not.
Assign(w, rules) ==
    /\ Begin(w)
    /\ IF \A u \in Uses : rules[u] # NoRule => RuleOk(Registry(profiles), u, rules[u])
       THEN Goto(w, [pc |-> "assign", rules |-> rules])
       ELSE UNCHANGED req
    /\ UNCHANGED <<profiles, config>>

AssignSave(w) ==
    /\ At(w, "assign")
    /\ config' = req[w].rules
    /\ Goto(w, Idle)
    /\ UNCHANGED <<profiles, ops>>

-----------------------------------------------------------------------------
(* Calls *)

EnabledProfiles == [p \in Profiles |->
    IF profiles[p] # NoProfile /\ profiles[p].enabled THEN profiles[p] ELSE NoProfile]

\* project_provider_gateway_from_project makes a provider of every enabled
\* profile; one that cannot be made ends the call.
Call(w, c) ==
    /\ Begin(w)
    /\ LET listed == EnabledProfiles
       IN  IF \A p \in Profiles : listed[p] # NoProfile => listed[p].usable
           THEN Goto(w, [pc |-> "route", context |-> c, listed |-> listed])
           ELSE UNCHANGED req
    /\ UNCHANGED <<profiles, config>>

\* How often a provider is asked; one that is not there is passed over.
AttemptsAt(listed, chain) ==
    IF chain = <<>> \/ listed[Head(chain)[1]] = NoProfile THEN 0
    ELSE listed[Head(chain)[1]].attempts

\* The assignments are loaded and the router decides.
Route(w) ==
    /\ At(w, "route")
    /\ LET r == req[w]
           rule == config[r.context.use]
       IN  \E chain \in Chains(Registry(r.listed), r.context, rule) :
              Goto(w, [pc |-> "try", context |-> r.context, listed |-> r.listed,
                       rule |-> rule, chain |-> chain, left |-> AttemptsAt(r.listed, chain)])
    /\ UNCHANGED <<profiles, config, ops>>

Trying(w) == At(w, "try") /\ req[w].chain # <<>> /\ req[w].left > 0

\* The target the router named.  Of it the gateway takes the provider alone, and the
\* provider calls the first model of its profile (primary_model_id), whichever
\* model was named.
TargetOf(w) == Head(req[w].chain)

Answered(w) == Trying(w) /\ Goto(w, Idle) /\ UNCHANGED <<profiles, config, ops>>

\* The transport raises and _chat tries again.
Retry(w) ==
    /\ Trying(w)
    /\ Goto(w, [req[w] EXCEPT !.left = @ - 1])
    /\ UNCHANGED <<profiles, config, ops>>

\* An answer that is not the JSON asked for is not retried.
BadAnswer(w) ==
    /\ Trying(w)
    /\ Goto(w, [req[w] EXCEPT !.left = 0])
    /\ UNCHANGED <<profiles, config, ops>>

\* Mutant: the provider that failed stays at the head of the chain.
GiveUpNothing(w) ==
    /\ At(w, "try") /\ ~Trying(w)
    /\ IF req[w].chain = <<>> THEN Goto(w, Idle)
       ELSE Goto(w, [req[w] EXCEPT !.left = AttemptsAt(req[w].listed, req[w].chain)])
    /\ UNCHANGED <<profiles, config, ops>>

\* The next provider of the chain, or the end of the call.
GiveUp(w) ==
    /\ At(w, "try") /\ ~Trying(w)
    /\ IF req[w].chain = <<>> THEN Goto(w, Idle)
       ELSE LET rest == Tail(req[w].chain)
            IN  Goto(w, [req[w] EXCEPT !.chain = rest, !.left = AttemptsAt(req[w].listed, rest)])
    /\ UNCHANGED <<profiles, config, ops>>

CallStep(w) == Route(w) \/ Answered(w) \/ Retry(w) \/ BadAnswer(w) \/ GiveUp(w)

Next == \E w \in Workers :
    \/ \E p \in Profiles, s \in Shapes : PutProfile(w, p, s)
    \/ \E p \in Profiles : DeleteProfile(w, p) \/ Sync(w, p)
    \/ \E found \in Fetched : SyncSave(w, found)
    \/ SyncFail(w)
    \/ \E rules \in [Uses -> Rules \cup {NoRule}] : Assign(w, rules)
    \/ AssignSave(w)
    \/ \E c \in Contexts : Call(w, c)
    \/ CallStep(w)

\* A worker goes on with its call; every attempt has a timeout.
Spec == Init /\ [][Next]_vars /\ \A w \in Workers : WF_vars(CallStep(w))

-----------------------------------------------------------------------------
(* Properties *)

\* Profiles always name a model, so that a provider always has one to call.
TypeOK ==
    /\ profiles \in [Profiles -> ProfileShapes \cup {NoProfile}]
    /\ config \in [Uses -> RoutingRules \cup {NoRule}]
    /\ ops \in 0..MaxOps
    /\ \A w \in Workers :
          /\ req[w].pc \in {"idle", "sync", "assign", "route", "try"}
          /\ At(w, "sync") => req[w].profile \in Profiles /\ req[w].loaded \in ProfileShapes
          /\ At(w, "assign") => req[w].rules \in [Uses -> RoutingRules \cup {NoRule}]
          /\ At(w, "route") \/ At(w, "try") =>
                /\ req[w].context \in RoutingContexts
                /\ req[w].listed \in [Profiles -> ProfileShapes \cup {NoProfile}]
          /\ At(w, "try") =>
                /\ req[w].rule \in RoutingRules \cup {NoRule}
                /\ req[w].chain \in Seq(Targets) /\ req[w].left \in Nat

RuleNeedsJson(w) == LET use == req[w].context.use
                    IN  use \in JsonUses \/ (req[w].rule # NoRule /\ req[w].rule.json)

\* The router never names a model without JSON for a request that needs it, also
\* not as the second of a chain, whatever became of profiles and assignments
\* between the listing, the loading and the attempt.  It is about the model that is
\* named: a provider whose first model is another one calls that.
JsonRouted == \A w \in Workers : Trying(w) /\ RuleNeedsJson(w) =>
                                     SpeaksJson(req[w].listed, TargetOf(w))

\* Content is refused whoever would answer: no chain gets around it.
RefusedContentStays ==
    \A w \in Workers : Trying(w) =>
        /\ req[w].context.content = "mature" => req[w].context.allowed
        /\ req[w].context.content \notin
              (IF req[w].rule = NoRule THEN DefaultPolicy ELSE req[w].rule.policy).refuses

\* Every call ends, with an answer or an error.
CallsEnd == \A w \in Workers : At(w, "route") \/ At(w, "try") ~> At(w, "idle")

-----------------------------------------------------------------------------
(* Claims of the documentation that the code does not keep *)

\* "Primary and fallback provider choices must satisfy the same safety policy": no
\* provider is asked that the policy of its rule forbids for the request.  The
\* fallback that is selected for its JSON takes the place of a primary that was
\* allowed, and nothing asks whether it is allowed itself.
PolicyKept ==
    \A w \in Workers : Trying(w) =>
        ~Forbidden(req[w].context,
                   IF req[w].rule = NoRule THEN DefaultPolicy ELSE req[w].rule.policy,
                   req[w].listed, TargetOf(w))
=============================================================================
