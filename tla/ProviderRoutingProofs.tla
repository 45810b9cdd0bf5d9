------------------------ MODULE ProviderRoutingProofs ------------------------
(* Proofs for ProviderRouting: what the chain of a call may hold, for any    *)
(* number of profiles, rules and requests at a time.                         *)
EXTENDS ProviderRouting, Recursion

PolicyOf(rule) == IF rule = NoRule THEN DefaultPolicy ELSE rule.policy
AsksJson(use, rule) == use \in JsonUses \/ (rule # NoRule /\ rule.json)

\* What a member of the chain of a call may be.
Good(listed, c, rule, t) ==
    /\ t \in Targets
    /\ AsksJson(c.use, rule) => SpeaksJson(Registry(listed), t)
    /\ Forbidden(c, PolicyOf(rule), Registry(listed), t) =>
          /\ rule # NoRule
          /\ JsonByFallback(Registry(listed), c.use, rule)
          /\ t = rule.fallback
    /\ c.content = "mature" => c.allowed
    /\ c.content \notin PolicyOf(rule).refuses

GoodChain(listed, c, rule, chain) ==
    \/ chain = <<>>
    \/ \E a : chain = <<a>> /\ Good(listed, c, rule, a)
    \/ \E a, b : chain = <<a, b>> /\ Good(listed, c, rule, a) /\ Good(listed, c, rule, b)

RulesByUse == [Uses -> Rules \cup {NoRule}]

\* What a request knows; one with an attempt left has a provider to ask.
RequestOK(r) ==
    /\ r.pc = "assign" => r.rules \in RulesByUse
    /\ r.pc = "route" => r.context \in Contexts
    /\ r.pc = "try" =>
          /\ GoodChain(r.listed, r.context, r.rule, r.chain)
          /\ r.left > 0 => r.chain # <<>> /\ r.listed[Head(r.chain)[1]] # NoProfile

\* The inductive invariant.
Routed ==
    /\ config \in RulesByUse
    /\ DOMAIN req = Workers
    /\ \A w \in Workers : RequestOK(req[w])

-----------------------------------------------------------------------------
(* The router *)

LEMMA SelectGood ==
    ASSUME NEW r, NEW c \in RoutingContexts, NEW rule \in RoutingRules,
           RuleOk(r, c.use, rule), ~Forbidden(c, rule.policy, r, rule.primary)
    PROVE  LET t == Select(r, c.use, rule)
           IN  /\ t \in Targets
               /\ NeedsJson(c.use, rule) => SpeaksJson(r, t)
               /\ Forbidden(c, rule.policy, r, t) => /\ JsonByFallback(r, c.use, rule)
                                                     /\ t = rule.fallback
               /\ c.content \notin rule.policy.refuses
<1>1. rule.primary \in Targets /\ rule.fallback \in Targets \cup {NoTarget}
  BY DEF RoutingRules
<1>2. c.content \notin rule.policy.refuses
  BY DEF Forbidden
<1>3. CASE JsonByFallback(r, c.use, rule)
  <2>1. Select(r, c.use, rule) = rule.fallback
    BY <1>3 DEF Select
  <2>2. rule.fallback \in Targets /\ SpeaksJson(r, rule.fallback)
    BY <1>1, <1>3 DEF JsonByFallback, Known
  <2>. QED
    BY <1>2, <1>3, <2>1, <2>2
<1>4. CASE ~JsonByFallback(r, c.use, rule)
  <2>1. Select(r, c.use, rule) = rule.primary
    BY <1>4 DEF Select
  <2>2. NeedsJson(c.use, rule) => SpeaksJson(r, rule.primary)
    BY <1>4 DEF RuleOk
  <2>. QED
    BY <1>1, <1>2, <2>1, <2>2
<1>. QED
  BY <1>3, <1>4

LEMMA SecondGood ==
    ASSUME NEW r, NEW c \in RoutingContexts, NEW rule \in RoutingRules,
           Second(r, c, rule) # NoTarget
    PROVE  LET t == Second(r, c, rule)
           IN  /\ t \in Targets
               /\ NeedsJson(c.use, rule) => SpeaksJson(r, t)
               /\ ~Forbidden(c, rule.policy, r, t)
               /\ c.content \notin rule.policy.refuses
<1>1. /\ Second(r, c, rule) = rule.fallback
      /\ ValidFallback(r, c.use, rule) /\ ~Forbidden(c, rule.policy, r, rule.fallback)
  BY DEF Second
<1>2. rule.fallback \in Targets
  BY <1>1 DEF RoutingRules, ValidFallback, Known
<1>3. NeedsJson(c.use, rule) => SpeaksJson(r, rule.fallback)
  BY <1>1 DEF ValidFallback
<1>4. c.content \notin rule.policy.refuses
  BY <1>1 DEF Forbidden
<1>. QED
  BY <1>1, <1>2, <1>3, <1>4

LEMMA ChainGood ==
    ASSUME NEW listed, NEW c \in RoutingContexts, NEW rule \in RoutingRules,
           c.content = "mature" => c.allowed
    PROVE  GoodChain(listed, c, rule, Chain(Registry(listed), c, rule))
<1>. DEFINE r == Registry(listed)
            first == First(r, c, rule)
            second == Second(r, c, rule)
<1>1. rule # NoRule
  BY RoutingAssumption
<1>2. PolicyOf(rule) = rule.policy
  BY <1>1 DEF PolicyOf
<1>3. AsksJson(c.use, rule) => NeedsJson(c.use, rule)
  BY <1>1 DEF AsksJson, NeedsJson
<1>4. second # NoTarget => Good(listed, c, rule, second)
  <2>. SUFFICES ASSUME second # NoTarget
                PROVE  Good(listed, c, rule, second)
    OBVIOUS
  <2>1. /\ second \in Targets
        /\ NeedsJson(c.use, rule) => SpeaksJson(r, second)
        /\ ~Forbidden(c, rule.policy, r, second)
        /\ c.content \notin rule.policy.refuses
    BY SecondGood
  <2>. QED
    BY <1>2, <1>3, <2>1 DEF Good
<1>5. first # NoTarget => Good(listed, c, rule, first)
  <2>. SUFFICES ASSUME first # NoTarget
                PROVE  Good(listed, c, rule, first)
    OBVIOUS
  <2>1. CASE RuleOk(r, c.use, rule) /\ ~Forbidden(c, rule.policy, r, rule.primary)
    <3>1. first = Select(r, c.use, rule)
      BY <2>1 DEF First
    <3>2. /\ first \in Targets
          /\ NeedsJson(c.use, rule) => SpeaksJson(r, first)
          /\ Forbidden(c, rule.policy, r, first) => /\ JsonByFallback(r, c.use, rule)
                                                    /\ first = rule.fallback
          /\ c.content \notin rule.policy.refuses
      BY <2>1, <3>1, SelectGood
    <3>. QED
      BY <1>1, <1>2, <1>3, <3>2 DEF Good
  <2>2. CASE ~(RuleOk(r, c.use, rule) /\ ~Forbidden(c, rule.policy, r, rule.primary))
    <3>1. first = second
      BY <2>2 DEF First
    <3>. QED
      BY <1>4, <3>1
  <2>. QED
    BY <2>1, <2>2
<1>6. CASE first = NoTarget
  BY <1>6 DEF Chain, GoodChain
<1>7. CASE first # NoTarget /\ second \in {NoTarget, first}
  <2>1. Chain(r, c, rule) = <<first>>
    BY <1>7 DEF Chain
  <2>. QED
    BY <1>5, <1>7, <2>1 DEF GoodChain
<1>8. CASE first # NoTarget /\ second \notin {NoTarget, first}
  <2>1. Chain(r, c, rule) = <<first, second>>
    BY <1>8 DEF Chain
  <2>2. Good(listed, c, rule, first) /\ Good(listed, c, rule, second)
    BY <1>4, <1>5, <1>8
  <2>. HIDE DEF first, second
  <2>. QED
    BY <2>1, <2>2 DEF GoodChain
<1>. QED
  BY <1>6, <1>7, <1>8

LEMMA DefaultGood ==
    ASSUME NEW listed, NEW c \in RoutingContexts, c.content = "mature" => c.allowed,
           NEW chain \in DefaultChains(Registry(listed), c)
    PROVE  GoodChain(listed, c, NoRule, chain)
<1>. DEFINE r == Registry(listed)
            able == {t \in Targets : Known(r, t) /\ (c.use \in JsonUses => SpeaksJson(r, t))}
<1>1. CASE able = {}
  BY <1>1 DEF DefaultChains, GoodChain
<1>2. CASE able # {}
  <2>1. PICK t \in able : chain = IF Forbidden(c, DefaultPolicy, r, t) THEN <<>> ELSE <<t>>
    BY <1>2 DEF DefaultChains
  <2>2. CASE Forbidden(c, DefaultPolicy, r, t)
    BY <2>1, <2>2 DEF GoodChain
  <2>3. CASE ~Forbidden(c, DefaultPolicy, r, t)
    <3>1. chain = <<t>>
      BY <2>1, <2>3
    <3>2. PolicyOf(NoRule) = DefaultPolicy
      BY DEF PolicyOf
    <3>3. c.content \notin DefaultPolicy.refuses
      BY <2>3 DEF Forbidden
    <3>4. AsksJson(c.use, NoRule) => SpeaksJson(r, t)
      BY <2>1 DEF AsksJson
    <3>5. Good(listed, c, NoRule, t)
      BY <2>1, <2>3, <3>2, <3>3, <3>4 DEF Good
    <3>. QED
      BY <3>1, <3>5 DEF GoodChain
  <2>. QED
    BY <2>2, <2>3
<1>. QED
  BY <1>1, <1>2

LEMMA ChainsGood ==
    ASSUME NEW listed, NEW c \in Contexts, NEW rule \in Rules \cup {NoRule},
           NEW chain \in Chains(Registry(listed), c, rule)
    PROVE  GoodChain(listed, c, rule, chain)
<1>1. c \in RoutingContexts
  BY RoutingAssumption
<1>2. CASE c.content = "mature" /\ ~c.allowed
  BY <1>2 DEF Chains, GoodChain
<1>3. CASE ~(c.content = "mature" /\ ~c.allowed) /\ rule = NoRule
  BY <1>1, <1>3, DefaultGood DEF Chains
<1>4. CASE ~(c.content = "mature" /\ ~c.allowed) /\ rule # NoRule
  <2>1. rule \in RoutingRules
    BY <1>4, RoutingAssumption
  <2>2. chain = Chain(Registry(listed), c, rule)
    BY <1>4 DEF Chains
  <2>. QED
    BY <1>1, <1>4, <2>1, <2>2, ChainGood
<1>. QED
  BY <1>2, <1>3, <1>4

-----------------------------------------------------------------------------
(* The steps *)

LEMMA GotoRouted ==
    ASSUME Routed, NEW w \in Workers, NEW r, Goto(w, r), RequestOK(r), config' \in RulesByUse
    PROVE  Routed'
<1>1. DOMAIN req' = Workers
  BY DEF Routed, Goto
<1>2. ASSUME NEW v \in Workers
      PROVE  RequestOK(req'[v])
  <2>1. CASE v = w
    BY <2>1 DEF Routed, Goto
  <2>2. CASE v # w
    <3>1. req'[v] = req[v]
      BY <2>2 DEF Routed, Goto
    <3>. QED
      BY <3>1 DEF Routed
  <2>. QED
    BY <2>1, <2>2
<1>. QED
  BY <1>1, <1>2 DEF Routed

LEMMA AttemptsLeft ==
    ASSUME NEW listed, NEW chain, AttemptsAt(listed, chain) > 0
    PROVE  chain # <<>> /\ listed[Head(chain)[1]] # NoProfile
  BY DEF AttemptsAt

LEMMA IdleOK == RequestOK(Idle)
  BY DEF RequestOK, Idle

LEMMA InitRouted == Init => Routed
<1>. SUFFICES ASSUME Init
              PROVE  Routed
  OBVIOUS
<1>1. config \in RulesByUse /\ DOMAIN req = Workers
  BY DEF Init, RulesByUse
<1>2. \A w \in Workers : req[w] = Idle
  BY DEF Init
<1>. QED
  BY <1>1, <1>2, IdleOK DEF Routed

LEMMA RouteRouted ==
    ASSUME Routed, NEW w \in Workers, Route(w)
    PROVE  Routed'
<1>. DEFINE r == req[w]
            rule == config[r.context.use]
<1>1. r.context \in Contexts
  BY DEF Routed, RequestOK, Route, At
<1>2. rule \in Rules \cup {NoRule}
  <2>1. r.context.use \in Uses
    BY <1>1, RoutingAssumption DEF RoutingContexts
  <2>. QED
    BY <2>1 DEF Routed, RulesByUse
<1>3. PICK chain \in Chains(Registry(r.listed), r.context, rule) :
          Goto(w, [pc |-> "try", context |-> r.context, listed |-> r.listed,
                   rule |-> rule, chain |-> chain, left |-> AttemptsAt(r.listed, chain)])
  BY DEF Route
<1>. DEFINE next == [pc |-> "try", context |-> r.context, listed |-> r.listed,
                     rule |-> rule, chain |-> chain, left |-> AttemptsAt(r.listed, chain)]
<1>4. GoodChain(r.listed, r.context, rule, chain)
  BY <1>1, <1>2, <1>3, ChainsGood
<1>5. RequestOK(next)
  BY <1>4, AttemptsLeft DEF RequestOK
<1>6. config' \in RulesByUse
  BY DEF Routed, Route
<1>. HIDE DEF next
<1>7. Goto(w, next)
  BY <1>3 DEF next
<1>. QED
  BY <1>5, <1>6, <1>7, GotoRouted

\* The rest of a good chain is good.
LEMMA TailGood ==
    ASSUME NEW listed, NEW c, NEW rule, NEW chain, GoodChain(listed, c, rule, chain), chain # <<>>
    PROVE  GoodChain(listed, c, rule, Tail(chain))
<1>1. ASSUME NEW a, chain = <<a>>
      PROVE  GoodChain(listed, c, rule, Tail(chain))
  BY <1>1 DEF GoodChain
<1>2. ASSUME NEW a, NEW b, chain = <<a, b>>, Good(listed, c, rule, b)
      PROVE  GoodChain(listed, c, rule, Tail(chain))
  <2>1. Tail(chain) = <<b>>
    BY <1>2
  <2>. QED
    BY <1>2, <2>1 DEF GoodChain
<1>. QED
  BY <1>1, <1>2 DEF GoodChain

LEMMA AttemptRouted ==
    ASSUME Routed, NEW w \in Workers, Retry(w) \/ BadAnswer(w) \/ GiveUp(w)
    PROVE  Routed'
<1>. DEFINE r == req[w]
<1>1. config' \in RulesByUse
  BY DEF Routed, Retry, BadAnswer, GiveUp
<1>2. r.pc = "try" /\ RequestOK(r)
  BY DEF Routed, Retry, BadAnswer, GiveUp, Trying, At
<1>3. CASE Retry(w)
  <2>. DEFINE next == [r EXCEPT !.left = @ - 1]
  <2>1. r.left > 0
    BY <1>3 DEF Retry, Trying
  <2>2. /\ next.pc = r.pc /\ next.listed = r.listed /\ next.context = r.context
        /\ next.rule = r.rule /\ next.chain = r.chain
    OBVIOUS
  <2>. HIDE DEF next
  <2>3. RequestOK(next)
    BY <1>2, <2>1, <2>2 DEF RequestOK
  <2>4. Goto(w, next)
    BY <1>3 DEF Retry, next
  <2>. QED
    BY <1>1, <2>3, <2>4, GotoRouted
<1>4. CASE BadAnswer(w)
  <2>. DEFINE next == [r EXCEPT !.left = 0]
  <2>1. r.left > 0
    BY <1>4 DEF BadAnswer, Trying
  <2>2. /\ next.pc = r.pc /\ next.listed = r.listed /\ next.context = r.context
        /\ next.rule = r.rule /\ next.chain = r.chain
    OBVIOUS
  <2>. HIDE DEF next
  <2>3. RequestOK(next)
    BY <1>2, <2>1, <2>2 DEF RequestOK
  <2>4. Goto(w, next)
    BY <1>4 DEF BadAnswer, next
  <2>. QED
    BY <1>1, <2>3, <2>4, GotoRouted
<1>5. CASE GiveUp(w) /\ r.chain = <<>>
  BY <1>1, <1>5, IdleOK, GotoRouted DEF GiveUp
<1>6. CASE GiveUp(w) /\ r.chain # <<>>
  <2>. DEFINE rest == Tail(r.chain)
              moved == [r EXCEPT !.chain = rest]
              next == [moved EXCEPT !.left = AttemptsAt(r.listed, rest)]
  <2>1. GoodChain(r.listed, r.context, r.rule, rest)
    BY <1>2, <1>6, TailGood DEF RequestOK
  <2>2. Goto(w, [r EXCEPT !.chain = rest, !.left = AttemptsAt(r.listed, rest)])
    BY <1>6 DEF GiveUp
  <2>3. [r EXCEPT !.chain = rest, !.left = AttemptsAt(r.listed, rest)] = next
    OBVIOUS
  <2>4. /\ next.pc = "try" /\ next.listed = r.listed /\ next.context = r.context
        /\ next.rule = r.rule
    BY <1>2
  <2>5. next.chain = rest /\ next.left = AttemptsAt(r.listed, rest)
    OBVIOUS
  <2>. HIDE DEF next, moved, rest
  <2>6. RequestOK(next)
    BY <2>1, <2>4, <2>5, AttemptsLeft DEF RequestOK
  <2>. QED
    BY <1>1, <2>2, <2>3, <2>6, GotoRouted
<1>. QED
  BY <1>3, <1>4, <1>5, <1>6

LEMMA UntouchedRouted ==
    ASSUME Routed, UNCHANGED <<config, req>>
    PROVE  Routed'
  BY DEF Routed

LEMMA NextRouted == Routed /\ [Next]_vars => Routed'
<1>. SUFFICES ASSUME Routed, [Next]_vars
              PROVE  Routed'
  OBVIOUS
<1>1. CASE UNCHANGED vars
  BY <1>1, UntouchedRouted DEF vars
<1>2. ASSUME NEW w \in Workers, NEW p, NEW s, PutProfile(w, p, s) \/ DeleteProfile(w, p)
      PROVE  Routed'
  BY <1>2, UntouchedRouted DEF PutProfile, DeleteProfile
<1>3. ASSUME NEW w \in Workers, NEW p, Sync(w, p)
      PROVE  Routed'
  <2>. DEFINE next == [pc |-> "sync", profile |-> p, loaded |-> profiles[p]]
  <2>1. RequestOK(next)
    BY DEF RequestOK
  <2>2. Goto(w, next) /\ config' \in RulesByUse
    BY <1>3 DEF Sync, Routed
  <2>. QED
    BY <2>1, <2>2, GotoRouted
<1>4. ASSUME NEW w \in Workers, NEW found, SyncSave(w, found)
      PROVE  Routed'
  <2>1. Goto(w, Idle) /\ config' \in RulesByUse
    BY <1>4 DEF SyncSave, Routed
  <2>. QED
    BY <2>1, IdleOK, GotoRouted
<1>5. ASSUME NEW w \in Workers, SyncFail(w) \/ Answered(w)
      PROVE  Routed'
  <2>1. Goto(w, Idle) /\ config' \in RulesByUse
    BY <1>5 DEF SyncFail, Answered, Routed
  <2>. QED
    BY <2>1, IdleOK, GotoRouted
<1>6. ASSUME NEW w \in Workers, NEW rules \in [Uses -> Rules \cup {NoRule}], Assign(w, rules)
      PROVE  Routed'
  <2>. DEFINE next == [pc |-> "assign", rules |-> rules]
  <2>1. RequestOK(next)
    BY DEF RequestOK, RulesByUse
  <2>2. UNCHANGED config /\ (Goto(w, next) \/ UNCHANGED req)
    BY <1>6 DEF Assign
  <2>3. config' \in RulesByUse
    BY <2>2 DEF Routed
  <2>. HIDE DEF next
  <2>. QED
    BY <2>1, <2>2, <2>3, GotoRouted, UntouchedRouted
<1>7. ASSUME NEW w \in Workers, AssignSave(w)
      PROVE  Routed'
  <2>1. req[w].rules \in RulesByUse
    BY <1>7 DEF AssignSave, At, Routed, RequestOK
  <2>2. Goto(w, Idle) /\ config' \in RulesByUse
    BY <1>7, <2>1 DEF AssignSave
  <2>. QED
    BY <2>2, IdleOK, GotoRouted
<1>8. ASSUME NEW w \in Workers, NEW c \in Contexts, Call(w, c)
      PROVE  Routed'
  <2>. DEFINE next == [pc |-> "route", context |-> c, listed |-> EnabledProfiles]
  <2>1. RequestOK(next)
    BY DEF RequestOK
  <2>2. UNCHANGED config /\ (Goto(w, next) \/ UNCHANGED req)
    BY <1>8 DEF Call
  <2>3. config' \in RulesByUse
    BY <2>2 DEF Routed
  <2>. HIDE DEF next
  <2>. QED
    BY <2>1, <2>2, <2>3, GotoRouted, UntouchedRouted
<1>9. ASSUME NEW w \in Workers, CallStep(w)
      PROVE  Routed'
  BY <1>5, <1>9, RouteRouted, AttemptRouted DEF CallStep
<1>. QED
  BY <1>1, <1>2, <1>3, <1>4, <1>5, <1>6, <1>7, <1>8, <1>9 DEF Next

-----------------------------------------------------------------------------
(* What is tried *)

\* A provider that is asked is one of those that were listed, so the registry was
\* made from them; and what it is asked for is as the router judged it.
LEMMA TriedIsGood ==
    ASSUME Routed, NEW w \in Workers, Trying(w)
    PROVE  /\ Registry(req[w].listed) = req[w].listed
           /\ Good(req[w].listed, req[w].context, req[w].rule, TargetOf(w))
<1>. DEFINE r == req[w]
<1>1. /\ GoodChain(r.listed, r.context, r.rule, r.chain)
      /\ r.chain # <<>> /\ r.listed[Head(r.chain)[1]] # NoProfile
  BY DEF Routed, RequestOK, Trying, At
<1>2. Good(r.listed, r.context, r.rule, TargetOf(w))
  BY <1>1 DEF GoodChain, TargetOf
<1>3. Head(r.chain)[1] \in Profiles
  BY <1>2 DEF Good, TargetOf, Targets
<1>. QED
  BY <1>1, <1>2, <1>3 DEF Registry

\* For every number of profiles, rules, callers and authors: the router names no
\* model without JSON for a request that needs it (provider_router.py
\* _valid_fallback, validate_routing_rule).
THEOREM JsonIsRouted == Spec => []JsonRouted
<1>1. Routed => JsonRouted
  <2>. SUFFICES ASSUME Routed, NEW w \in Workers, Trying(w), RuleNeedsJson(w)
                PROVE  SpeaksJson(req[w].listed, TargetOf(w))
    BY DEF JsonRouted
  <2>. QED
    BY TriedIsGood DEF Good, AsksJson, RuleNeedsJson
<1>. QED
  BY InitRouted, NextRouted, <1>1, PTL DEF Spec

\* How far the violation of PolicyKept goes: what the policy forbids is tried as the
\* fallback that select_model_for_use_case takes for its JSON, and in no other place
\* of a chain (fallback_for_use_case asks the policy).
ForbiddenTarget(w) ==
    Forbidden(req[w].context, PolicyOf(req[w].rule), req[w].listed, TargetOf(w))
BypassByJson ==
    \A w \in Workers : Trying(w) /\ ForbiddenTarget(w) =>
        /\ req[w].rule # NoRule
        /\ JsonByFallback(req[w].listed, req[w].context.use, req[w].rule)
        /\ TargetOf(w) = req[w].rule.fallback

LEMMA PolicyBypassedForJsonOnly == Spec => []BypassByJson
<1>1. Routed => BypassByJson
  <2>. SUFFICES ASSUME Routed, NEW w \in Workers, Trying(w), ForbiddenTarget(w)
                PROVE  /\ req[w].rule # NoRule
                       /\ JsonByFallback(req[w].listed, req[w].context.use, req[w].rule)
                       /\ TargetOf(w) = req[w].rule.fallback
    BY DEF BypassByJson
  <2>. QED
    BY TriedIsGood DEF Good, ForbiddenTarget
<1>. QED
  BY InitRouted, NextRouted, <1>1, PTL DEF Spec

\* Refused content reaches no provider (reject_or_downgrade_by_policy).
THEOREM RefusedIsNotSent == Spec => []RefusedContentStays
<1>1. Routed => RefusedContentStays
  <2>. SUFFICES ASSUME Routed, NEW w \in Workers, Trying(w)
                PROVE  /\ req[w].context.content = "mature" => req[w].context.allowed
                       /\ req[w].context.content \notin
                             (IF req[w].rule = NoRule THEN DefaultPolicy ELSE req[w].rule.policy).refuses
    BY DEF RefusedContentStays
  <2>. QED
    BY TriedIsGood DEF Good, PolicyOf
<1>. QED
  BY InitRouted, NextRouted, <1>1, PTL DEF Spec

-----------------------------------------------------------------------------
(* Types.  A profile that a synchronisation saves names a model, because the *)
(* one it had loaded did.                                                    *)

LEMMA SortedIs ==
    ASSUME NEW ids
    PROVE  /\ Sorted(ids) \in Seq(ids)
           /\ \A j \in 1..Len(ModelIds) : ModelIds[j] \in ids => Sorted(ids) # <<>>
<1>. DEFINE n == Len(ModelIds)
            V == Seq(ids)
            first == <<>>
            More(i, s) == IF ModelIds[i] \in ids THEN Append(s, ModelIds[i]) ELSE s
            step == [x \in (1..n) \X V |-> More(x[1], x[2])]
            Fits(f) == f = [i \in 0..n |-> IF i = 0 THEN <<>>
                                           ELSE IF ModelIds[i] \in ids THEN Append(f[i - 1], ModelIds[i])
                                                                       ELSE f[i - 1]]
            run == CHOOSE f : Fits(f)
<1>1. n \in Nat /\ first \in V
  BY RoutingAssumption
<1>2. \A i \in 1..n : \A s \in V : More(i, s) \in V
  OBVIOUS
<1>3. step \in [(1..n) \X V -> V]
  <2>. HIDE DEF More
  <2>. QED
    BY <1>2
<1>4. PICK f \in [0..n -> V] : Iterates(f, n, first, step)
  <2>. HIDE DEF step, n, first, V
  <2>. QED
    BY <1>1, <1>3, Iteration
<1>5. ASSUME NEW i \in 0..n
      PROVE  f[i] = IF i = 0 THEN <<>> ELSE More(i, f[i - 1])
  <2>1. f[i] = IF i = 0 THEN first ELSE step[<<i, f[i - 1]>>]
    BY <1>4 DEF Iterates
  <2>2. CASE i # 0
    <3>1. i \in 1..n /\ i - 1 \in 0..n
      BY <1>1, <2>2
    <3>2. f[i - 1] \in V
      BY <1>4, <3>1
    <3>3. step[<<i, f[i - 1]>>] = More(i, f[i - 1])
      BY <3>1, <3>2
    <3>. QED
      BY <2>1, <2>2, <3>3
  <2>. QED
    BY <2>1, <2>2
<1>6. Fits(f)
  BY <1>4, <1>5
<1>7. Fits(run)
  <2>. HIDE DEF Fits
  <2>. QED
    BY <1>6
<1>8. Sorted(ids) = run[n]
  BY DEF Sorted
<1>. HIDE DEF run
<1>9. run[0] = <<>> /\ \A i \in 1..n : run[i] = More(i, run[i - 1])
  <2>1. run = [i \in 0..n |-> IF i = 0 THEN <<>>
                               ELSE IF ModelIds[i] \in ids THEN Append(run[i - 1], ModelIds[i])
                                                           ELSE run[i - 1]]
    BY <1>7
  <2>2. run[0] = <<>>
    <3>1. 0 \in 0..n
      BY <1>1
    <3>. HIDE DEF n
    <3>. QED
      BY <2>1, <3>1
  <2>3. ASSUME NEW i \in 1..n
        PROVE  run[i] = More(i, run[i - 1])
    <3>1. i \in 0..n /\ i # 0
      BY <1>1
    <3>. HIDE DEF n
    <3>. QED
      BY <2>1, <3>1
  <2>. QED
    BY <2>2, <2>3
<1>. HIDE DEF Fits, n
<1>. DEFINE S == {k \in Nat : k <= n => /\ run[k] \in V
                                        /\ \A j \in 1..k : ModelIds[j] \in ids => run[k] # <<>>}
<1>10. 0 \in S
  <2>1. run[0] \in V
    BY <1>1, <1>9
  <2>2. 1..0 = {}
    OBVIOUS
  <2>. QED
    BY <2>1, <2>2
<1>11. ASSUME NEW k \in Nat, k \in S
       PROVE  k + 1 \in S
  <2>. SUFFICES ASSUME k + 1 <= n
                PROVE  /\ run[k + 1] \in V
                       /\ \A j \in 1..k + 1 : ModelIds[j] \in ids => run[k + 1] # <<>>
    OBVIOUS
  <2>1. k + 1 \in 1..n /\ (k + 1) - 1 = k /\ run[k] \in V
        /\ \A j \in 1..k : ModelIds[j] \in ids => run[k] # <<>>
    BY <1>1, <1>11
  <2>2. run[k + 1] = More(k + 1, run[k])
    BY <1>9, <2>1
  <2>3. PICK s \in V : s = run[k]
    BY <2>1
  <2>4. ASSUME NEW m
        PROVE  Append(s, m) # <<>>
    BY <2>3
  <2>5. ASSUME NEW j \in 1..k + 1, ModelIds[j] \in ids
        PROVE  More(k + 1, s) # <<>>
    <3>1. CASE j \in 1..k
      BY <2>1, <2>3, <2>4, <2>5, <3>1
    <3>2. CASE j = k + 1
      BY <2>4, <2>5, <3>2
    <3>. QED
      BY <3>1, <3>2
  <2>. QED
    BY <1>2, <2>1, <2>2, <2>3, <2>5
<1>. HIDE DEF S
<1>12. n \in S
  BY <1>1, <1>10, <1>11, SetInduction
<1>. QED
  BY <1>8, <1>12 DEF S, n

LEMMA CapsTyped ==
    ASSUME NEW models \in Seq(ModelCaps), NEW id \in Ids(models)
    PROVE  CapsOf(models, id) \in ModelCaps
<1>1. PICK i \in DOMAIN models : models[i].id = id
  BY DEF Ids
<1>2. models[i] \in ModelCaps
  BY <1>1
<1>3. \E caps \in ModelCaps : caps.id = id /\ \E k \in DOMAIN models : models[k] = caps
  BY <1>1, <1>2
<1>. QED
  BY <1>3 DEF CapsOf

LEMMA MergedTyped ==
    ASSUME NEW old \in Seq(ModelCaps) \ {<<>>}, NEW found \in Seq(ModelCaps)
    PROVE  MergedModels(old, found) \in Seq(ModelCaps) \ {<<>>}
<1>. DEFINE ids == Ids(old) \cup Ids(found)
            order == Sorted(ids)
            caps(i) == CapsOf(IF order[i] \in Ids(found) THEN found ELSE old, order[i])
<1>1. order \in Seq(ids)
  BY SortedIs
<1>2. order # <<>>
  <2>1. 1 \in DOMAIN old /\ old[1] \in ModelCaps
    <3>1. old # <<>> /\ old \in Seq(ModelCaps)
      OBVIOUS
    <3>. QED
      BY <3>1
  <2>2. old[1].id \in ids /\ old[1].id \in Models
    BY <2>1 DEF Ids, ModelCaps
  <2>3. PICK j \in DOMAIN ModelIds : ModelIds[j] = old[1].id
    BY <2>2 DEF Models
  <2>4. j \in 1..Len(ModelIds)
    BY <2>3, RoutingAssumption
  <2>. HIDE DEF ids
  <2>. QED
    BY <2>2, <2>3, <2>4, SortedIs
<1>3. \A i \in DOMAIN order : order[i] \in ids
  <2>. HIDE DEF order, ids
  <2>. QED
    BY <1>1
<1>4. \A i \in DOMAIN order : caps(i) \in ModelCaps
  <2>. HIDE DEF order
  <2>. QED
    BY <1>3, CapsTyped
<1>5. MergedModels(old, found) = [i \in DOMAIN order |-> caps(i)]
  BY DEF MergedModels
<1>6. DOMAIN order = 1..Len(order) /\ Len(order) \in Nat /\ Len(order) # 0
  <2>. HIDE DEF order, ids
  <2>. QED
    BY <1>1, <1>2
<1>. HIDE DEF caps, order
<1>. DEFINE merged == [i \in 1..Len(order) |-> caps(i)]
<1>7. merged \in Seq(ModelCaps) /\ Len(merged) = Len(order)
  BY <1>4, <1>6
<1>. HIDE DEF merged
<1>8. merged # <<>>
  BY <1>6, <1>7
<1>. QED
  BY <1>5, <1>6, <1>7, <1>8 DEF merged

-----------------------------------------------------------------------------
Listings == [Profiles -> ProfileShapes \cup {NoProfile}]

RequestTyped(r) ==
    /\ r.pc \in {"idle", "sync", "assign", "route", "try"}
    /\ r.pc = "sync" => r.profile \in Profiles /\ r.loaded \in ProfileShapes
    /\ r.pc \in {"route", "try"} => r.context \in RoutingContexts /\ r.listed \in Listings
    /\ r.pc = "try" => /\ r.rule \in RoutingRules \cup {NoRule}
                       /\ r.chain \in Seq(Targets) /\ r.left \in Nat

\* The inductive invariant behind TypeOK.
RoutedTyped ==
    /\ Routed /\ profiles \in Listings /\ ops \in 0..MaxOps
    /\ \A w \in Workers : RequestTyped(req[w])

LEMMA RoutedTypedIsTypeOK == RoutedTyped => TypeOK
<1>. SUFFICES ASSUME RoutedTyped
              PROVE  TypeOK
  OBVIOUS
<1>1. \A c : c \in RulesByUse => c \in [Uses -> RoutingRules \cup {NoRule}]
  <2>1. Rules \cup {NoRule} \subseteq RoutingRules \cup {NoRule}
    BY RoutingAssumption
  <2>. QED
    BY <2>1 DEF RulesByUse
<1>2. ASSUME NEW w \in Workers
      PROVE  At(w, "assign") => req[w].rules \in [Uses -> RoutingRules \cup {NoRule}]
  BY <1>1 DEF RoutedTyped, Routed, RequestOK, At
<1>3. config \in [Uses -> RoutingRules \cup {NoRule}]
  BY <1>1 DEF RoutedTyped, Routed
<1>. QED
  BY <1>2, <1>3 DEF RoutedTyped, RequestTyped, TypeOK, Listings, At

LEMMA ChainTyped ==
    ASSUME NEW listed, NEW c, NEW rule, NEW chain, GoodChain(listed, c, rule, chain)
    PROVE  chain \in Seq(Targets)
<1>1. CASE chain = <<>>
  BY <1>1
<1>2. ASSUME NEW a, chain = <<a>>, Good(listed, c, rule, a)
      PROVE  chain \in Seq(Targets)
  BY <1>2 DEF Good
<1>3. ASSUME NEW a, NEW b, chain = <<a, b>>, Good(listed, c, rule, a), Good(listed, c, rule, b)
      PROVE  chain \in Seq(Targets)
  BY <1>3 DEF Good
<1>. QED
  BY <1>1, <1>2, <1>3 DEF GoodChain

LEMMA AttemptsTyped ==
    ASSUME NEW listed \in Listings, NEW chain \in Seq(Targets)
    PROVE  AttemptsAt(listed, chain) \in Nat
<1>1. CASE chain = <<>> \/ listed[Head(chain)[1]] = NoProfile
  BY <1>1 DEF AttemptsAt
<1>2. CASE chain # <<>> /\ listed[Head(chain)[1]] # NoProfile
  <2>1. Head(chain) \in Targets
    BY <1>2
  <2>2. Head(chain)[1] \in Profiles
    BY <2>1 DEF Targets
  <2>3. listed[Head(chain)[1]] \in ProfileShapes
    BY <1>2, <2>2 DEF Listings
  <2>4. listed[Head(chain)[1]].attempts \in Nat
    BY <2>3 DEF ProfileShapes
  <2>. QED
    BY <1>2, <2>4 DEF AttemptsAt
<1>. QED
  BY <1>1, <1>2

LEMMA GotoTyped ==
    ASSUME RoutedTyped, Routed', NEW w \in Workers, NEW r, Goto(w, r), RequestTyped(r),
           profiles' \in Listings, ops' \in 0..MaxOps
    PROVE  RoutedTyped'
<1>1. \A v \in Workers : req'[v] = IF v = w THEN r ELSE req[v]
  BY DEF RoutedTyped, Routed, Goto
<1>2. \A v \in Workers : RequestTyped(req'[v])
  BY <1>1 DEF RoutedTyped
<1>. QED
  BY <1>2 DEF RoutedTyped

LEMMA IdleTyped == RequestTyped(Idle)
  BY DEF RequestTyped, Idle

LEMMA ShapesTyped == Shapes \subseteq ProfileShapes /\ NoProfile \notin ProfileShapes /\ MaxOps \in Nat
  BY RoutingAssumption

LEMMA InitRoutedTyped == Init => RoutedTyped
<1>. SUFFICES ASSUME Init
              PROVE  RoutedTyped
  OBVIOUS
<1>1. profiles \in Listings /\ ops \in 0..MaxOps
  BY ShapesTyped DEF Init, Listings
<1>2. \A w \in Workers : req[w] = Idle
  BY DEF Init
<1>. QED
  BY <1>1, <1>2, InitRouted, IdleTyped DEF RoutedTyped

LEMMA EditsTyped ==
    ASSUME RoutedTyped, Routed', NEW w \in Workers, NEW p \in Profiles,
           (\E s \in Shapes : PutProfile(w, p, s)) \/ DeleteProfile(w, p) \/ Sync(w, p)
    PROVE  RoutedTyped'
<1>1. ops \in 0..MaxOps /\ profiles \in Listings
  BY DEF RoutedTyped
<1>2. ops' \in 0..MaxOps
  BY <1>1, ShapesTyped DEF PutProfile, DeleteProfile, Sync, Begin
<1>3. ASSUME NEW s \in Shapes, PutProfile(w, p, s)
      PROVE  RoutedTyped'
  <2>1. profiles' \in Listings /\ UNCHANGED req
    BY <1>1, <1>3, ShapesTyped DEF PutProfile, Listings
  <2>. QED
    BY <1>2, <2>1 DEF RoutedTyped
<1>4. CASE DeleteProfile(w, p)
  <2>1. profiles' \in Listings /\ UNCHANGED req
    BY <1>1, <1>4 DEF DeleteProfile, Listings
  <2>. QED
    BY <1>2, <2>1 DEF RoutedTyped
<1>5. CASE Sync(w, p)
  <2>. DEFINE r == [pc |-> "sync", profile |-> p, loaded |-> profiles[p]]
  <2>1. profiles[p] \in ProfileShapes
    BY <1>1, <1>5 DEF Sync, Listings
  <2>2. RequestTyped(r)
    BY <2>1 DEF RequestTyped
  <2>3. Goto(w, r) /\ UNCHANGED profiles
    BY <1>5 DEF Sync
  <2>. HIDE DEF r
  <2>. QED
    BY <1>1, <1>2, <2>2, <2>3, GotoTyped
<1>. QED
  BY <1>3, <1>4, <1>5

LEMMA SyncSaveTyped ==
    ASSUME RoutedTyped, Routed', NEW w \in Workers, NEW found \in Fetched, SyncSave(w, found)
    PROVE  RoutedTyped'
<1>. DEFINE s == req[w].loaded
            merged == MergedModels(s.models, found)
            t == [s EXCEPT !.models = merged]
<1>1. req[w].profile \in Profiles /\ s \in ProfileShapes /\ profiles \in Listings
  BY DEF SyncSave, At, RoutedTyped, RequestTyped
<1>2. s.models \in Seq(ModelCaps) \ {<<>>} /\ found \in Seq(ModelCaps)
  BY <1>1, RoutingAssumption DEF ProfileShapes
<1>3. merged \in Seq(ModelCaps) \ {<<>>}
  <2>. HIDE DEF s
  <2>. QED
    BY <1>2, MergedTyped
<1>4. profiles' = [profiles EXCEPT ![req[w].profile] = t]
  BY DEF SyncSave
<1>. HIDE DEF merged, s
<1>5. t \in ProfileShapes
  BY <1>1, <1>3 DEF ProfileShapes
<1>. HIDE DEF t
<1>6. profiles' \in Listings
  BY <1>1, <1>4, <1>5 DEF Listings
<1>7. Goto(w, Idle) /\ ops' \in 0..MaxOps
  BY DEF SyncSave, RoutedTyped
<1>. QED
  BY <1>6, <1>7, IdleTyped, GotoTyped

LEMMA AssignTyped ==
    ASSUME RoutedTyped, Routed', NEW w \in Workers,
           \/ SyncFail(w) \/ AssignSave(w) \/ Answered(w)
           \/ \E rules \in RulesByUse : Assign(w, rules)
    PROVE  RoutedTyped'
<1>1. profiles' \in Listings
  BY DEF SyncFail, AssignSave, Answered, Assign, RoutedTyped
<1>2. ops' \in 0..MaxOps
  <2>1. ops \in 0..MaxOps /\ MaxOps \in Nat
    BY ShapesTyped DEF RoutedTyped
  <2>2. ops' = ops \/ (ops < MaxOps /\ ops' = ops + 1)
    BY DEF SyncFail, AssignSave, Answered, Assign, Begin
  <2>. QED
    BY <2>1, <2>2
<1>3. CASE SyncFail(w) \/ AssignSave(w) \/ Answered(w)
  <2>1. Goto(w, Idle)
    BY <1>3 DEF SyncFail, AssignSave, Answered
  <2>. QED
    BY <1>1, <1>2, <2>1, IdleTyped, GotoTyped
<1>4. ASSUME NEW rules \in RulesByUse, Assign(w, rules)
      PROVE  RoutedTyped'
  <2>. DEFINE r == [pc |-> "assign", rules |-> rules]
  <2>1. Goto(w, r) \/ UNCHANGED req
    BY <1>4 DEF Assign
  <2>2. RequestTyped(r)
    BY DEF RequestTyped
  <2>3. CASE UNCHANGED req
    BY <1>1, <1>2, <2>3 DEF RoutedTyped
  <2>. HIDE DEF r
  <2>. QED
    BY <1>1, <1>2, <2>1, <2>2, <2>3, GotoTyped
<1>. QED
  BY <1>3, <1>4

LEMMA CallTyped ==
    ASSUME RoutedTyped, Routed', NEW w \in Workers, NEW c \in Contexts, Call(w, c)
    PROVE  RoutedTyped'
<1>. DEFINE r == [pc |-> "route", context |-> c, listed |-> EnabledProfiles]
<1>1. profiles \in Listings /\ profiles' \in Listings /\ ops' \in 0..MaxOps
  BY ShapesTyped DEF RoutedTyped, Call, Begin
<1>2. EnabledProfiles \in Listings
  BY <1>1 DEF EnabledProfiles, Listings
<1>3. RequestTyped(r)
  BY <1>2, RoutingAssumption DEF RequestTyped
<1>4. Goto(w, r) \/ UNCHANGED req
  BY DEF Call
<1>5. CASE UNCHANGED req
  BY <1>1, <1>5 DEF RoutedTyped
<1>. HIDE DEF r
<1>. QED
  BY <1>1, <1>3, <1>4, <1>5, GotoTyped

LEMMA RouteTyped ==
    ASSUME RoutedTyped, Routed', NEW w \in Workers, Route(w)
    PROVE  RoutedTyped'
<1>. DEFINE q == req[w]
            rule == config[q.context.use]
            next(chain) == [pc |-> "try", context |-> q.context, listed |-> q.listed,
                            rule |-> rule, chain |-> chain, left |-> AttemptsAt(q.listed, chain)]
<1>1. q.context \in Contexts /\ q.context \in RoutingContexts /\ q.listed \in Listings
  BY DEF RoutedTyped, Routed, RequestOK, RequestTyped, Route, At
<1>2. rule \in Rules \cup {NoRule}
  <2>1. q.context.use \in Uses
    BY <1>1 DEF RoutingContexts
  <2>. QED
    BY <2>1 DEF RoutedTyped, Routed, RulesByUse
<1>3. PICK chain \in Chains(Registry(q.listed), q.context, rule) : Goto(w, next(chain))
  BY DEF Route
<1>4. chain \in Seq(Targets)
  BY <1>1, <1>2, <1>3, ChainsGood, ChainTyped
<1>5. AttemptsAt(q.listed, chain) \in Nat
  BY <1>1, <1>4, AttemptsTyped
<1>6. RequestTyped(next(chain))
  BY <1>1, <1>2, <1>4, <1>5, RoutingAssumption DEF RequestTyped
<1>7. profiles' \in Listings /\ ops' \in 0..MaxOps
  BY DEF Route, RoutedTyped
<1>. HIDE DEF next
<1>. QED
  BY <1>3, <1>6, <1>7, GotoTyped

LEMMA AttemptTyped ==
    ASSUME RoutedTyped, Routed', NEW w \in Workers, Retry(w) \/ BadAnswer(w) \/ GiveUp(w)
    PROVE  RoutedTyped'
<1>. DEFINE q == req[w]
<1>1. /\ q.pc = "try" /\ GoodChain(q.listed, q.context, q.rule, q.chain)
      /\ RequestTyped(q) /\ DOMAIN req = Workers
  BY DEF Retry, BadAnswer, GiveUp, Trying, At, RoutedTyped, Routed, RequestOK
<1>2. profiles' \in Listings /\ ops' \in 0..MaxOps
  BY DEF Retry, BadAnswer, GiveUp, RoutedTyped
<1>3. CASE Retry(w) \/ BadAnswer(w)
  <2>1. q.left \in Nat /\ q.left > 0
    BY <1>1, <1>3 DEF RequestTyped, Retry, BadAnswer, Trying
  <2>2. PICK k \in Nat : Goto(w, [q EXCEPT !.left = k])
    <3>1. q.left - 1 \in Nat
      BY <2>1
    <3>. QED
      BY <1>3, <3>1 DEF Retry, BadAnswer
  <2>. DEFINE r == [q EXCEPT !.left = k]
  <2>3. req'[w] = r
    BY <1>1, <2>2 DEF Goto
  <2>4. RequestTyped(r)
    BY <1>1 DEF RequestTyped
  <2>. HIDE DEF r
  <2>. QED
    BY <1>2, <2>2, <2>4, GotoTyped DEF r
<1>4. CASE GiveUp(w) /\ q.chain = <<>>
  <2>1. Goto(w, Idle)
    BY <1>4 DEF GiveUp
  <2>. QED
    BY <1>2, <2>1, IdleTyped, GotoTyped
<1>5. CASE GiveUp(w) /\ q.chain # <<>>
  <2>. DEFINE rest == Tail(q.chain)
              left == AttemptsAt(q.listed, rest)
              r == [q EXCEPT !.chain = rest, !.left = left]
  <2>1. Goto(w, r)
    BY <1>5 DEF GiveUp
  <2>2. GoodChain(q.listed, q.context, q.rule, rest)
    BY <1>1, <1>5, TailGood
  <2>. HIDE DEF rest
  <2>3. rest \in Seq(Targets)
    BY <2>2, ChainTyped
  <2>4. left \in Nat
    BY <1>1, <2>3, AttemptsTyped DEF RequestTyped
  <2>. HIDE DEF left
  <2>5. RequestTyped(r)
    BY <1>1, <2>3, <2>4 DEF RequestTyped
  <2>. HIDE DEF r
  <2>. QED
    BY <1>2, <2>1, <2>5, GotoTyped
<1>. QED
  BY <1>3, <1>4, <1>5

LEMMA NextRoutedTyped == RoutedTyped /\ [Next]_vars => RoutedTyped'
<1>. SUFFICES ASSUME RoutedTyped, [Next]_vars
              PROVE  RoutedTyped'
  OBVIOUS
<1>1. Routed'
  BY NextRouted DEF RoutedTyped
<1>2. CASE UNCHANGED vars
  BY <1>1, <1>2 DEF vars, RoutedTyped
<1>3. CASE Next
  <2>1. PICK w \in Workers :
          \/ \E p \in Profiles, s \in Shapes : PutProfile(w, p, s)
          \/ \E p \in Profiles : DeleteProfile(w, p) \/ Sync(w, p)
          \/ \E found \in Fetched : SyncSave(w, found)
          \/ SyncFail(w)
          \/ \E rules \in [Uses -> Rules \cup {NoRule}] : Assign(w, rules)
          \/ AssignSave(w)
          \/ \E c \in Contexts : Call(w, c)
          \/ CallStep(w)
    BY <1>3 DEF Next
  <2>. QED
    BY <1>1, <2>1, EditsTyped, SyncSaveTyped, AssignTyped, CallTyped, RouteTyped, AttemptTyped
       DEF CallStep, RulesByUse
<1>. QED
  BY <1>2, <1>3

\* For any number of profiles, models and requests at a time: a stored profile names a
\* model, also after a synchronisation that the provider answered with none, so a
\* provider that is made has one to call (sync_provider_models_safe,
\* primary_model_id); and a call tries a sequence of targets a known number of times.
THEOREM RoutingTypeCorrect == Spec => []TypeOK
  BY InitRoutedTyped, NextRoutedTyped, RoutedTypedIsTypeOK, PTL DEF Spec
===============================================================================
