------------------------------- MODULE Models -------------------------------
(* The models there are, and the one a session uses: ModelRegistry           *)
(* (core/model_registry.py) with models.json and the providers extensions    *)
(* register, the choice when a session starts (core/sdk.py,                  *)
(* coding_agent/core/model_resolver.py), and its changes (AgentSession).     *)
(* What a provider or model is configured with is its url; a provider's      *)
(* request configuration is where its key comes from.                        *)
EXTENDS Naturals, Sequences, FiniteSets, SequencesExt

CONSTANTS
  Builtins,    \* the models of load_built_in_models, in order
  Providers,   \* their providers and others, a sequence: the order of models.json
  Contents,    \* contents of models.json: whether it is valid, what it configures
  Configs,     \* configurations that extensions register
  Account,     \* the provider whose modify_models sets the url of an account
  Defaults,    \* default_model_per_provider: a sequence of keys of models
  Starts,      \* the ways the program is started: scopes, what --models matches, keys;
               \*   new, whether with a new session; model, of --model: a key, of provider
               \*   "none" for an id alone, or that of NoModel
  MaxChanges   \* bound: registrations, changes of models.json and of credentials,
               \*   choices in the terminal

VARIABLES
  file,        \* models.json
  stored,      \* the providers with stored credentials
  registry,    \* models; requests: where a provider's key comes from; streams: whose
               \*   stream function serves the API; error, load_error
  registered,  \* registered_providers, in order: records name, config
  session,     \* model; by, who chose it; saved: the one the entries tell; talked: there are messages;
               \*   scoped: _scoped_models
  default,     \* the default of the settings, a key
  drift,       \* history: the providers whose last registration did not say everything
  fell,        \* history: the model is not the one the entries tell
  changes      \* history: the number of changes

vars == <<file, stored, registry, registered, session, default, drift, fell, changes>>

NoModel == [provider |-> "none", id |-> "none", url |-> "none"]
Key(m) == <<m.provider, m.id>>
ProviderSet == ToSet(Providers)
BuiltIn(p) == \E m \in ToSet(Builtins) : m.provider = p

-----------------------------------------------------------------------------
(* Loading models.json.                                                      *)
Or(a, b) == IF a = "none" THEN b ELSE a
Configured(f, p) == f.valid /\ p \in DOMAIN f.providers

Overridden(f, m) ==      \* load_built_in_models: baseUrl, then modelOverrides
  IF ~Configured(f, m.provider) THEN m
  ELSE [m EXCEPT !.url = Or(IF m.id \in DOMAIN f.providers[m.provider].overrides
                            THEN f.providers[m.provider].overrides[m.id] ELSE "none",
                            Or(f.providers[m.provider].url, @))]

FirstUrl(p) == SelectSeq(Builtins, LAMBDA m : m.provider = p)[1].url
Parsed(f, p) ==          \* parse_models: a built-in provider has a url to begin with
  LET def(d) == [provider |-> p, id |-> d.id,
                 url |-> Or(d.url, Or(f.providers[p].url, IF BuiltIn(p) THEN FirstUrl(p) ELSE "none"))]
  IN IF Configured(f, p) THEN [k \in DOMAIN f.providers[p].models |-> def(f.providers[p].models[k])] ELSE <<>>

Merged(models, m) ==     \* merge_custom_models
  IF \E k \in DOMAIN models : Key(models[k]) = Key(m)
  THEN [k \in DOMAIN models |-> IF Key(models[k]) = Key(m) THEN m ELSE models[k]]
  ELSE Append(models, m)

Modified(models, accounts) ==      \* modify_models
  [k \in DOMAIN models |-> IF models[k].provider = Account /\ Account \in accounts
                           THEN [models[k] EXCEPT !.url = "account"] ELSE models[k]]

Loaded(f, accounts) ==   \* load_models, in a registry that was cleared
  LET built == [k \in DOMAIN Builtins |-> Overridden(f, Builtins[k])]
      custom == FlattenSeq([k \in DOMAIN Providers |-> Parsed(f, Providers[k])])
  IN [models |-> Modified(FoldLeft(Merged, built, custom), accounts),
      requests |-> [p \in ProviderSet |-> IF Configured(f, p) THEN f.providers[p].key ELSE "none"],
      streams |-> "builtin", error |-> ~f.valid]

-----------------------------------------------------------------------------
(* What extensions register.                                                 *)
(* apply_provider_config: the request configuration when it says any, then   *)
(* all of the provider's models anew, or a url for those it has. A model     *)
(* without a name is an error where it stands in the list.                   *)
Complete(defs) ==
  LET bad == {k \in DOMAIN defs : ~defs[k].named}
  IN IF bad = {} THEN defs ELSE SubSeq(defs, 1, (CHOOSE k \in bad : \A j \in bad : k <= j) - 1)
Fails(c) == \E k \in DOMAIN c.models : ~c.models[k].named
Replaced(p, c, models) ==
  SelectSeq(models, LAMBDA m : m.provider # p)
  \o [k \in DOMAIN Complete(c.models) |->
        [provider |-> p, id |-> c.models[k].id, url |-> Or(c.models[k].url, c.url)]]
Applied(r, p, c, accounts) ==
  [r EXCEPT !.streams = IF c.stream THEN p ELSE @,
     !.requests = IF c.key = "none" THEN @ ELSE [@ EXCEPT ![p] = c.key],
     !.models =
       IF Fails(c) THEN Replaced(p, c, @)
       ELSE IF c.models # <<>> THEN
         IF p = Account THEN Modified(Replaced(p, c, @), accounts) ELSE Replaced(p, c, @)
       ELSE [k \in DOMAIN @ |-> IF @[k].provider = p THEN [@[k] EXCEPT !.url = Or(c.url, @)]
                                ELSE @[k]]]

(* upsert_registered_provider: what the configuration does not say is kept.  *)
Index(p) == {k \in DOMAIN registered : registered[k].name = p}
Updated(old, c) ==
  [url |-> Or(c.url, old.url), key |-> Or(c.key, old.key), stream |-> c.stream \/ old.stream,
   models |-> IF c.models = <<>> THEN old.models ELSE c.models]
Upserted(p, c) ==
  IF Index(p) = {} THEN Append(registered, [name |-> p, config |-> c])
  ELSE [k \in DOMAIN registered |-> IF k \in Index(p) THEN [registered[k] EXCEPT
                                                            !.config = Updated(@, c)]
                                    ELSE registered[k]]

Mut_Refreshed(f, accounts, regs) == Loaded(f, accounts)   \* the registrations are forgotten
Refreshed(f, accounts, regs) ==
  FoldLeft(LAMBDA r, reg : Applied(r, reg.name, reg.config, accounts), Loaded(f, accounts), regs)

(* It says all an earlier one said, and the stream function it registers is  *)
(* the last one in the order of the providers, which a refresh follows.      *)
SaysAll(p, c) ==
  /\ ~Fails(c)
  /\ \A k \in Index(p) :
       /\ Updated(registered[k].config, c) = c
       /\ c.stream => \A j \in DOMAIN registered : j > k => ~registered[j].config.stream

Changed == changes < MaxChanges /\ changes' = changes + 1
Register(p, c) ==        \* register_provider: validated, applied and then remembered
  /\ Changed /\ (c.models = <<>> \/ (c.url # "none" /\ c.key # "none"))
  /\ registry' = Applied(registry, p, c, stored)
  /\ registered' = IF Fails(c) THEN registered ELSE Upserted(p, c)
  /\ drift' = IF SaysAll(p, c) THEN drift ELSE drift \cup {p, registry.streams}
  /\ UNCHANGED <<file, stored, session, default, fell>>

Refreshes(regs, accounts) ==
  /\ registry' = Refreshed(file, accounts, regs) /\ drift' = {}
Refresh ==               \* the model selector opens
  /\ Refreshes(registered, stored)
  /\ UNCHANGED <<file, stored, registered, session, default, fell, changes>>
Unregister(p) ==
  /\ Changed /\ Index(p) # {}
  /\ registered' = SelectSeq(registered, LAMBDA r : r.name # p)
  /\ Refreshes(registered', stored)
  /\ UNCHANGED <<file, stored, session, default, fell>>
Login(p) ==              \* _complete_provider_authentication, handle_logout: a session without
  /\ Changed             \* a model keeps none, as None is not the unknown model they look for
  /\ stored' = IF p \in stored THEN stored \ {p} ELSE stored \cup {p}
  /\ Refreshes(registered, stored')
  /\ UNCHANGED <<file, registered, session, default, fell>>
EditFile(f) ==           \* read at the next refresh
  /\ Changed /\ f # file /\ file' = f /\ drift' = ProviderSet
  /\ UNCHANGED <<stored, registry, registered, session, default, fell>>

-----------------------------------------------------------------------------
(* Choosing.                                                                 *)
Authorized(r, p) == p \in stored \/ r.requests[p] # "none"
Available(r) == SelectSeq(r.models, LAMBDA m : Authorized(r, m.provider))
Find(models, key) ==
  LET found == SelectSeq(models, LAMBDA m : Key(m) = key)
  IN IF found = <<>> THEN NoModel ELSE found[1]

(* create_agent_session: the saved model if it can be used; else find_initial*)
(* _model, which takes a scoped model, the default of the settings, even one *)
(* without a key, a provider's default, or the first.                        *)
Restored(r) ==
  LET m == Find(r.models, session.saved)
  IN IF session.talked /\ m # NoModel /\ Authorized(r, m.provider) THEN m ELSE NoModel
Initial(r, scoped, def) ==
  LET known == SelectSeq(Defaults, LAMBDA key : Find(Available(r), key) # NoModel)
  IN IF scoped # <<>> /\ ~session.talked THEN scoped[1]
     ELSE IF Find(r.models, def) # NoModel THEN Find(r.models, def)
     ELSE IF known # <<>> THEN Find(Available(r), known[1])
     ELSE IF Available(r) # <<>> THEN Available(r)[1] ELSE NoModel
Scoped(r, keys) ==       \* resolve_model_scope
  SelectSeq([k \in DOMAIN keys |-> Find(Available(r), keys[k])], LAMBDA m : m # NoModel)

(* resolve_cli_model: an id the provider does not have gets the url of its   *)
(* default model.                                                            *)
FromCli(r, key) ==
  LET same == SelectSeq(r.models, LAMBDA m : m.provider = key[1])
      usual == SelectSeq(same, LAMBDA m : Key(m) \in ToSet(Defaults))
      byId == SelectSeq(r.models, LAMBDA m : m.id = key[2])
  IN IF key[1] = "none" THEN IF byId = <<>> THEN NoModel ELSE byId[1]
     ELSE IF Find(r.models, key) # NoModel THEN Find(r.models, key)
     ELSE IF same = <<>> THEN NoModel
     ELSE [(IF usual = <<>> THEN same ELSE usual)[1] EXCEPT !.id = key[2]]

Restart(start) ==        \* another process, with a new session or the same one
  LET r == Loaded(file, stored)
      named == IF start.model = Key(NoModel) THEN NoModel ELSE FromCli(r, start.model)
      scoped == Scoped(r, start.scopes)
      from == IF start.new THEN [session EXCEPT !.talked = FALSE] ELSE session
      kept == IF start.new THEN NoModel ELSE Restored(r)
      initial == IF start.new /\ scoped # <<>> THEN scoped[1] ELSE Initial(r, scoped, default)
      model == IF named # NoModel THEN named ELSE IF kept # NoModel THEN kept ELSE initial
  IN /\ start.model = Key(NoModel) \/ named # NoModel      \* or it exits
     /\ registry' = r /\ registered' = <<>> /\ drift' = {}
     /\ session' = [model |-> model, by |-> IF named = NoModel THEN "start" ELSE "name",
                    scoped |-> scoped, talked |-> from.talked,
                    saved |-> IF from.talked THEN session.saved
                              ELSE IF model = NoModel THEN Key(NoModel) ELSE Key(model)]
     /\ fell' = (Key(model) # session'.saved)
     /\ UNCHANGED <<file, stored, default, changes>>

Talk ==                  \* an answer tells its model; there is no request without a key
  /\ session.model # NoModel /\ Authorized(registry, session.model.provider)
  /\ session' = [session EXCEPT !.talked = TRUE, !.saved = Key(session.model)]
  /\ fell' = FALSE /\ UNCHANGED <<file, stored, registry, registered, default, drift, changes>>

Switched(m) ==
  /\ session' = [session EXCEPT !.model = m, !.by = "user", !.saved = Key(m)]
  /\ default' = Key(m) /\ fell' = FALSE
Select(m) ==             \* set_model, which extensions and clients of the rpc mode call
  /\ Authorized(registry, m.provider) /\ Switched(m)
  /\ UNCHANGED <<file, stored, registry, registered, drift, changes>>
Choose(m, searched) ==   \* in the terminal, of a list: no entry tells it before an answer does
  /\ Changed /\ (searched => Authorized(registry, m.provider))
  /\ session' = [session EXCEPT !.model = m, !.by = "user"]
  /\ default' = IF searched THEN default ELSE Key(m)
  /\ fell' = (Key(m) # session.saved)
  /\ UNCHANGED <<file, stored, registry, registered, drift>>

Mod(a, n) == ((a + n) % n) + 1
Cycle(step) ==           \* cycle_model, among the scoped models if there are any
  LET models == IF session.scoped # <<>>
                THEN SelectSeq(session.scoped, LAMBDA m : Authorized(registry, m.provider))
                ELSE Available(registry)
      at == {k \in DOMAIN models : Key(models[k]) = Key(session.model)}
      now == IF at = {} THEN 1 ELSE CHOOSE k \in at : \A j \in at : k <= j
      next == IF step = "forward" THEN Mod(now, Len(models)) ELSE Mod(now - 2, Len(models))
  IN /\ Len(models) > 1 /\ Switched(models[next])
     /\ UNCHANGED <<file, stored, registry, registered, drift, changes>>

Init ==
  /\ file \in Contents /\ stored \in SUBSET {Account} /\ registry = Loaded(file, stored)
  /\ registered = <<>> /\ drift = {} /\ fell = FALSE /\ changes = 0
  /\ default = Key(NoModel)
  /\ session = [model |-> NoModel, by |-> "start", saved |-> Key(NoModel), talked |-> FALSE, scoped |-> <<>>]
Next ==
  \/ \E p \in ProviderSet : Unregister(p) \/ Login(p) \/ \E c \in Configs : Register(p, c)
  \/ Refresh \/ Talk \/ \E f \in Contents : EditFile(f)
  \/ \E start \in Starts : Restart(start)
  \/ \E m \in ToSet(registry.models) : Select(m) \/ \E searched \in BOOLEAN : Choose(m, searched)
  \/ \E step \in {"forward", "backward"} : Cycle(step)
Spec == Init /\ [][Next]_vars

-----------------------------------------------------------------------------
(* What the registry tells of a provider is what it would tell after a       *)
(* refresh (which a look at the models, a login or another extension's end   *)
(* makes), unless its last registration failed or left unsaid what an        *)
(* earlier one had said, or models.json was edited.                          *)
Of(r, p) == <<SelectSeq(r.models, LAMBDA m : m.provider = p), r.requests[p], r.streams = p>>
RefreshChangesNothing ==
  LET r == Refreshed(file, stored, registered)
  IN \A p \in ProviderSet \ drift : Of(registry, p) = Of(r, p)

(* A session that is continued has the model it had, unless that can no      *)
(* longer be used, it was a substitute from the beginning, or it was chosen  *)
(* in the terminal and has not answered. (set_model, create_agent_session)   *)
Continues ==
  session.talked /\ session'.talked /\ session'.by = "start" /\ session' # session /\ ~fell =>
    LET m == Find(registry'.models, Key(session.model))
    IN m # NoModel /\ Authorized(registry', m.provider) => session'.model = m
SessionKeepsModel == [][Continues]_vars
=============================================================================
