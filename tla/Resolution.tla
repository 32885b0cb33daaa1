----------------------------- MODULE Resolution -----------------------------
(***************************************************************************)
(* The integration that requests are handled under, src/config: profiles    *)
(* of version 1 become integrations, upstreams and policies that name each  *)
(* other by identifiers made from the names, the user edits them, and the   *)
(* gateway resolves the default one when it starts.  Only what the files    *)
(* mean is here; their migration on disk is in ConfigStore.                 *)
(***************************************************************************)
EXTENDS Integers, FiniteSetsExt, SequencesExt

CONSTANTS
  None,            \* an option that is not given
  ProfileFiles,    \* the contents of profiles.toml, records [default, profiles]
  Environment      \* the variables, and the commands that succeed, with their values

VARIABLE loading   \* [profiles, config, resolved, edited, pc] of one start, or None

Spellings == [base : STRING, upper : BOOLEAN, padded : BOOLEAN]

ASSUME ProfileAssumption ==
  \A f \in ProfileFiles :
    /\ f.default \in Spellings \cup {None}
    /\ Len(f.profiles) \in Nat /\ DOMAIN f.profiles = 1..Len(f.profiles)
    /\ \A i \in DOMAIN f.profiles : /\ f.profiles[i].name \in Spellings
                                    /\ f.profiles[i].auth_method.type \in {"api_key", "bearer", "none"}

\* A name is [base, upper, padded]: its letters, whether some are capitals,
\* whether there is space around them.
Trim(name) == [name EXCEPT !.padded = FALSE]
Lowercase(name) == [name EXCEPT !.upper = FALSE]
Normal(name) == Lowercase(Trim(name))

\* SHA-256 of the prefix and the normalised name.
DeriveId(prefix, name) == <<prefix, Normal(name)>>

Secret(type, value) == [type |-> type, value |-> value]

MigrateAuth(auth) ==
  CASE auth.type = "api_key" ->
         [secret_ref |-> Secret("legacy_inline", auth.value), header_name |-> auth.header_name]
    [] auth.type = "bearer" ->
         [secret_ref |-> Secret("legacy_inline", auth.value), header_name |-> "authorization"]
    [] OTHER -> [secret_ref |-> Secret("none", None), header_name |-> "x-api-key"]

\* Every profile becomes one integration, one upstream and one policy.
MigrateV1ToV2(file) ==
  LET ps == file.profiles
      integrations ==
        [i \in DOMAIN ps |->
           [id |-> DeriveId("integration", ps[i].name), name |-> ps[i].name,
            upstream |-> DeriveId("upstream", ps[i].name),
            policy |-> DeriveId("policy", ps[i].name), models |-> ps[i].models]]
      upstreams ==
        [i \in DOMAIN ps |->
           [id |-> DeriveId("upstream", ps[i].name), url |-> ps[i].upstream_url,
            headers |-> ps[i].headers, auth |-> MigrateAuth(ps[i].auth_method)]]
      policies ==
        [i \in DOMAIN ps |->
           [id |-> DeriveId("policy", ps[i].name), cache |-> ps[i].cache,
            reduce |-> ps[i].reduce, efficiency |-> ps[i].efficiency,
            safe_cache |-> ps[i].safe_cache]]
      named == {i \in DOMAIN ps : file.default # None
                                  /\ Lowercase(ps[i].name) = Normal(file.default)}
  IN [default |-> IF named = {} THEN None ELSE integrations[Min(named)].id,
      integrations |-> integrations, upstreams |-> upstreams, policies |-> policies]

\* Mutant of Find: without a hit, the first of all.
FindOrFirst(list, id) ==
  LET hits == {i \in DOMAIN list : list[i].id = id}
  IN IF list = <<>> THEN <<>> ELSE IF hits = {} THEN <<Head(list)>> ELSE <<list[Min(hits)]>>

\* find: the first with the identifier, as a sequence of one, or of none.
Find(list, id) ==
  LET hits == {i \in DOMAIN list : list[i].id = id}
  IN IF hits = {} THEN <<>> ELSE <<list[Min(hits)]>>

ResolveSecret(secret) ==
  CASE secret.type \in {"environment", "command"} ->
         IF secret.value \in DOMAIN Environment THEN Environment[secret.value] ELSE None
    [] OTHER -> secret.value

\* A dangling reference is not an error: it leaves an empty URL, or no policy.
ResolveIntegration(config, integration) ==
  LET upstream == Find(config.upstreams, integration.upstream)
      policy == Find(config.policies, integration.policy)
      parts == IF upstream = <<>>
               THEN [url |-> "", headers |-> {},
                     auth |-> [secret_ref |-> Secret("none", None), header_name |-> ""]]
               ELSE Head(upstream)
      rules == IF policy = <<>>
               THEN [cache |-> None, reduce |-> None, efficiency |-> None, safe_cache |-> None]
               ELSE Head(policy)
  IN [id |-> integration.id, name |-> integration.name,
      upstream_url |-> parts.url, upstream_headers |-> parts.headers,
      auth |-> [header_name |-> parts.auth.header_name, secret_ref |-> parts.auth.secret_ref,
                value |-> ResolveSecret(parts.auth.secret_ref)],
      cache |-> rules.cache, reduce |-> rules.reduce, efficiency |-> rules.efficiency,
      safe_cache |-> rules.safe_cache, models |-> integration.models]

\* As a sequence of one, or of none.
ResolveDefault(config) ==
  LET integration == Find(config.integrations, config.default)
  IN IF integration = <<>> THEN <<>> ELSE <<ResolveIntegration(config, Head(integration))>>
-----------------------------------------------------------------------------
ResolutionInit ==
  loading \in {[profiles |-> f, config |-> None, resolved |-> <<>>, edited |-> {}, pc |-> "migrate"] :
                 f \in ProfileFiles}

ResolutionIdle == loading = None

Migrate ==
  /\ loading # None
  /\ loading.pc = "migrate"
  /\ loading' = [loading EXCEPT !.config = MigrateV1ToV2(loading.profiles), !.pc = "edit"]

\* The user takes something out of config.toml, or moves a secret out of it.
Edited(config, what, i) ==
  IF what = "secret" THEN [config EXCEPT !.upstreams[i].auth.secret_ref = Secret("environment", "API_KEY")]
  ELSE [config EXCEPT ![what] = RemoveAt(@, i)]

Edit ==
  /\ loading # None
  /\ loading.pc = "edit"
  /\ \E what \in {"upstreams", "policies", "secret"} \ loading.edited, i \in DOMAIN loading.config.upstreams :
       loading' = [loading EXCEPT !.edited = @ \cup {what}, !.config = Edited(@, what, i)]

Resolve ==
  /\ loading # None
  /\ loading.pc = "edit"
  /\ loading' = [loading EXCEPT !.resolved = ResolveDefault(loading.config), !.pc = "resolved"]
-----------------------------------------------------------------------------
\* What profile p asks for.
Asked(p) ==
  [upstream_url |-> p.upstream_url, upstream_headers |-> p.headers,
   credential |-> IF p.auth_method.type = "none" THEN None ELSE p.auth_method.value,
   header_name |-> CASE p.auth_method.type = "api_key" -> p.auth_method.header_name
                     [] p.auth_method.type = "bearer" -> "authorization"
                     [] OTHER -> "x-api-key",
   cache |-> p.cache, reduce |-> p.reduce, efficiency |-> p.efficiency,
   safe_cache |-> p.safe_cache, models |-> p.models]

Given(r) ==
  [upstream_url |-> r.upstream_url, upstream_headers |-> r.upstream_headers,
   credential |-> r.auth.value, header_name |-> r.auth.header_name,
   cache |-> r.cache, reduce |-> r.reduce, efficiency |-> r.efficiency,
   safe_cache |-> r.safe_cache, models |-> r.models]

\* The profiles that the default names.
DefaultProfiles(file) ==
  {i \in DOMAIN file.profiles :
     file.default # None /\ Normal(file.profiles[i].name) = Normal(file.default)}

DistinctNames(file) ==
  \A i, j \in DOMAIN file.profiles :
    Normal(file.profiles[i].name) = Normal(file.profiles[j].name) => i = j

(***************************************************************************)
(* After a migration the gateway runs under the default profile: it sends   *)
(* where that profile sent, with its credential and its rules, and takes    *)
(* nothing from another profile even when the user has removed parts        *)
(* (migration.rs:147: "Each Profile becomes one Integration + one Upstream  *)
(* + one Policy").  For names that differ in more than capitals and outer   *)
(* space, and have none of that space; refuted otherwise by                 *)
(* DefaultIsKept: such a default is dropped, or resolves to another.        *)
(***************************************************************************)
ResolvesAsAsked(file, r) ==
  \A i \in DefaultProfiles(file) :
    /\ r # <<>>
    /\ LET given == Given(Head(r))
           asked == Asked(file.profiles[i])
           lost == IF "policies" \in loading.edited
                   THEN {"cache", "reduce", "efficiency", "safe_cache"} ELSE {}
           bare == IF "upstreams" \in loading.edited
                   THEN {"upstream_url", "upstream_headers", "credential", "header_name"} ELSE {}
           moved == IF "secret" \in loading.edited THEN {"credential"} ELSE {}
       IN /\ \A f \in DOMAIN asked \ (lost \cup bare \cup moved) : given[f] = asked[f]
          /\ \A f \in lost : given[f] \in {asked[f], None}
          /\ bare # {} => given.upstream_url \in {asked.upstream_url, ""}
          /\ moved # {} => given.credential \in {asked.credential, None} \cup Range(Environment)

MigrationResolves ==
  (loading # None /\ loading.pc = "resolved") =>
    ((DistinctNames(loading.profiles)
      /\ \A i \in DefaultProfiles(loading.profiles) : ~loading.profiles.profiles[i].name.padded)
       => ResolvesAsAsked(loading.profiles, loading.resolved))

DefaultIsKept ==
  (loading # None /\ loading.pc = "resolved") => ResolvesAsAsked(loading.profiles, loading.resolved)
=============================================================================
