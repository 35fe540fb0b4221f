----------------------------- MODULE TokenAuth -----------------------------
(***************************************************************************)
(* RefreshTokenAuth.token and invalidate in every process, the row of      *)
(* token_cache they share, and DeviantArt's token endpoint.                *)
(*                                                                         *)
(* Access tokens and refresh tokens are numbered in the order they are     *)
(* issued; 0 stands for None.  Time is a clock that ticks on its own.      *)
(***************************************************************************)
EXTENDS Integers, Sequences

CONSTANTS
    Proc,       \* processes that may hold the database at the same time
    Dry,        \* those that were invoked as `run --dry-run`
    Faults,     \* what may go wrong: a subset of Fault
    Rotates,    \* may the endpoint replace a refresh token when it is used?
    Seeds,      \* DAWATCH_REFRESH_TOKEN at first: None, or 1
    Lifetime,   \* expires_in
    Leeway,     \* leeway_seconds
    MaxClock,   \* bound: ticks
    MaxIssued,  \* bound: access tokens ever issued
    MaxLogins   \* bound: uses of `dawatch login` after the deployment

Fault == {"unreachable",  \* AuthError: no connection, or a refusal that is not
                          \* invalid_grant
          "lost",         \* AuthError: the grant's answer is lost or malformed
          "revoke",       \* an access token stops working before it expires
          "expire",       \* a refresh token dies: three months, or revoked
          "store",        \* a statement fails: StoreError
          "crash",        \* the process is killed
          "volume"}       \* the volume with the database is lost

None == 0

ASSUME DryAssumption == Dry \subseteq Proc
ASSUME FaultsAssumption == Faults \subseteq Fault
ASSUME RotatesAssumption == Rotates \subseteq BOOLEAN /\ Rotates # {}
ASSUME SeedsAssumption == Seeds \subseteq {None, 1}
ASSUME TimesAssumption == Lifetime \in Nat /\ Leeway \in Nat
ASSUME BoundsAssumption == MaxClock \in Nat /\ MaxIssued \in Nat /\ MaxLogins \in Nat

VARIABLES
    clock,
    env,      \* the refresh token in OpenBao, given to a process as its seed
    cache,    \* token_cache: an access token and, independently, a refresh token
    auth,     \* RefreshTokenAuth and the locals of token() in each process
    expiry,   \* endpoint: when each issued access token expires
    logins,   \* how often the operator has logged in again
    revoked,  \* endpoint: access tokens that stopped working early
    minted,   \* endpoint: number of refresh tokens ever issued
    live      \* endpoint: refresh tokens it accepts

endpoint == <<expiry, revoked, minted, live>>
vars == <<clock, env, logins, cache, auth, expiry, revoked, minted, live>>

Access == [id : Nat, expires : Nat]

\* No token_cache row, no _current, and the placeholder that save_refresh_token
\* inserts: a token that expired in 1970.
NoAccess == [id |-> None, expires |-> 0]

PC == {"off",
       "ready",         \* between two calls of token()
       "load",          \* about to load the access token
       "refresh",       \* in _request_token, about to load the refresh token
       "post",          \* about to POST it
       "save_refresh",  \* about to save the rotated one
       "save_token",    \* about to save the access token
       "granted",       \* token() has returned `bearer`
       "error",         \* AuthError or StoreError: exit 1
       "config_error"}  \* ConfigError: exit 2

AuthState ==
    [pc : PC, seed : Nat, current : Access, force_refresh : BOOLEAN,
     now : Nat, refresh_token : Nat, fresh : Access, rotated : Nat,
     bearer : Nat, rejected : Nat]

NewAuth(seed) ==
    [pc |-> "ready", seed |-> seed, current |-> NoAccess,
     force_refresh |-> FALSE, now |-> 0, refresh_token |-> None,
     fresh |-> NoAccess, rotated |-> None, bearer |-> None, rejected |-> None]

Off == [NewAuth(None) EXCEPT !.pc = "off"]

\* Stopped with an exception that leaves the process; its locals are gone.
Failed(a, pc) == [NewAuth(a.seed) EXCEPT !.pc = pc]

\* token() returns; its locals are gone.
Returned(a, token) ==
    [NewAuth(a.seed) EXCEPT !.pc = "granted", !.current = token,
                            !.bearer = token.id, !.rejected = a.rejected]

TypeOK ==
    /\ clock \in 0..MaxClock
    /\ env \in 0..minted
    /\ logins \in 0..MaxLogins
    /\ cache \in [access : Access, refresh_token : 0..minted]
    /\ auth \in [Proc -> AuthState]
    /\ \A p \in Proc : auth[p].pc = "post" => auth[p].refresh_token \in 1..minted
    /\ expiry \in Seq(Nat) /\ Len(expiry) <= MaxIssued
    /\ revoked \subseteq 1..Len(expiry)
    /\ minted \in Nat
    /\ live \subseteq 1..minted

Init ==
    /\ clock = 0
    /\ env \in Seeds
    /\ logins = 0
    /\ cache = [access |-> NoAccess, refresh_token |-> None]
    /\ auth = [p \in Proc |-> Off]
    /\ expiry = <<>>
    /\ revoked = {}
    /\ minted = env
    /\ live = 1..env

-----------------------------------------------------------------------------
(***************************************************************************)
(* token()                                                                 *)
(***************************************************************************)
Become(p, a) == auth' = [auth EXCEPT ![p] = a]

IsValid(token, now) == token.expires - Leeway > now

Begin(p) ==
    /\ auth[p].pc = "off"
    /\ Become(p, NewAuth(env))
    /\ UNCHANGED <<clock, env, logins, cache, endpoint>>

UsesMemory(p) ==
    ~auth[p].force_refresh /\ IsValid(auth[p].current, clock)

FromMemory(p) ==
    /\ auth[p].pc = "ready"
    /\ UsesMemory(p)
    /\ Become(p, Returned(auth[p], auth[p].current))
    /\ UNCHANGED <<clock, env, logins, cache, endpoint>>

\* `now` is read once; time and other processes go on meanwhile.
NotInMemory(p) ==
    /\ auth[p].pc = "ready"
    /\ ~UsesMemory(p)
    /\ Become(p, [auth[p] EXCEPT
                    !.pc = IF auth[p].force_refresh THEN "refresh" ELSE "load",
                    !.now = clock])
    /\ UNCHANGED <<clock, env, logins, cache, endpoint>>

FromStore(p) ==
    /\ auth[p].pc = "load"
    /\ IsValid(cache.access, auth[p].now)
    /\ Become(p, Returned(auth[p], cache.access))
    /\ UNCHANGED <<clock, env, logins, cache, endpoint>>

NeedsFresh(p) ==
    /\ auth[p].pc = "load"
    /\ ~IsValid(cache.access, auth[p].now)
    /\ Become(p, [auth[p] EXCEPT !.pc = "refresh"])
    /\ UNCHANGED <<clock, env, logins, cache, endpoint>>

\* The stored refresh token wins over the seed.
Chosen(p) ==
    IF cache.refresh_token # None THEN cache.refresh_token ELSE auth[p].seed

Posts(p, refresh_token) ==
    Become(p, [auth[p] EXCEPT !.pc = "post", !.refresh_token = refresh_token])

\* Mutant: the missing check that there is a refresh token at all.
LoadsAnything(p) ==
    /\ auth[p].pc = "refresh"
    /\ Posts(p, Chosen(p))
    /\ UNCHANGED <<clock, env, logins, cache, endpoint>>

\* Mutant: the seed wins over the stored refresh token.
LoadsSeedFirst(p) ==
    /\ auth[p].pc = "refresh"
    /\ LET chosen == IF auth[p].seed # None THEN auth[p].seed
                     ELSE cache.refresh_token
       IN IF chosen = None THEN Become(p, Failed(auth[p], "config_error"))
          ELSE Posts(p, chosen)
    /\ UNCHANGED <<clock, env, logins, cache, endpoint>>

\* Without a stored token and without a seed, ConfigError.
LoadRefreshToken(p) ==
    /\ auth[p].pc = "refresh"
    /\ IF Chosen(p) = None THEN Become(p, Failed(auth[p], "config_error"))
       ELSE Posts(p, Chosen(p))
    /\ UNCHANGED <<clock, env, logins, cache, endpoint>>

-----------------------------------------------------------------------------
(***************************************************************************)
(* POST TOKEN_URL, grant_type=refresh_token.                               *)
(***************************************************************************)
\* What the endpoint does for a refresh token it accepts.
Issue(refresh_token, rotates) ==
    /\ refresh_token \in live
    /\ Len(expiry) < MaxIssued
    /\ expiry' = Append(expiry, clock + Lifetime)
    /\ IF rotates
       THEN /\ minted' = minted + 1
            /\ live' = (live \ {refresh_token}) \cup {minted + 1}
       ELSE UNCHANGED <<minted, live>>
    /\ UNCHANGED revoked

\* The lifetime is counted from `now`, read before the request.
ExpiresAt(p) == auth[p].now + Lifetime

Granted(p) ==
    /\ auth[p].pc = "post"
    /\ \E rotates \in Rotates :
        /\ Issue(auth[p].refresh_token, rotates)
        /\ Become(p, [auth[p] EXCEPT
             !.pc = IF rotates THEN "save_refresh" ELSE "save_token",
             !.fresh = [id |-> Len(expiry) + 1, expires |-> ExpiresAt(p)],
             !.rotated = IF rotates THEN minted + 1 ELSE None])
    /\ UNCHANGED <<clock, env, logins, cache>>

InvalidGrant(p) ==
    /\ auth[p].pc = "post"
    /\ auth[p].refresh_token \notin live
    /\ Become(p, Failed(auth[p], "config_error"))
    /\ UNCHANGED <<clock, env, logins, cache, endpoint>>

\* Bound: an endpoint that has issued MaxIssued tokens answers no more.
Unreachable(p) ==
    /\ auth[p].pc = "post"
    /\ "unreachable" \in Faults \/ Len(expiry) = MaxIssued
    /\ Become(p, Failed(auth[p], "error"))
    /\ UNCHANGED <<clock, env, logins, cache, endpoint>>

AnswerLost(p) ==
    /\ auth[p].pc = "post"
    /\ "lost" \in Faults
    /\ \E rotates \in Rotates : Issue(auth[p].refresh_token, rotates)
    /\ Become(p, Failed(auth[p], "error"))
    /\ UNCHANGED <<clock, env, logins, cache>>

-----------------------------------------------------------------------------
(***************************************************************************)
(* Saving what came back: two statements, the refresh token first.         *)
(***************************************************************************)
\* Mutant: the row inserted for a refresh token alone looks unexpired.
SaveUnexpiredPlaceholder(p) ==
    /\ auth[p].pc = "save_refresh"
    /\ cache' = [cache EXCEPT
                   !.refresh_token = auth[p].rotated,
                   !.access = IF @ = NoAccess
                              THEN [id |-> None, expires |-> clock + Lifetime]
                              ELSE @]
    /\ Become(p, [auth[p] EXCEPT !.pc = "save_token"])
    /\ UNCHANGED <<clock, env, logins, endpoint>>

SaveRefreshToken(p) ==
    /\ auth[p].pc = "save_refresh"
    /\ cache' = [cache EXCEPT !.refresh_token = auth[p].rotated]
    /\ Become(p, [auth[p] EXCEPT !.pc = "save_token"])
    /\ UNCHANGED <<clock, env, logins, endpoint>>

\* Mutant: save_token replaces the row, and the refresh token with it.
ReplaceRow(p) ==
    /\ auth[p].pc = "save_token"
    /\ cache' = [access |-> auth[p].fresh, refresh_token |-> None]
    /\ Become(p, Returned(auth[p], auth[p].fresh))
    /\ UNCHANGED <<clock, env, logins, endpoint>>

SaveToken(p) ==
    /\ auth[p].pc = "save_token"
    /\ cache' = [cache EXCEPT !.access = auth[p].fresh]
    /\ Become(p, Returned(auth[p], auth[p].fresh))
    /\ UNCHANGED <<clock, env, logins, endpoint>>

StoreFails(p) ==
    /\ "store" \in Faults
    /\ auth[p].pc \in {"load", "refresh", "save_refresh", "save_token"}
    /\ Become(p, Failed(auth[p], "error"))
    /\ UNCHANGED <<clock, env, logins, cache, endpoint>>

-----------------------------------------------------------------------------
(***************************************************************************)
(* The caller: a request with the bearer token, or the end of the process. *)
(***************************************************************************)
Accepts(bearer) == bearer \in 1..Len(expiry) /\ expiry[bearer] > clock
                                             /\ bearer \notin revoked

\* The request is over, and its answer was not a 401.
Used(p) ==
    /\ auth[p].pc = "granted"
    /\ Become(p, [auth[p] EXCEPT !.pc = "ready"])
    /\ UNCHANGED <<clock, env, logins, cache, endpoint>>

\* Mutant: invalidate() forgets the token in memory only.
ForgetsMemoryOnly(p) ==
    /\ auth[p].pc = "granted"
    /\ ~Accepts(auth[p].bearer)
    /\ Become(p, [auth[p] EXCEPT !.pc = "ready",
                                 !.current = NoAccess,
                                 !.rejected = auth[p].bearer])
    /\ UNCHANGED <<clock, env, logins, cache, endpoint>>

\* A 401, and invalidate().
Invalidated(p) ==
    /\ auth[p].pc = "granted"
    /\ ~Accepts(auth[p].bearer)
    /\ Become(p, [auth[p] EXCEPT !.pc = "ready",
                                 !.current = NoAccess,
                                 !.force_refresh = TRUE,
                                 !.rejected = auth[p].bearer])
    /\ UNCHANGED <<clock, env, logins, cache, endpoint>>

Exit(p) ==
    /\ auth[p].pc \in {"ready", "granted", "error", "config_error"}
    /\ Become(p, Off)
    /\ UNCHANGED <<clock, env, logins, cache, endpoint>>

Crash(p) ==
    /\ "crash" \in Faults
    /\ auth[p].pc # "off"
    /\ Become(p, Off)
    /\ UNCHANGED <<clock, env, logins, cache, endpoint>>

-----------------------------------------------------------------------------
(***************************************************************************)
(* Everybody else.                                                         *)
(***************************************************************************)
Tick ==
    /\ clock < MaxClock
    /\ clock' = clock + 1
    /\ UNCHANGED <<env, logins, cache, auth, endpoint>>

Revoke ==
    /\ "revoke" \in Faults
    /\ \E a \in 1..Len(expiry) \ revoked : revoked' = revoked \cup {a}
    /\ UNCHANGED <<clock, env, logins, cache, auth, expiry, minted, live>>

ExpireRefreshToken ==
    /\ "expire" \in Faults
    /\ \E r \in live : live' = live \ {r}
    /\ UNCHANGED <<clock, env, logins, cache, auth, expiry, revoked, minted>>

\* The operator runs `dawatch login` and writes what it prints to OpenBao.
Login ==
    /\ logins < MaxLogins
    /\ logins' = logins + 1
    /\ minted' = minted + 1
    /\ live' = live \cup {minted + 1}
    /\ env' = minted + 1
    /\ UNCHANGED <<clock, cache, auth, expiry, revoked>>

LoseVolume ==
    /\ "volume" \in Faults
    /\ \A p \in Proc : auth[p].pc = "off"
    /\ cache # [access |-> NoAccess, refresh_token |-> None]
    /\ cache' = [access |-> NoAccess, refresh_token |-> None]
    /\ UNCHANGED <<clock, env, logins, auth, endpoint>>

-----------------------------------------------------------------------------
TokenCall(p) ==
    \/ FromMemory(p) \/ NotInMemory(p) \/ FromStore(p) \/ NeedsFresh(p)
    \/ LoadRefreshToken(p)
    \/ Granted(p) \/ InvalidGrant(p) \/ Unreachable(p) \/ AnswerLost(p)
    \/ SaveRefreshToken(p) \/ SaveToken(p) \/ StoreFails(p)

Caller(p) ==
    Begin(p) \/ Used(p) \/ Invalidated(p) \/ Exit(p) \/ Crash(p)

Environment == Tick \/ Revoke \/ ExpireRefreshToken \/ Login \/ LoseVolume

Next == Environment \/ \E p \in Proc : TokenCall(p) \/ Caller(p)

Spec == Init /\ [][Next]_vars

-----------------------------------------------------------------------------
(***************************************************************************)
(* Properties.                                                             *)
(***************************************************************************)
\* When token() was called, which is when it reads the clock.
CalledAt(p) == IF auth[p].pc = "ready" THEN clock ELSE auth[p].now

\* A token taken from memory or from the store is one the endpoint issued, never
\* the placeholder, and when token() was called it had more than the leeway to
\* live there, however long the request that fetched it took.
HandedOutWithLeeway ==
    [][\A p \in Proc :
        auth[p].pc \in {"ready", "load"} /\ auth'[p].pc = "granted" =>
            /\ auth'[p].bearer \in 1..Len(expiry)
            /\ expiry[auth'[p].bearer] > CalledAt(p) + Leeway]_vars

\* After a 401 the process never presents the same access token again: not the
\* one in memory, and not the copy in the store that looks unexpired.
RejectedNotReused ==
    \A p \in Proc :
        auth[p].pc = "granted" /\ auth[p].rejected # None =>
            auth[p].bearer # auth[p].rejected

\* Nobody is sent to a browser: rotation and failed requests never leave the
\* service without a usable refresh token, from one process to the next.
NoBrowserNeeded == \A p \in Proc : auth[p].pc # "config_error"

\* Exit 2 means that a retry cannot help: what the same process would load if it
\* were started again, the stored refresh token or without one the seed, is not
\* accepted any more.
ConfigErrorIsFinal ==
    \A p \in Proc : auth[p].pc = "config_error" => Chosen(p) \notin live

\* A refresh token from a new login puts an end to exit 2.
FreshSeedIsUsed ==
    \A p \in Proc : auth[p].pc = "config_error" => auth[p].seed \notin live

\* A dry run writes nothing.
DryRunWritesNothing ==
    [][cache' # cache => \E p \in Proc \ Dry : auth'[p] # auth[p]]_vars
=============================================================================
