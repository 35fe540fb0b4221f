-------------------------- MODULE TokenAuth_proofs --------------------------
(***************************************************************************)
(* Theorems about TokenAuth: bearers, for every number of processes, every *)
(* set of faults and an endpoint that rotates as it likes; exit 2 and the  *)
(* chain of refresh tokens, under the conditions named there.              *)
(***************************************************************************)
EXTENDS TokenAuth, SequenceTheorems, TLAPS

\* The endpoint has issued this token, and it lives there no shorter than the
\* process believes.
Sound(token) ==
    \/ token = NoAccess
    \/ /\ token.id \in 1..Len(expiry)
       /\ token.expires <= expiry[token.id]

\* A token was issued to this process, and it is not in the store yet.
InFlight(a) == a.pc \in {"save_refresh", "save_token"}

\* What is known of one process. A token it was told off for is neither in its
\* memory nor in the store, unless force_refresh keeps it away from both.
Own(a) ==
    /\ a.seed \in 0..minted
    /\ a.pc = "post" => a.refresh_token \in 1..minted
    /\ a.pc = "save_refresh" => a.rotated \in 1..minted
    /\ a.now <= clock
    /\ Sound(a.current)
    /\ InFlight(a) => a.fresh # NoAccess /\ Sound(a.fresh)
    /\ a.bearer \in 0..Len(expiry)
    /\ a.rejected \in 0..Len(expiry)
    /\ a.pc \in {"load", "granted"} => ~a.force_refresh
    /\ a.rejected # None =>
        /\ a.current.id # a.rejected
        /\ a.pc = "granted" => a.bearer # a.rejected
        /\ ~a.force_refresh => cache.access.id # a.rejected

\* What a process has used before.
Known(a) == {a.bearer, a.rejected, a.current.id}

\* A token in flight is known to nobody else, and saved once.
Unsaved ==
    \A p, q \in Proc : InFlight(auth[p]) =>
        /\ auth[p].fresh.id # cache.access.id
        /\ auth[p].fresh.id \notin Known(auth[q])
        /\ p # q /\ InFlight(auth[q]) => auth[p].fresh.id # auth[q].fresh.id

IInv ==
    /\ TypeOK
    /\ Sound(cache.access)
    /\ \A p \in Proc : Own(auth[p])
    /\ Unsaved

-----------------------------------------------------------------------------
\* The locals of one process are replaced, and everybody else keeps theirs.
LEMMA BecomeOne ==
    ASSUME auth \in [Proc -> AuthState], NEW p \in Proc, NEW a \in AuthState,
           Become(p, a)
    PROVE  /\ auth' \in [Proc -> AuthState]
           /\ auth'[p] = a
           /\ \A q \in Proc \ {p} : auth'[q] = auth[q]
BY DEF Become

\* The locals of a process that is outside of token().
Outside(seed, pc) ==
    [pc |-> pc, seed |-> seed, current |-> NoAccess, force_refresh |-> FALSE,
     now |-> 0, refresh_token |-> None, fresh |-> NoAccess, rotated |-> None,
     bearer |-> None, rejected |-> None]

LEMMA Fresh ==
    ASSUME NEW seed \in Nat, NEW pc \in PC
    PROVE  /\ [NewAuth(seed) EXCEPT !.pc = pc] = Outside(seed, pc)
           /\ NewAuth(seed) = Outside(seed, "ready")
           /\ Outside(seed, pc) \in AuthState
<1>1. NewAuth(seed) = Outside(seed, "ready")
  BY DEF NewAuth, Outside
<1>2. [NewAuth(seed) EXCEPT !.pc = pc] = Outside(seed, pc)
  <2> DEFINE r == NewAuth(seed)
             o == Outside(seed, pc)
  <2>1. [r EXCEPT !.pc = pc] =
           [f \in DOMAIN r |-> IF f = "pc" THEN pc ELSE r[f]]
    OBVIOUS
  <2>2. DOMAIN r = DOMAIN o
    BY <1>1 DEF Outside
  <2>3. \A f \in DOMAIN r : o[f] = IF f = "pc" THEN pc ELSE r[f]
    <3>1. DOMAIN r = {"pc", "seed", "current", "force_refresh", "now",
                      "refresh_token", "fresh", "rotated", "bearer", "rejected"}
      BY <1>1 DEF Outside
    <3>2. o.force_refresh = FALSE /\ r.force_refresh = FALSE
      BY <1>1 DEF Outside
    <3>3. o.force_refresh = r.force_refresh
      BY <3>2, Zenon
    <3>4. /\ o.pc = pc /\ o.seed = r.seed /\ o.current = r.current
          /\ o.now = r.now /\ o.refresh_token = r.refresh_token
          /\ o.fresh = r.fresh /\ o.rotated = r.rotated
          /\ o.bearer = r.bearer /\ o.rejected = r.rejected
      BY <1>1 DEF Outside
    <3> HIDE DEF r, o
    <3> QED
      BY <3>1, <3>3, <3>4
  <2>4. o = [f \in DOMAIN o |-> o[f]]
    BY DEF Outside
  <2> QED
    BY <2>1, <2>2, <2>3, <2>4
<1>3. NoAccess \in Access /\ None \in Nat
  BY DEF NoAccess, Access, None
<1>4. Outside(seed, pc) \in AuthState
  BY <1>3 DEF Outside, AuthState
<1> QED
  BY <1>1, <1>2, <1>4

LEMMA OffIs ==
    /\ Off \in AuthState
    /\ Off.pc = "off"
    /\ Off = Outside(None, "off")
<1>1. None \in Nat /\ "off" \in PC
  BY DEF None, PC
<1>2. Off = Outside(None, "off") /\ Off \in AuthState
  BY <1>1, Fresh DEF Off
<1> QED
  BY <1>2 DEF Outside

\* A step of one process that has nothing in flight afterwards, and changes
\* nothing but its own locals to what it knew or to what is in the store.
LEMMA LocalStep ==
    ASSUME IInv, NEW p \in Proc, NEW a \in AuthState, Become(p, a),
           UNCHANGED <<clock, env, logins, cache, endpoint>>,
           Own(a), ~InFlight(a),
           Known(a) \subseteq {None, cache.access.id} \cup Known(auth[p])
    PROVE  IInv'
<1>1. /\ auth' \in [Proc -> AuthState]
      /\ auth'[p] = a
      /\ \A q \in Proc \ {p} : auth'[q] = auth[q]
  BY BecomeOne DEF IInv, TypeOK
<1>2. /\ clock' = clock /\ env' = env /\ logins' = logins /\ cache' = cache
      /\ expiry' = expiry /\ revoked' = revoked /\ minted' = minted
      /\ live' = live
  BY DEF endpoint
<1>3. \A q \in Proc : Own(auth'[q])
  BY <1>1 DEF IInv
<1>4. \A q \in Proc : Own(auth[q])'
  BY <1>2, <1>3 DEF Own, Sound
<1>5. TypeOK'
  BY <1>1, <1>2, <1>3 DEF IInv, TypeOK, Own
<1>6. Sound(cache.access)'
  BY <1>2 DEF IInv, Sound
<1>7. Unsaved'
  <2> SUFFICES ASSUME NEW r \in Proc, NEW q \in Proc, InFlight(auth'[r])
               PROVE  /\ auth'[r].fresh.id # cache.access.id
                      /\ auth'[r].fresh.id \notin Known(auth'[q])
                      /\ r # q /\ InFlight(auth'[q]) =>
                            auth'[r].fresh.id # auth'[q].fresh.id
    BY <1>2 DEF Unsaved, InFlight, Known
  <2>1. r # p /\ auth'[r] = auth[r] /\ InFlight(auth[r])
    BY <1>1
  <2>2. auth[r].fresh.id # None
    <3>1. Sound(auth[r].fresh) /\ auth[r].fresh # NoAccess
      BY <2>1 DEF IInv, Own
    <3> QED
      BY <3>1 DEF Sound, None
  <2>3. \A u \in Proc : auth[r].fresh.id \notin Known(auth[u])
    BY <2>1 DEF IInv, Unsaved
  <2>4. auth[r].fresh.id # cache.access.id
    BY <2>1 DEF IInv, Unsaved
  <2>5. CASE q = p
    BY <1>1, <2>1, <2>2, <2>3, <2>4, <2>5
  <2>6. CASE q # p
    BY <1>1, <2>1, <2>3, <2>4, <2>6 DEF IInv, Unsaved
  <2> QED
    BY <2>5, <2>6
<1> QED
  BY <1>4, <1>5, <1>6, <1>7 DEF IInv

-----------------------------------------------------------------------------
LEMMA InitHolds == Init => IInv
<1> SUFFICES ASSUME Init PROVE IInv
  OBVIOUS
<1>1. Off \in AuthState /\ Off.pc = "off" /\ NoAccess \in Access
  BY OffIs DEF None, NoAccess, Access
<1>2. env \in Nat /\ minted = env /\ live = 1..env /\ expiry = <<>>
  BY SeedsAssumption DEF Init, None
<1>3. TypeOK
  <2>1. auth \in [Proc -> AuthState] /\ \A p \in Proc : auth[p].pc # "post"
    BY <1>1 DEF Init
  <2>2. cache \in [access : Access, refresh_token : 0..minted]
    BY <1>1, <1>2 DEF Init, None
  <2>3. expiry \in Seq(Nat) /\ Len(expiry) = 0
    BY <1>2
  <2> QED
    BY <1>2, <2>1, <2>2, <2>3, BoundsAssumption DEF Init, TypeOK
<1>4. Own(Off)
  BY <1>2 DEF Init, Own, Off, NewAuth, InFlight, Sound, NoAccess, None
<1>5. \A p \in Proc : auth[p] = Off /\ ~InFlight(auth[p])
  BY <1>1 DEF Init, InFlight
<1> QED
  BY <1>3, <1>4, <1>5 DEF Init, IInv, Unsaved, Sound

\* token() up to the POST, failures, and the caller: nothing is in flight after
\* these steps, and only the locals of one process change.
LEMMA Locals ==
    ASSUME IInv, NEW p \in Proc,
           \/ FromMemory(p) \/ NotInMemory(p) \/ FromStore(p) \/ NeedsFresh(p)
           \/ LoadRefreshToken(p) \/ InvalidGrant(p) \/ Unreachable(p)
           \/ StoreFails(p) \/ Begin(p) \/ Used(p) \/ Invalidated(p)
           \/ Exit(p) \/ Crash(p)
    PROVE  IInv'
<1>1. /\ auth[p] \in AuthState /\ Own(auth[p]) /\ Sound(cache.access)
      /\ cache.access \in Access /\ cache.refresh_token \in 0..minted
      /\ env \in 0..minted /\ minted \in Nat /\ clock \in Nat
      /\ Len(expiry) \in Nat
  BY BoundsAssumption DEF IInv, TypeOK
<1>2. auth[p].seed \in 0..minted
  BY <1>1 DEF Own
<1>3. \A seed \in 0..minted, pc \in {"off", "ready", "error", "config_error"} :
         /\ Outside(seed, pc) \in AuthState
         /\ Own(Outside(seed, pc))
         /\ ~InFlight(Outside(seed, pc))
         /\ Known(Outside(seed, pc)) = {None}
  <2> SUFFICES ASSUME NEW seed \in 0..minted,
                      NEW pc \in {"off", "ready", "error", "config_error"}
               PROVE  /\ Outside(seed, pc) \in AuthState
                      /\ Own(Outside(seed, pc))
                      /\ ~InFlight(Outside(seed, pc))
                      /\ Known(Outside(seed, pc)) = {None}
    OBVIOUS
  <2>1. seed \in Nat /\ pc \in PC
    BY <1>1 DEF PC
  <2>2. Outside(seed, pc) \in AuthState
    BY <2>1, Fresh
  <2>3. Own(Outside(seed, pc)) /\ ~InFlight(Outside(seed, pc))
    BY <1>1 DEF Outside, Own, InFlight, Sound, None
  <2>4. Known(Outside(seed, pc)) = {None}
    BY DEF Outside, Known, NoAccess
  <2> QED
    BY <2>2, <2>3, <2>4
<1>4. CASE Begin(p)
  <2>1. env \in Nat /\ "ready" \in PC
    BY <1>1 DEF PC
  <2>2. NewAuth(env) = Outside(env, "ready")
    BY <2>1, Fresh
  <2> QED
    BY <1>1, <1>3, <1>4, <2>2, LocalStep DEF Begin
<1>5. CASE Exit(p) \/ Crash(p)
  <2>1. None \in 0..minted
    BY <1>1 DEF None
  <2> QED
    BY <1>3, <1>5, <2>1, OffIs, LocalStep DEF Exit, Crash
<1>6. ASSUME NEW pc \in {"error", "config_error"},
             Become(p, Failed(auth[p], pc)),
             UNCHANGED <<clock, env, logins, cache, endpoint>>
      PROVE  IInv'
  <2>1. auth[p].seed \in Nat /\ pc \in PC
    BY <1>1, <1>2 DEF PC
  <2>2. Failed(auth[p], pc) = Outside(auth[p].seed, pc)
    BY <2>1, Fresh DEF Failed
  <2> QED
    BY <1>2, <1>3, <1>6, <2>2, LocalStep
<1>7. CASE InvalidGrant(p) \/ Unreachable(p) \/ StoreFails(p)
  BY <1>6, <1>7 DEF InvalidGrant, Unreachable, StoreFails
<1>8. ASSUME NEW token \in Access,
             Become(p, Returned(auth[p], token)),
             UNCHANGED <<clock, env, logins, cache, endpoint>>,
             token \in {auth[p].current, cache.access},
             Sound(token), ~auth[p].force_refresh
      PROVE  IInv'
  <2> DEFINE a == Returned(auth[p], token)
  <2>1. a = [NewAuth(auth[p].seed) EXCEPT !.pc = "granted", !.current = token,
                            !.bearer = token.id, !.rejected = auth[p].rejected]
    BY DEF Returned
  <2>2. a \in AuthState
    <3>1. auth[p].seed \in Nat /\ auth[p].rejected \in Nat /\ token.id \in Nat
      BY <1>1, <1>8 DEF AuthState, Access
    <3>2. NoAccess \in Access /\ None \in Nat /\ "granted" \in PC
      BY DEF NoAccess, Access, None, PC
    <3>3. a = [pc |-> "granted", seed |-> auth[p].seed, current |-> token,
               force_refresh |-> FALSE, now |-> 0, refresh_token |-> None,
               fresh |-> NoAccess, rotated |-> None, bearer |-> token.id,
               rejected |-> auth[p].rejected]
      BY <2>1 DEF NewAuth
    <3> QED
      BY <1>8, <3>1, <3>2, <3>3 DEF AuthState
  <2>3. token.id \in 0..Len(expiry)
    BY <1>1, <1>8 DEF Sound, NoAccess, None
  <2>4. auth[p].rejected # None =>
           auth[p].current.id # auth[p].rejected
           /\ cache.access.id # auth[p].rejected
    BY <1>1, <1>8 DEF Own
  <2>5. Own(a)
    BY <1>1, <1>2, <1>8, <2>1, <2>3, <2>4 DEF Own, NewAuth, InFlight, None
  <2>6. ~InFlight(a) /\ Known(a) = {token.id, auth[p].rejected}
    BY <2>1 DEF InFlight, Known, NewAuth
  <2>7. Known(a) \subseteq {None, cache.access.id} \cup Known(auth[p])
    BY <1>8, <2>6 DEF Known
  <2> QED
    BY <1>8, <2>2, <2>5, <2>6, <2>7, LocalStep
<1>9. CASE FromMemory(p)
  <2>1. auth[p].current \in Access /\ Sound(auth[p].current)
    BY <1>1 DEF Own, AuthState
  <2> QED
    BY <1>8, <1>9, <2>1 DEF FromMemory, UsesMemory
<1>10. CASE FromStore(p)
  <2>1. ~auth[p].force_refresh
    BY <1>1, <1>10 DEF FromStore, Own
  <2> QED
    BY <1>1, <1>8, <1>10, <2>1 DEF FromStore
<1>11. CASE NeedsFresh(p)
  <2> DEFINE a == [auth[p] EXCEPT !.pc = "refresh"]
  <2>1. a \in AuthState
    BY <1>1 DEF AuthState, PC
  <2>2. Own(a) /\ ~InFlight(a) /\ Known(a) = Known(auth[p])
    BY <1>1 DEF Own, InFlight, Known, AuthState
  <2> QED
    BY <1>11, <2>1, <2>2, LocalStep DEF NeedsFresh
<1>12. CASE LoadRefreshToken(p)
  <2> DEFINE chosen == Chosen(p)
             a == [auth[p] EXCEPT !.pc = "post", !.refresh_token = chosen]
  <2>1. CASE chosen = None
    BY <1>6, <1>12, <2>1 DEF LoadRefreshToken
  <2>2. CASE chosen # None
    <3>1. chosen \in 1..minted /\ chosen \in Nat
      BY <1>1, <1>2, <2>2 DEF Chosen, None
    <3>2. a \in AuthState
      BY <1>1, <3>1 DEF AuthState, PC
    <3>3. Own(a) /\ ~InFlight(a) /\ Known(a) = Known(auth[p])
      BY <1>1, <3>1 DEF Own, InFlight, Known, AuthState
    <3> QED
      BY <1>12, <2>2, <3>2, <3>3, LocalStep DEF LoadRefreshToken, Posts
  <2> QED
    BY <2>1, <2>2
<1>13. CASE Used(p)
  <2> DEFINE a == [auth[p] EXCEPT !.pc = "ready"]
  <2>1. a \in AuthState
    BY <1>1 DEF AuthState, PC
  <2>2. Own(a) /\ ~InFlight(a) /\ Known(a) = Known(auth[p])
    BY <1>1, <1>13 DEF Used, Own, InFlight, Known, AuthState
  <2> QED
    BY <1>13, <2>1, <2>2, LocalStep DEF Used
<1>14. CASE Invalidated(p)
  <2> DEFINE a == [auth[p] EXCEPT !.pc = "ready",
                                  !.current = NoAccess,
                                  !.force_refresh = TRUE,
                                  !.rejected = auth[p].bearer]
  <2>1. a \in AuthState
    BY <1>1 DEF AuthState, PC, NoAccess, Access, None
  <2>2. Own(a) /\ ~InFlight(a) /\ Known(a) \subseteq {None} \cup Known(auth[p])
    BY <1>1, <1>14 DEF Invalidated, Own, InFlight, Known, AuthState, Sound,
                       NoAccess, None
  <2> QED
    BY <1>14, <2>1, <2>2, LocalStep DEF Invalidated
<1>15. CASE NotInMemory(p)
  <2> DEFINE pc == IF auth[p].force_refresh THEN "refresh" ELSE "load"
             a == [auth[p] EXCEPT !.pc = pc, !.now = clock]
  <2>1. pc \in PC
    BY DEF PC
  <2>2. a \in AuthState
    BY <1>1, <2>1 DEF AuthState
  <2>3. /\ a.pc = pc /\ a.now = clock /\ a.seed = auth[p].seed
        /\ a.current = auth[p].current /\ a.bearer = auth[p].bearer
        /\ a.rejected = auth[p].rejected
    BY <1>1 DEF AuthState
  <2>4. a.force_refresh = auth[p].force_refresh
    BY <1>1, Zenon DEF AuthState
  <2>5. pc = "refresh" \/ (pc = "load" /\ ~auth[p].force_refresh)
    OBVIOUS
  <2>6. Own(a) /\ ~InFlight(a) /\ Known(a) = Known(auth[p])
    <3> HIDE DEF a, pc
    <3> QED
      BY <1>1, <2>3, <2>4, <2>5 DEF Own, InFlight, Known
  <2> QED
    BY <1>15, <2>2, <2>6, LocalStep DEF NotInMemory
<1> QED
  BY <1>4, <1>5, <1>7, <1>9, <1>10, <1>11, <1>12, <1>13, <1>14, <1>15

\* What time, the endpoint and the operator may do to a process that does not
\* move: nothing that is known of it becomes wrong.
LEMMA OwnKept ==
    ASSUME IInv, NEW p \in Proc, Own(auth[p]),
           clock' \in Nat, clock' >= clock, minted' \in Nat, minted' >= minted,
           Len(expiry') \in Nat, Len(expiry') >= Len(expiry),
           \A n \in 1..Len(expiry) : expiry'[n] = expiry[n],
           auth'[p] = auth[p], cache' = cache
    PROVE  /\ Own(auth[p])' /\ Sound(cache.access)'
           /\ auth'[p].pc = "post" => auth'[p].refresh_token \in 1..minted'
<1>1. /\ auth[p] \in AuthState /\ clock \in Nat /\ minted \in Nat
      /\ Len(expiry) \in Nat
  BY BoundsAssumption DEF IInv, TypeOK
<1>2. \A token : Sound(token) => Sound(token)'
  BY <1>1 DEF Sound
<1>3. Sound(cache.access)'
  BY <1>2 DEF IInv
<1>4. Own(auth[p])'
  BY <1>1, <1>2 DEF Own, AuthState, InFlight
<1> QED
  BY <1>1, <1>3, <1>4 DEF Own

\* Steps of nobody's process.
LEMMA Others ==
    ASSUME IInv,
           Tick \/ Revoke \/ ExpireRefreshToken \/ Login
    PROVE  IInv'
<1>1. /\ auth' = auth /\ cache' = cache /\ expiry' = expiry
      /\ clock' \in {clock, clock + 1} /\ minted' \in {minted, minted + 1}
  BY DEF Tick, Revoke, ExpireRefreshToken, Login, endpoint
<1>2. clock \in Nat /\ minted \in Nat /\ Len(expiry) \in Nat
  BY BoundsAssumption DEF IInv, TypeOK
<1>3. \A p \in Proc : Own(auth[p])'
  BY <1>1, <1>2, OwnKept DEF IInv
<1>4. Sound(cache.access)'
  BY <1>1 DEF IInv, Sound
<1>5. Unsaved'
  BY <1>1 DEF IInv, Unsaved, InFlight, Known
<1>6. TypeOK'
  <2>1. \A p \in Proc : auth'[p].pc = "post" => auth'[p].refresh_token \in 1..minted'
    BY <1>3 DEF Own
  <2>2. CASE Tick
    BY <1>2, <2>1, <2>2, BoundsAssumption DEF Tick, endpoint, IInv, TypeOK
  <2>3. CASE Revoke
    BY <1>2, <2>1, <2>3 DEF Revoke, IInv, TypeOK
  <2>4. CASE ExpireRefreshToken
    BY <1>2, <2>1, <2>4 DEF ExpireRefreshToken, IInv, TypeOK
  <2>5. CASE Login
    <3>1. env' \in 0..minted' /\ minted' \in Nat /\ live' \subseteq 1..minted'
      BY <1>2, <2>5 DEF Login, IInv, TypeOK
    <3>2. cache' \in [access : Access, refresh_token : 0..minted']
      BY <1>1, <1>2 DEF IInv, TypeOK
    <3>3. logins' \in 0..MaxLogins
      BY <2>5, BoundsAssumption DEF Login, IInv, TypeOK
    <3> QED
      BY <2>1, <2>5, <3>1, <3>2, <3>3 DEF Login, IInv, TypeOK
  <2> QED
    BY <2>2, <2>3, <2>4, <2>5
<1> QED
  BY <1>3, <1>4, <1>5, <1>6 DEF IInv

LEMMA Volume ==
    ASSUME IInv, LoseVolume
    PROVE  IInv'
<1>1. /\ auth' = auth /\ clock' = clock /\ env' = env /\ logins' = logins
      /\ expiry' = expiry /\ revoked' = revoked /\ minted' = minted
      /\ live' = live
      /\ cache' = [access |-> NoAccess, refresh_token |-> None]
      /\ \A p \in Proc : auth[p].pc = "off"
  BY DEF LoseVolume, endpoint
<1>2. minted \in Nat /\ NoAccess \in Access
  BY DEF IInv, TypeOK, NoAccess, Access, None
<1>3. TypeOK'
  BY <1>1, <1>2 DEF IInv, TypeOK, None
<1>4. \A p \in Proc : Own(auth[p])'
  BY <1>1, <1>2 DEF IInv, Own, Sound, InFlight, NoAccess
<1>5. Unsaved' /\ Sound(cache.access)'
  BY <1>1 DEF Unsaved, InFlight, Sound
<1> QED
  BY <1>3, <1>4, <1>5 DEF IInv

\* What the endpoint appends is new to everybody.
LEMMA IssueAppends ==
    ASSUME IInv, NEW r \in 1..minted, NEW rotates \in BOOLEAN, Issue(r, rotates)
    PROVE  /\ expiry' \in Seq(Nat) /\ Len(expiry') = Len(expiry) + 1
           /\ Len(expiry') <= MaxIssued
           /\ \A n \in 1..Len(expiry) : expiry'[n] = expiry[n]
           /\ expiry'[Len(expiry) + 1] = clock + Lifetime
           /\ minted' = IF rotates THEN minted + 1 ELSE minted
           /\ minted' \in Nat /\ minted' >= minted
           /\ live' \subseteq 1..minted' /\ revoked' \subseteq 1..Len(expiry')
           /\ Len(expiry) \in Nat /\ clock \in Nat /\ minted \in Nat
<1>1. /\ expiry \in Seq(Nat) /\ clock \in Nat /\ minted \in Nat
      /\ clock + Lifetime \in Nat /\ Len(expiry) \in Nat
      /\ live \subseteq 1..minted /\ revoked \subseteq 1..Len(expiry)
      /\ MaxIssued \in Nat
  BY BoundsAssumption, TimesAssumption DEF IInv, TypeOK
<1>2. /\ expiry' = Append(expiry, clock + Lifetime) /\ Len(expiry) < MaxIssued
      /\ revoked' = revoked
  BY DEF Issue
<1>3. /\ expiry' \in Seq(Nat) /\ Len(expiry') = Len(expiry) + 1
      /\ \A n \in 1..Len(expiry) : expiry'[n] = expiry[n]
      /\ expiry'[Len(expiry) + 1] = clock + Lifetime
  BY <1>1, <1>2, AppendProperties
<1>4. /\ minted' = IF rotates THEN minted + 1 ELSE minted
      /\ live' \subseteq 1..minted'
  <2>1. CASE rotates
    <3>1. minted' = minted + 1 /\ live' = (live \ {r}) \cup {minted + 1}
      BY <2>1 DEF Issue
    <3> QED
      BY <1>1, <2>1, <3>1
  <2>2. CASE ~rotates
    BY <1>1, <2>2 DEF Issue
  <2> QED
    BY <2>1, <2>2
<1> QED
  BY <1>1, <1>2, <1>3, <1>4

\* A grant: the token is in flight in this process, and new to everybody.
LEMMA GrantedKeeps ==
    ASSUME IInv, NEW p \in Proc, Granted(p)
    PROVE  IInv'
<1>1. PICK rotates \in Rotates :
         /\ Issue(auth[p].refresh_token, rotates)
         /\ Become(p, [auth[p] EXCEPT
              !.pc = IF rotates THEN "save_refresh" ELSE "save_token",
              !.fresh = [id |-> Len(expiry) + 1, expires |-> ExpiresAt(p)],
              !.rotated = IF rotates THEN minted + 1 ELSE None])
  BY DEF Granted
<1> DEFINE token == [id |-> Len(expiry) + 1, expires |-> ExpiresAt(p)]
           a == [auth[p] EXCEPT
                   !.pc = IF rotates THEN "save_refresh" ELSE "save_token",
                   !.fresh = token,
                   !.rotated = IF rotates THEN minted + 1 ELSE None]
<1>2. auth[p].pc = "post" /\ UNCHANGED <<clock, env, logins, cache>>
  BY DEF Granted
<1>3. rotates \in BOOLEAN /\ auth[p].refresh_token \in 1..minted
  BY <1>2, RotatesAssumption DEF IInv, TypeOK
<1>4. /\ expiry' \in Seq(Nat) /\ Len(expiry') = Len(expiry) + 1
      /\ Len(expiry') <= MaxIssued
      /\ \A n \in 1..Len(expiry) : expiry'[n] = expiry[n]
      /\ expiry'[Len(expiry) + 1] = clock + Lifetime
      /\ minted' = IF rotates THEN minted + 1 ELSE minted
      /\ minted' \in Nat /\ minted' >= minted
      /\ live' \subseteq 1..minted' /\ revoked' \subseteq 1..Len(expiry')
      /\ Len(expiry) \in Nat /\ clock \in Nat /\ minted \in Nat
  BY <1>1, <1>3, IssueAppends
<1>5. auth[p] \in AuthState /\ Own(auth[p])
  BY DEF IInv, TypeOK
<1>6. /\ token \in Access /\ token.id = Len(expiry) + 1
      /\ token.expires = auth[p].now + Lifetime /\ token # NoAccess
  <2>1. token.id = Len(expiry) + 1 /\ token.expires = auth[p].now + Lifetime
    BY DEF ExpiresAt
  <2>2. auth[p].now + Lifetime \in Nat /\ Len(expiry) + 1 \in Nat
    BY <1>4, <1>5, TimesAssumption, SMTT(30) DEF AuthState
  <2>3. token \in Access
    BY <2>2 DEF Access, ExpiresAt
  <2>4. NoAccess.id = 0
    BY DEF NoAccess, None
  <2> QED
    BY <1>4, <2>1, <2>3, <2>4
<1>7. a \in AuthState
  <2>1. /\ (IF rotates THEN "save_refresh" ELSE "save_token") \in PC
        /\ (IF rotates THEN minted + 1 ELSE None) \in Nat
    BY <1>4 DEF PC, None
  <2> QED
    BY <1>5, <1>6, <2>1 DEF AuthState
<1>8. /\ auth' \in [Proc -> AuthState]
      /\ auth'[p] = a
      /\ \A q \in Proc \ {p} : auth'[q] = auth[q]
  BY <1>1, <1>7, BecomeOne DEF IInv, TypeOK
<1>9. /\ a.pc = IF rotates THEN "save_refresh" ELSE "save_token"
      /\ a.fresh = token /\ Known(a) = Known(auth[p])
      /\ a.rotated = IF rotates THEN minted + 1 ELSE None
      /\ a.seed = auth[p].seed /\ a.now = auth[p].now
      /\ a.current = auth[p].current /\ a.bearer = auth[p].bearer
      /\ a.rejected = auth[p].rejected
  BY <1>5 DEF AuthState, Known
<1>10. a.force_refresh = auth[p].force_refresh
  BY <1>5, Zenon DEF AuthState
<1> HIDE DEF a, token
<1>11. \A t : Sound(t) => Sound(t)'
  BY <1>4 DEF Sound
<1>12. \A q \in Proc : Own(auth[q])'
  <2>1. Own(auth[p])'
    <3>1. Sound(auth[p].fresh)' /\ auth'[p].fresh # NoAccess
      <4>1. auth'[p].fresh = token
        BY <1>8, <1>9
      <4>2. auth[p].now + Lifetime <= clock + Lifetime
        BY <1>4, <1>5, TimesAssumption DEF Own, AuthState
      <4>3. /\ token.id \in 1..Len(expiry')
            /\ token.expires <= expiry'[token.id]
        BY <1>4, <1>6, <4>2
      <4> QED
        BY <1>6, <4>1, <4>3 DEF Sound
    <3>2. auth'[p].rejected # None =>
            /\ auth'[p].current.id # auth'[p].rejected
            /\ ~auth'[p].force_refresh => cache'.access.id # auth'[p].rejected
      BY <1>2, <1>5, <1>8, <1>9, <1>10 DEF Own
    <3>3. /\ auth'[p].seed \in 0..minted'
          /\ auth'[p].pc = "save_refresh" => auth'[p].rotated \in 1..minted'
          /\ auth'[p].now <= clock'
          /\ Sound(auth[p].current)'
          /\ auth'[p].bearer \in 0..Len(expiry')
          /\ auth'[p].rejected \in 0..Len(expiry')
      BY <1>2, <1>3, <1>4, <1>5, <1>8, <1>9, <1>11 DEF Own
    <3>4. auth'[p].pc \notin {"load", "post", "granted"}
      BY <1>3, <1>8, <1>9
    <3> QED
      BY <3>1, <3>2, <3>3, <3>4 DEF Own
  <2>2. \A q \in Proc \ {p} : Own(auth[q])'
    BY <1>2, <1>4, <1>8, OwnKept DEF IInv
  <2> QED
    BY <2>1, <2>2
<1>13. Sound(cache.access)'
  BY <1>2, <1>11 DEF IInv
<1>14. TypeOK'
  <2>1. \A q \in Proc : auth'[q].pc = "post" => auth'[q].refresh_token \in 1..minted'
    BY <1>12 DEF Own
  <2>2. env' \in 0..minted' /\ cache' \in [access : Access, refresh_token : 0..minted']
    BY <1>2, <1>4 DEF IInv, TypeOK
  <2> QED
    BY <1>2, <1>4, <1>8, <2>1, <2>2 DEF IInv, TypeOK
<1>15. Unsaved'
  <2>1. \A q \in Proc : \A n \in Known(auth[q]) : n < token.id
    <3>1. \A t : Sound(t) => t.id < token.id
      BY <1>4, <1>6 DEF Sound, NoAccess, None
    <3>2. \A q \in Proc : /\ Sound(auth[q].current)
                          /\ auth[q].bearer < token.id
                          /\ auth[q].rejected < token.id
      BY <1>4, <1>6 DEF IInv, Own
    <3> QED
      BY <3>1, <3>2 DEF Known
  <2>2. cache.access.id # token.id
    BY <1>4, <1>6 DEF IInv, Sound, NoAccess, None
  <2>3. \A q \in Proc : InFlight(auth[q]) => auth[q].fresh.id # token.id
    BY <1>4, <1>6 DEF IInv, Own, Sound, NoAccess, None
  <2>4. \A q \in Proc : token.id \notin Known(auth[q])
    BY <1>4, <1>6, <2>1, SMTT(30)
  <2> SUFFICES ASSUME NEW r \in Proc, NEW q \in Proc, InFlight(auth'[r])
               PROVE  /\ auth'[r].fresh.id # cache'.access.id
                      /\ auth'[r].fresh.id \notin Known(auth'[q])
                      /\ r # q /\ InFlight(auth'[q]) =>
                            auth'[r].fresh.id # auth'[q].fresh.id
    BY DEF Unsaved, InFlight, Known
  <2>5. Known(auth'[q]) = Known(auth[q])
    BY <1>8, <1>9
  <2>6. CASE r = p
    BY <1>2, <1>8, <1>9, <2>2, <2>3, <2>4, <2>5, <2>6
  <2>7. CASE r # p /\ q = p
    BY <1>2, <1>8, <1>9, <2>3, <2>5, <2>7 DEF IInv, Unsaved
  <2>8. CASE r # p /\ q # p
    BY <1>2, <1>8, <2>5, <2>8 DEF IInv, Unsaved
  <2> QED
    BY <2>6, <2>7, <2>8
<1> QED
  BY <1>12, <1>13, <1>14, <1>15 DEF IInv

\* The endpoint issued a token, and the process never learnt of it.
LEMMA AnswerLostKeeps ==
    ASSUME IInv, NEW p \in Proc, AnswerLost(p)
    PROVE  IInv'
<1>1. PICK rotates \in Rotates : Issue(auth[p].refresh_token, rotates)
  BY DEF AnswerLost
<1>2. /\ auth[p].pc = "post" /\ UNCHANGED <<clock, env, logins, cache>>
      /\ Become(p, Failed(auth[p], "error"))
  BY DEF AnswerLost
<1>3. rotates \in BOOLEAN /\ auth[p].refresh_token \in 1..minted
  BY <1>2, RotatesAssumption DEF IInv, TypeOK
<1>4. /\ expiry' \in Seq(Nat) /\ Len(expiry') = Len(expiry) + 1
      /\ Len(expiry') <= MaxIssued
      /\ \A n \in 1..Len(expiry) : expiry'[n] = expiry[n]
      /\ minted' \in Nat /\ minted' >= minted
      /\ live' \subseteq 1..minted' /\ revoked' \subseteq 1..Len(expiry')
      /\ Len(expiry) \in Nat /\ clock \in Nat /\ minted \in Nat
  BY <1>1, <1>3, IssueAppends
<1>5. auth[p] \in AuthState /\ auth[p].seed \in 0..minted
  BY DEF IInv, TypeOK, Own
<1> DEFINE a == Outside(auth[p].seed, "error")
<1>6. a = Failed(auth[p], "error") /\ a \in AuthState
  <2>1. auth[p].seed \in Nat /\ "error" \in PC
    BY <1>4, <1>5 DEF PC
  <2> QED
    BY <2>1, Fresh DEF Failed
<1>7. /\ auth' \in [Proc -> AuthState]
      /\ auth'[p] = a
      /\ \A q \in Proc \ {p} : auth'[q] = auth[q]
  BY <1>2, <1>6, BecomeOne DEF IInv, TypeOK
<1>8. /\ a.pc = "error" /\ a.seed = auth[p].seed /\ a.now = 0
      /\ a.current = NoAccess /\ a.bearer = 0 /\ a.rejected = 0
      /\ Known(a) = {0} /\ ~InFlight(a)
  BY DEF Outside, Known, InFlight, NoAccess, None
<1> HIDE DEF a
<1>9. \A q \in Proc : Own(auth[q])'
  <2>1. Own(auth[p])'
    BY <1>2, <1>4, <1>5, <1>7, <1>8 DEF Own, Sound, InFlight, None
  <2>2. \A q \in Proc \ {p} : Own(auth[q])'
    BY <1>2, <1>4, <1>7, OwnKept DEF IInv
  <2> QED
    BY <2>1, <2>2
<1>10. Sound(cache.access)'
  BY <1>2, <1>4 DEF IInv, Sound
<1>11. TypeOK'
  <2>1. \A q \in Proc : auth'[q].pc = "post" => auth'[q].refresh_token \in 1..minted'
    BY <1>9 DEF Own
  <2>2. env' \in 0..minted' /\ cache' \in [access : Access, refresh_token : 0..minted']
    BY <1>2, <1>4 DEF IInv, TypeOK
  <2> QED
    BY <1>2, <1>4, <1>7, <2>1, <2>2 DEF IInv, TypeOK
<1>12. Unsaved'
  <2> SUFFICES ASSUME NEW r \in Proc, NEW q \in Proc, InFlight(auth'[r])
               PROVE  /\ auth'[r].fresh.id # cache'.access.id
                      /\ auth'[r].fresh.id \notin Known(auth'[q])
                      /\ r # q /\ InFlight(auth'[q]) =>
                            auth'[r].fresh.id # auth'[q].fresh.id
    BY DEF Unsaved, InFlight, Known
  <2>1. r # p /\ auth'[r] = auth[r]
    BY <1>7, <1>8
  <2>2. auth[r].fresh.id # 0
    BY <1>4, <2>1 DEF IInv, Own, Sound
  <2>3. CASE q = p
    BY <1>2, <1>7, <1>8, <2>1, <2>2, <2>3 DEF IInv, Unsaved
  <2>4. CASE q # p
    BY <1>2, <1>7, <2>1, <2>4 DEF IInv, Unsaved
  <2> QED
    BY <2>3, <2>4
<1> QED
  BY <1>9, <1>10, <1>11, <1>12 DEF IInv

LEMMA SaveRefreshTokenKeeps ==
    ASSUME IInv, NEW p \in Proc, SaveRefreshToken(p)
    PROVE  IInv'
<1> DEFINE a == [auth[p] EXCEPT !.pc = "save_token"]
<1>1. /\ auth[p].pc = "save_refresh"
      /\ cache' = [cache EXCEPT !.refresh_token = auth[p].rotated]
      /\ Become(p, a)
      /\ clock' = clock /\ env' = env /\ logins' = logins
      /\ expiry' = expiry /\ revoked' = revoked /\ minted' = minted
      /\ live' = live
  BY DEF SaveRefreshToken, endpoint
<1>2. /\ auth[p] \in AuthState /\ Own(auth[p]) /\ minted \in Nat
      /\ cache \in [access : Access, refresh_token : 0..minted]
  BY DEF IInv, TypeOK
<1>3. a \in AuthState
  BY <1>2 DEF AuthState, PC
<1>4. /\ auth' \in [Proc -> AuthState]
      /\ auth'[p] = a
      /\ \A q \in Proc \ {p} : auth'[q] = auth[q]
  BY <1>1, <1>3, BecomeOne DEF IInv, TypeOK
<1>5. cache'.access = cache.access
  BY <1>1, <1>2
<1>6. Own(a) /\ Known(a) = Known(auth[p]) /\ a.fresh = auth[p].fresh
      /\ InFlight(a) /\ InFlight(auth[p])
  BY <1>1, <1>2 DEF Own, Known, InFlight, AuthState
<1>7. \A q \in Proc : Own(auth'[q])
  BY <1>4, <1>6 DEF IInv
<1>8. \A q \in Proc : Own(auth[q])'
  BY <1>1, <1>5, <1>7 DEF Own, Sound
<1>9. Sound(cache.access)'
  BY <1>1, <1>5 DEF IInv, Sound
<1>10. TypeOK'
  <2>1. cache' \in [access : Access, refresh_token : 0..minted']
    BY <1>1, <1>2 DEF Own
  <2>2. \A q \in Proc : auth'[q].pc = "post" => auth'[q].refresh_token \in 1..minted'
    BY <1>8 DEF Own
  <2> QED
    BY <1>1, <1>4, <2>1, <2>2 DEF IInv, TypeOK
<1>11. Unsaved'
  <2>1. \A q \in Proc : /\ Known(auth'[q]) = Known(auth[q])
                        /\ auth'[q].fresh = auth[q].fresh
                        /\ InFlight(auth'[q]) <=> InFlight(auth[q])
    BY <1>4, <1>6
  <2>2. \A r, q \in Proc : InFlight(auth'[r]) =>
           /\ auth'[r].fresh.id # cache'.access.id
           /\ auth'[r].fresh.id \notin Known(auth'[q])
           /\ r # q /\ InFlight(auth'[q]) =>
                 auth'[r].fresh.id # auth'[q].fresh.id
    BY <1>5, <2>1 DEF IInv, Unsaved
  <2> QED
    BY <2>2 DEF Unsaved, InFlight, Known
<1> QED
  BY <1>8, <1>9, <1>10, <1>11 DEF IInv

\* The token is in the store now: it was new, so nobody was told off for it.
LEMMA SaveTokenKeeps ==
    ASSUME IInv, NEW p \in Proc, SaveToken(p)
    PROVE  IInv'
<1> DEFINE a == Returned(auth[p], auth[p].fresh)
<1>1. /\ auth[p].pc = "save_token"
      /\ cache' = [cache EXCEPT !.access = auth[p].fresh]
      /\ Become(p, a)
      /\ clock' = clock /\ env' = env /\ logins' = logins
      /\ expiry' = expiry /\ revoked' = revoked /\ minted' = minted
      /\ live' = live
  BY DEF SaveToken, endpoint
<1>2. /\ auth[p] \in AuthState /\ Own(auth[p]) /\ minted \in Nat
      /\ cache \in [access : Access, refresh_token : 0..minted]
      /\ Len(expiry) \in Nat /\ clock \in Nat
  BY BoundsAssumption DEF IInv, TypeOK
<1>3. /\ InFlight(auth[p]) /\ auth[p].fresh \in Access /\ auth[p].rejected \in Nat
      /\ Sound(auth[p].fresh) /\ auth[p].fresh # NoAccess
      /\ auth[p].fresh.id \in 1..Len(expiry)
  BY <1>1, <1>2 DEF InFlight, Own, Sound, AuthState
<1>4. a = [Outside(auth[p].seed, "granted") EXCEPT
             !.current = auth[p].fresh, !.bearer = auth[p].fresh.id,
             !.rejected = auth[p].rejected]
      /\ a \in AuthState
  <2>1. auth[p].seed \in Nat /\ "granted" \in PC /\ "ready" \in PC
    BY <1>2 DEF AuthState, PC
  <2>2. /\ NewAuth(auth[p].seed) = Outside(auth[p].seed, "ready")
        /\ [NewAuth(auth[p].seed) EXCEPT !.pc = "granted"] =
                Outside(auth[p].seed, "granted")
        /\ Outside(auth[p].seed, "granted") \in AuthState
    BY <2>1, Fresh
  <2>3. a = [[NewAuth(auth[p].seed) EXCEPT !.pc = "granted"] EXCEPT
               !.current = auth[p].fresh, !.bearer = auth[p].fresh.id,
               !.rejected = auth[p].rejected]
    BY DEF Returned
  <2>4. a = [Outside(auth[p].seed, "granted") EXCEPT
               !.current = auth[p].fresh, !.bearer = auth[p].fresh.id,
               !.rejected = auth[p].rejected]
    BY <2>2, <2>3
  <2>5. auth[p].fresh.id \in Nat
    BY <1>3 DEF Access
  <2> QED
    BY <1>3, <2>2, <2>4, <2>5 DEF AuthState
<1>5. /\ a.pc = "granted" /\ a.seed = auth[p].seed /\ ~a.force_refresh
      /\ a.now = 0 /\ a.current = auth[p].fresh
      /\ a.bearer = auth[p].fresh.id /\ a.rejected = auth[p].rejected
      /\ Known(a) = {auth[p].fresh.id, auth[p].rejected} /\ ~InFlight(a)
  BY <1>4 DEF Outside, Known, InFlight
<1>6. /\ auth' \in [Proc -> AuthState]
      /\ auth'[p] = a
      /\ \A q \in Proc \ {p} : auth'[q] = auth[q]
  BY <1>1, <1>4, BecomeOne DEF IInv, TypeOK
<1> HIDE DEF a
<1>7. cache'.access = auth[p].fresh
  BY <1>1, <1>2
<1>8. \A q \in Proc : auth[q].rejected # auth[p].fresh.id
  BY <1>3 DEF IInv, Unsaved, Known
<1>9. \A q \in Proc : Own(auth[q])'
  <2>1. Own(auth[p])'
    BY <1>1, <1>2, <1>3, <1>5, <1>6, <1>7, <1>8 DEF Own, Sound, InFlight
  <2>2. ASSUME NEW q \in Proc \ {p} PROVE Own(auth[q])'
    <3>1. Own(auth[q]) /\ auth'[q] = auth[q] /\ auth[q].rejected # cache'.access.id
      BY <1>6, <1>7, <1>8 DEF IInv
    <3> QED
      BY <1>1, <3>1 DEF Own, Sound
  <2> QED
    BY <2>1, <2>2
<1>10. Sound(cache.access)'
  BY <1>1, <1>3, <1>7 DEF Sound
<1>11. TypeOK'
  <2>1. cache' \in [access : Access, refresh_token : 0..minted']
    BY <1>1, <1>2, <1>3
  <2>2. \A q \in Proc : auth'[q].pc = "post" => auth'[q].refresh_token \in 1..minted'
    BY <1>9 DEF Own
  <2> QED
    BY <1>1, <1>6, <2>1, <2>2 DEF IInv, TypeOK
<1>12. Unsaved'
  <2> SUFFICES ASSUME NEW r \in Proc, NEW q \in Proc, InFlight(auth'[r])
               PROVE  /\ auth'[r].fresh.id # cache'.access.id
                      /\ auth'[r].fresh.id \notin Known(auth'[q])
                      /\ r # q /\ InFlight(auth'[q]) =>
                            auth'[r].fresh.id # auth'[q].fresh.id
    BY DEF Unsaved, InFlight, Known
  <2>1. r # p /\ auth'[r] = auth[r]
    BY <1>5, <1>6
  <2>2. /\ auth[r].fresh.id # auth[p].fresh.id
        /\ auth[r].fresh.id # auth[p].rejected
    BY <1>3, <2>1 DEF IInv, Unsaved, Known
  <2>3. CASE q = p
    BY <1>5, <1>6, <1>7, <2>1, <2>2, <2>3
  <2>4. CASE q # p
    BY <1>6, <1>7, <2>1, <2>2, <2>4 DEF IInv, Unsaved
  <2> QED
    BY <2>3, <2>4
<1> QED
  BY <1>9, <1>10, <1>11, <1>12 DEF IInv

-----------------------------------------------------------------------------
LEMMA StepHolds == IInv /\ [Next]_vars => IInv'
<1> SUFFICES ASSUME IInv, [Next]_vars PROVE IInv'
  OBVIOUS
<1>1. CASE UNCHANGED vars
  BY <1>1 DEF vars, IInv, TypeOK, Sound, Own, InFlight, Unsaved, Known
<1>2. CASE Environment
  BY <1>2, Others, Volume DEF Environment
<1>3. CASE \E p \in Proc : TokenCall(p) \/ Caller(p)
  BY <1>3, Locals, GrantedKeeps, AnswerLostKeeps, SaveRefreshTokenKeeps,
     SaveTokenKeeps DEF TokenCall, Caller
<1> QED
  BY <1>1, <1>2, <1>3 DEF Next

LEMMA Invariant == Spec => []IInv
BY InitHolds, StepHolds, PTL DEF Spec

\* In every process every local has its type, and nothing is ever POSTed in
\* place of a refresh token.
THEOREM AuthTypes == Spec => []TypeOK
<1>1. IInv => TypeOK
  BY DEF IInv
<1> QED
  BY <1>1, Invariant, PTL

\* However many processes share the token_cache row and save to it between each
\* other's statements, a process that was answered with a 401 never presents that
\* access token again.
THEOREM RejectedStaysUnused == Spec => []RejectedNotReused
<1>1. IInv => RejectedNotReused
  BY DEF IInv, RejectedNotReused, Own
<1> QED
  BY <1>1, Invariant, PTL

\* A step of a process replaces its locals and nobody else's.
LEMMA StepIsLocal ==
    ASSUME NEW p \in Proc, TokenCall(p) \/ Caller(p)
    PROVE  \E a : Become(p, a)
<1>1. CASE LoadRefreshToken(p)
  BY <1>1 DEF LoadRefreshToken, Posts
<1>2. CASE ~LoadRefreshToken(p)
  BY <1>2 DEF TokenCall, Caller, FromMemory, NotInMemory, FromStore, NeedsFresh,
              Granted, InvalidGrant, Unreachable, AnswerLost, SaveRefreshToken,
              SaveToken, StoreFails, Begin, Used, Invalidated, Exit, Crash
<1> QED
  BY <1>1, <1>2

\* Where each step of a process leaves it.
LEMMA LeavesAt ==
    ASSUME auth \in [Proc -> AuthState], env \in Nat, clock \in Nat,
           NEW p \in Proc
    PROVE  /\ FromMemory(p) \/ FromStore(p) \/ SaveToken(p) =>
                auth'[p].pc = "granted" /\ auth'[p].seed = auth[p].seed
           /\ NotInMemory(p) =>
                /\ auth'[p].pc \in {"load", "refresh"}
                /\ auth'[p].seed = auth[p].seed
           /\ NeedsFresh(p) =>
                auth'[p].pc = "refresh" /\ auth'[p].seed = auth[p].seed
           /\ LoadRefreshToken(p) =>
                /\ auth'[p].seed = auth[p].seed
                /\ IF Chosen(p) = None THEN auth'[p].pc = "config_error"
                   ELSE /\ auth'[p].pc = "post"
                        /\ auth'[p].refresh_token = Chosen(p)
           /\ InvalidGrant(p) =>
                auth'[p].pc = "config_error" /\ auth'[p].seed = auth[p].seed
           /\ Unreachable(p) \/ AnswerLost(p) \/ StoreFails(p) =>
                auth'[p].pc = "error" /\ auth'[p].seed = auth[p].seed
           /\ SaveRefreshToken(p) =>
                auth'[p].pc = "save_token" /\ auth'[p].seed = auth[p].seed
           /\ Used(p) \/ Invalidated(p) =>
                auth'[p].pc = "ready" /\ auth'[p].seed = auth[p].seed
           /\ Begin(p) => auth'[p].pc = "ready" /\ auth'[p].seed = env
           /\ Exit(p) \/ Crash(p) => auth'[p].pc = "off"
<1>1. auth[p] \in AuthState /\ auth[p].seed \in Nat
  BY DEF AuthState
<1>2. \A a : Become(p, a) => auth'[p] = a
  BY DEF Become
<1>3. \A token : /\ Returned(auth[p], token).pc = "granted"
                 /\ Returned(auth[p], token).seed = auth[p].seed
  BY DEF Returned, NewAuth
<1>4. FromMemory(p) \/ FromStore(p) \/ SaveToken(p) =>
        auth'[p].pc = "granted" /\ auth'[p].seed = auth[p].seed
  BY <1>2, <1>3 DEF FromMemory, FromStore, SaveToken
<1>5. NeedsFresh(p) =>
        auth'[p].pc = "refresh" /\ auth'[p].seed = auth[p].seed
  BY <1>1, <1>2 DEF NeedsFresh, AuthState
<1>6. \A pc \in {"error", "config_error"} :
        /\ Failed(auth[p], pc).pc = pc
        /\ Failed(auth[p], pc).seed = auth[p].seed
  <2> SUFFICES ASSUME NEW pc \in {"error", "config_error"}
               PROVE  /\ Failed(auth[p], pc).pc = pc
                      /\ Failed(auth[p], pc).seed = auth[p].seed
    OBVIOUS
  <2>1. pc \in PC
    BY DEF PC
  <2>2. Failed(auth[p], pc) = Outside(auth[p].seed, pc)
    BY <1>1, <2>1, Fresh DEF Failed
  <2> QED
    BY <2>2 DEF Outside
<1>7. ASSUME LoadRefreshToken(p)
      PROVE  /\ auth'[p].seed = auth[p].seed
             /\ IF Chosen(p) = None THEN auth'[p].pc = "config_error"
                ELSE /\ auth'[p].pc = "post"
                     /\ auth'[p].refresh_token = Chosen(p)
  <2>1. auth'[p] = IF Chosen(p) = None THEN Failed(auth[p], "config_error")
                   ELSE [auth[p] EXCEPT !.pc = "post", !.refresh_token = Chosen(p)]
    BY <1>2, <1>7 DEF LoadRefreshToken, Posts
  <2> QED
    BY <1>1, <1>6, <2>1 DEF AuthState
<1>8. InvalidGrant(p) =>
        auth'[p].pc = "config_error" /\ auth'[p].seed = auth[p].seed
  BY <1>2, <1>6 DEF InvalidGrant
<1>9. Unreachable(p) \/ AnswerLost(p) \/ StoreFails(p) =>
        auth'[p].pc = "error" /\ auth'[p].seed = auth[p].seed
  BY <1>2, <1>6 DEF Unreachable, AnswerLost, StoreFails
<1>10. SaveRefreshToken(p) =>
         auth'[p].pc = "save_token" /\ auth'[p].seed = auth[p].seed
  BY <1>1, <1>2 DEF SaveRefreshToken, AuthState
<1>11. Used(p) \/ Invalidated(p) =>
         auth'[p].pc = "ready" /\ auth'[p].seed = auth[p].seed
  BY <1>1, <1>2 DEF Used, Invalidated, AuthState
<1>12. Begin(p) => auth'[p].pc = "ready" /\ auth'[p].seed = env
  BY <1>2 DEF Begin, NewAuth
<1>13. Exit(p) \/ Crash(p) => auth'[p].pc = "off"
  BY <1>2, OffIs DEF Exit, Crash
<1>14. NotInMemory(p) =>
         auth'[p].pc \in {"load", "refresh"} /\ auth'[p].seed = auth[p].seed
  <2> DEFINE pc == IF auth[p].force_refresh THEN "refresh" ELSE "load"
             a == [auth[p] EXCEPT !.pc = pc, !.now = clock]
  <2>1. NotInMemory(p) => auth'[p] = a
    BY <1>2 DEF NotInMemory
  <2>2. pc \in {"load", "refresh"}
    OBVIOUS
  <2>3. a.pc = pc /\ a.seed = auth[p].seed
    BY <1>1 DEF AuthState
  <2> HIDE DEF a, pc
  <2> QED
    BY <2>1, <2>2, <2>3
<1> QED
  BY <1>4, <1>5, <1>7, <1>8, <1>9, <1>10, <1>11, <1>12, <1>13, <1>14

\* A token from memory or from the store was issued by the endpoint, and when
\* token() was called it lived there for longer than the leeway, whatever the
\* lifetime, and however long the call took.
THEOREM LeewayLeft == Spec => HandedOutWithLeeway
<1>1. ASSUME IInv, [Next]_vars, NEW p \in Proc,
             auth[p].pc \in {"ready", "load"}, auth'[p].pc = "granted"
      PROVE  /\ auth'[p].bearer \in 1..Len(expiry)
             /\ expiry[auth'[p].bearer] > CalledAt(p) + Leeway
  <2>1. ASSUME NEW token \in Access, NEW t \in Nat, Sound(token), IsValid(token, t)
        PROVE  token.id \in 1..Len(expiry) /\ expiry[token.id] > t + Leeway
    <3>1. token.expires \in Nat /\ Leeway \in Nat
      BY <2>1, TimesAssumption DEF Access
    <3>2. token.expires > t + Leeway
      BY <2>1, <3>1 DEF IsValid
    <3>3. token # NoAccess
      BY <3>1, <3>2 DEF NoAccess
    <3>4. token.id \in 1..Len(expiry) /\ expiry[token.id] \in Nat
      BY <1>1, <2>1, <3>3 DEF Sound, IInv, TypeOK
    <3> QED
      BY <2>1, <3>1, <3>2, <3>3, <3>4 DEF Sound
  <2>2. /\ auth \in [Proc -> AuthState] /\ auth[p] \in AuthState
        /\ auth[p].current \in Access /\ Sound(auth[p].current)
        /\ cache.access \in Access /\ Sound(cache.access)
        /\ clock \in Nat /\ auth[p].now \in Nat /\ env \in Nat
    BY <1>1, BoundsAssumption DEF IInv, TypeOK, Own, AuthState
  <2>3. ASSUME NEW token \in Access, Become(p, Returned(auth[p], token))
        PROVE  auth'[p].bearer = token.id
    BY <2>2, <2>3 DEF Become, Returned, NewAuth
  <2>4. FromMemory(p) \/ FromStore(p)
    <3>1. auth' # auth
      BY <1>1
    <3>2. PICK q \in Proc : TokenCall(q) \/ Caller(q)
      BY <1>1, <3>1 DEF Next, vars, Environment, Tick, Revoke, ExpireRefreshToken,
                        Login, LoseVolume
    <3>3. PICK a : Become(q, a)
      BY <3>2, StepIsLocal
    <3>4. q = p
      BY <1>1, <2>2, <3>3 DEF Become
    <3>5. \/ FromMemory(p) \/ NotInMemory(p) \/ FromStore(p) \/ NeedsFresh(p)
          \/ StoreFails(p) \/ Exit(p) \/ Crash(p)
      BY <1>1, <3>2, <3>4 DEF TokenCall, Caller, LoadRefreshToken, Granted,
                  InvalidGrant, Unreachable, AnswerLost, SaveRefreshToken,
                  SaveToken, Begin, Used, Invalidated
    <3> QED
      BY <1>1, <2>2, <3>5, LeavesAt
  <2>5. CASE FromMemory(p)
    <3>1. IsValid(auth[p].current, clock) /\ CalledAt(p) = clock
      BY <2>5 DEF FromMemory, UsesMemory, CalledAt
    <3> QED
      BY <2>1, <2>2, <2>3, <2>5, <3>1 DEF FromMemory
  <2>6. CASE FromStore(p)
    <3>1. IsValid(cache.access, auth[p].now) /\ CalledAt(p) = auth[p].now
      BY <2>6 DEF FromStore, CalledAt
    <3> QED
      BY <2>1, <2>2, <2>3, <2>6, <3>1 DEF FromStore
  <2> QED
    BY <2>4, <2>5, <2>6
<1>2. IInv /\ [Next]_vars =>
        [\A p \in Proc :
            auth[p].pc \in {"ready", "load"} /\ auth'[p].pc = "granted" =>
                /\ auth'[p].bearer \in 1..Len(expiry)
                /\ expiry[auth'[p].bearer] > CalledAt(p) + Leeway]_vars
  BY <1>1
<1> QED
  BY <1>2, Invariant, PTL DEF Spec, HandedOutWithLeeway

-----------------------------------------------------------------------------
(***************************************************************************)
(* Exit 2, and when nobody needs a browser.                                *)
(***************************************************************************)
\* No two processes have the database at the same time (concurrencyPolicy:
\* Forbid, and nobody who runs the command by hand next to it).
OneProcess == \A p, q \in Proc : p = q

\* Where a grant leaves the process, and what it leaves at the endpoint.
LEMMA GrantedAt ==
    ASSUME IInv, NEW p \in Proc, Granted(p)
    PROVE  /\ auth'[p].seed = auth[p].seed
           /\ \/ /\ auth'[p].pc = "save_refresh"
                 /\ TRUE \in Rotates
                 /\ auth'[p].rotated \in live'
              \/ auth'[p].pc = "save_token" /\ live' = live
<1>1. PICK rotates \in Rotates :
         /\ Issue(auth[p].refresh_token, rotates)
         /\ Become(p, [auth[p] EXCEPT
              !.pc = IF rotates THEN "save_refresh" ELSE "save_token",
              !.fresh = [id |-> Len(expiry) + 1, expires |-> ExpiresAt(p)],
              !.rotated = IF rotates THEN minted + 1 ELSE None])
  BY DEF Granted
<1> DEFINE token == [id |-> Len(expiry) + 1, expires |-> ExpiresAt(p)]
           a == [auth[p] EXCEPT
                   !.pc = IF rotates THEN "save_refresh" ELSE "save_token",
                   !.fresh = token,
                   !.rotated = IF rotates THEN minted + 1 ELSE None]
<1>2. auth[p] \in AuthState
  BY DEF IInv, TypeOK
<1>3. auth'[p] = a
  BY <1>1 DEF Become, IInv, TypeOK
<1>4. /\ a.pc = IF rotates THEN "save_refresh" ELSE "save_token"
      /\ a.rotated = IF rotates THEN minted + 1 ELSE None
      /\ a.seed = auth[p].seed
  BY <1>2 DEF AuthState
<1> HIDE DEF a
<1>5. rotates \in BOOLEAN
  BY RotatesAssumption
<1>6. CASE rotates = TRUE
  BY <1>1, <1>3, <1>4, <1>6 DEF Issue
<1>7. CASE rotates = FALSE
  BY <1>1, <1>3, <1>4, <1>7 DEF Issue
<1> QED
  BY <1>5, <1>6, <1>7

\* What the process has POSTed is what it would load again, and what it was told
\* to be dead is dead.
Final(p) ==
    /\ auth[p].pc = "post" => auth[p].refresh_token = Chosen(p)
    /\ auth[p].pc = "config_error" => Chosen(p) \notin live

FinalInv == \A p \in Proc : Final(p)

LEMMA FinalStep ==
    ASSUME IInv, OneProcess, FinalInv, [Next]_vars
    PROVE  FinalInv'
<1>1. /\ minted \in Nat /\ cache.refresh_token \in 0..minted
      /\ live \subseteq 1..minted /\ env \in Nat /\ clock \in Nat
      /\ auth \in [Proc -> AuthState]
      /\ \A p \in Proc : Chosen(p) \in 0..minted
  BY BoundsAssumption DEF IInv, TypeOK, Own, Chosen
<1>2. CASE auth' = auth /\ cache' = cache /\ live' \subseteq live \cup {minted + 1}
  <2>1. \A p \in Proc : Chosen(p)' = Chosen(p) /\ Chosen(p) # minted + 1
    BY <1>1, <1>2 DEF Chosen
  <2> QED
    BY <1>2, <2>1 DEF FinalInv, Final
<1>3. CASE UNCHANGED vars
  BY <1>2, <1>3 DEF vars
<1>4. CASE LoseVolume
  BY <1>4 DEF LoseVolume, FinalInv, Final
<1>5. CASE Tick \/ Revoke \/ ExpireRefreshToken \/ Login
  BY <1>2, <1>5 DEF Tick, Revoke, ExpireRefreshToken, Login, endpoint
<1>6. ASSUME NEW p \in Proc, TokenCall(p) \/ Caller(p)
      PROVE  FinalInv'
  <2>1. SUFFICES Final(p)'
    BY DEF OneProcess, FinalInv
  <2>2. CASE auth'[p].pc \notin {"post", "config_error"}
    BY <2>2 DEF Final
  <2>3. CASE LoadRefreshToken(p)
    <3>1. cache' = cache /\ live' = live
      BY <2>3 DEF LoadRefreshToken, endpoint
    <3>2. /\ auth'[p].seed = auth[p].seed
          /\ IF Chosen(p) = None THEN auth'[p].pc = "config_error"
             ELSE /\ auth'[p].pc = "post"
                  /\ auth'[p].refresh_token = Chosen(p)
      BY <1>1, <2>3, LeavesAt
    <3>3. Chosen(p)' = Chosen(p)
      BY <3>1, <3>2 DEF Chosen
    <3> QED
      BY <1>1, <3>1, <3>2, <3>3 DEF Final, None
  <2>4. CASE InvalidGrant(p)
    <3>1. /\ auth'[p].pc = "config_error" /\ auth'[p].seed = auth[p].seed
          /\ cache' = cache /\ live' = live
          /\ auth[p].pc = "post" /\ auth[p].refresh_token \notin live
      BY <1>1, <2>4, LeavesAt DEF InvalidGrant, endpoint
    <3>2. Chosen(p)' = Chosen(p) /\ auth[p].refresh_token = Chosen(p)
      BY <3>1 DEF Chosen, FinalInv, Final
    <3> QED
      BY <3>1, <3>2 DEF Final
  <2>5. CASE Granted(p)
    BY <2>2, <2>5, GrantedAt
  <2> QED
    BY <1>1, <1>6, <2>2, <2>3, <2>4, <2>5, LeavesAt DEF TokenCall, Caller
<1> QED
  BY <1>3, <1>4, <1>5, <1>6 DEF Next, Environment

\* When a process that is alone with the database stops with exit 2, the same
\* process started again would find nothing that works: no refresh token at all,
\* or a dead one, in the store or without one as the seed, whatever failed before
\* and however often the operator has logged in (auth.py:150, auth.py:203).
THEOREM Exit2IsFinal == OneProcess => (Spec => []ConfigErrorIsFinal)
<1> SUFFICES ASSUME OneProcess PROVE Spec => []ConfigErrorIsFinal
  OBVIOUS
<1>1. Init => FinalInv
  <2>1. Init => \A p \in Proc : auth[p].pc = "off"
    BY OffIs DEF Init
  <2> QED
    BY <2>1 DEF FinalInv, Final
<1>2. IInv /\ FinalInv /\ [Next]_vars => FinalInv'
  BY FinalStep
<1>3. FinalInv => ConfigErrorIsFinal
  BY DEF FinalInv, Final, ConfigErrorIsFinal
<1> QED
  BY <1>1, <1>2, <1>3, Invariant, PTL DEF Spec

-----------------------------------------------------------------------------
\* What a process that starts now, or one that loads again, would find is alive.
Backed(a) ==
    IF cache.refresh_token # None THEN cache.refresh_token \in live
    ELSE env \in live /\ (a.pc # "off" => a.seed \in live)

Kept(a) ==
    /\ a.pc = "post" => a.refresh_token \in live
    /\ a.pc = "save_refresh" => a.rotated \in live
    /\ a.pc # "save_refresh" => Backed(a)
    /\ a.pc # "config_error"

KeptInv == \A p \in Proc : Kept(auth[p])

\* A rotated refresh token reaches the store: the answer that carries it arrives,
\* and nothing stops the process before the statement that saves it. The program
\* has no means to ensure either; every other fault is left free.
RotationSaved ==
    \A p \in Proc :
        /\ auth[p].pc = "save_refresh" => ~StoreFails(p) /\ ~Crash(p)
        /\ AnswerLost(p) => minted' = minted

\* Steps of the process itself.
LEMMA KeptOwn ==
    ASSUME IInv, RotationSaved, NEW p \in Proc, Kept(auth[p]),
           TokenCall(p) \/ Caller(p)
    PROVE  Kept(auth[p])'
<1>1. /\ minted \in Nat /\ cache.refresh_token \in 0..minted
      /\ live \subseteq 1..minted /\ env \in Nat /\ clock \in Nat
      /\ auth \in [Proc -> AuthState] /\ auth[p] \in AuthState
      /\ cache \in [access : Access, refresh_token : 0..minted]
  BY BoundsAssumption DEF IInv, TypeOK
\* Nothing moves but the program counter: what backed the process still does.
<1>2. ASSUME auth[p].pc # "save_refresh",
             cache'.refresh_token = cache.refresh_token, live' = live, env' = env,
             auth[p].pc # "off",
             auth'[p].pc # "off" => auth'[p].seed = auth[p].seed,
             auth'[p].pc \notin {"post", "save_refresh", "config_error"}
      PROVE  Kept(auth[p])'
  BY <1>2 DEF Kept, Backed
<1>3. CASE Begin(p)
  <2>1. /\ auth[p].pc = "off" /\ cache' = cache /\ live' = live /\ env' = env
        /\ auth'[p].pc = "ready" /\ auth'[p].seed = env
    BY <1>1, <1>3, LeavesAt DEF Begin, endpoint
  <2> QED
    BY <2>1 DEF Kept, Backed
<1>4. CASE FromMemory(p) \/ NotInMemory(p) \/ FromStore(p) \/ NeedsFresh(p)
           \/ Used(p) \/ Invalidated(p) \/ Unreachable(p) \/ Exit(p)
  <2>1. /\ auth[p].pc \notin {"off", "save_refresh"}
        /\ cache' = cache /\ live' = live /\ env' = env
    BY <1>4 DEF FromMemory, NotInMemory, FromStore, NeedsFresh, Used, Invalidated,
                Unreachable, Exit, endpoint
  <2>2. /\ auth'[p].pc \in {"granted", "load", "refresh", "ready", "error", "off"}
        /\ auth'[p].pc # "off" => auth'[p].seed = auth[p].seed
    BY <1>1, <1>4, LeavesAt
  <2> QED
    BY <1>2, <2>1, <2>2
<1>5. CASE StoreFails(p) \/ Crash(p)
  <2>1. /\ auth[p].pc \notin {"off", "save_refresh"}
        /\ cache' = cache /\ live' = live /\ env' = env
    BY <1>5 DEF RotationSaved, StoreFails, Crash, endpoint
  <2>2. /\ auth'[p].pc \in {"error", "off"}
        /\ auth'[p].pc # "off" => auth'[p].seed = auth[p].seed
    BY <1>1, <1>5, LeavesAt
  <2> QED
    BY <1>2, <2>1, <2>2
<1>6. CASE LoadRefreshToken(p)
  <2>1. auth[p].pc = "refresh" /\ cache' = cache /\ live' = live /\ env' = env
    BY <1>6 DEF LoadRefreshToken, Posts, endpoint
  <2>2. Chosen(p) \in live /\ Backed(auth[p])
    BY <2>1 DEF Kept, Backed, Chosen
  <2>3. Chosen(p) # None
    BY <1>1, <2>2 DEF None
  <2>4. /\ auth'[p].pc = "post" /\ auth'[p].refresh_token = Chosen(p)
        /\ auth'[p].seed = auth[p].seed
    BY <1>1, <1>6, <2>3, LeavesAt
  <2> QED
    BY <2>1, <2>2, <2>4 DEF Kept, Backed
<1>7. CASE Granted(p)
  <2>1. auth[p].pc = "post" /\ cache' = cache /\ env' = env
    BY <1>7 DEF Granted
  <2>2. /\ auth'[p].seed = auth[p].seed
        /\ \/ auth'[p].pc = "save_refresh" /\ auth'[p].rotated \in live'
           \/ auth'[p].pc = "save_token" /\ live' = live
    BY <1>7, GrantedAt
  <2>3. CASE auth'[p].pc = "save_refresh" /\ auth'[p].rotated \in live'
    BY <2>3 DEF Kept
  <2>4. CASE auth'[p].pc = "save_token" /\ live' = live
    BY <1>2, <2>1, <2>2, <2>4
  <2> QED
    BY <2>2, <2>3, <2>4
<1>8. CASE InvalidGrant(p)
  BY <1>8 DEF InvalidGrant, Kept
<1>9. CASE AnswerLost(p)
  <2>1. auth[p].pc = "post" /\ cache' = cache /\ env' = env
    BY <1>9 DEF AnswerLost
  <2>2. minted' = minted
    BY <1>9 DEF RotationSaved
  <2>3. PICK rotates \in Rotates : Issue(auth[p].refresh_token, rotates)
    BY <1>9 DEF AnswerLost
  <2>4. live' = live
    BY <1>1, <2>2, <2>3 DEF Issue
  <2>5. auth'[p].pc = "error" /\ auth'[p].seed = auth[p].seed
    BY <1>1, <1>9, LeavesAt
  <2> QED
    BY <1>2, <2>1, <2>4, <2>5
<1>10. CASE SaveRefreshToken(p)
  <2>1. /\ auth[p].pc = "save_refresh" /\ live' = live
        /\ cache' = [cache EXCEPT !.refresh_token = auth[p].rotated]
    BY <1>10 DEF SaveRefreshToken, endpoint
  <2>2. auth[p].rotated \in live
    BY <2>1 DEF Kept
  <2>3. cache'.refresh_token \in live' /\ cache'.refresh_token # None
    BY <1>1, <2>1, <2>2 DEF None
  <2>4. auth'[p].pc = "save_token"
    BY <1>1, <1>10, LeavesAt
  <2> QED
    BY <2>3, <2>4 DEF Kept, Backed
<1>11. CASE SaveToken(p)
  <2>1. /\ auth[p].pc = "save_token" /\ live' = live /\ env' = env
        /\ cache' = [cache EXCEPT !.access = auth[p].fresh]
    BY <1>11 DEF SaveToken, endpoint
  <2>2. cache'.refresh_token = cache.refresh_token
    BY <1>1, <2>1
  <2>3. auth'[p].pc = "granted" /\ auth'[p].seed = auth[p].seed
    BY <1>1, <1>11, LeavesAt
  <2> QED
    BY <1>2, <2>1, <2>2, <2>3
<1> QED
  BY <1>3, <1>4, <1>5, <1>6, <1>7, <1>8, <1>9, <1>10, <1>11 DEF TokenCall, Caller

\* Steps of nobody in particular; `dawatch login` is one of them.
LEMMA KeptOthers ==
    ASSUME IInv, "expire" \notin Faults, NEW p \in Proc, Kept(auth[p]),
           UNCHANGED vars \/ Tick \/ Revoke \/ ExpireRefreshToken \/ Login
    PROVE  Kept(auth[p])'
<1>1. \/ auth' = auth /\ cache' = cache /\ env' = env /\ live' = live
      \/ /\ auth' = auth /\ cache' = cache /\ env' = minted + 1
         /\ live' = live \cup {minted + 1}
  BY DEF vars, Tick, Revoke, ExpireRefreshToken, Login, endpoint
<1> QED
  BY <1>1 DEF Kept, Backed

LEMMA KeptAtFirst ==
    ASSUME Init, 0 \notin Seeds
    PROVE  KeptInv
<1>1. env \in Nat \ {0} /\ live = 1..env
  BY SeedsAssumption DEF Init, None
<1>2. env \in live /\ cache.refresh_token = None
  BY <1>1 DEF Init
<1>3. \A p \in Proc : auth[p].pc = "off"
  BY OffIs DEF Init
<1> QED
  BY <1>2, <1>3 DEF KeptInv, Kept, Backed

\* With a refresh token in OpenBao, one process at a time, a volume that stays
\* and refresh tokens that do not die on their own, the service never asks for a
\* new login as long as each rotated token is saved: refusals, lost answers that
\* rotated nothing, kills and failing statements elsewhere, revoked access tokens
\* and further logins do not bring it to exit 2 (auth.py:92-135).
THEOREM RotationNeedsNoBrowser ==
    OneProcess /\ 0 \notin Seeds /\ "expire" \notin Faults /\ "volume" \notin Faults
        => (Spec /\ [][RotationSaved]_vars => []NoBrowserNeeded)
<1> SUFFICES ASSUME OneProcess, 0 \notin Seeds, "expire" \notin Faults,
                    "volume" \notin Faults
             PROVE  Spec /\ [][RotationSaved]_vars => []NoBrowserNeeded
  OBVIOUS
<1>1. Init => KeptInv
  BY KeptAtFirst
<1>2. IInv /\ KeptInv /\ [Next]_vars /\ [RotationSaved]_vars => KeptInv'
  <2> SUFFICES ASSUME IInv, KeptInv, [Next]_vars, [RotationSaved]_vars,
                      NEW p \in Proc
               PROVE  Kept(auth[p])'
    BY DEF KeptInv
  <2>1. Kept(auth[p])
    BY DEF KeptInv
  <2>2. CASE UNCHANGED vars
    BY <2>1, <2>2, KeptOthers
  <2>3. CASE Environment
    BY <2>1, <2>3, KeptOthers DEF Environment, LoseVolume
  <2>4. CASE RotationSaved /\ \E q \in Proc : TokenCall(q) \/ Caller(q)
    <3>1. TokenCall(p) \/ Caller(p)
      BY <2>4 DEF OneProcess
    <3> QED
      BY <2>1, <2>4, <3>1, KeptOwn
  <2> QED
    BY <2>2, <2>3, <2>4 DEF Next
<1>3. KeptInv => NoBrowserNeeded
  BY DEF KeptInv, Kept, NoBrowserNeeded
<1> QED
  BY <1>1, <1>2, <1>3, Invariant, PTL DEF Spec

\* In particular refusals, an unreachable endpoint and revoked access tokens alone
\* never make a rotating refresh token unusable.
THEOREM RefusalsNeedNoBrowser ==
    OneProcess /\ 0 \notin Seeds /\ Faults \subseteq {"unreachable", "revoke"}
        => (Spec => []NoBrowserNeeded)
<1> SUFFICES ASSUME OneProcess, 0 \notin Seeds,
                    Faults \subseteq {"unreachable", "revoke"}
             PROVE  Spec => []NoBrowserNeeded
  OBVIOUS
<1>1. /\ "expire" \notin Faults /\ "volume" \notin Faults /\ "store" \notin Faults
      /\ "crash" \notin Faults /\ "lost" \notin Faults
  OBVIOUS
<1>2. RotationSaved
  BY <1>1 DEF RotationSaved, StoreFails, Crash, AnswerLost
<1>3. [RotationSaved]_vars
  BY <1>2
<1>4. Spec /\ [][RotationSaved]_vars => []NoBrowserNeeded
  BY <1>1, RotationNeedsNoBrowser
<1> QED
  BY <1>3, <1>4, PTL

-----------------------------------------------------------------------------
\* An endpoint that never rotates: the store never holds a refresh token.
SeedsOnly ==
    /\ cache.refresh_token = None
    /\ \A p \in Proc : auth[p].pc # "save_refresh"

LEMMA SeedsStay ==
    ASSUME IInv, Rotates = {FALSE}, SeedsOnly, KeptInv, NEW p \in Proc,
           TokenCall(p) \/ Caller(p)
    PROVE  SeedsOnly' /\ KeptInv'
<1>1. /\ minted \in Nat /\ env \in Nat /\ clock \in Nat
      /\ auth \in [Proc -> AuthState]
      /\ cache \in [access : Access, refresh_token : 0..minted]
  BY BoundsAssumption DEF IInv, TypeOK
<1>2. RotationSaved
  <2>1. \A q \in Proc : AnswerLost(q) => minted' = minted
    BY DEF AnswerLost, Issue
  <2> QED
    BY <2>1 DEF RotationSaved, SeedsOnly
<1>3. ~SaveRefreshToken(p)
  BY DEF SaveRefreshToken, SeedsOnly
<1>4. /\ cache'.refresh_token = None /\ live' = live /\ env' = env
      /\ \A q \in Proc \ {p} : auth'[q] = auth[q]
  <2>1. \A q \in Proc \ {p} : auth'[q] = auth[q]
    <3>1. \E a : Become(p, a)
      BY StepIsLocal
    <3> QED
      BY <1>1, <3>1 DEF Become
  <2>2. CASE SaveToken(p)
    BY <1>1, <2>1, <2>2 DEF SaveToken, SeedsOnly, endpoint
  <2>3. CASE Granted(p) \/ AnswerLost(p)
    BY <2>1, <2>3 DEF Granted, AnswerLost, Issue, SeedsOnly
  <2>4. CASE ~(SaveToken(p) \/ Granted(p) \/ AnswerLost(p))
    <3>1. cache' = cache /\ live' = live /\ env' = env
      BY <1>3, <2>4 DEF TokenCall, Caller, FromMemory, NotInMemory, FromStore,
           NeedsFresh, LoadRefreshToken, InvalidGrant, Unreachable, StoreFails, Begin, Used,
           Invalidated, Exit, Crash, endpoint
    <3> QED
      BY <2>1, <3>1 DEF SeedsOnly
  <2> QED
    BY <2>2, <2>3, <2>4
<1>5. Kept(auth[p])'
  BY <1>2, KeptOwn DEF KeptInv
<1>6. auth'[p].pc # "save_refresh"
  <2>1. CASE Granted(p)
    BY <2>1, GrantedAt
  <2>2. CASE ~Granted(p)
    BY <1>1, <1>3, <2>2, LeavesAt DEF TokenCall, Caller
  <2> QED
    BY <2>1, <2>2
<1>7. ASSUME NEW q \in Proc \ {p} PROVE Kept(auth[q])'
  BY <1>4, <1>7 DEF KeptInv, Kept, Backed, SeedsOnly
<1>8. KeptInv'
  BY <1>5, <1>7 DEF KeptInv
<1>9. SeedsOnly'
  BY <1>4, <1>6 DEF SeedsOnly
<1> QED
  BY <1>8, <1>9

\* With an endpoint that does not rotate, and a refresh token that does not die on
\* its own, nobody is ever sent to a browser: any number of overlapping processes,
\* lost answers, kills between any two statements, failing statements and a lost
\* volume included (auth.py:92-135, store.py:171).
THEOREM StableTokenNeedsNoBrowser ==
    Rotates = {FALSE} /\ 0 \notin Seeds /\ "expire" \notin Faults
        => (Spec => []NoBrowserNeeded)
<1> SUFFICES ASSUME Rotates = {FALSE}, 0 \notin Seeds, "expire" \notin Faults
             PROVE  Spec => []NoBrowserNeeded
  OBVIOUS
<1>1. Init => KeptInv /\ SeedsOnly
  <2>1. Init => KeptInv
    BY KeptAtFirst
  <2>2. Init => SeedsOnly
    BY OffIs DEF Init, SeedsOnly
  <2> QED
    BY <2>1, <2>2
<1>2. IInv /\ KeptInv /\ SeedsOnly /\ [Next]_vars => KeptInv' /\ SeedsOnly'
  <2> SUFFICES ASSUME IInv, KeptInv, SeedsOnly, [Next]_vars
               PROVE  KeptInv' /\ SeedsOnly'
    OBVIOUS
  <2>1. CASE UNCHANGED vars \/ Tick \/ Revoke \/ ExpireRefreshToken \/ Login
    <3>1. KeptInv'
      BY <2>1, KeptOthers DEF KeptInv
    <3>2. SeedsOnly'
      BY <2>1 DEF SeedsOnly, vars, Tick, Revoke, ExpireRefreshToken, Login
    <3> QED
      BY <3>1, <3>2
  <2>2. CASE LoseVolume
    BY <2>2 DEF LoseVolume, KeptInv, Kept, Backed, SeedsOnly, endpoint
  <2>3. CASE \E p \in Proc : TokenCall(p) \/ Caller(p)
    BY <2>3, SeedsStay
  <2> QED
    BY <2>1, <2>2, <2>3 DEF Next, Environment
<1>3. KeptInv => NoBrowserNeeded
  BY DEF KeptInv, Kept, NoBrowserNeeded
<1> QED
  BY <1>1, <1>2, <1>3, Invariant, PTL DEF Spec
=============================================================================
