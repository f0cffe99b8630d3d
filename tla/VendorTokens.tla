----------------------------- MODULE VendorTokens -----------------------------
(* The tokens with which the push worker speaks to a vendor: an APNs JWT and  *)
(* an HCM bearer in one cache (token_cache.rs), an FCM access token in another *)
(* (fcm.rs), a VAPID JWT in none.  Workers look, mint, send and store without *)
(* holding anything in between; each request ends within its timeout.         *)
EXTENDS Naturals, FiniteSets
CONSTANTS
  Credential,  \* rows of push_credentials: their contents never change
  Vendor,      \* Credential -> "apns", "hcm", "fcm", "webpush" or "mipush"
  Account,     \* Credential -> what its secret opens
  Worker,
  Life,        \* a token's life: an hour
  Kept,        \* how long the adapters' cache keeps one: 55 minutes
  Margin,      \* it gives none with no more than this left: 5 minutes
  Early,       \* the FCM cache expires its own this much early: a minute
  Timeout,     \* of a request: 15 seconds
  Capacity,    \* entries of a cache: 1024
  MaxTime,     \* bound
  MaxMinted    \* bound

VARIABLES
  clock,
  cache,    \* store -> key -> the entry it holds
  doing,    \* Worker -> what its send waits for
  minted,   \* how many tokens there have been: no two are alike
  refused   \* APNs tokens that came from the cache and were called expired
vars == <<clock, cache, doing, minted, refused>>

Idle == [at |-> "idle"]
Store == {"adapters", "fcm"}
(* credential_cache_key, or (credential id, kind).                            *)
Key(c) == IF Vendor[c] = "fcm" THEN Account[c] ELSE c
Minted(c, t) == [of |-> Account[c], no |-> minted, born |-> t]
Mint == minted < MaxMinted /\ minted' = minted + 1

Init ==
  /\ clock = 0
  /\ cache = [s \in Store |-> <<>>]
  /\ doing = [w \in Worker |-> Idle]
  /\ minted = 0
  /\ refused = {}

-----------------------------------------------------------------------------
(* TokenCache::get: a token with more than the margin left.                   *)
Get(k) == k \in DOMAIN cache["adapters"] /\ cache["adapters"][k].until > clock + Margin

(* cached_token: one that has not expired.                                    *)
CachedToken(k) == k \in DOMAIN cache["fcm"] /\ cache["fcm"][k].until > clock

(* webpush and mipush keep none: a JWT for each send, the secret itself.      *)
Own(c) == Vendor[c] \in {"webpush", "mipush"}
Fresh(c) == ~Own(c) /\ IF Vendor[c] = "fcm" THEN CachedToken(Key(c)) ELSE Get(Key(c))

(* Both stores drop what has expired; one that is full is emptied.            *)
Live(s) == {k \in DOMAIN cache[s] : cache[s][k].until > clock}
Room(ks) == IF Cardinality(ks) >= Capacity THEN {} ELSE ks
With(s, ks, k, token, ttl) ==
  cache' = [cache EXCEPT ![s] = [j \in Room(ks) \cup {k} |->
    IF j = k THEN [token |-> token, until |-> clock + ttl] ELSE cache[s][j]]]

(* TokenCache::put; store_token, which drops the old one of the key as well.  *)
Put(k, token) == With("adapters", Live("adapters"), k, token, Kept)
StoreToken(k, token) == With("fcm", Live("fcm") \ {k}, k, token, Life - Early)

(* TokenCache::remove.                                                        *)
Remove(k) ==
  cache' = [cache EXCEPT !["adapters"] =
    [j \in DOMAIN cache["adapters"] \ {k} |-> cache["adapters"][j]]]

(* The request goes out with a token; [cached] says where the token is from.  *)
Sending(c, token, cached) ==
  [at |-> "sending", cred |-> c, token |-> token, cached |-> cached, since |-> clock]

(* try_apns, try_hcm, try_fcm: the cached token, if there is one.             *)
TakeCached(w, c) ==
  /\ doing[w] = Idle /\ Fresh(c)
  /\ LET store == IF Vendor[c] = "fcm" THEN "fcm" ELSE "adapters" IN
     doing' = [doing EXCEPT ![w] = Sending(c, cache[store][Key(c)].token, TRUE)]
  /\ UNCHANGED <<clock, cache, minted, refused>>

(* mint_jwt and the VAPID claims are signed here, for this send.              *)
MintHere(w, c) ==
  /\ doing[w] = Idle /\ ~Fresh(c) /\ (Vendor[c] = "apns" \/ Own(c))
  /\ doing' = [doing EXCEPT ![w] = Sending(c, Minted(c, clock), FALSE)]
  /\ Mint /\ UNCHANGED <<clock, cache, refused>>

(* Nothing cached: fetch_oauth_token and access_token ask the vendor for one. *)
AskForToken(w, c) ==
  /\ doing[w] = Idle /\ ~Fresh(c) /\ Vendor[c] \in {"hcm", "fcm"}
  /\ doing' = [doing EXCEPT ![w] = [at |-> "minting", cred |-> c, since |-> clock]]
  /\ UNCHANGED <<clock, cache, minted, refused>>

(* The answer: a token as old as the vendor's part of it is stored as if it   *)
(* were new, and used.                                                        *)
TokenComes(w, c, t) ==
  /\ doing[w].at = "minting" /\ doing[w].cred = c /\ t \in doing[w].since .. clock
  /\ doing' = [doing EXCEPT ![w] = Sending(c, Minted(c, t), FALSE)]
  /\ Mint /\ UNCHANGED <<clock, refused>>
HuaweiToken(w, c, t) ==
  Vendor[c] = "hcm" /\ TokenComes(w, c, t) /\ Put(c, Minted(c, t))
GoogleToken(w, c, t) ==
  Vendor[c] = "fcm" /\ TokenComes(w, c, t) /\ StoreToken(Key(c), Minted(c, t))

(* An error or a timeout on either request ends the send.                     *)
Fails(w) ==
  /\ doing[w] # Idle
  /\ doing' = [doing EXCEPT ![w] = Idle]
  /\ UNCHANGED <<clock, cache, minted, refused>>

(* Delivered: an APNs JWT minted for this send is kept from now on.           *)
Accepted(w) ==
  /\ doing[w].at = "sending"
  /\ doing' = [doing EXCEPT ![w] = Idle]
  /\ LET c == doing[w].cred IN
     IF Vendor[c] = "apns" /\ ~doing[w].cached
       THEN Put(c, doing[w].token) ELSE UNCHANGED cache
  /\ UNCHANGED <<clock, minted, refused>>

(* ExpiredProviderToken, whatever the vendor's clock says: a JWT that came    *)
(* from the cache is removed from it.                                         *)
SaidExpired(w) ==
  /\ doing[w].at = "sending" /\ Vendor[doing[w].cred] = "apns"
  /\ doing' = [doing EXCEPT ![w] = Idle]
  /\ IF doing[w].cached
       THEN Remove(doing[w].cred) /\ refused' = refused \cup {doing[w].token}
       ELSE UNCHANGED <<cache, refused>>
  /\ UNCHANGED <<clock, minted>>

(* Time passes no request's timeout before that request ends.                 *)
Tick ==
  /\ clock < MaxTime
  /\ \A w \in Worker : doing[w] # Idle => clock < doing[w].since + Timeout
  /\ clock' = clock + 1
  /\ UNCHANGED <<cache, doing, minted, refused>>

Next ==
  \/ \E w \in Worker, c \in Credential :
       \/ TakeCached(w, c) \/ MintHere(w, c) \/ AskForToken(w, c)
       \/ \E t \in 0 .. clock : HuaweiToken(w, c, t) \/ GoogleToken(w, c, t)
  \/ \E w \in Worker : Fails(w) \/ Accepted(w) \/ SaidExpired(w)
  \/ Tick
Spec == Init /\ [][Next]_vars

-----------------------------------------------------------------------------
Tokens == [of : {Account[c] : c \in Credential}, no : Nat, born : Nat]
TypeOK ==
  /\ clock \in Nat
  /\ DOMAIN cache = Store
  /\ \A s \in Store : \A k \in DOMAIN cache[s] :
       cache[s][k] \in [token : Tokens, until : Nat]
  /\ doing \in [Worker -> {Idle}
       \cup [at : {"minting"}, cred : Credential, since : Nat]
       \cup [at : {"sending"}, cred : Credential, token : Tokens, cached : BOOLEAN, since : Nat]]
  /\ minted \in Nat
  /\ refused \subseteq Tokens

OnTheWay == {w \in Worker : doing[w].at = "sending"}

(* A token is alive for as long as a request with it may take to arrive, an   *)
(* old one from a cache as well (fcm.rs:198: "A token that dies between the   *)
(* check and the send is a 401 on a notification somebody was waiting on").   *)
AliveOnArrival == \A w \in OnTheWay : clock < doing[w].token.born + Life

(* A send speaks with a token of its own credential's account: a rotated key  *)
(* never lends its token to the one that replaced it (fcm.rs, the test        *)
(* rotated_credentials_never_share_tokens).                                   *)
TokenIsOwn == \A w \in OnTheWay : doing[w].token.of = Account[doing[w].cred]

(* A cached JWT that Apple called expired is out of the cache for good,       *)
(* whatever the other workers had in flight (push_worker.rs:498).             *)
RefusedStaysOut ==
  \A k \in DOMAIN cache["adapters"] : cache["adapters"][k].token \notin refused

(* Neither cache grows past its capacity (token_cache.rs:54, fcm.rs:133).     *)
CachesAreBounded == \A s \in Store : Cardinality(DOMAIN cache[s]) <= Capacity
=============================================================================
