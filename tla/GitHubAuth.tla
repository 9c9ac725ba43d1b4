----------------------------- MODULE GitHubAuth -----------------------------
(***************************************************************************)
(* How a request to GitHub gets its token: GitHubHandoff._current_token    *)
(* and _GitHubAppAuth (app/posture/handoff.py).  token() hands out the     *)
(* cached installation token until Margin before it expires; past that it  *)
(* signs a JWT, asks GitHub for the installation and for a new token.      *)
(* Every instant here is read on one of two clocks, which differ by skew:  *)
(* the program's, now, and GitHub's, now + skew.                           *)
(***************************************************************************)
EXTENDS Integers

CONSTANTS
    Tasks,          \* the tasks that share one _GitHubAppAuth
    Margin,         \* a cached token is used until this long before its end
    Backdate,       \* how far back "iat" is dated
    JwtLife,        \* "exp" is this long after the signature
    Lifetime,       \* of an installation token; also the default of _mint
    JwtMax,         \* GitHub: "exp" is at most this far in the future
    MaxSkew,        \* bound: how far the two clocks are apart
    Flight,         \* bound: how long a request takes, up to its time-out
    MaxTime         \* bound: the program's clock

ASSUME DurationsAssumption ==
    {Margin, Backdate, JwtLife, Lifetime, JwtMax, MaxSkew, Flight, MaxTime} \subseteq Nat
\* A JWT is good when signed, and still good for its second request.
ASSUME JwtAssumption ==
    /\ MaxSkew <= Backdate
    /\ 2 * Flight + MaxSkew < JwtLife
    /\ JwtLife + MaxSkew <= JwtMax
\* The margin covers a request, the skew, and a token whose age was guessed.
ASSUME MarginAssumption ==
    /\ Flight + MaxSkew <= Margin
    /\ 2 * Flight <= Margin
    /\ 2 * Flight < Lifetime

VARIABLES
    now,            \* the program's clock
    skew,           \* GitHub's clock minus the program's
    request,        \* request[t]: what task t awaits
    since,          \* since[t]: when it sent its request
    jwt,            \* jwt[t]: the JWT of that request
    token,          \* token[t]: GitHub's expiry of the token of t
    cached          \* _cached_token (GitHub's expiry of it) and _expires_at

authVars == <<now, skew, request, since, jwt, token, cached>>

RequestStates == {"idle", "resolving", "minting", "minted", "sending"}

GitHubNow == now + skew

NoToken == [token |-> 0, expires_at |-> 0]
NoJwt == [iat |-> 0, exp |-> 0]

AuthInit ==
    /\ now = 0
    /\ skew \in -MaxSkew..MaxSkew
    /\ request = [t \in Tasks |-> "idle"]
    /\ since = [t \in Tasks |-> 0]
    /\ jwt = [t \in Tasks |-> NoJwt]
    /\ token = [t \in Tasks |-> 0]
    /\ cached = NoToken

\* Mutant of StillGood: a cached token is used up to its last second.
StillGoodToTheEnd == now < cached.expires_at

\* The cached token has more than Margin to live.
StillGood == now < cached.expires_at - Margin

\* Mutant of MakeJwt: the JWT is dated when it is signed.
MakeJwtNotBackdated == [iat |-> now, exp |-> now + JwtLife]

MakeJwt == [iat |-> now - Backdate, exp |-> now + JwtLife]

\* GitHub's rule on the JWT of a request.
JwtAccepted(t) ==
    /\ jwt[t].iat <= GitHubNow
    /\ GitHubNow < jwt[t].exp
    /\ jwt[t].exp - GitHubNow <= JwtMax

Sends(t, next) ==
    /\ request' = [request EXCEPT ![t] = next]
    /\ since' = [since EXCEPT ![t] = now]

\* token() returns the cached token, and the request goes out with it.
UseCached(t) ==
    /\ request[t] = "idle"
    /\ StillGood
    /\ token' = [token EXCEPT ![t] = cached.token]
    /\ Sends(t, "sending")
    /\ UNCHANGED <<now, skew, jwt, cached>>

\* token() signs a JWT and asks for the installation.
Resolve(t) ==
    /\ request[t] = "idle"
    /\ ~StillGood
    /\ jwt' = [jwt EXCEPT ![t] = MakeJwt]
    /\ Sends(t, "resolving")
    /\ UNCHANGED <<now, skew, token, cached>>

\* The installation is known: _mint asks for a token with the same JWT.
Resolved(t) ==
    /\ request[t] = "resolving"
    /\ JwtAccepted(t)
    /\ Sends(t, "minting")
    /\ UNCHANGED <<now, skew, jwt, token, cached>>

\* GitHub issues a token; the answer is on its way.
GitHubMints(t) ==
    /\ request[t] = "minting"
    /\ JwtAccepted(t)
    /\ token' = [token EXCEPT ![t] = GitHubNow + Lifetime]
    /\ request' = [request EXCEPT ![t] = "minted"]
    /\ UNCHANGED <<now, skew, since, jwt, cached>>

\* Mutant of Minted: nothing stands in for an "expires_at" that is missing.
MintedNoDefault(t, told) ==
    /\ request[t] = "minted"
    /\ cached' = IF told THEN [token |-> token[t], expires_at |-> token[t]]
                 ELSE [token |-> token[t]]
    /\ jwt' = [jwt EXCEPT ![t] = NoJwt]
    /\ Sends(t, "sending")
    /\ UNCHANGED <<now, skew, token>>

\* The answer is in: the token is cached and used. Without an "expires_at" that
\* _parse_iso reads, the token is taken to be as young as the answer.
Minted(t, told) ==
    /\ request[t] = "minted"
    /\ cached' = [token |-> token[t],
                  expires_at |-> IF told THEN token[t] ELSE now + Lifetime]
    /\ jwt' = [jwt EXCEPT ![t] = NoJwt]
    /\ Sends(t, "sending")
    /\ UNCHANGED <<now, skew, token>>

\* GitHub answers the request itself; or a request is refused, garbled or timed
\* out, and _default_request or token() raises. The cache is as it was.
Ends(t) ==
    /\ request[t] # "idle"
    /\ request' = [request EXCEPT ![t] = "idle"]
    /\ since' = [since EXCEPT ![t] = 0]
    /\ jwt' = [jwt EXCEPT ![t] = NoJwt]
    /\ token' = [token EXCEPT ![t] = 0]
    /\ UNCHANGED <<now, skew, cached>>

\* Time passes, but no request outlives Flight.
Tick ==
    /\ now < MaxTime
    /\ \A t \in Tasks : request[t] # "idle" => now < since[t] + Flight
    /\ now' = now + 1
    /\ UNCHANGED <<skew, request, since, jwt, token, cached>>

AuthNext ==
    \/ \E t \in Tasks :
          \/ UseCached(t) \/ Resolve(t) \/ Resolved(t) \/ GitHubMints(t)
          \/ \E told \in BOOLEAN : Minted(t, told)
          \/ Ends(t)
    \/ Tick

AuthSpec == AuthInit /\ [][AuthNext]_authVars

-----------------------------------------------------------------------------
(* Properties. *)

AuthTypeOK ==
    /\ now \in 0..MaxTime
    /\ skew \in -MaxSkew..MaxSkew
    /\ request \in [Tasks -> RequestStates]
    /\ since \in [Tasks -> 0..MaxTime]
    /\ jwt \in [Tasks -> [iat : Int, exp : Int]]
    /\ token \in [Tasks -> Int]
    /\ cached \in [token : Int, expires_at : Int]

\* handoff.py: "short-lived GitHub App installation tokens (... auto-rotating)":
\* at every moment of a request, GitHub's clock has not reached the end of the
\* token it carries, whether it is new, cached, or cached over a newer one by a
\* task whose answer was late, and though its age may have been guessed.
TokenAlive == \A t \in Tasks : request[t] = "sending" => GitHubNow < token[t]

\* _make_jwt: whenever GitHub looks at the JWT of either request, it lies in the
\* window GitHub accepts, however the clocks differ: so a token can be minted.
JwtInWindow == \A t \in Tasks : request[t] \in {"resolving", "minting"} => JwtAccepted(t)

=============================================================================
