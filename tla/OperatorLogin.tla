---------------------------- MODULE OperatorLogin ----------------------------
(***************************************************************************)
(* The door of the human API: one operator, one configured password,       *)
(* signed sessions that the server does not keep, and a throttle that      *)
(* answers failed logins ever later. What the server configures is read    *)
(* when it starts. The cookies of the one browser are modelled; a script   *)
(* may keep and send any token it was ever given.                          *)
(*                                                                         *)
(* Signatures and digests are modelled by what they were made from. Time   *)
(* is in seconds.                                                          *)
(***************************************************************************)
EXTENDS Integers, Sequences, SequencesExt

CONSTANTS
    Clients,            \* the addresses logins come from
    AllSettings,        \* what may be configured: [enabled, secret, beyond, allow]; a
                        \* secret is a [word, hashed], word 0 stands for a broken hash
    NoSecret,           \* no password is configured
    Words,              \* the passwords somebody types
    FreeAttempts, BaseLockout, MaxLockout, MaxTracked,      \* of LoginThrottle
    SessionTtl,         \* security.session_ttl_seconds
    MaxTime, MaxTokens, MaxStarts       \* bounds: seconds, logins, starts of the server

ASSUME LoginAssumption ==
    /\ FreeAttempts \in Nat /\ BaseLockout \in Nat \ {0} /\ MaxLockout \in Nat \ {0}
    /\ MaxTracked \in Nat \ {0} /\ SessionTtl \in Nat \ {0}

VARIABLE door
\* door.settings: enabled, secret, beyond (a network interface is served), allow; .now;
\* .tokens: the session tokens issued, the position is the nonce; .jar: the token of the
\* session cookie and of the csrf cookie; .failures: LoginThrottle._failures in the order
\* of the dict; .starts; history: .row[c], when each wrong guess of c was compared since
\* its last right one, the start of the server or its eviction

Configured == door.settings.secret # NoSecret
Tokens == DOMAIN door.tokens

\* Derived from the configured text, so that it is the same after a restart.
MaterialOfTheProcess == <<door.settings.secret, door.starts>>
session_material == door.settings.secret

\* The right word in either form; nobody knows a word whose hash is broken.
verify_configured_password(word) ==
    /\ Configured
    /\ door.settings.secret.word = word /\ word # 0

-----------------------------------------------------------------------------
(* Sessions.                                                               *)

issue_session ==
    [key |-> session_material, expires |-> door.now + SessionTtl,
     opened |-> door.settings.secret]

verify_session(token) ==
    IF token \notin Tokens THEN "malformed"
    ELSE IF door.tokens[token].key # session_material THEN "bad_signature"
    ELSE IF door.now >= door.tokens[token].expires THEN "expired"
    ELSE "valid"

\* The csrf token of a session is derived from its nonce and the key: that of login n is n.
csrf_matches(header, token) == header # 0 /\ header = token

\* Requests: token, 0 for none; from_cookie, whether the cookie or a header carries it;
\* write, whether the method is unsafe; csrf, the header; origin, whether the origin is
\* this server, a trusted one, or absent.
reject(request) ==
    IF ~door.settings.enabled THEN "served"
    ELSE IF ~Configured THEN "not_configured"
    ELSE IF request.token = 0 THEN "required"
    ELSE IF verify_session(request.token) # "valid" THEN verify_session(request.token)
    ELSE IF request.from_cookie /\ request.write /\ ~request.origin THEN "origin_rejected"
    ELSE IF /\ request.from_cookie /\ request.write
            /\ ~csrf_matches(request.csrf, request.token) THEN "csrf_failed"
    ELSE "served"

\* The browser forgets a cookie at its max-age.
Cookie(token) ==
    IF token # 0 /\ door.now < door.tokens[token].expires THEN token ELSE 0

\* read_session, what the UI goes by
authenticated ==
    \/ ~door.settings.enabled
    \/ Configured /\ verify_session(Cookie(door.jar.session)) = "valid"

-----------------------------------------------------------------------------
(* The throttle.                                                           *)

Entries(client) == {i \in DOMAIN door.failures : door.failures[i].client = client}
PlaceOf(client) == CHOOSE i \in Entries(client) : TRUE
CountOf(client) == IF Entries(client) = {} THEN 0 ELSE door.failures[PlaceOf(client)].count

retry_after(client) ==
    IF Entries(client) # {} /\ door.failures[PlaceOf(client)].until > door.now
    THEN door.failures[PlaceOf(client)].until - door.now + 1
    ELSE 0

Doubled(n) == BaseLockout * 2^n
Lesser(a, b) == IF a <= b THEN a ELSE b

PenaltyFromTheStart(count) ==
    IF count > FreeAttempts + 1 THEN Lesser(Doubled(count - FreeAttempts - 1), MaxLockout) ELSE 0
Penalty(count) ==
    IF count > FreeAttempts THEN Lesser(Doubled(count - FreeAttempts - 1), MaxLockout) ELSE 0

\* A client that is known keeps its place; a new one makes the oldest go at the limit.
record_failure_of(client) ==
    LET count == CountOf(client) + 1
        entry == [client |-> client, count |-> count, until |-> door.now + Penalty(count)]
        evicts == Entries(client) = {} /\ Len(door.failures) >= MaxTracked
        kept == IF evicts THEN Tail(door.failures) ELSE door.failures
        forgotten == IF evicts THEN {Head(door.failures).client} ELSE {}
    IN  door' = [door EXCEPT
            !.failures = IF Entries(client) = {} THEN Append(kept, entry)
                         ELSE [@ EXCEPT ![PlaceOf(client)] = entry],
            !.row = [c \in Clients |-> IF c \in forgotten THEN <<>>
                                       ELSE IF c = client THEN Append(@[c], door.now)
                                       ELSE @[c]]]

record_success(client) ==
    IF Entries(client) = {} THEN door.failures ELSE RemoveAt(door.failures, PlaceOf(client))

-----------------------------------------------------------------------------
(* What happens.                                                           *)

\* LoginRequest; there is no await between the throttle and its update.
login(client, word) ==
    /\ door.settings.enabled /\ Configured /\ retry_after(client) = 0
    /\ IF verify_configured_password(word)
       THEN /\ Len(door.tokens) < MaxTokens
            /\ door' = [door EXCEPT
                  !.tokens = Append(@, issue_session),
                  !.jar = [session |-> Len(door.tokens) + 1, csrf |-> Len(door.tokens) + 1],
                  !.failures = record_success(client),
                  !.row[client] = <<>>]
       ELSE record_failure_of(client)

\* The token itself stays good until it expires.
logout ==
    /\ door.jar.session # 0
    /\ door' = [door EXCEPT !.jar = [session |-> 0, csrf |-> 0]]

SecondPasses ==
    /\ door.now < MaxTime
    /\ door' = [door EXCEPT !.now = @ + 1]

\* Settings._validate: an open API on a network interface takes a deliberate act.
MayServe(settings) == settings.enabled \/ ~settings.beyond \/ settings.allow

\* Throttle and settings are the process's, tokens the clients'.
Start(settings) ==
    /\ door.starts < MaxStarts /\ MayServe(settings)
    /\ door' = [door EXCEPT !.settings = settings, !.starts = @ + 1, !.failures = <<>>,
                            !.row = [c \in Clients |-> <<>>]]

DoorInit ==
    \E settings \in AllSettings :
        /\ MayServe(settings)
        /\ door = [settings |-> settings, now |-> 0, tokens |-> <<>>,
                   jar |-> [session |-> 0, csrf |-> 0], failures |-> <<>>, starts |-> 1,
                   row |-> [c \in Clients |-> <<>>]]

DoorNext ==
    \/ \E client \in Clients, word \in Words : login(client, word)
    \/ logout \/ SecondPasses
    \/ \E settings \in AllSettings : Start(settings)

-----------------------------------------------------------------------------
\* A session works until it expires, over restarts too, and only while the password it was
\* opened with is the configured one, in the same form.
SessionsGoByThePassword ==
    \A t \in Tokens :
        (verify_session(t) = "valid") <=>
            /\ door.now < door.tokens[t].expires
            /\ door.tokens[t].opened = door.settings.secret

\* What the browser sends for the UI is served whenever the UI believes it is signed in.
WhatIsShownIsServed ==
    authenticated =>
        \A write \in BOOLEAN :
            reject([token |-> Cookie(door.jar.session), from_cookie |-> TRUE, write |-> write,
                    csrf |-> Cookie(door.jar.csrf), origin |-> TRUE]) = "served"

\* The API is open to the network only where somebody said so.
OpenOnlyOnPurpose ==
    (~door.settings.enabled /\ door.settings.beyond) => door.settings.allow

\* Beyond the free ones, each wrong guess of a client is compared at least the lockout of
\* the one before after it; only a client's own guesses lock it out.
GuessesAreSlowed ==
    \A c \in Clients :
        /\ \A k \in 1..(Len(door.row[c]) - 1) :
              k > FreeAttempts =>
                  door.row[c][k + 1] - door.row[c][k]
                      >= Lesser(Doubled(k - FreeAttempts - 1), MaxLockout)
        /\ retry_after(c) > 0 => Len(door.row[c]) > FreeAttempts

(* Sessions live and end with the configured password, whatever restarts   *)
(* and changes of settings come between; the UI is served what it shows;   *)
(* and wrong guesses are slowed down per client, with logins of several    *)
(* clients interleaved and the table of clients at its limit               *)
(* (AuthenticationMiddleware, LoginThrottle, core/security.py).            *)
TheDoorHolds ==
    SessionsGoByThePassword /\ WhatIsShownIsServed /\ OpenOnlyOnPurpose /\ GuessesAreSlowed
=============================================================================
