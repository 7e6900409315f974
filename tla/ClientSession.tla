---------------------------- MODULE ClientSession ----------------------------
(***************************************************************************)
(* The session of one browser.  Every tab keeps the access token in        *)
(* memory; the refresh cookie and the "signed in" hint are shared by the   *)
(* tabs.  The cookie is good for one refresh: presenting a spent one makes *)
(* the server revoke the session.  Tabs therefore refresh under one Web    *)
(* Lock and tell each other the result over a BroadcastChannel.            *)
(* A token is "late" once it has less than 30 s to live.                   *)
(***************************************************************************)
EXTENDS Naturals, Sequences, FiniteSets

CONSTANTS Tabs,         \* the tabs open on the site
          MaxLogins,    \* sign-ins, the one before the first state included
          MaxRenewals,  \* refreshes of one session
          MaxMessages,  \* messages under way to one tab
          MaxCalls,     \* refreshes and /users/me requests wanted at once, in all tabs
          Failures      \* how a refresh may fail: "unavailable", "throttled"

VARIABLES jar,      \* the refresh cookie of the browser
          hint,     \* localStorage: somebody is signed in
          logins,   \* sessions created so far
          spent,    \* server: refresh cookies consumed
          lost,     \* those among them whose refresh got no answer
          ended,    \* server: sessions revoked
          late,     \* access tokens about to expire, or expired
          lock,     \* holder of the Web Lock, <<>> when free
          sent,     \* the cookie the holder's request carries
          answer,   \* what the server answered the holder
          call,     \* per tab: the code paths waiting for the lock or in it
          token,    \* per tab: the access token in memory
          shown,    \* per tab: the session of the user in the store, 0 if none
          stage,    \* per tab: "loading", "ready" or "error"
          timer,    \* per tab: a refresh timer is armed
          asks,     \* per tab: /users/me requests under way
          held,     \* per tab: /users/me requests waiting for a refresh
          channel   \* per tab: messages not yet handled

sessionVars == <<jar, hint, logins, spent, lost, ended, late, lock, sent, answer,
                 call, token, shown, stage, timer, asks, held, channel>>

-----------------------------------------------------------------------------
(* A refresh cookie and the access token issued with it carry the same     *)
(* name: the session and how often it was renewed.                         *)
Token == [sess : 1..MaxLogins, gen : 0..MaxRenewals]
None  == [sess |-> 0, gen |-> 0]
Callers == {"timer", "visible", "restore", "api", "boot"}
Ask == [by : {"acquired", "boot"}, sess : 1..MaxLogins]
Message == {"refreshed", "acquired"} \X Token \cup {<<"logout", None>>}

TypeOK ==
    /\ jar \in Token \cup {None} /\ sent \in Token \cup {None}
    /\ hint \in BOOLEAN /\ logins \in 0..MaxLogins
    /\ spent \subseteq Token /\ lost \subseteq spent /\ late \subseteq Token /\ ended \subseteq 1..MaxLogins
    /\ lock \in {<<>>} \cup (Tabs \X Callers)
    /\ answer \in {"none", "granted", "denied"} \cup Failures
    /\ call \in [Tabs -> SUBSET Callers]
    /\ token \in [Tabs -> Token \cup {None}]
    /\ shown \in [Tabs -> 0..MaxLogins]
    /\ stage \in [Tabs -> {"loading", "ready", "error"}]
    /\ timer \in [Tabs -> BOOLEAN]
    /\ asks \in [Tabs -> SUBSET Ask] /\ held \in [Tabs -> SUBSET Ask]
    /\ \A t \in Tabs : channel[t] \in Seq(Message) /\ Len(channel[t]) <= MaxMessages

Init ==
    /\ \/ jar = None /\ hint = FALSE /\ logins = 0      \* a first visit
       \/ jar = [sess |-> 1, gen |-> 0] /\ hint = TRUE /\ logins = 1
    /\ spent = {} /\ lost = {} /\ ended = {} /\ late = {}
    /\ lock = <<>> /\ sent = None /\ answer = "none"
    /\ call = [t \in Tabs |-> {}] /\ token = [t \in Tabs |-> None]
    /\ shown = [t \in Tabs |-> 0] /\ stage = [t \in Tabs |-> "loading"]
    /\ timer = [t \in Tabs |-> FALSE] /\ asks = [t \in Tabs |-> {}]
    /\ held = [t \in Tabs |-> {}] /\ channel = [t \in Tabs |-> <<>>]

serverVars == <<logins, spent, lost, ended, late>>
lockVars   == <<lock, sent, answer, jar>>

-----------------------------------------------------------------------------
(* What a handler does to its tab.                                         *)
Post(t, m) ==
    /\ \A u \in Tabs \ {t} : Len(channel[u]) < MaxMessages
    /\ channel' = [u \in Tabs |-> IF u = t THEN channel[u] ELSE Append(channel[u], m)]

SetToken(t, tok) ==
    /\ token' = [token EXCEPT ![t] = tok]
    /\ hint' = TRUE
    /\ timer' = [timer EXCEPT ![t] = TRUE]

ClearToken(t) ==
    /\ token' = [token EXCEPT ![t] = None]
    /\ hint' = FALSE

SetUser(t, s) ==
    /\ shown' = [shown EXCEPT ![t] = s]
    /\ stage' = [stage EXCEPT ![t] = "ready"]

StopTimer(t) == timer' = [timer EXCEPT ![t] = FALSE]

ForgetUser(t) == ClearToken(t) /\ StopTimer(t) /\ SetUser(t, 0)

PerformLogout(t) == ForgetUser(t) /\ Post(t, <<"logout", None>>)

-----------------------------------------------------------------------------
(* Signing in and out.                                                     *)

\* Any of the sign-in requests of the login, register and setup pages.
SignIn(t) ==
    /\ shown[t] = 0 /\ logins < MaxLogins
    /\ logins' = logins + 1
    /\ LET new == [sess |-> logins', gen |-> 0]
       IN  /\ jar' = new
           /\ SetToken(t, new)
           /\ SetUser(t, new.sess)
           /\ Post(t, <<"acquired", new>>)
    /\ UNCHANGED <<spent, lost, ended, late, lock, sent, answer, call, asks, held>>

\* The server ends the sessions of the token and of the cookie; a failed
\* request is ignored.
SignOut(t) ==
    /\ shown[t] # 0
    /\ \/ /\ token[t] # None
          /\ ended' = ended \cup ({token[t].sess, jar.sess} \ {0})
          /\ jar' = None
       \/ UNCHANGED <<ended, jar>>
    /\ PerformLogout(t)
    /\ UNCHANGED <<logins, spent, lost, late, lock, sent, answer, call, asks, held>>

-----------------------------------------------------------------------------
(* The code paths that want a refresh.                                     *)
Pending == Cardinality({w \in Tabs \X Callers : w[2] \in call[w[1]]})
         + Cardinality({w \in Tabs \X Ask : w[2] \in asks[w[1]]})

Wait(t, c) ==
    /\ Pending < MaxCalls
    /\ call' = [call EXCEPT ![t] = @ \cup {c}]

\* scheduleRefreshTimer's timeout
TimerFires(t) ==
    /\ timer[t] /\ "timer" \notin call[t]
    /\ StopTimer(t) /\ Wait(t, "timer")
    /\ UNCHANGED <<serverVars, lockVars, hint, token, shown, stage, asks, held, channel>>

\* handleVisibility, with a token and without one
BecomesVisible(t) ==
    /\ \/ token[t] # None /\ "visible" \notin call[t] /\ Wait(t, "visible")
       \/ token[t] = None /\ hint /\ "restore" \notin call[t] /\ Wait(t, "restore")
    /\ UNCHANGED <<serverVars, lockVars, hint, token, shown, stage, timer, asks, held, channel>>

\* bootstrapAuth: on load, and again from the error page
Boot(t) ==
    /\ stage[t] \in {"loading", "error"} /\ "boot" \notin call[t]
    /\ asks[t] = {} /\ held[t] = {}
    /\ \/ /\ token[t] # None
          /\ Pending < MaxCalls
          /\ asks' = [asks EXCEPT ![t] = {[by |-> "boot", sess |-> token[t].sess]}]
          /\ stage' = [stage EXCEPT ![t] = "loading"]
          /\ UNCHANGED <<shown, call>>
       \/ /\ token[t] = None /\ ~hint
          /\ SetUser(t, 0) /\ UNCHANGED <<asks, call>>
       \/ /\ token[t] = None /\ hint
          /\ stage' = [stage EXCEPT ![t] = "loading"]
          /\ Wait(t, "boot") /\ UNCHANGED <<asks, shown>>
    /\ UNCHANGED <<serverVars, lockVars, hint, token, timer, held, channel>>

\* A 401 to some request of the tab starts the tab's one shared refresh.
Unauthorized(t) ==
    /\ "api" \notin call[t] /\ shown[t] # 0
    /\ token[t] = None \/ token[t] \in late \/ token[t].sess \in ended
    /\ Wait(t, "api")
    /\ UNCHANGED <<serverVars, lockVars, hint, token, shown, stage, timer, asks, held, channel>>

-----------------------------------------------------------------------------
(* What each path does with the outcome of lockedRefresh.                  *)

\* "granted" with the user the server sent along, or without one when
\* another tab had refreshed first.
Granted(t, c, tok, withUser) ==
    /\ SetToken(t, tok)
    /\ IF c = "boot" THEN UNCHANGED channel ELSE Post(t, <<"refreshed", tok>>)
    /\ IF c \in {"boot", "restore"} /\ withUser
       THEN SetUser(t, tok.sess) ELSE UNCHANGED <<shown, stage>>
    /\ asks' = [asks EXCEPT ![t] =
            IF c = "boot" /\ ~withUser THEN @ \cup {[by |-> "boot", sess |-> tok.sess]}
            ELSE IF c = "api" THEN @ \cup {[a EXCEPT !.sess = tok.sess] : a \in held[t]}
            ELSE @]
    /\ held' = IF c = "api" THEN [held EXCEPT ![t] = {}] ELSE held

\* The requests that waited for the refresh fail with the path's error.
ApiGivesUp(t) ==
    /\ held' = [held EXCEPT ![t] = {}]
    /\ IF \E a \in held[t] : a.by = "boot" THEN PerformLogout(t)
       ELSE ClearToken(t) /\ UNCHANGED <<timer, shown, stage, channel>>

Denied(t, c) ==
    /\ CASE c \in {"timer", "visible", "boot"} -> PerformLogout(t) /\ UNCHANGED held
         [] c = "restore" -> UNCHANGED <<hint, token, timer, shown, stage, channel, held>>
         [] c = "api" -> ApiGivesUp(t)
    /\ UNCHANGED asks

\* mutant: the timer is not armed again after a failure
UnavailableUntended(t, c) ==
    /\ stage' = IF c = "boot" \/ (c = "api" /\ \E a \in held[t] : a.by = "boot")
                THEN [stage EXCEPT ![t] = "error"] ELSE stage
    /\ held' = IF c = "api" THEN [held EXCEPT ![t] = {}] ELSE held
    /\ UNCHANGED <<hint, token, timer, shown, asks, channel>>

\* A network failure or a 5xx keeps the session.
Unavailable(t, c) ==
    /\ timer' = IF c = "timer" THEN [timer EXCEPT ![t] = TRUE] ELSE timer
    /\ stage' = IF c = "boot" \/ (c = "api" /\ \E a \in held[t] : a.by = "boot")
                THEN [stage EXCEPT ![t] = "error"] ELSE stage
    /\ held' = IF c = "api" THEN [held EXCEPT ![t] = {}] ELSE held
    /\ UNCHANGED <<hint, token, shown, asks, channel>>

\* A 429: isRetriableError does not count it as retriable.
Throttled(t, c) ==
    IF c = "boot" THEN Unavailable(t, c) ELSE Denied(t, c)

-----------------------------------------------------------------------------
(* The Web Lock and the refresh request.                                   *)
Fresh(t) == token[t] # None /\ token[t] \notin late

Leave(t, c) == call' = [call EXCEPT ![t] = @ \ {c}]

\* In the lock: another path of this tab, or a message, may have brought a token.
MayEnterAtOnce == TRUE     \* mutant: no lock
MayEnter == lock = <<>>

EnterWithToken(t, c) ==
    /\ c \in call[t] /\ MayEnter /\ Fresh(t)
    /\ Leave(t, c) /\ Granted(t, c, token[t], FALSE)
    /\ UNCHANGED <<serverVars, lockVars>>

\* POST /auth/refresh at the server, with the cookie the jar holds now.  The
\* answer may be lost, or an error, after the cookie was consumed.
Serve(cookie) ==
    \/ /\ cookie = None \/ cookie.sess \in ended \/ cookie \in spent
       /\ answer' = "denied"
       /\ ended' = IF cookie \in spent THEN ended \cup {cookie.sess} ELSE ended
       /\ UNCHANGED <<spent, lost>>
    \/ /\ cookie # None /\ cookie.sess \notin ended /\ cookie \notin spent
       /\ cookie.gen < MaxRenewals
       /\ spent' = spent \cup {cookie}
       /\ \/ answer' = "granted" /\ UNCHANGED lost
          \/ answer' \in Failures \cap {"unavailable"} /\ lost' = lost \cup {cookie}
       /\ UNCHANGED ended
    \/ /\ answer' \in Failures
       /\ UNCHANGED <<ended, spent, lost>>

EnterAndAsk(t, c) ==
    /\ c \in call[t] /\ MayEnter /\ ~Fresh(t)
    /\ lock' = <<t, c>> /\ sent' = jar /\ Serve(jar)
    /\ UNCHANGED <<jar, hint, logins, late, call, token, shown, stage, timer, asks, held, channel>>

RenewedTwice == [sent EXCEPT !.gen = @ + 2]     \* mutant
Renewed == [sent EXCEPT !.gen = @ + 1]

Answered(t, c) ==
    /\ lock = <<t, c>>
    /\ lock' = <<>> /\ sent' = None /\ answer' = "none" /\ Leave(t, c)
    /\ jar' = IF answer = "granted" THEN Renewed ELSE jar
    /\ CASE answer = "granted"     -> Granted(t, c, Renewed, TRUE)
         [] answer = "denied"      -> Denied(t, c)
         [] answer = "unavailable" -> Unavailable(t, c)
         [] answer = "throttled"   -> Throttled(t, c)
    /\ UNCHANGED serverVars

-----------------------------------------------------------------------------
(* Messages, answers to /users/me, and time.                               *)
Receive(t) ==
    /\ channel[t] # <<>>
    /\ channel' = [channel EXCEPT ![t] = Tail(@)]
    /\ LET kind == Head(channel[t])[1]
           tok  == Head(channel[t])[2]
       IN  \/ /\ kind = "refreshed" /\ SetToken(t, tok)
              /\ UNCHANGED <<shown, stage, asks>>
           \/ /\ kind = "acquired" /\ SetToken(t, tok) /\ Pending < MaxCalls
              /\ asks' = [asks EXCEPT ![t] = @ \cup {[by |-> "acquired", sess |-> tok.sess]}]
              /\ UNCHANGED <<shown, stage>>
           \/ /\ kind = "logout" /\ ForgetUser(t) /\ UNCHANGED asks
    /\ UNCHANGED <<serverVars, lockVars, call, held>>

ProfileAnswered(t, a) ==
    /\ a \in asks[t]
    /\ asks' = [asks EXCEPT ![t] = @ \ {a}]
    /\ \/ /\ a.sess \notin ended
          /\ SetUser(t, a.sess)
          /\ timer' = IF a.by = "boot" /\ token[t] # None THEN [timer EXCEPT ![t] = TRUE] ELSE timer
          /\ UNCHANGED <<held, call>>
       \/ /\ a.sess \in ended   \* 401: wait for the shared refresh, then once more
          /\ held' = [held EXCEPT ![t] = @ \cup {a}]
          /\ call' = [call EXCEPT ![t] = @ \cup {"api"}]
          /\ UNCHANGED <<shown, stage, timer>>
    /\ UNCHANGED <<serverVars, lockVars, hint, token, channel>>

TokenAges(tok) ==
    /\ tok \in {token[t] : t \in Tabs} \ ({None} \cup late)
    /\ late' = late \cup {tok}
    /\ UNCHANGED <<lockVars, hint, logins, spent, lost, ended, call, token, shown, stage, timer, asks, held, channel>>

Next ==
    \/ \E t \in Tabs :
          \/ SignIn(t) \/ SignOut(t) \/ TimerFires(t) \/ BecomesVisible(t)
          \/ Boot(t) \/ Unauthorized(t) \/ Receive(t)
          \/ \E c \in Callers : EnterWithToken(t, c) \/ EnterAndAsk(t, c) \/ Answered(t, c)
          \/ \E a \in Ask : ProfileAnswered(t, a)
    \/ \E tok \in Token : TokenAges(tok)

Spec == Init /\ [][Next]_sessionVars

-----------------------------------------------------------------------------
(* The cookie the browser would present next was presented before only if  *)
(* the answer that was to replace it never came, whichever tabs and code   *)
(* paths want a refresh at once: a replay makes the server revoke the      *)
(* session (lockedRefresh, and consume_token_once at the server).          *)
OnlyLostAnswersAreReplayed == lock = <<>> => jar \notin spent \ lost

(* A tab that holds a token always has its renewal ahead of it: a timer is *)
(* armed, or the timer's own refresh is under way (scheduleRefreshTimer    *)
(* and every place that calls it).                                         *)
TokenIsTended == \A t \in Tabs : token[t] # None => timer[t] \/ "timer" \in call[t]
-----------------------------------------------------------------------------
(* Inductive strengthening of OnlyLostAnswersAreReplayed, which alone is not *)
(* inductive: a cookie is spent at the server before the browser stores the  *)
(* next one.  CookieInv says which of the two is ahead of everything spent   *)
(* in its session: the browser's cookie, or, between a granting answer and   *)
(* its arrival, the one that is coming.  The Web Lock is what makes these    *)
(* the only two cases.                                                       *)

Cookie == [sess : Nat \ {0}, gen : Nat]

\* Nobody presented a cookie of c's session that is as new as c, unless it is
\* c itself and its answer was lost.
Unspent(c) == \A k \in spent : k.sess = c.sess => k.gen < c.gen \/ (k = c /\ c \in lost)

\* Nobody presented a cookie of c's session that is newer than c.
Latest(c) == \A k \in spent : k.sess = c.sess => k.gen <= c.gen

CookieTypes ==
    /\ logins \in Nat
    /\ jar \in Cookie \cup {None} /\ jar.sess <= logins
    /\ sent \in Cookie \cup {None} /\ sent.sess <= logins
    /\ spent \subseteq Cookie /\ \A k \in spent : k.sess <= logins

CookieInv ==
    /\ CookieTypes
    /\ answer = "granted" => lock # <<>> /\ sent \in Cookie /\ Latest(sent)
    /\ answer # "granted" => Unspent(jar)

TendedInv ==
    /\ lock # <<>> => answer \in {"granted", "denied", "unavailable", "throttled"}
    /\ DOMAIN token = Tabs /\ DOMAIN call = Tabs /\ timer \in [Tabs -> BOOLEAN]
    /\ TokenIsTended

\* What a step must do to tab t, and leave alone in the others.
TendedStep(t) ==
    /\ \A u \in Tabs \ {t} : token'[u] = token[u] /\ timer'[u] = timer[u] /\ call'[u] = call[u]
    /\ \/ token'[t] = None
       \/ timer'[t]
       \/ "timer" \in call'[t]
       \/ token'[t] = token[t] /\ (timer[t] => timer'[t])
          /\ ("timer" \in call[t] => "timer" \in call'[t])
    /\ DOMAIN token' = Tabs /\ DOMAIN call' = Tabs /\ timer' \in [Tabs -> BOOLEAN]

-----------------------------------------------------------------------------
(* Inductive strengthening of TypeOK: channels are not longer than they may  *)
(* be, and only a request under way has an answer.                           *)
ChannelsFit ==
    /\ channel \in [Tabs -> Seq(Message)]
    /\ \A t \in Tabs : Len(channel[t]) <= MaxMessages

RequestFits ==
    /\ lock # <<>> => answer # "none"
    /\ answer = "granted" => sent \in Token /\ sent.gen < MaxRenewals

TabsFit ==
    /\ hint \in BOOLEAN /\ token \in [Tabs -> Token \cup {None}]
    /\ shown \in [Tabs -> 0..MaxLogins] /\ stage \in [Tabs -> {"loading", "ready", "error"}]
    /\ timer \in [Tabs -> BOOLEAN]
    /\ asks \in [Tabs -> SUBSET Ask] /\ held \in [Tabs -> SUBSET Ask]
    /\ ChannelsFit

ServerFits ==
    /\ jar \in Token \cup {None} /\ sent \in Token \cup {None}
    /\ logins \in 0..MaxLogins /\ ended \subseteq 1..MaxLogins
    /\ spent \subseteq Token /\ lost \subseteq spent /\ late \subseteq Token
    /\ lock \in {<<>>} \cup (Tabs \X Callers)
    /\ answer \in {"none", "granted", "denied"} \cup Failures
    /\ call \in [Tabs -> SUBSET Callers]
=============================================================================
