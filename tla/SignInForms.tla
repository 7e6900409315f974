----------------------------- MODULE SignInForms -----------------------------
(***************************************************************************)
(* How one person comes to an account: by a code or a link that were       *)
(* mailed, by a password, by registering, after a password reset, or by    *)
(* the first run's setup.  The tabs of the browser show the forms; the     *)
(* server keeps one login challenge (a code and a link together) and one   *)
(* reset link in Redis, bound to the account's generation in the database. *)
(* Every method is enabled; rate limits refuse like any other failure.     *)
(***************************************************************************)
EXTENDS Naturals, FiniteSets

CONSTANTS Tabs,
          MaxCodes,       \* bound: challenges issued
          MaxResets,      \* bound: reset links issued
          MaxSent        \* bound: requests under way

VARIABLES account,        \* the account of the person's address
          password,       \* it has one
          generation,     \* auth_generation
          bootstrapped,   \* the setup was completed
          challenge,      \* the challenge in Redis
          resetLink,      \* the reset link in Redis
          issued, resets, \* how many of each were issued
          page, step,     \* of each tab
          calls,          \* requests under way
          grants          \* sessions that were granted

formVars == <<account, password, generation, bootstrapped, challenge, resetLink, issued, resets, page, step, calls, grants>>
Account == <<account, password, generation, bootstrapped>>
Redis == <<challenge, resetLink, issued, resets>>
Screen == <<page, step>>

Codes == 1..MaxCodes
Pages == {"login", "register", "verify", "reset", "setup", "onboarding", "home"}
Steps == {"email", "code", "sent", "done"}
Bound == [of : 0..MaxCodes + MaxResets, gen : 0..MaxResets]
Nothing == [of |-> 0, gen |-> 0]
Asking == {"code", "resend", "reset"}
Using == {"code", "link", "register", "reset"}
Calls ==
    [tab : Tabs, do : {"ask", "store"}, for : Asking, of : {0}, gen : 0..MaxResets]
    \cup [tab : Tabs, do : {"use", "finish"}, for : Using, of : 0..MaxCodes + MaxResets, gen : 0..MaxResets]
    \cup [tab : Tabs, do : {"login"}, for : {"password", "guest", "google", "setup", "onboard"}, of : {0}, gen : {0}]

TypeOK ==
    /\ account \in {"none", "new", "onboarded"} /\ password \in BOOLEAN
    /\ generation \in 0..MaxResets /\ bootstrapped \in BOOLEAN
    /\ challenge \in Bound /\ resetLink \in Bound
    /\ issued \in 0..MaxCodes /\ resets \in 0..MaxResets
    /\ page \in [Tabs -> Pages] /\ step \in [Tabs -> Steps]
    /\ calls \subseteq Calls
    /\ grants \subseteq [tab : Tabs, of : 0..MaxCodes, gen : 0..MaxResets, from : 0..MaxResets]

Init ==
    /\ account \in {"none", "onboarded"} /\ password = FALSE /\ generation = 0
    /\ bootstrapped \in BOOLEAN
    /\ challenge = Nothing /\ resetLink = Nothing /\ issued = 0 /\ resets = 0
    /\ page = [t \in Tabs |-> "login"] /\ step = [t \in Tabs |-> "email"]
    /\ calls = {} /\ grants = {}

-----------------------------------------------------------------------------
(* The forms.  loading disables a form, resending the button of its code.   *)
loading(t) == \E c \in calls : c.tab = t /\ c.for # "resend"
resending(t) == \E c \in calls : c.tab = t /\ c.for = "resend"

Visit(t, p) ==
    /\ page[t] # p /\ ~loading(t) /\ ~resending(t) /\ page[t] \in {"login", "register", "verify", "reset"}
    /\ p \in {"login", "register", "verify", "reset"} \cup (IF bootstrapped THEN {} ELSE {"setup"})
    /\ page' = [page EXCEPT ![t] = p] /\ step' = [step EXCEPT ![t] = "email"]
    /\ UNCHANGED <<Account, Redis, calls, grants>>

Sends(t, do, for, of) ==
    /\ Cardinality(calls) < MaxSent
    /\ calls' = calls \cup {[tab |-> t, do |-> do, for |-> for, of |-> of, gen |-> 0]}
    /\ UNCHANGED <<Account, Redis, Screen, grants>>

handleRequestCode(t) ==
    /\ page[t] \in {"login", "register"} /\ step[t] = "email" /\ ~loading(t)
    /\ Sends(t, "ask", "code", 0)

handleResendCode(t) ==
    /\ page[t] \in {"login", "register"} /\ step[t] = "code" /\ ~loading(t) /\ ~resending(t)
    /\ Sends(t, "ask", "resend", 0)

\* Whatever code was ever mailed, or another.
VerifyCode(t, c) ==
    /\ page[t] = "login" /\ step[t] = "code" /\ ~loading(t)
    /\ c \in 0..issued /\ Sends(t, "use", "code", c)

handleRegister(t, c) ==
    /\ page[t] = "register" /\ step[t] = "code" /\ ~loading(t)
    /\ c \in 0..issued /\ Sends(t, "use", "register", c)

handleVerify(t, c) ==
    /\ page[t] = "verify" /\ ~loading(t)
    /\ c \in 1..issued /\ Sends(t, "use", "link", c)

RequestReset(t) ==
    /\ page[t] = "reset" /\ step[t] = "email" /\ ~loading(t)
    /\ Sends(t, "ask", "reset", 0)

\* The link of the mail opens the form of the new password.
handleReset(t, r) ==
    /\ page[t] = "reset" /\ step[t] # "done" /\ ~loading(t)
    /\ r \in 1..resets /\ Sends(t, "use", "reset", MaxCodes + r)

handlePasswordLogin(t) ==
    page[t] = "login" /\ step[t] = "email" /\ ~loading(t) /\ Sends(t, "login", "password", 0)

handleGuest(t) ==
    page[t] = "login" /\ step[t] = "email" /\ ~loading(t) /\ Sends(t, "login", "guest", 0)

handleGoogleSuccess(t) ==
    page[t] = "login" /\ step[t] = "email" /\ ~loading(t) /\ Sends(t, "login", "google", 0)

Setup(t) ==
    page[t] = "setup" /\ ~loading(t) /\ Sends(t, "login", "setup", 0)

Onboard(t) ==
    page[t] = "onboarding" /\ ~loading(t) /\ Sends(t, "login", "onboard", 0)

\* "Change e-mail" is there while a request is under way, too.
ChangeEmail(t) ==
    /\ page[t] \in {"login", "register"} /\ step[t] = "code"
    /\ step' = [step EXCEPT ![t] = "email"]
    /\ UNCHANGED <<Account, Redis, page, calls, grants>>

-----------------------------------------------------------------------------
(* The server issues a challenge: it reads the generation, then supersedes  *)
(* what Redis holds.                                                        *)
Generation == IF account = "none" THEN 0 ELSE generation

ReadsGeneration(c) ==
    /\ c \in calls /\ c.do = "ask" /\ (c.for = "reset" => account # "none")
    /\ calls' = (calls \ {c}) \cup {[c EXCEPT !.do = "store", !.gen = Generation]}
    /\ UNCHANGED <<Account, Redis, Screen, grants>>

\* The form of the next step; the answer to a resend changes nothing.
NextStep(c) ==
    step' = CASE c.for = "code" -> [step EXCEPT ![c.tab] = "code"]
              [] c.for = "reset" -> [step EXCEPT ![c.tab] = "sent"]
              [] OTHER -> step

StoresChallenge(c) ==
    /\ c \in calls /\ c.do = "store" /\ c.for # "reset" /\ issued < MaxCodes
    /\ calls' = calls \ {c} /\ issued' = issued + 1
    /\ challenge' = [of |-> issued + 1, gen |-> c.gen]
    /\ NextStep(c)
    /\ UNCHANGED <<Account, resetLink, resets, page, grants>>

StoresReset(c) ==
    /\ c \in calls /\ c.do = "store" /\ c.for = "reset" /\ resets < MaxResets
    /\ calls' = calls \ {c} /\ resets' = resets + 1
    /\ resetLink' = [of |-> MaxCodes + resets + 1, gen |-> c.gen]
    /\ NextStep(c)
    /\ UNCHANGED <<Account, challenge, issued, page, grants>>

\* Who has no account is told the same.
NoReset(c) ==
    /\ c \in calls /\ c.do = "ask" /\ c.for = "reset" /\ account = "none"
    /\ calls' = calls \ {c} /\ NextStep(c)
    /\ UNCHANGED <<Account, Redis, page, grants>>

-----------------------------------------------------------------------------
(* The server uses one: a script of Redis takes the code and the link       *)
(* together; the account is looked up after, and its generation compared.   *)

\* mutant: the challenge is compared, and stays
ConsumesNothing(c) ==
    /\ c \in calls /\ c.do = "use" /\ c.for # "reset" /\ c.of = challenge.of /\ c.of # 0
    /\ calls' = (calls \ {c}) \cup {[c EXCEPT !.do = "finish", !.gen = challenge.gen]}
    /\ UNCHANGED <<Account, Redis, Screen, grants>>

Consumes(c) ==
    /\ c \in calls /\ c.do = "use" /\ c.for # "reset" /\ c.of = challenge.of /\ c.of # 0
    /\ calls' = (calls \ {c}) \cup {[c EXCEPT !.do = "finish", !.gen = challenge.gen]}
    /\ challenge' = Nothing
    /\ UNCHANGED <<Account, resetLink, issued, resets, Screen, grants>>

ConsumesReset(c) ==
    /\ c \in calls /\ c.do = "use" /\ c.for = "reset" /\ c.of = resetLink.of
    /\ calls' = (calls \ {c}) \cup {[c EXCEPT !.do = "finish", !.gen = resetLink.gen]}
    /\ resetLink' = Nothing
    /\ UNCHANGED <<Account, challenge, issued, resets, Screen, grants>>

SignsIn(t, of, from) ==
    /\ grants' = grants \cup {[tab |-> t, of |-> of, gen |-> Generation, from |-> from]}
    /\ account' = IF account = "none" THEN "new" ELSE account
    /\ page' = [page EXCEPT ![t] = IF account = "onboarded" THEN "home" ELSE "onboarding"]
    /\ UNCHANGED <<generation, bootstrapped, Redis, step>>

\* mutant: the generation at issuance is not compared
FinishesAnyGeneration(c) ==
    /\ c \in calls /\ c.do = "finish" /\ c.for # "reset" /\ calls' = calls \ {c}
    /\ c.for = "register" => account = "none"
    /\ SignsIn(c.tab, c.of, c.gen)
    /\ password' = (password \/ c.for = "register")

\* Who registers must not have an account; the code is used up all the same.
Finishes(c) ==
    /\ c \in calls /\ c.do = "finish" /\ c.for # "reset" /\ calls' = calls \ {c}
    /\ c.gen = Generation /\ (c.for = "register" => account = "none")
    /\ SignsIn(c.tab, c.of, c.gen)
    /\ password' = (password \/ c.for = "register")

ResetsPassword(c) ==
    /\ c \in calls /\ c.do = "finish" /\ c.for = "reset" /\ calls' = calls \ {c}
    /\ c.gen = generation /\ generation < MaxResets
    /\ password' = TRUE /\ generation' = generation + 1
    /\ step' = [step EXCEPT ![c.tab] = "done"]
    /\ UNCHANGED <<account, bootstrapped, Redis, page, grants>>

SignsInOtherwise(c) ==
    /\ c \in calls /\ c.for \in {"password", "google"} /\ calls' = calls \ {c}
    /\ c.for = "password" => account # "none" /\ password
    /\ SignsIn(c.tab, 0, Generation) /\ UNCHANGED password

GuestComes(c) ==
    /\ c \in calls /\ c.for = "guest" /\ calls' = calls \ {c}
    /\ page' = [page EXCEPT ![c.tab] = "home"]
    /\ UNCHANGED <<Account, Redis, step, grants>>

\* Under the setup's lock, once.  (The first administrator is another account.)
SetUp(c) ==
    /\ c \in calls /\ c.for = "setup" /\ calls' = calls \ {c} /\ ~bootstrapped
    /\ bootstrapped' = TRUE /\ page' = [page EXCEPT ![c.tab] = "home"]
    /\ UNCHANGED <<account, password, generation, Redis, step, grants>>

Onboarded(c) ==
    /\ c \in calls /\ c.for = "onboard" /\ calls' = calls \ {c}
    /\ account' = "onboarded" /\ page' = [page EXCEPT ![c.tab] = "home"]
    /\ UNCHANGED <<password, generation, bootstrapped, Redis, step, grants>>

\* Invalid, throttled or lost: the form is left as it is.
Refused(c) ==
    /\ c \in calls /\ calls' = calls \ {c}
    /\ UNCHANGED <<Account, Redis, Screen, grants>>

\* The lifetime of what Redis holds.
Expires ==
    /\ \/ challenge # Nothing /\ challenge' = Nothing /\ UNCHANGED resetLink
       \/ resetLink # Nothing /\ resetLink' = Nothing /\ UNCHANGED challenge
    /\ UNCHANGED <<Account, issued, resets, Screen, calls, grants>>

-----------------------------------------------------------------------------
Next ==
    \/ \E t \in Tabs :
        \/ handleRequestCode(t) \/ handleResendCode(t) \/ RequestReset(t)
        \/ handlePasswordLogin(t) \/ handleGuest(t) \/ handleGoogleSuccess(t)
        \/ Setup(t) \/ Onboard(t) \/ ChangeEmail(t)
        \/ \E p \in Pages : Visit(t, p)
        \/ \E c \in 0..MaxCodes : VerifyCode(t, c) \/ handleRegister(t, c) \/ handleVerify(t, c)
        \/ \E r \in 1..MaxResets : handleReset(t, r)
    \/ \E c \in calls :
        \/ ReadsGeneration(c) \/ StoresChallenge(c) \/ StoresReset(c) \/ NoReset(c)
        \/ Consumes(c) \/ ConsumesReset(c) \/ Finishes(c) \/ ResetsPassword(c)
        \/ SignsInOtherwise(c) \/ GuestComes(c) \/ SetUp(c) \/ Onboarded(c) \/ Refused(c)
    \/ Expires

Spec == Init /\ [][Next]_formVars

-----------------------------------------------------------------------------
(* A challenge signs in once, by its code or by its link, whichever tabs try  *)
(* it (the scripts of Redis), and only into the generation of the account it  *)
(* was issued for: none that was asked for before a password reset works      *)
(* after it, though the account is read long after the challenge was taken.   *)
ChallengesAreUsedOnce ==
    /\ \A g, h \in grants : g.of = h.of /\ g.of # 0 => g = h
    /\ \A g \in grants : g.from = g.gen
-----------------------------------------------------------------------------
(* Inductive strengthening of ChallengesAreUsedOnce: a challenge is in one   *)
(* place only, in Redis, taken by one request, or used.                      *)
Taken == {c \in calls : c.do = "finish" /\ c.for # "reset"}

InRedisOnly == \A c \in Taken : c.of # challenge.of /\ c.of \in 1..issued
TakenOnce   == \A c, d \in Taken : c.of = d.of => c = d
NotUsedYet  ==
    \A g \in grants : g.of # 0 => g.of # challenge.of /\ \A c \in Taken : c.of # g.of
OfThePast   == challenge.of <= issued /\ \A g \in grants : g.of <= issued

FormsInv ==
    /\ TypeOK /\ InRedisOnly /\ TakenOnce /\ NotUsedYet /\ OfThePast
    /\ ChallengesAreUsedOnce
=============================================================================
