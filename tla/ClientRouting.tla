---------------------------- MODULE ClientRouting ----------------------------
(***************************************************************************)
(* Where the client sends a visitor.  Redirects are spread over the layout *)
(* shell, the configuration provider, the guard component and the pages    *)
(* themselves; each looks at the path and the account and pushes a path of *)
(* its own.  When several push at once, either may win.                    *)
(* Paths are classes of paths: "blocked" stands for the routes a guest may *)
(* not visit, "browse" for the guarded pages, "home" for every other one.  *)
(***************************************************************************)
EXTENDS Naturals

CONSTANT MaxHops     \* redirects counted before the count stops

VARIABLES path,      \* the class of the page's path
          account,   \* the user in the store: "none" or a kind of user
          session,   \* "loading", "error" or "settled"
          unready,   \* the public configuration says needs_setup
          next,      \* the ?next= of the login page, "none" when absent
          hops       \* redirects since the visitor last did something

routingVars == <<path, account, session, unready, next, hops>>

Paths == {"setup", "login", "register", "verify", "reset", "legal",
          "onboarding", "pending", "blocked", "browse", "home"}
Kinds == {"guest", "waiting", "new", "member"}
Onboarded == {"guest", "member"}
Public == {"setup", "login", "register", "verify", "reset", "legal"}
GuestBlocked == {"blocked", "onboarding"}

TypeOK ==
    /\ path \in Paths /\ account \in Kinds \cup {"none"}
    /\ session \in {"loading", "error", "settled"} /\ unready \in BOOLEAN
    /\ next \in Paths \cup {"none"} /\ hops \in 0..MaxHops

Init ==
    /\ path = "home" /\ account = "none" /\ session = "loading"
    /\ unready = FALSE /\ next = "none" /\ hops = 0

-----------------------------------------------------------------------------
(* The redirects of each component, as the set of paths it pushes.         *)

SanitizedNext(p) == IF p \in {"login", "verify", "reset"} THEN "none" ELSE p

\* mutant: unapproved accounts count as accounts to onboard
ShellOnboardsWaiting ==
    IF session # "settled" THEN {}
    ELSE IF account = "none" THEN (IF path \in Public THEN {} ELSE {"login"})
    ELSE IF account = "guest" /\ path \in GuestBlocked THEN {"browse"}
    ELSE IF account = "waiting" /\ path = "onboarding" THEN {"pending"}
    ELSE IF account \in {"new", "waiting"} /\ path # "onboarding" /\ path \notin Public THEN {"onboarding"}
    ELSE IF account \in Onboarded /\ path = "onboarding" THEN {"home"}
    ELSE {}

\* mutant: guests are not sent away
ShellIgnoringGuests ==
    IF session # "settled" THEN {}
    ELSE IF account = "none" THEN (IF path \in Public THEN {} ELSE {"login"})
    ELSE IF account = "waiting" /\ path # "pending" THEN {"pending"}
    ELSE IF account = "new" /\ path # "onboarding" /\ path \notin Public THEN {"onboarding"}
    ELSE IF account \in Onboarded /\ path = "onboarding" THEN {"home"}
    ELSE {}

Shell ==
    IF session # "settled" THEN {}
    ELSE IF account = "none" THEN (IF path \in Public THEN {} ELSE {"login"})
    ELSE IF account = "guest" /\ path \in GuestBlocked THEN {"browse"}
    ELSE IF account = "waiting" /\ path # "pending" THEN {"pending"}
    ELSE IF account = "new" /\ path # "onboarding" /\ path \notin Public THEN {"onboarding"}
    ELSE IF account \in Onboarded /\ path = "onboarding" THEN {"home"}
    ELSE {}

HidesContent ==
    /\ path \notin Public
    /\ \/ session = "loading" \/ account = "none"
       \/ account = "new" /\ path # "onboarding"
       \/ account \in Onboarded /\ path = "onboarding"
       \/ account = "waiting" /\ path # "pending"

ShowsStartupError == path \notin Public /\ session = "error"

\* A page's own effects run only while the shell shows the page.
PageMounted == ~HidesContent /\ ~ShowsStartupError

ConfigProvider == IF unready /\ path # "setup" THEN {"setup"} ELSE {}

SetupPage == IF path = "setup" /\ ~unready THEN {"login"} ELSE {}

LoginPage ==
    IF path \notin {"login", "register"} \/ account = "none" THEN {}
    ELSE IF account \in Onboarded THEN {IF next = "none" THEN "browse" ELSE next}
    ELSE {"onboarding"}

VerifyPage ==
    IF path # "verify" \/ account = "none" THEN {}
    ELSE IF account \in Onboarded THEN {"browse"} ELSE {"onboarding"}

OnboardingPage ==
    IF path = "onboarding" /\ session # "loading" /\ account \in Onboarded THEN {"home"} ELSE {}

PendingPage ==
    IF path # "pending" \/ session = "loading" THEN {}
    ELSE IF account = "none" THEN {"login"}
    ELSE IF account # "waiting" THEN {"home"} ELSE {}

AuthGuard ==
    IF path # "browse" \/ session = "loading" THEN {}
    ELSE IF account = "none" THEN {"login"}
    ELSE IF account = "waiting" THEN {"pending"}
    ELSE IF account = "new" THEN {"onboarding"} ELSE {}

PageRedirects == SetupPage \cup LoginPage \cup VerifyPage \cup OnboardingPage
                 \cup PendingPage \cup AuthGuard

Redirects == ConfigProvider \cup Shell \cup (IF PageMounted THEN PageRedirects ELSE {})

-----------------------------------------------------------------------------
(* A redirect, and what else moves the visitor or the account.             *)
Redirect ==
    \E p \in Redirects :
       /\ hops < MaxHops
       /\ hops' = hops + 1
       /\ path' = p
       /\ next' = IF p = "login" /\ p \in Shell THEN SanitizedNext(path) ELSE "none"
       /\ UNCHANGED <<account, session, unready>>

Visit(p) ==
    /\ path' = p /\ hops' = 0
    /\ next' \in IF p \in {"login", "register"} THEN {SanitizedNext(n) : n \in Paths} \cup {"none"} ELSE {"none"}
    /\ UNCHANGED <<account, session, unready>>

\* bootstrapAuth settles, or fails and is retried
Restore ==
    /\ session = "loading" /\ path # "setup"
    /\ \/ session' = "settled"
          \* an instance that still needs its setup has no account yet
          /\ account' \in (IF unready THEN {} ELSE Kinds) \cup {"none"}
       \/ session' = "error" /\ UNCHANGED account
    /\ hops' = 0 /\ UNCHANGED <<path, unready, next>>

RetryRestore ==
    /\ ShowsStartupError /\ session' = "loading"
    /\ hops' = 0 /\ UNCHANGED <<path, account, unready, next>>

\* A form of the login, register, verify or setup page signs the visitor in
\* and pushes the next path itself.
SignedIn ==
    /\ account = "none" /\ path \in {"login", "register", "verify", "setup"}
    /\ unready => path = "setup"
    /\ account' \in Kinds /\ session' = "settled"
    /\ unready' = (unready /\ path # "setup")
    /\ path' = CASE account' \notin Onboarded -> "onboarding"
                 [] path \in {"login", "register"} /\ next # "none" -> next
                 [] path = "verify" \/ account' = "guest" -> "browse"
                 [] OTHER -> "home"
    /\ hops' = 0 /\ next' = "none"

\* Onboarding, approval by staff, and the loss of the session
AccountChanges ==
    /\ account # "none" /\ session = "settled"
    /\ account' \in CASE account = "new" -> {"member", "none"}
                      [] account = "waiting" -> {"new", "member", "none"}
                      [] OTHER -> {"none"}
    /\ hops' = 0 /\ UNCHANGED <<path, session, unready, next>>

ConfigLoads ==
    /\ \/ unready' = FALSE
       \/ unready' = TRUE /\ account = "none"
    /\ hops' = 0 /\ UNCHANGED <<path, account, session, next>>

Next == \/ Redirect \/ Restore \/ RetryRestore \/ SignedIn \/ AccountChanges \/ ConfigLoads
        \/ \E p \in Paths : Visit(p)

Spec == Init /\ [][Next]_routingVars

-----------------------------------------------------------------------------
(* However the redirects of the shell, the guard and the pages combine,    *)
(* the visitor comes to rest: no pair of them sends him back and forth.    *)
RedirectsSettle == hops = MaxHops => Redirects = {}

(* A page that comes to rest with its content shown is one the account may *)
(* use: no member-only page for somebody who is signed out, unapproved or  *)
(* not onboarded, and no guest on the routes closed to guests.             *)
RestIsAllowed ==
    Redirects = {} /\ PageMounted /\ path \notin Public =>
        /\ account # "none"
        /\ account = "waiting" => path = "pending"
        /\ account = "new" => path = "onboarding"
        /\ account = "guest" => path \notin GuestBlocked

-----------------------------------------------------------------------------
(* Inductive strengthening of RedirectsSettle and RestIsAllowed.           *)

\* How many redirects a visitor at p with no ?next= may still meet.
Ahead(p) ==
    CASE account = "none" /\ unready  -> IF p = "setup" THEN 0 ELSE IF p = "login" THEN 1 ELSE 2
      [] account = "none" /\ ~unready -> IF p \in Public \ {"setup"} THEN 0 ELSE 1
      [] account = "waiting"          -> IF p = "pending" THEN 0
                                         ELSE IF p = "setup" THEN 3
                                         ELSE IF p \in {"login", "register", "verify"} THEN 2 ELSE 1
      [] account = "new"              -> IF p \in {"onboarding", "reset", "legal"} THEN 0
                                         ELSE IF p = "setup" THEN 2 ELSE 1
      [] account \in Onboarded        -> IF p = "setup" THEN 2
                                         ELSE IF p \in {"login", "register", "verify", "onboarding", "pending"} THEN 1
                                         ELSE IF account = "guest" /\ p = "blocked" THEN 1 ELSE 0

AllAhead ==
    IF path \in {"login", "register"} /\ account \in Onboarded /\ next # "none"
    THEN 1 + Ahead(next) ELSE Ahead(path)

RoutingInv ==
    /\ TypeOK
    /\ unready => account = "none"
    /\ account # "none" => session = "settled"
    /\ next = SanitizedNext(next)
    /\ hops + AllAhead <= MaxHops
=============================================================================
