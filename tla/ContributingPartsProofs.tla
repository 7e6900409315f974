----------------------- MODULE ContributingPartsProofs ----------------------
(***************************************************************************)
(* What holds in sign-in and accounts, in the stream of events, in uploads *)
(* and in contributions, for every value of the constants: lemmas about    *)
(* the inductive invariants, which stand at the end of the parts' own      *)
(* modules, and about every step. Further down are the types: of each part *)
(* that its first states are typed (...TypesStart) and that every step     *)
(* keeps them so (...TypesKept).                                           *)
(*                                                                         *)
(* A part's variables are the first of v1, v2, ... here, in the order of   *)
(* its module: each section says which variable is which. An operator of a *)
(* library that a part's module uses is the part's own here: the lemmas    *)
(* ...Counts, ...Finite and ...Sums say that it is the library's.          *)
(***************************************************************************)
EXTENDS ContributingParts, Naturals, Sequences, FiniteSets, TLAPS, FiniteSetTheorems,
        NaturalsInduction, WellFoundedInduction, SumTheorems
-----------------------------------------------------------------------------
(* ClientRouting: v1 path, v2 account, v3 session, v4 unready, v5 next,    *)
(* v6 hops.  From no page are more than three redirects ahead; every one   *)
(* of them brings the visitor one nearer to rest.                          *)

\* The bound on what is ahead, wherever the visitor is.
LEMMA FewAhead == ASSUME Routing!TypeOK PROVE Routing!AllAhead \in 0..3
    BY DEF Routing!TypeOK, Routing!AllAhead, Routing!Ahead, Routing!Paths, Routing!Kinds,
       Routing!Public, Routing!Onboarded

\* The first page satisfies the invariant.
LEMMA RoutingStarts ==
    ASSUME MaxHops \in Nat, MaxHops >= 3, Routing!Init
    PROVE  Routing!RoutingInv
<1>1. v4 \in BOOLEAN /\ ~v4
    BY Zenon DEF Routing!Init
<1>2. v1 = "home" /\ v2 = "none" /\ v3 = "loading" /\ v5 = "none" /\ v6 = 0
    BY Zenon DEF Routing!Init
<1> QED
    BY <1>1, <1>2 DEF Routing!RoutingInv, Routing!TypeOK, Routing!Paths, Routing!Kinds,
       Routing!AllAhead, Routing!Ahead, Routing!Public, Routing!SanitizedNext

\* A redirect leaves one fewer ahead, whichever component pushes it.
LEMMA RedirectNears ==
    ASSUME MaxHops \in Nat, Routing!RoutingInv, Routing!Redirect
    PROVE  Routing!RoutingInv'
    BY DEF Routing!Redirect, Routing!RoutingInv, Routing!TypeOK, Routing!AllAhead,
       Routing!Ahead, Routing!Paths, Routing!Kinds, Routing!Public, Routing!Onboarded,
       Routing!SanitizedNext, Routing!Redirects, Routing!ConfigProvider, Routing!Shell,
       Routing!PageRedirects, Routing!PageMounted, Routing!SetupPage, Routing!LoginPage,
       Routing!VerifyPage, Routing!OnboardingPage, Routing!PendingPage, Routing!AuthGuard,
       Routing!HidesContent, Routing!ShowsStartupError, Routing!GuestBlocked

\* Any other step starts the count again, and keeps the rest of the invariant.
LEMMA RestartFits ==
    ASSUME MaxHops \in Nat, MaxHops >= 3, Routing!TypeOK', v6' = 0,
           (v4 => v2 = "none")', (v2 # "none" => v3 = "settled")',
           (v5 = Routing!SanitizedNext(v5))'
    PROVE  Routing!RoutingInv'
<1>1. (Routing!AllAhead \in 0..3)'
    BY DEF Routing!TypeOK, Routing!AllAhead, Routing!Ahead, Routing!Paths, Routing!Kinds,
       Routing!Public, Routing!Onboarded
<1>2. (v6 + Routing!AllAhead <= MaxHops)'
    BY <1>1 DEF Routing!AllAhead
<1> QED
    BY <1>2 DEF Routing!RoutingInv

\* The visitor goes to another page, or the session changes.
LEMMA VisitKeepsRouting ==
    ASSUME MaxHops \in Nat, MaxHops >= 3, Routing!RoutingInv,
           NEW p \in Routing!Paths, Routing!Visit(p)
    PROVE  Routing!RoutingInv'
<1>1. Routing!TypeOK' /\ v6' = 0
    BY DEF Routing!Visit, Routing!RoutingInv, Routing!TypeOK, Routing!SanitizedNext,
       Routing!Paths
<1>2. (v4 => v2 = "none")' /\ (v2 # "none" => v3 = "settled")'
    BY DEF Routing!Visit, Routing!RoutingInv
<1>3. (v5 = Routing!SanitizedNext(v5))'
    BY DEF Routing!Visit, Routing!RoutingInv, Routing!SanitizedNext
<1> QED
    BY <1>1, <1>2, <1>3, RestartFits

\* A session that changes starts the count of redirects anew.
LEMMA SessionKeepsRouting ==
    ASSUME MaxHops \in Nat, MaxHops >= 3, Routing!RoutingInv,
           \/ Routing!Restore \/ Routing!RetryRestore \/ Routing!SignedIn
           \/ Routing!AccountChanges
    PROVE  Routing!RoutingInv'
<1>1. v6' = 0
    BY DEF Routing!Restore, Routing!RetryRestore, Routing!SignedIn, Routing!AccountChanges
<1>2. Routing!TypeOK'
  <2>1. CASE Routing!Restore
    BY <2>1 DEF Routing!Restore, Routing!RoutingInv, Routing!TypeOK, Routing!Kinds
  <2>2. CASE Routing!RetryRestore
    BY <2>2 DEF Routing!RetryRestore, Routing!RoutingInv, Routing!TypeOK
  <2>3. CASE Routing!SignedIn
    BY <2>3 DEF Routing!SignedIn, Routing!RoutingInv, Routing!TypeOK, Routing!Paths,
       Routing!Kinds, Routing!Onboarded
  <2>4. CASE Routing!AccountChanges
    BY <2>4 DEF Routing!AccountChanges, Routing!RoutingInv, Routing!TypeOK, Routing!Kinds
  <2> QED
    BY <2>1, <2>2, <2>3, <2>4
<1>3. (v4 => v2 = "none")'
    BY DEF Routing!Restore, Routing!RetryRestore, Routing!SignedIn, Routing!AccountChanges,
       Routing!RoutingInv, Routing!TypeOK, Routing!Kinds
<1>4. (v2 # "none" => v3 = "settled")'
    BY DEF Routing!Restore, Routing!RetryRestore, Routing!SignedIn, Routing!AccountChanges,
       Routing!RoutingInv, Routing!ShowsStartupError
<1>5. (v5 = Routing!SanitizedNext(v5))'
    BY DEF Routing!Restore, Routing!RetryRestore, Routing!SignedIn, Routing!AccountChanges,
       Routing!RoutingInv, Routing!SanitizedNext
<1> QED
    BY <1>1, <1>2, <1>3, <1>4, <1>5, RestartFits

\* So does the configuration, once it is loaded.
LEMMA ConfigKeepsRouting ==
    ASSUME MaxHops \in Nat, MaxHops >= 3, Routing!RoutingInv, Routing!ConfigLoads
    PROVE  Routing!RoutingInv'
<1>1. v4' \in BOOLEAN /\ (v4' => v2 = "none")
    BY Zenon DEF Routing!ConfigLoads
<1>2. v6' = 0 /\ UNCHANGED <<v1, v2, v3, v5>>
    BY DEF Routing!ConfigLoads
<1>3. Routing!TypeOK'
    BY <1>1, <1>2 DEF Routing!RoutingInv, Routing!TypeOK
<1>4. (v2 # "none" => v3 = "settled")' /\ (v5 = Routing!SanitizedNext(v5))'
    BY <1>2 DEF Routing!RoutingInv, Routing!SanitizedNext
<1> QED
    BY <1>1, <1>2, <1>3, <1>4, RestartFits

\* Every step of the routing keeps the invariant.
LEMMA RoutingKept ==
    ASSUME MaxHops \in Nat, MaxHops >= 3, Routing!RoutingInv,
           [Routing!Next]_(Routing!routingVars)
    PROVE  Routing!RoutingInv'
<1>1. CASE UNCHANGED Routing!routingVars
    BY <1>1 DEF Routing!routingVars, Routing!RoutingInv, Routing!TypeOK, Routing!AllAhead,
       Routing!Ahead, Routing!SanitizedNext
<1>2. CASE Routing!Next
    BY <1>2, RedirectNears, VisitKeepsRouting, SessionKeepsRouting, ConfigKeepsRouting
       DEF Routing!Next
<1> QED
    BY <1>1, <1>2

\* A visitor with no redirect ahead meets none.
LEMMA NoneAheadRests ==
    ASSUME MaxHops \in Nat, Routing!RoutingInv
    PROVE  Routing!RedirectsSettle
    BY DEF Routing!RoutingInv, Routing!TypeOK, Routing!AllAhead, Routing!Ahead, Routing!Paths,
       Routing!Kinds, Routing!Public, Routing!Onboarded, Routing!RedirectsSettle,
       Routing!Redirects, Routing!ConfigProvider, Routing!Shell, Routing!PageRedirects,
       Routing!PageMounted, Routing!SetupPage, Routing!LoginPage, Routing!VerifyPage,
       Routing!OnboardingPage, Routing!PendingPage, Routing!AuthGuard, Routing!HidesContent,
       Routing!ShowsStartupError, Routing!GuestBlocked

\* What the shell lets rest is allowed.
LEMMA RestFits == ASSUME Routing!RoutingInv PROVE Routing!RestIsAllowed
    BY DEF Routing!RoutingInv, Routing!TypeOK, Routing!RestIsAllowed, Routing!Redirects,
       Routing!PageMounted, Routing!HidesContent, Routing!Shell, Routing!GuestBlocked,
       Routing!Kinds, Routing!Paths

-----------------------------------------------------------------------------
(* UploadTransfer: v2 step, v5 unsure, v6 committed, v7 withdrawn,         *)
(* v8 cancelled.                                                           *)

\* The invariant survives every harmless step.
LEMMA HarmlessKeeps ==
    ASSUME Transfer!TransferInv, Transfer!Harmless
    PROVE  Transfer!TransferInv'
<1>1. Transfer!Flags' /\ v2' \in Transfer!Steps
    BY DEF Transfer!TransferInv, Transfer!Harmless, Transfer!Flags, Transfer!Steps,
       Transfer!Unsent
<1>2. Transfer!NothingSentEarly'
    BY DEF Transfer!TransferInv, Transfer!Harmless, Transfer!NothingSentEarly, Transfer!Unsent
<1>3. Transfer!WithdrawalEndsCall'
    BY DEF Transfer!TransferInv, Transfer!Harmless, Transfer!WithdrawalEndsCall,
       Transfer!Flags, Transfer!Unsent
<1> QED
    BY <1>1, <1>2, <1>3 DEF Transfer!TransferInv

\* The initial states satisfy the invariant.
LEMMA TransferStarts == Transfer!Init => Transfer!TransferInv
    BY DEF Transfer!Init, Transfer!TransferInv, Transfer!Flags, Transfer!Steps,
       Transfer!NothingSentEarly, Transfer!WithdrawalEndsCall

\* Steps that commit, give up or withdraw.
LEMMA DecisionsKeepTransfer ==
    ASSUME Transfer!TransferInv,
           \/ Transfer!DirectSends \/ Transfer!PresignedSends \/ Transfer!TusSends
           \/ Transfer!GiveUpParts \/ Transfer!Unwind \/ Transfer!CompletionAnswered
           \/ Transfer!CompletionRefused \/ Transfer!CompletionLost
    PROVE  Transfer!TransferInv'
<1> USE DEF Transfer!TransferInv, Transfer!Flags, Transfer!NothingSentEarly,
       Transfer!WithdrawalEndsCall, Transfer!Unsent, Transfer!Steps, Transfer!Throw,
       Transfer!Commit
<1>1. CASE Transfer!DirectSends
    BY <1>1 DEF Transfer!DirectSends
<1>2. CASE Transfer!PresignedSends
    BY <1>2 DEF Transfer!PresignedSends
<1>3. CASE Transfer!TusSends
    BY <1>3 DEF Transfer!TusSends
<1>4. CASE Transfer!GiveUpParts
    BY <1>4 DEF Transfer!GiveUpParts
<1>5. CASE Transfer!Unwind
    BY <1>5 DEF Transfer!Unwind
<1>6. CASE Transfer!CompletionAnswered
    BY <1>6 DEF Transfer!CompletionAnswered
<1>7. CASE Transfer!CompletionRefused
    BY <1>7 DEF Transfer!CompletionRefused
<1>8. CASE Transfer!CompletionLost
    BY <1>8 DEF Transfer!CompletionLost
<1> QED
    BY <1>1, <1>2, <1>3, <1>4, <1>5, <1>6, <1>7, <1>8

\* Every other step is harmless.
LEMMA OthersAreHarmless ==
    ASSUME Transfer!TransferInv,
           \/ Transfer!Prepared \/ Transfer!PrepareFails \/ Transfer!PresignedPutFails
           \/ Transfer!MultipartRefused \/ Transfer!AllPartsSent
           \/ \E p \in Parts : Transfer!SendPart(p) \/ Transfer!PartSent(p) \/ Transfer!PartFails(p)
           \/ Transfer!Pause \/ Transfer!Resume \/ Transfer!Cancel
           \/ Transfer!JobEnds \/ Transfer!StreamReads \/ Transfer!StreamBreaks
           \/ Transfer!Verdict \/ Transfer!Deadline
    PROVE  Transfer!Harmless
<1> USE DEF Transfer!Harmless, Transfer!Unsent, Transfer!Throw
<1>1. CASE Transfer!Prepared
    BY <1>1 DEF Transfer!Prepared
<1>2. CASE \/ Transfer!PrepareFails \/ Transfer!PresignedPutFails
           \/ Transfer!MultipartRefused \/ Transfer!AllPartsSent
    BY <1>2 DEF Transfer!PrepareFails, Transfer!PresignedPutFails, Transfer!MultipartRefused,
       Transfer!AllPartsSent
<1>3. ASSUME NEW p \in Parts, Transfer!SendPart(p) \/ Transfer!PartSent(p) \/ Transfer!PartFails(p)
      PROVE  Transfer!Harmless
    BY <1>3 DEF Transfer!SendPart, Transfer!PartSent, Transfer!PartFails
<1>4. CASE Transfer!Pause \/ Transfer!Resume \/ Transfer!Cancel
    BY <1>4 DEF Transfer!Pause, Transfer!Resume, Transfer!Cancel
<1>5. CASE \/ Transfer!JobEnds \/ Transfer!StreamReads \/ Transfer!StreamBreaks
           \/ Transfer!Verdict \/ Transfer!Deadline
    BY <1>5 DEF Transfer!JobEnds, Transfer!StreamReads, Transfer!StreamBreaks,
       Transfer!Verdict, Transfer!Deadline
<1> QED
    BY <1>1, <1>2, <1>3, <1>4, <1>5

\* Every step of the call keeps the invariant.
LEMMA TransferKept == Transfer!TransferInv /\ [Transfer!Next]_(Transfer!transferVars) =>
    Transfer!TransferInv'
<1> SUFFICES ASSUME Transfer!TransferInv, [Transfer!Next]_(Transfer!transferVars)
             PROVE  Transfer!TransferInv'
    OBVIOUS
<1>1. CASE UNCHANGED Transfer!transferVars
  <2>1. Transfer!Harmless
    BY <1>1 DEF Transfer!transferVars, Transfer!Harmless
  <2> QED
    BY <2>1, HarmlessKeeps
<1>2. CASE Transfer!Next
    BY <1>2, HarmlessKeeps, DecisionsKeepTransfer, OthersAreHarmless DEF Transfer!Next
<1> QED
    BY <1>1, <1>2

-----------------------------------------------------------------------------
(* SignInForms: v1 account, v2 password, v3 generation, v4 bootstrapped,   *)
(* v5 challenge, v6 resetLink, v7 issued, v8 resets, v9 page, v10 step,    *)
(* v11 calls, v12 grants.  A challenge is in one place: in Redis, in the   *)
(* one call that took it, or among the grants.                             *)

\* Nothing is mailed, taken or used at first.
LEMMA FormsStart ==
    ASSUME MaxCodes \in Nat, MaxResets \in Nat, Forms!Init
    PROVE  Forms!FormsInv
<1>1. Forms!TypeOK
  <2>1. v2 \in BOOLEAN /\ v4 \in BOOLEAN
    BY Zenon DEF Forms!Init
  <2> QED
    BY <2>1 DEF Forms!Init, Forms!TypeOK, Forms!Bound, Forms!Nothing, Forms!Pages, Forms!Steps
<1>2. Forms!Taken = {} /\ v12 = {} /\ v5.of = 0 /\ v7 = 0
  BY DEF Forms!Init, Forms!Taken, Forms!Nothing
<1> QED
  BY <1>1, <1>2 DEF Forms!FormsInv, Forms!InRedisOnly, Forms!TakenOnce, Forms!NotUsedYet,
     Forms!OfThePast, Forms!ChallengesAreUsedOnce

\* What a form sends is one of the calls.
LEMMA FormsTabs ==
    ASSUME MaxCodes \in Nat, MaxResets \in Nat, Forms!TypeOK, NEW t \in Tabs,
        \/ Forms!handleRequestCode(t) \/ Forms!handleResendCode(t) \/ Forms!RequestReset(t)
        \/ Forms!handlePasswordLogin(t) \/ Forms!handleGuest(t) \/ Forms!handleGoogleSuccess(t)
        \/ Forms!Setup(t) \/ Forms!Onboard(t)
        \/ \E c \in 0..MaxCodes : Forms!VerifyCode(t, c) \/ Forms!handleRegister(t, c) \/
               Forms!handleVerify(t, c)
        \/ \E r \in 1..MaxResets : Forms!handleReset(t, r)
    PROVE \E do \in {"ask", "use", "login"} : \E for, of :
          /\ Forms!Sends(t, do, for, of)
          /\ [tab |-> t, do |-> do, for |-> for, of |-> of, gen |-> 0] \in Forms!Calls
    BY DEF Forms!handleRequestCode, Forms!handleResendCode, Forms!RequestReset,
       Forms!handlePasswordLogin, Forms!handleGuest, Forms!handleGoogleSuccess, Forms!Setup,
       Forms!Onboard, Forms!VerifyCode, Forms!handleRegister, Forms!handleVerify,
       Forms!handleReset, Forms!Calls, Forms!Asking, Forms!Using, Forms!TypeOK

\* The calls as the server goes on with them.
LEMMA FormsOf ==
   ASSUME MaxCodes \in Nat, MaxResets \in Nat, Forms!TypeOK, NEW c \in v11
   PROVE  /\ c.do = "ask" => [c EXCEPT !.do = "store", !.gen = Forms!Generation] \in Forms!Calls
          /\ c.do = "use" => [c EXCEPT !.do = "finish", !.gen = v5.gen] \in Forms!Calls
          /\ c.do = "use" => [c EXCEPT !.do = "finish", !.gen = v6.gen] \in Forms!Calls
          /\ c.tab \in Tabs /\ c.of \in Nat /\ c.gen \in 0..MaxResets
<1>1. Forms!Generation \in 0..MaxResets /\ v5.gen \in 0..MaxResets /\ v6.gen \in 0..MaxResets
  BY DEF Forms!TypeOK, Forms!Generation, Forms!Bound
<1>2. c \in Forms!Calls
  BY DEF Forms!TypeOK
<1>3. ASSUME c.do = "ask" PROVE [c EXCEPT !.do = "store", !.gen = Forms!Generation] \in Forms!Calls
  <2>1. c \in [tab : Tabs, do : {"ask", "store"}, for : Forms!Asking, of : {0}, gen : 0..MaxResets]
    BY <1>2, <1>3 DEF Forms!Calls
  <2> HIDE DEF Forms!Generation
  <2>2. [c EXCEPT !.do = "store", !.gen = Forms!Generation] \in
            [tab : Tabs, do : {"ask", "store"}, for : Forms!Asking, of : {0}, gen : 0..MaxResets]
    BY <1>1, <2>1
  <2> QED BY <2>2 DEF Forms!Calls
<1>4. ASSUME NEW g \in 0..MaxResets,
                 c.do = "use" PROVE [c EXCEPT !.do = "finish", !.gen = g] \in Forms!Calls
  <2>1. c \in [tab : Tabs, do : {"use", "finish"}, for : Forms!Using, of : 0..MaxCodes + MaxResets, gen : 0..MaxResets]
    BY <1>2, <1>4 DEF Forms!Calls
  <2>2. [c EXCEPT !.do = "finish", !.gen = g] \in
            [tab : Tabs, do : {"use", "finish"}, for : Forms!Using, of : 0..MaxCodes + MaxResets, gen : 0..MaxResets]
    BY <2>1
  <2> QED BY <2>2 DEF Forms!Calls
<1>5. c.tab \in Tabs /\ c.of \in Nat /\ c.gen \in 0..MaxResets
  BY <1>2 DEF Forms!Calls
<1> QED BY <1>1, <1>3, <1>4, <1>5

\* A step that takes no challenge, grants nothing and at most mails a new
\* challenge keeps the places of the others.
LEMMA FormsQuiet ==
  ASSUME Forms!FormsInv, Forms!Taken' \subseteq Forms!Taken, v7' \in Nat, v7 <= v7', v12' = v12,
         v5' = v5 \/ v5'.of = 0 \/ (v7' = v7 + 1 /\ v5'.of = v7 + 1), MaxCodes \in Nat, MaxResets \in Nat,
         Forms!TypeOK'
  PROVE Forms!FormsInv'
<1>1. v7 \in Nat /\ v5.of \in Nat /\ \A g \in v12 : g.of \in Nat
  BY DEF Forms!FormsInv, Forms!TypeOK, Forms!Bound
<1>2. \A c \in Forms!Taken : c.of # 0 /\ c.of <= v7 /\ c.of \in Nat
  BY <1>1 DEF Forms!FormsInv, Forms!InRedisOnly
<1>3. Forms!InRedisOnly' /\ Forms!TakenOnce'
  BY <1>1, <1>2 DEF Forms!FormsInv, Forms!InRedisOnly, Forms!TakenOnce
<1>4. Forms!OfThePast'
  BY <1>1, <1>2 DEF Forms!FormsInv, Forms!OfThePast
<1>5. Forms!NotUsedYet'
  BY <1>1, <1>2 DEF Forms!FormsInv, Forms!NotUsedYet, Forms!OfThePast
<1>6. Forms!ChallengesAreUsedOnce'
  BY DEF Forms!FormsInv, Forms!ChallengesAreUsedOnce
<1> QED BY <1>3, <1>4, <1>5, <1>6 DEF Forms!FormsInv

\* A form is sent.
LEMMA FormsSends ==
  ASSUME MaxCodes \in Nat, MaxResets \in Nat, Forms!FormsInv, NEW t \in Tabs,
     NEW do \in {"ask", "use", "login"}, NEW for, NEW of, Forms!Sends(t, do, for, of),
     [tab |-> t, do |-> do, for |-> for, of |-> of, gen |-> 0] \in Forms!Calls
  PROVE Forms!FormsInv'
<1>1. Forms!TypeOK'
  BY DEF Forms!Sends, Forms!FormsInv, Forms!TypeOK, Forms!Account, Forms!Redis, Forms!Screen
<1>2. Forms!Taken' \subseteq Forms!Taken
  BY DEF Forms!Sends, Forms!Taken
<1>3. v7 \in Nat /\ UNCHANGED <<v5, v7, v12>>
  BY DEF Forms!Sends, Forms!FormsInv, Forms!TypeOK, Forms!Redis
<1> QED BY <1>1, <1>2, <1>3, FormsQuiet

\* The visitor changes the page or the address.
LEMMA FormsSteps ==
  ASSUME MaxCodes \in Nat, MaxResets \in Nat, Forms!FormsInv, NEW t \in Tabs,
         Forms!ChangeEmail(t) \/ \E p \in Forms!Pages : Forms!Visit(t, p)
  PROVE Forms!FormsInv'
<1>1. Forms!TypeOK'
  BY DEF Forms!ChangeEmail, Forms!Visit, Forms!FormsInv, Forms!TypeOK, Forms!Account,
     Forms!Redis, Forms!Steps, Forms!Pages
<1>2. UNCHANGED <<v5, v7, v11, v12>>
  BY DEF Forms!ChangeEmail, Forms!Visit, Forms!Redis
<1>3. Forms!Taken' = Forms!Taken /\ v7 \in Nat
  BY <1>2 DEF Forms!Taken, Forms!FormsInv, Forms!TypeOK
<1> QED BY <1>1, <1>2, <1>3, FormsQuiet

\* The server answers a call without a grant.
LEMMA FormsLeaves ==
  ASSUME MaxCodes \in Nat, MaxResets \in Nat, Forms!FormsInv, NEW c \in v11,
         \/ Forms!NoReset(c) \/ Forms!GuestComes(c) \/ Forms!SetUp(c) \/ Forms!Onboarded(c)
         \/ Forms!Refused(c)
         \/ Forms!ResetsPassword(c) \/ Forms!StoresReset(c) \/ Forms!StoresChallenge(c)
  PROVE Forms!FormsInv'
<1>0. c.tab \in Tabs /\ c.of \in Nat /\ c.gen \in 0..MaxResets /\ Forms!TypeOK
  BY FormsOf DEF Forms!FormsInv
<1>1. Forms!TypeOK'
  <2>1. CASE Forms!NoReset(c)
    BY <1>0, <2>1 DEF Forms!NoReset, Forms!NextStep, Forms!TypeOK, Forms!Account, Forms!Redis,
       Forms!Steps
  <2>2. CASE Forms!GuestComes(c)
    BY <1>0, <2>2 DEF Forms!GuestComes, Forms!TypeOK, Forms!Account, Forms!Redis, Forms!Pages
  <2>3. CASE Forms!SetUp(c)
    <3>1. v4' \in BOOLEAN
       BY <2>3, Zenon DEF Forms!SetUp
    <3> QED BY <1>0, <2>3, <3>1 DEF Forms!SetUp, Forms!TypeOK, Forms!Redis, Forms!Pages
  <2>4. CASE Forms!Onboarded(c)
    BY <1>0, <2>4 DEF Forms!Onboarded, Forms!TypeOK, Forms!Redis, Forms!Pages
  <2>5. CASE Forms!Refused(c)
    BY <1>0, <2>5 DEF Forms!Refused, Forms!TypeOK, Forms!Account, Forms!Redis, Forms!Screen
  <2>6. CASE Forms!ResetsPassword(c)
    <3>1. v2' \in BOOLEAN
       BY <2>6, Zenon DEF Forms!ResetsPassword
    <3> QED BY <1>0, <2>6, <3>1 DEF Forms!ResetsPassword, Forms!TypeOK, Forms!Redis, Forms!Steps
  <2>7. CASE Forms!StoresReset(c)
    BY <1>0, <2>7 DEF Forms!StoresReset, Forms!NextStep, Forms!TypeOK, Forms!Account,
       Forms!Steps, Forms!Bound
  <2>8. CASE Forms!StoresChallenge(c)
    BY <1>0, <2>8 DEF Forms!StoresChallenge, Forms!NextStep, Forms!TypeOK, Forms!Account,
       Forms!Steps, Forms!Bound
  <2> QED BY <2>1, <2>2, <2>3, <2>4, <2>5, <2>6, <2>7, <2>8
<1>2. /\ v11' \subseteq v11 /\ v12' = v12
      /\ ((v7' = v7 /\ v5' = v5) \/ (v7' = v7 + 1 /\ v5'.of = v7 + 1))
  BY DEF Forms!NoReset, Forms!GuestComes, Forms!SetUp, Forms!Onboarded, Forms!Refused,
     Forms!ResetsPassword, Forms!StoresReset, Forms!StoresChallenge, Forms!Redis
<1>3. Forms!Taken' \subseteq Forms!Taken
  BY <1>2 DEF Forms!Taken
<1>4. v7 \in Nat /\ v7' \in Nat
  BY <1>0, <1>1 DEF Forms!TypeOK
<1> QED BY <1>1, <1>2, <1>3, <1>4, FormsQuiet

\* The server reads the generation, or takes the link of a reset.
LEMMA FormsReads ==
  ASSUME MaxCodes \in Nat, MaxResets \in Nat, Forms!FormsInv, NEW c \in v11,
         Forms!ReadsGeneration(c) \/ Forms!ConsumesReset(c)
  PROVE Forms!FormsInv'
<1>0. Forms!TypeOK BY DEF Forms!FormsInv
<1> DEFINE d == IF c.do = "ask" THEN [c EXCEPT !.do = "store", !.gen = Forms!Generation] ELSE [c EXCEPT !.do = "finish", !.gen = v6.gen]
<1>1. v11' = (v11 \ {c}) \cup {d} /\ d \in Forms!Calls
  BY <1>0, FormsOf DEF Forms!ReadsGeneration, Forms!ConsumesReset
<1>2. c.do = "ask" \/ c.for = "reset"
  BY DEF Forms!ReadsGeneration, Forms!ConsumesReset
<1>3. d.do = "store" \/ d.for = "reset"
  BY <1>2 , FormsOf, <1>0, ZenonT(30) DEF Forms!TypeOK, Forms!Calls
<1> HIDE DEF d
<1>4. Forms!TypeOK'
  BY <1>0, <1>1 DEF Forms!TypeOK, Forms!ReadsGeneration, Forms!ConsumesReset, Forms!Account,
     Forms!Redis, Forms!Screen, Forms!Bound, Forms!Nothing
<1>5. Forms!Taken' \subseteq Forms!Taken
  BY <1>1, <1>3 DEF Forms!Taken
<1>6. v7 \in Nat /\ UNCHANGED <<v5, v7, v12>>
  BY <1>0 DEF Forms!ReadsGeneration, Forms!ConsumesReset, Forms!TypeOK, Forms!Redis
<1> QED BY <1>4, <1>5, <1>6, FormsQuiet

\* Redis forgets a challenge.
LEMMA FormsExpires ==
  ASSUME MaxCodes \in Nat, MaxResets \in Nat, Forms!FormsInv, Forms!Expires
  PROVE Forms!FormsInv'
<1>1. Forms!TypeOK'
  BY DEF Forms!FormsInv, Forms!TypeOK, Forms!Expires, Forms!Account, Forms!Screen, Forms!Bound,
     Forms!Nothing
<1>2. UNCHANGED <<v7, v11, v12>> /\ v7 \in Nat
  BY DEF Forms!FormsInv, Forms!TypeOK, Forms!Expires
<1>3. Forms!Taken' = Forms!Taken
  BY <1>2 DEF Forms!Taken
<1>4. v5' = v5 \/ v5'.of = 0
  BY DEF Forms!Expires, Forms!Nothing
<1> QED BY <1>1, <1>2, <1>3, <1>4, FormsQuiet

\* The server takes a challenge out of Redis: it is in this call alone.
LEMMA FormsConsumes ==
  ASSUME MaxCodes \in Nat, MaxResets \in Nat, Forms!FormsInv, NEW c \in v11, Forms!Consumes(c)
  PROVE Forms!FormsInv'
<1>0. Forms!TypeOK BY DEF Forms!FormsInv
<1> DEFINE d == [c EXCEPT !.do = "finish", !.gen = v5.gen]
<1>1. v11' = (v11 \ {c}) \cup {d} /\ d \in Forms!Calls
  BY <1>0, FormsOf DEF Forms!Consumes
<1>2. c.of = v5.of /\ c.of # 0 /\ v5' = Forms!Nothing /\ UNCHANGED <<v7, v12>>
  BY DEF Forms!Consumes
<1>3. d.of = c.of
  BY <1>0 DEF Forms!TypeOK, Forms!Calls
<1> HIDE DEF d
<1>4. Forms!TypeOK'
  BY <1>0, <1>1 DEF Forms!TypeOK, Forms!Consumes, Forms!Account, Forms!Redis, Forms!Screen,
     Forms!Bound, Forms!Nothing
<1>5. Forms!Taken' \subseteq Forms!Taken \cup {d}
  BY <1>1 DEF Forms!Taken
<1>6. v7 \in Nat /\ v5.of \in 1..v7 /\ v5'.of = 0 /\ v5.of \in Nat
  BY <1>0, <1>2 DEF Forms!FormsInv, Forms!TypeOK, Forms!OfThePast, Forms!Bound, Forms!Nothing
<1>7. Forms!InRedisOnly'
  BY <1>2, <1>3, <1>5, <1>6 DEF Forms!FormsInv, Forms!InRedisOnly
<1>8. Forms!TakenOnce'
  BY <1>2, <1>3, <1>5 DEF Forms!FormsInv, Forms!InRedisOnly, Forms!TakenOnce
<1>9. Forms!NotUsedYet'
  BY <1>2, <1>3, <1>5, <1>6 DEF Forms!FormsInv, Forms!NotUsedYet
<1>10. Forms!OfThePast' /\ Forms!ChallengesAreUsedOnce'
  BY <1>2, <1>6 DEF Forms!FormsInv, Forms!OfThePast, Forms!ChallengesAreUsedOnce
<1> QED BY <1>4, <1>7, <1>8, <1>9, <1>10 DEF Forms!FormsInv

\* The server signs the visitor in: the challenge is used, and nowhere else.
LEMMA FormsGrants ==
  ASSUME MaxCodes \in Nat, MaxResets \in Nat, Forms!FormsInv, NEW c \in v11,
             Forms!Finishes(c) \/ Forms!SignsInOtherwise(c)
  PROVE Forms!FormsInv'
<1>0. Forms!TypeOK BY DEF Forms!FormsInv
<1> DEFINE of == IF c.do = "finish" THEN c.of ELSE 0
           g == [tab |-> c.tab, of |-> of, gen |-> Forms!Generation, from |-> Forms!Generation]
<1>1. c \in Forms!Calls
  BY <1>0 DEF Forms!TypeOK
<1>2. /\ v12' = v12 \cup {g} /\ UNCHANGED <<v3, v4, v5, v6, v7, v8, v10>>
      /\ v1' = IF v1 = "none" THEN "new" ELSE v1
      /\ v9' = [v9 EXCEPT ![c.tab] = IF v1 = "onboarded" THEN "home" ELSE "onboarding"]
      /\ v11' = v11 \ {c}
  <2>1. CASE Forms!Finishes(c)
    BY <2>1 DEF Forms!Finishes, Forms!SignsIn, Forms!Redis
  <2>2. CASE Forms!SignsInOtherwise(c)
    <3>1. c.do = "login"
      BY <1>1, <2>2 DEF Forms!SignsInOtherwise, Forms!Calls, Forms!Using, Forms!Asking
    <3>2. of = 0
      BY <3>1
    <3> QED BY <2>2, <3>2 DEF Forms!SignsInOtherwise, Forms!SignsIn, Forms!Redis
  <2> QED BY <2>1, <2>2
<1>3. v12' = v12 \cup {g} /\ UNCHANGED <<v5, v6, v7, v8>>
  BY <1>2
<1>4. Forms!Generation \in 0..MaxResets /\ c.tab \in Tabs
  <2>1. c.tab \in Tabs
    BY <1>0, FormsOf
  <2> QED BY <1>0, <2>1 DEF Forms!TypeOK, Forms!Generation
<1>5. of # 0 => c \in Forms!Taken /\ of = c.of
  BY DEF Forms!Finishes, Forms!SignsInOtherwise, Forms!Taken
<1>6. of \in 0..v7 /\ v7 \in 0..MaxCodes
  BY <1>0, <1>5 DEF Forms!FormsInv, Forms!InRedisOnly, Forms!TypeOK
<1> HIDE DEF of
<1>7. g \in [tab : Tabs, of : 0..MaxCodes, gen : 0..MaxResets, from : 0..MaxResets]
  BY <1>4, <1>6
<1>8. g.of = of /\ g.from = g.gen
  OBVIOUS
<1> HIDE DEF g
<1>9. v2' \in BOOLEAN /\ v10' = v10
  BY <1>0, Zenon DEF Forms!Finishes, Forms!SignsInOtherwise, Forms!SignsIn, Forms!TypeOK,
     Forms!Account, Forms!Redis
<1>10. Forms!TypeOK'
  BY <1>0, <1>2, <1>4, <1>7, <1>9 DEF Forms!TypeOK, Forms!Pages
<1>11. Forms!Taken' = Forms!Taken \ {c}
  BY <1>2 DEF Forms!Taken
<1>12. Forms!InRedisOnly' /\ Forms!TakenOnce'
  BY <1>3, <1>11 DEF Forms!FormsInv, Forms!InRedisOnly, Forms!TakenOnce
<1>13. Forms!OfThePast'
  BY <1>3, <1>6, <1>8 DEF Forms!FormsInv, Forms!OfThePast
<1>14. Forms!NotUsedYet'
  BY <1>3, <1>5, <1>8, <1>11 DEF Forms!FormsInv, Forms!NotUsedYet, Forms!InRedisOnly,
     Forms!TakenOnce
<1>15. Forms!ChallengesAreUsedOnce'
  BY <1>3, <1>5, <1>8 DEF Forms!FormsInv, Forms!ChallengesAreUsedOnce, Forms!NotUsedYet
<1> QED BY <1>10, <1>12, <1>13, <1>14, <1>15 DEF Forms!FormsInv

\* Every step of the forms keeps the invariant.
LEMMA FormsKept ==
  ASSUME MaxCodes \in Nat, MaxResets \in Nat
  PROVE Forms!FormsInv /\ [Forms!Next]_(Forms!formVars) => Forms!FormsInv'
<1> SUFFICES ASSUME Forms!FormsInv, [Forms!Next]_(Forms!formVars) PROVE Forms!FormsInv'
  OBVIOUS
<1>1. CASE UNCHANGED Forms!formVars
  <2>1. UNCHANGED <<v1, v2, v3, v4, v5, v6, v7, v8, v9, v10, v11, v12>>
    BY <1>1 DEF Forms!formVars
  <2>2. Forms!TypeOK' /\ Forms!Taken' = Forms!Taken /\ v7 \in Nat
    BY <2>1 DEF Forms!FormsInv, Forms!TypeOK, Forms!Taken
  <2> QED BY <2>1, <2>2, FormsQuiet
<1>2. CASE Forms!Next
  <2>1. ASSUME NEW t \in Tabs,
        \/ Forms!handleRequestCode(t) \/ Forms!handleResendCode(t) \/ Forms!RequestReset(t)
        \/ Forms!handlePasswordLogin(t) \/ Forms!handleGuest(t) \/ Forms!handleGoogleSuccess(t)
        \/ Forms!Setup(t) \/ Forms!Onboard(t)
        \/ \E c \in 0..MaxCodes : Forms!VerifyCode(t, c) \/ Forms!handleRegister(t, c) \/
               Forms!handleVerify(t, c)
        \/ \E r \in 1..MaxResets : Forms!handleReset(t, r)
      PROVE Forms!FormsInv'
    <3>1. Forms!TypeOK BY DEF Forms!FormsInv
    <3> QED BY <2>1, <3>1, FormsTabs, FormsSends
  <2> QED BY <1>2, <2>1, FormsSteps, FormsLeaves, FormsReads, FormsConsumes, FormsGrants,
      FormsExpires DEF Forms!Next
<1> QED BY <1>1, <1>2

-----------------------------------------------------------------------------
(* DraftStaging: v1 draft, v2 counter, v3 saves, v4 editing, v5 upload, v6 *)
(* submitting.                                                             *)

\* The module counts as this one does.
LEMMA CountsOfDraft == \A S : Draft!Cardinality(S) = Cardinality(S)
  BY Zenon DEF Draft!Cardinality, Cardinality

\* How many numbers of S come up to i.
RankIn(S, i) == Cardinality({j \in S : j <= i})

\* Ranks number a finite set of integers from 1.
LEMMA RanksAreOnto ==
  ASSUME NEW S \in SUBSET Int, IsFiniteSet(S)
  PROVE  /\ Cardinality(S) \in Nat
         /\ \A i \in S : RankIn(S, i) \in 1..Cardinality(S)
         /\ \A i, j \in S : RankIn(S, i) = RankIn(S, j) => i = j
         /\ \A k \in 1..Cardinality(S) : \E i \in S : RankIn(S, i) = k
<1> DEFINE n == Cardinality(S)
           f == [i \in S |-> RankIn(S, i)]
           Below(i) == {j \in S : j <= i}
<1>1. n \in Nat
  BY FS_CardinalityType
<1>2. \A i \in S : IsFiniteSet(Below(i)) /\ Cardinality(Below(i)) \in Nat /\ Cardinality(Below(i)) <= n
  BY FS_Subset, FS_CardinalityType
<1>3. \A i \in S : RankIn(S, i) \in 1..n
  <2> SUFFICES ASSUME NEW i \in S PROVE RankIn(S, i) \in 1..n
    OBVIOUS
  <2>1. Below(i) # {}
    <3>1. i \in Below(i)
      OBVIOUS
    <3> QED BY <3>1
  <2>2. Cardinality(Below(i)) # 0
    BY <2>1, <1>2, FS_EmptySet
  <2> QED BY <1>1, <1>2, <2>2 DEF RankIn
<1>4. \A i, j \in S : i < j => RankIn(S, i) # RankIn(S, j)
  <2> SUFFICES ASSUME NEW i \in S, NEW j \in S, i < j, RankIn(S, i) = RankIn(S, j) PROVE FALSE
    OBVIOUS
  <2>1. Below(i) \in SUBSET Below(j)
    <3>1. \A x \in S : x <= i => x <= j
      OBVIOUS
    <3> QED BY <3>1
  <2>2. Below(i) = Below(j)
    BY <2>1, <1>2, FS_Subset DEF RankIn
  <2>3. j \in Below(j) /\ j \notin Below(i)
    OBVIOUS
  <2> QED BY <2>2, <2>3
<1>9. \A i, j \in S : RankIn(S, i) = RankIn(S, j) => i = j
  BY <1>4
<1>5. f \in Injection(S, 1..n)
  <2>1. f \in [S -> 1..n]
    BY <1>3
  <2>2. \A i, j \in S : f[i] = f[j] => i = j
    BY <1>9
  <2> HIDE DEF f, n
  <2> QED BY <2>1, <2>2 DEF Injection, IsInjective
<1>6. IsFiniteSet(1..n) /\ Cardinality(1..n) = n
  BY <1>1, FS_Interval
<1>7. f \in Surjection(S, 1..n)
  <2> HIDE DEF f, n
  <2> QED BY <1>5, <1>6, FS_Injection DEF n
<1>8. \A k \in 1..n : \E i \in S : f[i] = k
  BY <1>7 DEF Surjection
<1> QED BY <1>1, <1>3, <1>8, <1>9

\* What is left of a sequence is the elements that are not taken out of it.
LEMMA KeepIs ==
  ASSUME NEW D, NEW s \in Seq(D), NEW idx
  PROVE  /\ Draft!Keep(s, idx) \in Seq(D)
         /\ Len(Draft!Keep(s, idx)) <= Len(s)
         /\ \A k \in DOMAIN Draft!Keep(s, idx) : \E i \in DOMAIN s \ idx : Draft!Keep(s, idx)[k] = s[i]
         /\ \A i \in DOMAIN s \ idx : \E k \in DOMAIN Draft!Keep(s, idx) : Draft!Keep(s, idx)[k] = s[i]
<1> DEFINE S == DOMAIN s \ idx
           n == Cardinality(S)
<1>1. S \in SUBSET (1..Len(s)) /\ DOMAIN s = 1..Len(s) /\ Len(s) \in Nat
  OBVIOUS
<1>2. S \in SUBSET Int /\ IsFiniteSet(S) /\ n <= Len(s)
  <2>1. IsFiniteSet(1..Len(s)) /\ Cardinality(1..Len(s)) = Len(s)
    <3>1. \A m \in Nat : IsFiniteSet(1..m) /\ Cardinality(1..m) = m
      BY FS_Interval
    <3>2. Len(s) \in Nat
      OBVIOUS
    <3> QED BY <3>1, <3>2
  <2>2. IsFiniteSet(S) /\ n <= Len(s)
    BY <1>1, <2>1, FS_Subset
  <2>3. S \in SUBSET Int
    BY <1>1
  <2> QED BY <2>2, <2>3
<1>3. /\ n \in Nat
      /\ \A i \in S : RankIn(S, i) \in 1..n
      /\ \A k \in 1..n : \E i \in S : RankIn(S, i) = k
  BY <1>2, RanksAreOnto
<1>4. \A k \in 1..n : Draft!Nth(S, k) \in S /\ RankIn(S, Draft!Nth(S, k)) = k
  <2> SUFFICES ASSUME NEW k \in 1..n PROVE Draft!Nth(S, k) \in S /\ RankIn(S, Draft!Nth(S, k)) = k
    OBVIOUS
  <2>1. \E i \in S : RankIn(S, i) = k
    BY <1>3
  <2> HIDE DEF S
  <2> QED BY <2>1, CountsOfDraft DEF Draft!Nth, RankIn
<1>5. \A i, j \in S : RankIn(S, i) = RankIn(S, j) => i = j
  BY <1>2, RanksAreOnto
<1>6. Draft!Keep(s, idx) = [k \in 1..n |-> s[Draft!Nth(S, k)]]
  BY CountsOfDraft DEF Draft!Keep
<1> HIDE DEF S, n
<1>7. \A k \in 1..n : s[Draft!Nth(S, k)] \in D
  <2>1. \A i \in S : s[i] \in D
    BY DEF S
  <2> QED BY <1>4, <2>1
<1>8. Draft!Keep(s, idx) \in [1..n -> D]
  BY <1>6, <1>7
<1>9. Draft!Keep(s, idx) \in Seq(D) /\ Len(Draft!Keep(s, idx)) = n /\ DOMAIN Draft!Keep(s, idx) = 1..n
  BY <1>8, <1>3
<1>10. \A k \in 1..n : Draft!Nth(S, k) \in S /\ Draft!Keep(s, idx)[k] = s[Draft!Nth(S, k)]
  BY <1>4, <1>6
<1>11. \A i \in S : RankIn(S, i) \in 1..n /\ Draft!Keep(s, idx)[RankIn(S, i)] = s[i]
  BY <1>3, <1>4, <1>5, <1>6
<1> QED BY <1>2, <1>9, <1>10, <1>11 DEF S
\* The staged folders that lie directly in one of k.
FoldersIn(k) == {v1[i].id : i \in {j \in DOMAIN v1 :
                 v1[j].op = "create_directory" /\ v1[j].in \in k}}

\* w is the table that Nested builds, up to n steps.
IsNesting(ids, w, n) == w = [m \in 0..n |-> IF m = 0 THEN ids ELSE w[m - 1] \cup FoldersIn(w[m - 1])]

NestedUpTo(ids) == CHOOSE w : IsNesting(ids, w, MaxOps)

\* Nested reads the end of its table.
LEMMA NestedIsTable == \A ids : Draft!Nested(ids) = NestedUpTo(ids)[MaxOps]
  BY Zenon DEF Draft!Nested, NestedUpTo, IsNesting, FoldersIn

\* The table exists: of the numbers of steps for which there is none, there is
\* no least one.
LEMMA NestingExists == \A ids : IsNesting(ids, NestedUpTo(ids), MaxOps)
<1> SUFFICES ASSUME NEW ids PROVE IsNesting(ids, NestedUpTo(ids), MaxOps)
  OBVIOUS
<1> DEFINE Bad == {n \in Nat : ~ \E w : IsNesting(ids, w, n)}
<1>1. Bad = {}
  <2> SUFFICES ASSUME Bad # {} PROVE FALSE
    OBVIOUS
  <2>1. PICK n \in Bad : \A m \in Bad : n <= m
    BY LeastNumber
  <2>2. CASE n = 0
    <3> DEFINE w == [m \in 0..0 |-> ids]
    <3>1. w = [m \in 0..0 |-> IF m = 0 THEN ids ELSE w[m - 1] \cup FoldersIn(w[m - 1])]
      OBVIOUS
    <3>2. IsNesting(ids, w, 0)
      BY <3>1 DEF IsNesting
    <3> QED BY <2>2, <3>2
  <2>3. CASE n # 0
    <3>1. n - 1 \in Nat /\ n - 1 \notin Bad
      BY <2>1, <2>3
    <3>2. PICK g : IsNesting(ids, g, n - 1)
      BY <3>1
    <3> DEFINE top == g[n - 1] \cup FoldersIn(g[n - 1])
               w == [m \in 0..n |-> IF m = n THEN top ELSE g[m]]
    <3>3. \A m \in 0..n - 1 : g[m] = IF m = 0 THEN ids ELSE g[m - 1] \cup FoldersIn(g[m - 1])
      BY <3>2 DEF IsNesting
    <3>4. \A m \in 0..n : w[m] = IF m = 0 THEN ids ELSE w[m - 1] \cup FoldersIn(w[m - 1])
      <4> SUFFICES ASSUME NEW m \in 0..n
                   PROVE  w[m] = IF m = 0 THEN ids ELSE w[m - 1] \cup FoldersIn(w[m - 1])
        OBVIOUS
      <4>1. CASE m = n
        <5>1. w[m] = top /\ w[m - 1] = g[n - 1] /\ m # 0
          BY <4>1, <2>3, <3>1
        <5> QED BY <5>1
      <4>2. CASE m # n
        <5>1. m \in 0..n - 1 /\ w[m] = g[m] /\ (m # 0 => w[m - 1] = g[m - 1])
          BY <4>2
        <5> HIDE DEF w
        <5> QED BY <5>1, <3>3
      <4> QED BY <4>1, <4>2
    <3>5. DOMAIN w = 0..n /\ w = [m \in 0..n |-> w[m]]
      OBVIOUS
    <3> HIDE DEF w
    <3>6. w = [m \in 0..n |-> IF m = 0 THEN ids ELSE w[m - 1] \cup FoldersIn(w[m - 1])]
      BY <3>4, <3>5
    <3>7. IsNesting(ids, w, n)
      BY <3>6 DEF IsNesting
    <3> QED BY <3>7
  <2> QED BY <2>2, <2>3
<1>2. \E w : IsNesting(ids, w, MaxOps)
  BY <1>1, BoundsAreNumbers
<1> QED BY <1>2 DEF NestedUpTo

\* As long as the table grows, so does the number of operations that lie in it.
LEMMA FoldersAreFew ==
  ASSUME Len(v1) <= MaxOps, NEW D, v1 \in Seq(D), NEW ids, NEW n \in 0..MaxOps
  PROVE  LET at(m) == {j \in DOMAIN v1 : v1[j].op = "create_directory"
                                             /\ v1[j].in \in NestedUpTo(ids)[m]}
         IN \/ FoldersIn(NestedUpTo(ids)[n]) \subseteq NestedUpTo(ids)[n]
            \/ Cardinality(at(n)) >= n + 1
<1> DEFINE w == NestedUpTo(ids)
           at(m) == {j \in DOMAIN v1 : v1[j].op = "create_directory" /\ v1[j].in \in w[m]}
           Closed(m) == FoldersIn(w[m]) \subseteq w[m]
           Bad == {m \in Nat : m <= MaxOps /\ ~Closed(m) /\ ~(Cardinality(at(m)) >= m + 1)}
<1>1. /\ w[0] = ids
      /\ \A m \in 1..MaxOps : w[m] = w[m - 1] \cup FoldersIn(w[m - 1])
  BY NestingExists, BoundsAreNumbers DEF IsNesting
<1>2. \A m : IsFiniteSet(at(m)) /\ Cardinality(at(m)) \in Nat
  <2>1. IsFiniteSet(DOMAIN v1)
    <3>1. \A m \in Nat : IsFiniteSet(1..m)
      BY FS_Interval
    <3> QED BY <3>1
  <2> QED BY <2>1, FS_Subset, FS_CardinalityType
<1>3. \A m : FoldersIn(w[m]) = {v1[j].id : j \in at(m)}
  BY DEF FoldersIn
<1>4. Bad = {}
  <2> SUFFICES ASSUME Bad # {} PROVE FALSE
    OBVIOUS
  <2>1. PICK m \in Bad : \A k \in Bad : m <= k
    BY LeastNumber
  <2>2. CASE m = 0
    <3>1. at(m) # {}
      <4> SUFFICES ASSUME at(m) = {} PROVE FALSE
        OBVIOUS
      <4>1. FoldersIn(w[m]) = {v1[j].id : j \in {}}
        <5> HIDE DEF w
        <5> QED BY <1>3
      <4> HIDE DEF at, w
      <4>2. Closed(m)
        BY <4>1
      <4> QED BY <4>2, <2>1
    <3>2. Cardinality(at(m)) # 0
      BY <3>1, <1>2, FS_EmptySet
    <3> HIDE DEF at, w
    <3> QED BY <2>1, <2>2, <3>2, <1>2
  <2>3. CASE m # 0
    <3>1. m - 1 \in Nat /\ m - 1 \notin Bad /\ m \in 1..MaxOps
      BY <2>1, <2>3, BoundsAreNumbers
    <3>2. w[m] = w[m - 1] \cup FoldersIn(w[m - 1])
      BY <1>1, <3>1
    <3>3. at(m - 1) \subseteq at(m)
      BY <3>2
    <3>4. ~Closed(m - 1)
      BY <2>1, <3>2
    <3>5. Cardinality(at(m - 1)) >= m
      <4> HIDE DEF at, w
      <4> QED BY <3>1, <3>4, <2>1, BoundsAreNumbers
    <3>6. at(m - 1) # at(m)
      <4> SUFFICES ASSUME at(m - 1) = at(m) PROVE FALSE
        OBVIOUS
      <4>1. FoldersIn(w[m]) = FoldersIn(w[m - 1])
        <5> HIDE DEF at
        <5> QED BY <1>3
      <4> QED BY <4>1, <3>2, <2>1
    <3>7. Cardinality(at(m - 1)) # Cardinality(at(m)) /\ Cardinality(at(m - 1)) <= Cardinality(at(m))
      <4> HIDE DEF at
      <4> QED BY <3>3, <3>6, <1>2, FS_Subset
    <3> HIDE DEF at, w
    <3> QED BY <3>5, <3>7, <1>2, <2>1
  <2> QED BY <2>2, <2>3
<1> HIDE DEF at, w
<1>5. Closed(n) \/ Cardinality(at(n)) >= n + 1
  <2>1. n \in Nat /\ n <= MaxOps
    BY BoundsAreNumbers
  <2> QED BY <2>1, <1>4
<1> QED BY <1>5 DEF at, w

\* There are as many steps as operations, so that nothing nested is left out.
LEMMA NestedIsClosed ==
  ASSUME Len(v1) <= MaxOps, NEW D, v1 \in Seq(D), NEW ids
  PROVE  /\ ids \subseteq Draft!Nested(ids)
         /\ \A j \in DOMAIN v1 : v1[j].op = "create_directory" /\ v1[j].in \in Draft!Nested(ids)
                                        => v1[j].id \in Draft!Nested(ids)
<1> DEFINE w == NestedUpTo(ids)
           at == {j \in DOMAIN v1 : v1[j].op = "create_directory" /\ v1[j].in \in w[MaxOps]}
<1>1. /\ w[0] = ids
      /\ \A m \in 1..MaxOps : w[m] = w[m - 1] \cup FoldersIn(w[m - 1])
  BY NestingExists, BoundsAreNumbers DEF IsNesting
<1>2. ids \subseteq w[MaxOps]
  <2> DEFINE Bad == {m \in Nat : m <= MaxOps /\ ~(ids \subseteq w[m])}
  <2>1. Bad = {}
    <3> SUFFICES ASSUME Bad # {} PROVE FALSE
      OBVIOUS
    <3>1. PICK m \in Bad : \A k \in Bad : m <= k
      BY LeastNumber
    <3>2. m # 0
      BY <3>1, <1>1
    <3>3. m - 1 \in Nat /\ m - 1 \notin Bad /\ m \in 1..MaxOps
      BY <3>1, <3>2, BoundsAreNumbers
    <3>4. w[m] = w[m - 1] \cup FoldersIn(w[m - 1])
      BY <1>1, <3>3
    <3>5. ids \subseteq w[m - 1]
      <4>1. m - 1 <= MaxOps
        BY <3>3, BoundsAreNumbers
      <4> HIDE DEF w
      <4> QED BY <3>3, <4>1
    <3> QED BY <3>1, <3>4, <3>5
  <2> QED BY <2>1, BoundsAreNumbers
<1>3. Cardinality(at) <= Len(v1)
  <2>1. \A m \in Nat : IsFiniteSet(1..m) /\ Cardinality(1..m) = m
    BY FS_Interval
  <2>2. Len(v1) \in Nat /\ at \in SUBSET (1..Len(v1))
    OBVIOUS
  <2> QED BY <2>1, <2>2, FS_Subset
<1>4. Cardinality(at) \in Nat
  <2>1. \A m \in Nat : IsFiniteSet(1..m)
    BY FS_Interval
  <2>2. Len(v1) \in Nat /\ at \in SUBSET (1..Len(v1))
    OBVIOUS
  <2> QED BY <2>1, <2>2, FS_Subset, FS_CardinalityType
<1>5. MaxOps \in 0..MaxOps
  BY BoundsAreNumbers
<1>6. FoldersIn(w[MaxOps]) \subseteq w[MaxOps] \/ Cardinality(at) >= MaxOps + 1
  BY <1>5, FoldersAreFew
<1>7. FoldersIn(w[MaxOps]) \subseteq w[MaxOps]
  <2> HIDE DEF at, w
  <2>1. Len(v1) \in Nat
    OBVIOUS
  <2> QED BY <1>3, <1>4, <1>6, <2>1, BoundsAreNumbers
<1>8. Draft!Nested(ids) = w[MaxOps]
  BY NestedIsTable
<1> HIDE DEF w, at
<1> QED BY <1>2, <1>7, <1>8 DEF FoldersIn
\* The draft is well formed and no shorter than before.
DraftGrows == v1' \in Seq(Draft!Staged) /\ Len(v1') <= MaxOps /\ Len(v1') >= Len(v1)

\* A sequence that changes in one place is as long as before.
LEMMA ChangedInPlace ==
  ASSUME NEW D, NEW s \in Seq(D), NEW i, NEW e \in D
  PROVE  [s EXCEPT ![i] = e] \in Seq(D) /\ Len([s EXCEPT ![i] = e]) = Len(s)
<1> DEFINE t == [s EXCEPT ![i] = e]
<1>1. Len(s) \in Nat /\ s \in [1..Len(s) -> D]
  OBVIOUS
<1>2. t \in [1..Len(s) -> D]
  BY <1>1
<1> HIDE DEF t
<1>3. t \in Seq(D) /\ Len(t) = Len(s)
  BY <1>1, <1>2
<1> QED BY <1>3 DEF t

\* Operations that are added, or replace one of their slot, are well formed.
LEMMA AddGrows ==
  ASSUME Draft!DraftInv, NEW op \in Draft!Staged, Draft!Add(op)
  PROVE  DraftGrows
<1> DEFINE slots == {i \in DOMAIN v1 : Draft!SameSlot(v1[i], op)}
<1>1. CASE slots = {}
  BY <1>1, BoundsAreNumbers DEF Draft!Add, Draft!DraftInv, DraftGrows
<1>2. CASE slots # {}
  <2>1. PICK i : v1' = [v1 EXCEPT ![i] = op]
    BY <1>2 DEF Draft!Add
  <2>2. v1 \in Seq(Draft!Staged) /\ Len(v1) <= MaxOps /\ Len(v1) \in Nat
    BY DEF Draft!DraftInv, Draft!TypeOK
  <2>3. v1' \in Seq(Draft!Staged) /\ Len(v1') = Len(v1)
    BY <2>1, <2>2, ChangedInPlace
  <2> QED BY <2>2, <2>3 DEF DraftGrows
<1> QED BY <1>1, <1>2

\* So is an operation that is appended.
LEMMA AddAllGrows ==
  ASSUME Draft!DraftInv, NEW op \in Draft!Staged, Draft!AddAll(<<op>>)
  PROVE  DraftGrows
    BY BoundsAreNumbers DEF Draft!AddAll, Draft!DraftInv, DraftGrows

\* An update leaves the draft as long as it is and makes no folder.
LEMMA UpdateKeeps ==
  ASSUME Draft!DraftInv, NEW index, NEW op \in Draft!Staged, Draft!Update(index, op),
         op.op = "create_directory" => index \in DOMAIN v1 /\ op = v1[index]
  PROVE  DraftGrows
<1>1. CASE index \notin DOMAIN v1
  BY <1>1 DEF Draft!Update, Draft!DraftInv, Draft!TypeOK, DraftGrows
<1>2. CASE index \in DOMAIN v1
  <2> DEFINE new == [op EXCEPT !.old = v1[index].old /\ op.file]
  <2>1. v1' = [v1 EXCEPT ![index] = new]
    BY <1>2 DEF Draft!Update
  <2>2. (v1[index].old /\ op.file) \in BOOLEAN
    OBVIOUS
  <2>3. new \in Draft!Staged
    BY <2>2 DEF Draft!Staged
  <2> HIDE DEF new
  <2>4. v1 \in Seq(Draft!Staged) /\ Len(v1) <= MaxOps /\ Len(v1) \in Nat
    BY DEF Draft!DraftInv, Draft!TypeOK
  <2>5. v1' \in Seq(Draft!Staged) /\ Len(v1') = Len(v1)
    BY <2>1, <2>3, <2>4, ChangedInPlace
  <2> QED BY <2>4, <2>5 DEF DraftGrows
<1> QED BY <1>1, <1>2

\* What is left of a draft is a draft.
LEMMA KeepKeeps ==
  ASSUME Draft!DraftInv, NEW idx, v1' = Draft!Keep(v1, idx)
  PROVE  v1' \in Seq(Draft!Staged) /\ Len(v1') <= MaxOps
<1>1. v1' \in Seq(Draft!Staged) /\ Len(v1') <= Len(v1) /\ Len(v1) <= MaxOps
  BY KeepIs DEF Draft!DraftInv, Draft!TypeOK
<1>2. Len(v1') \in Nat /\ Len(v1) \in Nat
  BY <1>1 DEF Draft!DraftInv
<1> QED BY <1>1, <1>2, BoundsAreNumbers

\* What lies in a folder that a removal takes goes with it.
LEMMA RemovalGoes ==
  ASSUME Draft!DraftInv, NEW i \in DOMAIN v1, v1' = Draft!Keep(v1, Draft!Cascade(i))
  PROVE  Draft!ContentsGo
<1> DEFINE target == v1[i]
           dirs == IF target.op = "create_directory" /\
               target.id > 0 THEN Draft!Nested({target.id}) ELSE {}
<1>1. /\ \A k \in DOMAIN v1' : \E j \in DOMAIN v1 \ Draft!Cascade(i) : v1'[k] = v1[j]
      /\ \A j \in DOMAIN v1 \ Draft!Cascade(i) : \E k \in DOMAIN v1' : v1'[k] = v1[j]
  BY KeepIs DEF Draft!DraftInv
<1>2. SUFFICES ASSUME NEW gone \in Draft!Created(v1) \ Draft!Created(v1'), NEW k \in DOMAIN v1',
                      v1'[k].op \in {"create_directory", "create_material", "move_item"}
               PROVE  v1'[k].in # gone
  BY DEF Draft!ContentsGo
<1>3. PICK j \in DOMAIN v1 : v1[j].op = "create_directory" /\ v1[j].id = gone
  BY <1>2 DEF Draft!Created
<1>4. j \in Draft!Cascade(i)
  <2> SUFFICES ASSUME j \notin Draft!Cascade(i) PROVE FALSE
    OBVIOUS
  <2>1. PICK m \in DOMAIN v1' : v1'[m] = v1[j]
    BY <1>1
  <2> QED BY <1>2, <1>3, <2>1 DEF Draft!Created
<1>5. PICK m \in DOMAIN v1 : m \notin Draft!Cascade(i) /\ v1'[k] = v1[m]
  BY <1>1
<1>6. \A n \in DOMAIN v1 : v1[n].op = "create_directory" => v1[n].id > 0
  <2>1. \A n \in DOMAIN v1 : v1[n] \in Draft!Staged
    BY DEF Draft!DraftInv
  <2> QED BY <2>1 DEF Draft!Staged
<1>7. Len(v1) <= MaxOps /\ v1 \in Seq(Draft!Staged)
  BY DEF Draft!DraftInv, Draft!TypeOK
<1>8. gone \in dirs
  <2>1. CASE j = i
    BY <1>3, <1>6, <1>7, <2>1, NestedIsClosed
  <2>2. CASE j # i
    <3>1. v1[j].in \in dirs
      BY <1>3, <1>4, <2>2 DEF Draft!Cascade
    <3>2. dirs = Draft!Nested({target.id})
      BY <3>1
    <3> HIDE DEF dirs
    <3>3. v1[j].id \in Draft!Nested({target.id})
      BY <1>3, <1>7, <3>1, <3>2, NestedIsClosed
    <3> QED BY <1>3, <3>2, <3>3
  <2> QED BY <2>1, <2>2
<1>9. v1[m].in \notin dirs
  BY <1>2, <1>5 DEF Draft!Cascade
<1> QED BY <1>5, <1>8, <1>9

\* A purge takes no folder.
LEMMA PurgeGoes ==
  ASSUME Draft!DraftInv, v1' = Draft!Keep(v1, Draft!Expired(v1))
  PROVE  Draft!ContentsGo
<1>1. \A j \in DOMAIN v1 \ Draft!Expired(v1) : \E k \in DOMAIN v1' : v1'[k] = v1[j]
  BY KeepIs DEF Draft!DraftInv
<1>2. \A n \in DOMAIN v1 : v1[n].op = "create_directory" => n \notin Draft!Expired(v1)
  <2>1. \A n \in DOMAIN v1 : v1[n] \in Draft!Staged
    BY DEF Draft!DraftInv
  <2> QED BY <2>1 DEF Draft!Staged, Draft!Expired
<1>3. Draft!Created(v1) \subseteq Draft!Created(v1')
  BY <1>1, <1>2 DEF Draft!Created
<1> QED BY <1>3 DEF Draft!ContentsGo

\* What a step does to the draft.
LEMMA DraftSteps ==
  ASSUME Draft!DraftInv, [Draft!Next]_(Draft!draftVars)
  PROVE  /\ v2' \in 0..MaxTemp
         /\ v3' \subseteq [index : 0..MaxOps, op : {o \in Draft!Staged : o.op \in {"create_material", "edit_material"}}]
         /\ v4' \in 0..MaxOps /\ v5' \in BOOLEAN /\ v6' \in BOOLEAN
         /\ \/ DraftGrows
            \/ v1' = <<>>
            \/ \E i \in DOMAIN v1 : v1' = Draft!Keep(v1, Draft!Cascade(i))
            \/ v1' = Draft!Keep(v1, Draft!Expired(v1))
<1> DEFINE Goal == /\ v2' \in 0..MaxTemp
                   /\
                          v3' \subseteq [index : 0..MaxOps, op : {o \in Draft!Staged : o.op \in {"create_material", "edit_material"}}]
                   /\ v4' \in 0..MaxOps /\ v5' \in BOOLEAN /\ v6' \in BOOLEAN
                   /\ \/ DraftGrows
                      \/ v1' = <<>>
                      \/ \E i \in DOMAIN v1 : v1' = Draft!Keep(v1, Draft!Cascade(i))
                      \/ v1' = Draft!Keep(v1, Draft!Expired(v1))
<1> SUFFICES Goal
  OBVIOUS
<1>1. /\ v1 \in Seq(Draft!Staged) /\ Len(v1) <= MaxOps /\ Len(v1) \in Nat /\ v2 \in 0..MaxTemp
      /\ v3 \subseteq [index : 0..MaxOps, op : {o \in Draft!Staged : o.op \in {"create_material", "edit_material"}}]
      /\ v4 \in 0..MaxOps /\ v5 \in BOOLEAN /\ v6 \in BOOLEAN
  BY DEF Draft!DraftInv, Draft!TypeOK
<1>2. v1' = v1 => DraftGrows
  BY <1>1 DEF DraftGrows
<1>3. \A id \in -1..MaxTemp, in, of \in 0..MaxTemp, file \in BOOLEAN, op \in Draft!Ops :
        (op = "create_directory" => id > 0 /\ ~file) =>
            Draft!Operation(op, id, in, of, file) \in Draft!Staged
  BY DEF Draft!Operation, Draft!Staged
<1>4. /\ 0 \in 0..MaxTemp /\ 0 \in -1..MaxTemp /\ -1 \in -1..MaxTemp /\ 0 \in 0..MaxOps
      /\ {"create_directory", "create_material", "edit_material", "delete_material", "delete_directory",
           "move_item"} \subseteq Draft!Ops
  BY BoundsAreNumbers DEF Draft!Ops
<1>5. v2 < MaxTemp => v2 + 1 \in 0..MaxTemp /\ v2 + 1 \in -1..MaxTemp /\ v2 + 1 > 0
  BY <1>1, BoundsAreNumbers
<1>6. Draft!Containers \subseteq 0..MaxTemp /\ 1..v2 \subseteq -1..MaxTemp
  BY <1>1, BoundsAreNumbers DEF Draft!Containers
<1>7. ASSUME NEW c, Draft!DraftFolder(c) PROVE Goal
  <2>1. Draft!Operation("create_directory", v2 + 1, c, Draft!Root, FALSE) \in Draft!Staged
    BY <1>3, <1>4, <1>5, <1>6, <1>7 DEF Draft!DraftFolder, Draft!NextTempId, Draft!Root
  <2> QED BY <1>1, <1>5, <1>7, <2>1, AddGrows DEF Draft!DraftFolder, Draft!NextTempId
<1>8. ASSUME NEW c, Draft!DraftLink(c) PROVE Goal
  <2>1. Draft!Operation("create_material", v2 + 1, c, Draft!Root, FALSE) \in Draft!Staged
    BY <1>3, <1>4, <1>5, <1>6, <1>8 DEF Draft!DraftLink, Draft!NextTempId, Draft!Root
  <2> QED BY <1>1, <1>5, <1>8, <2>1, AddGrows DEF Draft!DraftLink, Draft!NextTempId
<1>9. ASSUME NEW c, NEW m, Draft!StageUpload(c, m) PROVE Goal
  <2>1. Draft!Operation("create_material", v2 + 1, c, m, TRUE) \in Draft!Staged
    BY <1>3, <1>4, <1>5, <1>6, <1>9 DEF Draft!StageUpload, Draft!NextTempId, Draft!Containers
  <2> QED BY <1>1, <1>5, <1>9, <2>1, AddAllGrows DEF Draft!StageUpload, Draft!NextTempId
<1>10. CASE Draft!StageMissingImage
  <2>1. Draft!Operation("create_material", v2 + 1, Draft!Root, Draft!Root, TRUE) \in Draft!Staged
    BY <1>3, <1>4, <1>5, <1>10 DEF Draft!StageMissingImage, Draft!NextTempId, Draft!Root
  <2> QED BY <1>1, <1>5, <1>10, <2>1, AddAllGrows DEF Draft!StageMissingImage, Draft!NextTempId
<1>11. /\ Draft!Operation("edit_material", Draft!Document, Draft!Root, Draft!Root, TRUE) \in Draft!Staged
       /\ Draft!Operation("edit_material", Draft!Document, Draft!Root, Draft!Root, FALSE) \in Draft!Staged
       /\ Draft!Operation("delete_material", Draft!Document, Draft!Root, Draft!Root, FALSE) \in
              Draft!Staged
       /\ Draft!Operation("create_material", Draft!Root, Draft!Root, Draft!Root, TRUE) \in Draft!Staged
       /\ Draft!Operation("edit_material", Draft!Document, Draft!Root, Draft!Root, TRUE).op \in
              {"create_material", "edit_material"}
       /\ Draft!Operation("create_material", Draft!Root, Draft!Root, Draft!Root, TRUE).op \in
              {"create_material", "edit_material"}
  <2>1. Draft!Document \in -1..MaxTemp /\ Draft!Root \in 0..MaxTemp /\ Draft!Root \in -1..MaxTemp
    BY <1>4 DEF Draft!Document, Draft!Root
  <2>2. Draft!Operation("edit_material", Draft!Document, Draft!Root, Draft!Root, TRUE).op \in
            {"create_material", "edit_material"}
    BY DEF Draft!Operation
  <2>3. Draft!Operation("create_material", Draft!Root, Draft!Root, Draft!Root, TRUE).op \in
            {"create_material", "edit_material"}
    BY DEF Draft!Operation
  <2> QED BY <1>3, <1>4, <2>1, <2>2, <2>3
<1>12. CASE Draft!DraftMetadata \/ Draft!DraftReplacement
  BY <1>1, <1>11, <1>12, AddGrows DEF Draft!DraftMetadata, Draft!DraftReplacement
<1>13. ASSUME NEW index \in 0..MaxOps, NEW op \in Draft!Staged, op.op \in
                  {"create_material", "edit_material"}, Draft!SaveStarts(index, op)
       PROVE  Goal
  BY <1>1, <1>2, <1>13 DEF Draft!SaveStarts
<1>14. CASE Draft!SaveText
  BY <1>4, <1>11, <1>13, <1>14 DEF Draft!SaveText
<1>15. ASSUME NEW index \in 0..MaxOps, Draft!SaveQuiz(index) PROVE Goal
  BY <1>11, <1>13, <1>15 DEF Draft!SaveQuiz
<1>16. CASE Draft!SaveAnswered
  <2>1. PICK s \in v3 : IF s.index = 0 THEN Draft!Add(s.op) ELSE Draft!Update(s.index, s.op)
    BY <1>16 DEF Draft!SaveAnswered
  <2>2. s.op \in Draft!Staged /\ s.op.op \in {"create_material", "edit_material"}
    BY <1>1
  <2>3. DraftGrows
    BY <2>1, <2>2, AddGrows, UpdateKeeps
  <2> QED BY <1>1, <1>16, <2>3 DEF Draft!SaveAnswered
<1>17. ASSUME NEW id, Draft!DeleteItem(id) PROVE Goal
  <2>1. CASE id > 0
    <3> DEFINE own == {i \in DOMAIN v1 : v1[i].op \in {"create_directory", "create_material"} /\ v1[i].id = id}
               i == CHOOSE i \in own : \A j \in own : i <= j
    <3>1. own # {} /\ v1' = Draft!Keep(v1, Draft!Cascade(i))
      BY <1>17, <2>1 DEF Draft!DeleteItem
    <3>2. own \in SUBSET Nat
      BY <1>1
    <3>3. i \in own
      <4>1. \E n \in own : \A j \in own : n <= j
        <5> HIDE DEF own
        <5> QED BY <3>1, <3>2, LeastNumber
      <4> HIDE DEF own
      <4> QED BY <4>1
    <3> HIDE DEF i
    <3> QED BY <1>1, <1>17, <3>1, <3>3 DEF Draft!DeleteItem
  <2>2. CASE ~(id > 0)
    <3>1. id = Draft!Document
      BY <1>1, <1>17, <2>2 DEF Draft!DeleteItem
    <3>2. Draft!Add(Draft!Operation("delete_material", Draft!Document, Draft!Root, Draft!Root, FALSE))
      BY <1>17, <2>2, <3>1 DEF Draft!DeleteItem
    <3> QED BY <1>1, <1>11, <1>17, <3>2, AddGrows DEF Draft!DeleteItem
  <2> QED BY <2>1, <2>2
<1>18. ASSUME NEW id, Draft!BatchDelete(id) PROVE Goal
  <2> DEFINE op == IF \E i \in DOMAIN v1 : v1[i].op = "create_material" /\ v1[i].id = id
                   THEN "delete_material" ELSE "delete_directory"
  <2>1. op \in Draft!Ops /\ op # "create_directory"
    BY <1>4
  <2>2. Draft!AddAll(<<Draft!Operation(op, id, Draft!Root, Draft!Root, FALSE)>>) /\ id \in 1..v2
        /\ UNCHANGED <<v2, v3, v4, v5, v6>>
    BY <1>18 DEF Draft!BatchDelete
  <2> HIDE DEF op
  <2>3. Draft!Operation(op, id, Draft!Root, Draft!Root, FALSE) \in Draft!Staged
    BY <1>3, <1>4, <1>6, <2>1, <2>2 DEF Draft!Root
  <2> QED BY <1>1, <2>2, <2>3, AddAllGrows
<1>19. ASSUME NEW id, NEW c, Draft!BatchPaste(id, c) PROVE Goal
  <2>1. id \in -1..MaxTemp
    BY <1>1, <1>19, BoundsAreNumbers DEF Draft!BatchPaste, Draft!Document, Draft!Root
  <2>2. Draft!Operation("move_item", id, c, Draft!Root, FALSE) \in Draft!Staged
    BY <1>3, <1>4, <1>6, <1>19, <2>1 DEF Draft!BatchPaste, Draft!Root
  <2> QED BY <1>1, <1>19, <2>2, AddAllGrows DEF Draft!BatchPaste
<1>20. ASSUME NEW i, Draft!RemoveOperation(i) \/ Draft!OpenEdit(i) PROVE Goal
  <2>1. \A n \in DOMAIN v1 : n \in 0..MaxOps
    BY <1>1, BoundsAreNumbers
  <2>2. CASE Draft!RemoveOperation(i)
    BY <1>1, <2>2 DEF Draft!RemoveOperation
  <2>3. CASE Draft!OpenEdit(i)
    BY <1>1, <1>2, <2>1, <2>3 DEF Draft!OpenEdit
  <2> QED BY <1>20, <2>2, <2>3
<1>21. CASE Draft!SubmitDirectly
  BY <1>1, <1>2, <1>5, <1>21 DEF Draft!SubmitDirectly, Draft!NextTempId
<1>22. CASE Draft!SaveFails \/ Draft!ReplaceFile \/ Draft!ReplacementEnds \/ Draft!CloseEdit \/
                Draft!Submit
  BY <1>1, <1>2, <1>4, <1>22 DEF Draft!SaveFails, Draft!ReplaceFile, Draft!ReplacementEnds,
     Draft!CloseEdit, Draft!Submit
<1>23. CASE Draft!SaveEdit
  <2>1. v4 \in DOMAIN v1 /\ Draft!Update(v4, v1[v4])
    BY <1>23 DEF Draft!SaveEdit
  <2>2. v1[v4] \in Draft!Staged
    BY <1>1, <2>1
  <2>3. DraftGrows
    BY <2>1, <2>2, UpdateKeeps
  <2> QED BY <1>1, <1>4, <1>23, <2>3 DEF Draft!SaveEdit
<1>24. CASE Draft!PurgeExpired \/ Draft!Reload
  BY <1>1, <1>4, <1>24 DEF Draft!PurgeExpired, Draft!Reload
<1>25. CASE Draft!Submitted \/ Draft!DiscardAll
  BY <1>1, <1>2, <1>4, <1>25 DEF Draft!Submitted, Draft!DiscardAll
<1>26. ASSUME NEW i, Draft!UploadExpires(i) PROVE Goal
  <2> DEFINE new == [v1[i] EXCEPT !.old = TRUE]
  <2>1. i \in DOMAIN v1 /\ v1[i].file /\ v1' = [v1 EXCEPT ![i].old = TRUE]
        /\ UNCHANGED <<v2, v3, v4, v5, v6>>
    BY <1>26 DEF Draft!UploadExpires
  <2>2. v1[i] \in Draft!Staged
    BY <1>1, <2>1
  <2>3. new \in Draft!Staged
    BY <2>1, <2>2 DEF Draft!Staged
  <2>4. v1' = [v1 EXCEPT ![i] = new]
    BY <2>1
  <2> HIDE DEF new
  <2>5. v1' \in Seq(Draft!Staged) /\ Len(v1') = Len(v1)
    BY <1>1, <2>3, <2>4, ChangedInPlace
  <2> QED BY <1>1, <2>1, <2>5 DEF DraftGrows
<1>27. CASE UNCHANGED Draft!draftVars
  BY <1>1, <1>2, <1>27 DEF Draft!draftVars
<1> HIDE DEF Goal
<1>28. CASE Draft!WithoutDialog
  BY Zenon, <1>7, <1>8, <1>9, <1>10, <1>12, <1>14, <1>15, <1>17, <1>18, <1>19, <1>20, <1>21,
     <1>22,
     <1>24, <1>25, <1>28 DEF Draft!WithoutDialog
<1>29. Goal
  BY Zenon, <1>16, <1>22, <1>23, <1>24, <1>25, <1>26, <1>27, <1>28 DEF Draft!Next
<1> QED BY <1>29

\* Every step of the draft keeps its invariant, and takes what a removed folder holds.
LEMMA DraftKept ==
  ASSUME Draft!DraftInv, [Draft!Next]_(Draft!draftVars)
  PROVE  Draft!DraftInv' /\ Draft!ContentsGo
<1>1. v1 \in Seq(Draft!Staged) /\ Len(v1) \in Nat
  BY DEF Draft!DraftInv
<1>2. v1' \in Seq(Draft!Staged) /\ Len(v1') <= MaxOps
  <2>1. Len(<<>>) = 0 /\ <<>> \in Seq(Draft!Staged)
    OBVIOUS
  <2>2. CASE DraftGrows
    BY <2>2 DEF DraftGrows
  <2>3. CASE v1' = <<>>
    BY <2>1, <2>3, BoundsAreNumbers
  <2>4. CASE \E idx : v1' = Draft!Keep(v1, idx)
    BY <2>4, KeepKeeps
  <2> QED BY <2>2, <2>3, <2>4, DraftSteps
<1>3. Draft!ContentsGo
  <2>1. CASE DraftGrows
    <3>1. Len(v1') \in Nat
      BY <1>2
    <3> QED BY <1>1, <2>1, <3>1 DEF DraftGrows, Draft!ContentsGo
  <2>2. CASE v1' = <<>>
    BY <2>2 DEF Draft!ContentsGo
  <2> QED BY <2>1, <2>2, DraftSteps, RemovalGoes, PurgeGoes
<1>4. \A i \in DOMAIN v1' : v1'[i] \in Draft!Staged
  BY <1>2
<1>5. \A s \in v3' : s.index \in 0..MaxOps /\ s.op.op \in {"create_material", "edit_material"}
  BY DraftSteps
<1> QED BY <1>2, <1>3, <1>4, <1>5, DraftSteps DEF Draft!DraftInv, Draft!TypeOK, Draft!Staged

\* The empty draft is well formed.
LEMMA DraftInit == Draft!Init => Draft!DraftInv
<1> SUFFICES ASSUME Draft!Init PROVE Draft!DraftInv
  OBVIOUS
<1>1. v1 = <<>> /\ Len(<<>>) = 0 /\ <<>> \in Seq(Draft!Staged) /\ v3 = {} /\ DOMAIN v1 = {}
  BY DEF Draft!Init
<1>2. 0 \in 0..MaxOps /\ 0 \in 0..MaxTemp /\ Len(v1) <= MaxOps
  BY <1>1, BoundsAreNumbers
<1> QED BY <1>1, <1>2 DEF Draft!Init, Draft!DraftInv, Draft!TypeOK

-----------------------------------------------------------------------------
(* UploadQueue: v1 status, v2 resumable, v3 attached, v4 lost, v5 run,     *)
(* v6 waiting, v7 active, v8 unsorted, v9 folder, v10 staged.              *)

\* The module counts as this one does.
LEMMA CountsAgree == \A S : Queue!Cardinality(S) = Cardinality(S)
    BY Zenon DEF Queue!Cardinality, Cardinality

\* How a count compares with a set that keeps, gains or loses one element.
LEMMA SizesCompare ==
    ASSUME IsFiniteSet(Files), NEW S \in SUBSET Files, NEW T \in SUBSET Files
    PROVE  /\ Cardinality(S) \in Nat /\ Cardinality(T) \in Nat
           /\ S \subseteq T => Cardinality(S) <= Cardinality(T)
           /\ \A f \in T \ S : S \subseteq T => Cardinality(S) + 1 <= Cardinality(T)
           /\ \A f \in Files : S \ {f} \subseteq T => Cardinality(S) - 1 <= Cardinality(T)
<1>1. IsFiniteSet(S) /\ IsFiniteSet(T) /\ Cardinality(S) \in Nat /\ Cardinality(T) \in Nat
    BY FS_Subset, FS_CardinalityType
<1>2. S \subseteq T => Cardinality(S) <= Cardinality(T)
    BY <1>1, FS_Subset
<1>3. ASSUME NEW f \in T \ S, S \subseteq T
      PROVE  Cardinality(S) + 1 <= Cardinality(T)
  <2>1. Cardinality(S \cup {f}) = Cardinality(S) + 1 /\ S \cup {f} \subseteq T
    BY <1>1, <1>3, FS_AddElement
  <2> QED
    BY <1>1, <2>1, FS_Subset
<1>4. ASSUME NEW f \in Files, S \ {f} \subseteq T
      PROVE  Cardinality(S) - 1 <= Cardinality(T)
  <2>1. /\ IsFiniteSet(S \ {f})
        /\ Cardinality(S \ {f}) = IF f \in S THEN Cardinality(S) - 1 ELSE Cardinality(S)
    BY <1>1, FS_RemoveElement
  <2>3. Cardinality(S \ {f}) \in Nat
    BY <2>1, FS_CardinalityType
  <2>2. Cardinality(S \ {f}) <= Cardinality(T)
    BY <1>1, <1>4, FS_Subset
  <2> QED
    BY <1>1, <2>1, <2>2, <2>3
<1> QED
    BY <1>1, <1>2, <1>3, <1>4

\* One id leaves the queue, and gets a slot if it may start.
LEMMA DrainFits ==
    ASSUME IsFiniteSet(Files), NEW st, NEW rn, NEW q, NEW count, NEW at, NEW lo, NEW un,
           Queue!QueueFits(st, rn, q, count, at, lo, un), Queue!Drain(st, rn, q, count)
    PROVE  Queue!QueueFits(v1', v5', v6', v7', at, lo, un)
<1> USE DEF Queue!QueueFits
<1>1. CASE ~Queue!MayStart(count) \/ q = <<>>
    BY <1>1 DEF Queue!Drain
<1>2. CASE Queue!MayStart(count) /\ q # <<>>
  <2> DEFINE h == Head(q)
  <2>1. h \in Files /\ h = q[1] /\ 1 \in 1..Len(q) /\ v6' = Tail(q) /\ v6' \in Seq(Files)
    BY <1>2 DEF Queue!Drain
  <2>2. \A i \in 1..Len(v6') : i + 1 \in 1..Len(q) /\ v6'[i] = q[i + 1]
    BY <1>2, <2>1
  <2>3. CASE Queue!Startable(st, h)
    <3>1. /\ v1' = [st EXCEPT ![h] = "uploading"] /\ v5' = [rn EXCEPT ![h] = "transfer"]
          /\ v7' = count + 1
      BY <1>2, <2>3 DEF Queue!Drain
    <3>2. st[h] \in {"pending", "paused"}
      BY <2>3 DEF Queue!Startable
    <3> HIDE DEF h
    <3>3. v1' \in [Files -> Queue!Statuses] /\ v5' \in [Files -> Queue!Runs] /\ v7' \in Nat
      BY <2>1, <3>1 DEF Queue!Statuses, Queue!Runs
    <3>4. ASSUME NEW f \in Files
          PROVE  Queue!ItemFits(f, v1', v5', v6', at, lo, un)
      <4>1. Queue!ItemFits(f, st, rn, q, at, lo, un)
        OBVIOUS
      <4>2. CASE f = h
        BY <2>1, <3>1, <3>2, <4>1, <4>2 DEF Queue!ItemFits
      <4>3. CASE f # h
        BY <2>1, <2>2, <3>1, <4>1, <4>3 DEF Queue!ItemFits
      <4> QED
        BY <4>2, <4>3
    <3>5. /\ Queue!Slots(st, rn) \subseteq Queue!Slots(v1', v5')
          /\ h \in Queue!Slots(v1', v5') \ Queue!Slots(st, rn)
      <4>1. st[h] = "pending" => rn[h] = "none"
        BY <2>1 DEF Queue!ItemFits
      <4> QED
        BY <2>1, <3>1, <3>2, <4>1 DEF Queue!Slots
    <3>6. Cardinality(Queue!Slots(st, rn)) + 1 <= Cardinality(Queue!Slots(v1', v5'))
      <4>1. Queue!Slots(st, rn) \subseteq Files /\ Queue!Slots(v1', v5') \subseteq Files
        BY DEF Queue!Slots
      <4> QED
        BY <3>5, <4>1, SizesCompare
    <3>7. Cardinality(Queue!Slots(st, rn)) \in Nat /\ Cardinality(Queue!Slots(v1', v5')) \in Nat
      <4>1. Queue!Slots(st, rn) \subseteq Files /\ Queue!Slots(v1', v5') \subseteq Files
        BY DEF Queue!Slots
      <4> QED
        BY <4>1, SizesCompare
    <3>8. v7' <= Queue!Cardinality(Queue!Slots(v1', v5'))
      <4>1. count <= Cardinality(Queue!Slots(st, rn)) /\ count \in Nat
        BY CountsAgree
      <4>2. v7' <= Cardinality(Queue!Slots(v1', v5'))
        BY <3>1, <3>6, <3>7, <4>1
      <4> QED
        BY <4>2, CountsAgree
    <3> QED
      BY <2>1, <3>3, <3>4, <3>8
  <2>4. CASE ~Queue!Startable(st, h)
    <3>1. v1' = st /\ v5' = rn /\ v7' = count
      BY <1>2, <2>4 DEF Queue!Drain
    <3>2. ASSUME NEW f \in Files
          PROVE  Queue!ItemFits(f, v1', v5', v6', at, lo, un)
      <4>1. Queue!ItemFits(f, st, rn, q, at, lo, un)
        OBVIOUS
      <4> QED
        BY <2>1, <2>2, <3>1, <4>1 DEF Queue!ItemFits
    <3> QED
      BY <2>1, <3>1, <3>2
  <2> QED
    BY <2>3, <2>4
<1> QED
    BY <1>1, <1>2

\* A file starts to wait with no run of its own, and not as a lost one.
LEMMA StartKeepsQueue ==
    ASSUME IsFiniteSet(Files), Queue!QueueInv, NEW f \in Files, v5[f] = "none",
           Queue!Start(f, [v1 EXCEPT ![f] = "pending"]),
           v3' \subseteq v3 \cup {f}, v4' \subseteq v4, f \notin v4',
           v8' \subseteq v8, f \notin v8'
    PROVE  Queue!QueueInv'
<1> DEFINE st == [v1 EXCEPT ![f] = "pending"]
           q == Append(v6, f)
<1> USE DEF Queue!QueueInv
<1>1. Queue!Drain(st, v5, q, v7)
    BY DEF Queue!Start
<1>2. /\ st \in [Files -> Queue!Statuses] /\ q \in Seq(Files) /\ v7 \in Nat
      /\ v5 \in [Files -> Queue!Runs] /\ v1 \in [Files -> Queue!Statuses] /\ v6 \in Seq(Files)
    BY DEF Queue!QueueFits, Queue!Statuses
<1>3. \A i \in 1..Len(q) : q[i] = f \/ (i \in 1..Len(v6) /\ q[i] = v6[i])
    BY <1>2
<1>4. ASSUME NEW g \in Files
      PROVE  Queue!ItemFits(g, st, v5, q, v3', v4', v8')
  <2>1. Queue!ItemFits(g, v1, v5, v6, v3, v4, v8)
    BY DEF Queue!QueueFits
  <2>2. CASE g = f
    BY <1>2, <2>2 DEF Queue!ItemFits
  <2>3. CASE g # f
    <3>1. st[g] = v1[g]
      BY <1>2, <2>3
    <3> HIDE DEF q, st
    <3> QED
      BY <1>3, <2>1, <2>3, <3>1 DEF Queue!ItemFits
  <2> QED
    BY <2>2, <2>3
<1>5. Queue!Slots(st, v5) = Queue!Slots(v1, v5)
    BY <1>2 DEF Queue!Slots
<1>6. v7 <= Cardinality(Queue!Slots(st, v5))
    BY <1>5, CountsAgree DEF Queue!QueueFits
<1> HIDE DEF st, q
<1>7. Queue!QueueFits(st, v5, q, v7, v3', v4', v8')
    BY <1>2, <1>4, <1>6, CountsAgree DEF Queue!QueueFits
<1> QED
    BY <1>1, <1>7, DrainFits

\* A step that starts nothing keeps the invariant if it keeps each item's part
\* of it, and the count within the slots.
LEMMA NoStartFits ==
    ASSUME IsFiniteSet(Files), Queue!QueueInv,
           v1' \in [Files -> Queue!Statuses], v5' \in [Files -> Queue!Runs], v6' = v6,
           \A f \in Files : Queue!ItemFits(f, v1', v5', v6, v3', v4', v8'),
           \/ v7' = v7 /\ Queue!Slots(v1, v5) \subseteq Queue!Slots(v1', v5')
           \/ v7' = Queue!LessOne(v7) /\ \E f \in
                  Files : Queue!Slots(v1, v5) \ {f} \subseteq Queue!Slots(v1', v5')
           \/ /\ v7' = v7 + 1 /\ Queue!Slots(v1, v5) \subseteq Queue!Slots(v1', v5')
              /\ \E f \in Files : f \in Queue!Slots(v1', v5') \ Queue!Slots(v1, v5)
    PROVE  Queue!QueueInv'
<1> DEFINE S == Queue!Slots(v1, v5)
           T == Queue!Slots(v1', v5')
<1>1. S \subseteq Files /\ T \subseteq Files
    BY DEF Queue!Slots
<1>2. v7 \in Nat /\ v7 <= Cardinality(S) /\ v6 \in Seq(Files)
    BY CountsAgree DEF Queue!QueueInv, Queue!QueueFits
<1> HIDE DEF S, T
<1>3. Cardinality(S) \in Nat /\ Cardinality(T) \in Nat
    BY <1>1, SizesCompare
<1>4. v7' \in Nat /\ v7' <= Cardinality(T)
  <2>1. CASE v7' = v7 /\ S \subseteq T
    BY <1>1, <1>2, <1>3, <2>1, SizesCompare
  <2>2. CASE v7' = Queue!LessOne(v7) /\ \E f \in Files : S \ {f} \subseteq T
    <3>1. Cardinality(S) - 1 <= Cardinality(T)
      BY <1>1, <2>2, SizesCompare
    <3> QED
      BY <1>2, <1>3, <2>2, <3>1 DEF Queue!LessOne
  <2>3. CASE v7' = v7 + 1 /\ S \subseteq T /\ \E f \in Files : f \in T \ S
    <3>1. Cardinality(S) + 1 <= Cardinality(T)
      BY <1>1, <2>3, SizesCompare
    <3> QED
      BY <1>2, <1>3, <2>3, <3>1
  <2> QED
    BY <2>1, <2>2, <2>3 DEF S, T
<1>5. (v7 <= Cardinality(Queue!Slots(v1, v5)))'
    BY <1>4 DEF T
<1> QED
    BY <1>2, <1>4, <1>5, CountsAgree DEF Queue!QueueInv, Queue!QueueFits

\* Nothing is listed at first.
LEMMA QueueStarts == ASSUME IsFiniteSet(Files), Queue!Init PROVE Queue!QueueInv
<1>1. Queue!Slots(v1, v5) = {} /\ Cardinality({}) = 0
    BY FS_EmptySet DEF Queue!Init, Queue!Slots
<1>2. v6 \in Seq(Files) /\ v7 \in Nat /\ v7 <= Cardinality(Queue!Slots(v1, v5))
  <2>1. Cardinality(Queue!Slots(v1, v5)) = 0
    BY <1>1
  <2> QED
    BY <2>1 DEF Queue!Init
<1> QED
    BY <1>2, CountsAgree DEF Queue!Init, Queue!QueueInv, Queue!QueueFits, Queue!ItemFits,
       Queue!Statuses, Queue!Runs

\* Files that are new, not sorted yet, recovered or retried.
LEMMA AdmissionsKeepQueue ==
    ASSUME IsFiniteSet(Files), Queue!QueueInv, NEW f \in Files,
           \/ Queue!AddFile(f) \/ Queue!MimeConfirmed(f) \/ Queue!Recover(f)
           \/ Queue!FolderAdmitted(f) \/ Queue!Retry(f)
    PROVE  Queue!QueueInv'
<1>1. Queue!ItemFits(f, v1, v5, v6, v3, v4, v8)
    BY DEF Queue!QueueInv, Queue!QueueFits
<1>2. /\ Queue!Start(f, [v1 EXCEPT ![f] = "pending"]) /\ v3' \subseteq v3 \cup {f}
      /\ v4' \subseteq v4 /\ v8' \subseteq v8
    BY DEF Queue!AddFile, Queue!MimeConfirmed, Queue!Recover, Queue!FolderAdmitted, Queue!Retry
<1>3. v5[f] = "none" /\ f \notin v4' /\ f \notin v8'
    BY <1>1 DEF Queue!AddFile, Queue!MimeConfirmed, Queue!Recover, Queue!FolderAdmitted,
       Queue!Retry, Queue!New, Queue!Listed, Queue!ItemFits
<1> QED
    BY <1>2, <1>3, StartKeepsQueue

\* A run that ends gives back at most the one slot that is counted for it.
LEMMA EndsKeepQueue ==
    ASSUME IsFiniteSet(Files), Queue!QueueInv, NEW f \in Files,
           Queue!RunFails(f) \/ Queue!RunEnds(f) \/ Queue!RunAborts(f)
    PROVE  Queue!QueueInv'
<1>1. PICK s : /\ Queue!Settle(f, s)
               /\ \/ s \in {"done", "virus", "error"} /\ v5[f] \in {"transfer", "verdict"}
                  \/ s = "kept" /\ v5[f] = "aborted"
    BY DEF Queue!RunFails, Queue!RunEnds, Queue!RunAborts
<1> DEFINE st == IF v1[f] = "absent" \/ s = "kept" THEN v1 ELSE [v1 EXCEPT ![f] = s]
           rn == [v5 EXCEPT ![f] = "none"]
<1>2. /\ Queue!Drain(st, rn, v6, Queue!LessOne(v7)) /\ v3' = v3 /\ v4' = v4 /\ v8' = v8
    BY <1>1 DEF Queue!Settle
<1>3. /\ v1 \in [Files -> Queue!Statuses] /\ v5 \in [Files -> Queue!Runs]
      /\ v6 \in Seq(Files) /\ v7 \in Nat /\ v7 <= Cardinality(Queue!Slots(v1, v5))
    BY CountsAgree DEF Queue!QueueInv, Queue!QueueFits
<1>4. st \in [Files -> Queue!Statuses] /\ rn \in [Files -> Queue!Runs]
    BY <1>1, <1>3 DEF Queue!Statuses, Queue!Runs
<1>5. /\ \A g \in Files \ {f} : st[g] = v1[g] /\ rn[g] = v5[g]
      /\ rn[f] = "none" /\ st[f] \in {v1[f], s}
      /\ s # "kept" /\ v1[f] # "absent" => st[f] = s
      /\ v1[f] = "absent" => st[f] = "absent"
    BY <1>3
<1> HIDE DEF st, rn
<1>6. ASSUME NEW g \in Files
      PROVE  Queue!ItemFits(g, st, rn, v6, v3, v4, v8)
  <2>1. Queue!ItemFits(g, v1, v5, v6, v3, v4, v8)
    BY DEF Queue!QueueInv, Queue!QueueFits
  <2> QED
    BY <1>1, <1>5, <2>1 DEF Queue!ItemFits
<1>7. Queue!Slots(v1, v5) \ {f} \subseteq Queue!Slots(st, rn)
    BY <1>5 DEF Queue!Slots
<1>8. /\ Cardinality(Queue!Slots(v1, v5)) - 1 <= Cardinality(Queue!Slots(st, rn))
      /\ Cardinality(Queue!Slots(v1, v5)) \in Nat /\ Cardinality(Queue!Slots(st, rn)) \in Nat
  <2>1. Queue!Slots(v1, v5) \subseteq Files /\ Queue!Slots(st, rn) \subseteq Files
    BY DEF Queue!Slots
  <2> QED
    BY <1>7, <2>1, SizesCompare
<1>9. Queue!LessOne(v7) \in Nat /\ Queue!LessOne(v7) <= Queue!Cardinality(Queue!Slots(st, rn))
  <2>1. Queue!LessOne(v7) \in Nat /\ Queue!LessOne(v7) <= Cardinality(Queue!Slots(st, rn))
    BY <1>3, <1>8 DEF Queue!LessOne
  <2> QED
    BY <2>1, CountsAgree
<1>10. Queue!QueueFits(st, rn, v6, Queue!LessOne(v7), v3', v4', v8')
    BY <1>2, <1>3, <1>4, <1>6, <1>9 DEF Queue!QueueFits
<1> QED
    BY <1>2, <1>10, DrainFits DEF Queue!QueueInv

\* The buttons of an item change its own run and at most one slot.
LEMMA ItemsKeepQueue ==
    ASSUME IsFiniteSet(Files), Queue!QueueInv, NEW f \in Files,
           \/ Queue!TusUrlKnown(f) \/ Queue!Transferred(f) \/ Queue!Pause(f) \/ Queue!Resume(f)
           \/ Queue!Remove(f) \/ Queue!ReAttach(f) \/ Queue!DeferFile(f)
    PROVE  Queue!QueueInv'
<1>1. /\ v1 \in [Files -> Queue!Statuses] /\ v5 \in [Files -> Queue!Runs]
      /\ \A g \in Files : Queue!ItemFits(g, v1, v5, v6, v3, v4, v8)
    BY DEF Queue!QueueInv, Queue!QueueFits
<1>2. v6' = v6
    BY DEF Queue!TusUrlKnown, Queue!Transferred, Queue!Pause, Queue!Resume, Queue!Remove,
       Queue!ReAttach, Queue!DeferFile
<1>3. v1' \in [Files -> Queue!Statuses] /\ v5' \in [Files -> Queue!Runs]
    BY <1>1 DEF Queue!TusUrlKnown, Queue!Transferred, Queue!Pause, Queue!Resume, Queue!Remove,
       Queue!ReAttach, Queue!DeferFile, Queue!Statuses, Queue!Runs
<1>4. \A g \in Files \ {f} : v1'[g] = v1[g] /\ v5'[g] = v5[g]
    BY <1>1 DEF Queue!TusUrlKnown, Queue!Transferred, Queue!Pause, Queue!Resume, Queue!Remove,
       Queue!ReAttach, Queue!DeferFile
<1>5. v3' \subseteq v3 \cup {f} /\ v4' \subseteq v4 /\ v8' \subseteq v8 \cup {f}
    BY DEF Queue!TusUrlKnown, Queue!Transferred, Queue!Pause, Queue!Resume, Queue!Remove,
       Queue!ReAttach, Queue!DeferFile
<1>6. ASSUME NEW g \in Files \ {f}
      PROVE  Queue!ItemFits(g, v1', v5', v6, v3', v4', v8')
    BY <1>1, <1>4, <1>5 DEF Queue!ItemFits
<1>7. Queue!ItemFits(f, v1', v5', v6, v3', v4', v8')
  <2>1. Queue!ItemFits(f, v1, v5, v6, v3, v4, v8)
    BY <1>1
  <2>2. CASE Queue!TusUrlKnown(f)
    BY <2>1, <2>2 DEF Queue!TusUrlKnown, Queue!ItemFits
  <2>3. CASE Queue!Transferred(f)
    BY <1>1, <2>1, <2>3 DEF Queue!Transferred, Queue!ItemFits
  <2>4. CASE Queue!Pause(f)
    BY <1>1, <2>1, <2>4 DEF Queue!Pause, Queue!ItemFits
  <2>5. CASE Queue!Resume(f)
    BY <1>1, <2>1, <2>5 DEF Queue!Resume, Queue!ItemFits
  <2>6. CASE Queue!Remove(f)
    BY <1>1, <2>1, <2>6 DEF Queue!Remove, Queue!ItemFits
  <2>7. CASE Queue!ReAttach(f)
    BY <2>1, <2>7 DEF Queue!ReAttach, Queue!ItemFits
  <2>8. CASE Queue!DeferFile(f)
    BY <2>1, <2>8 DEF Queue!DeferFile, Queue!New, Queue!Listed, Queue!ItemFits
  <2> QED
    BY <2>2, <2>3, <2>4, <2>5, <2>6, <2>7, <2>8
<1>8. CASE Queue!Pause(f)
  <2>1. v7' = Queue!LessOne(v7) /\ Queue!Slots(v1, v5) \ {f} \subseteq Queue!Slots(v1', v5')
    BY <1>4, <1>8 DEF Queue!Pause, Queue!Slots
  <2> QED
    BY <1>2, <1>3, <1>6, <1>7, <2>1, NoStartFits
<1>9. CASE Queue!Resume(f)
  <2>1. v7' = v7 + 1
    BY <1>9 DEF Queue!Resume
  <2>2. /\ Queue!Slots(v1, v5) \subseteq Queue!Slots(v1', v5')
        /\ f \in Queue!Slots(v1', v5') \ Queue!Slots(v1, v5)
    BY <1>1, <1>4, <1>9 DEF Queue!Resume, Queue!Slots
  <2> QED
    BY <1>2, <1>3, <1>6, <1>7, <2>1, <2>2, NoStartFits
<1>10. CASE \/ Queue!TusUrlKnown(f) \/ Queue!Transferred(f) \/ Queue!Remove(f) \/ Queue!ReAttach(f)
            \/ Queue!DeferFile(f)
  <2>1. v7' = v7
    BY <1>10 DEF Queue!TusUrlKnown, Queue!Transferred, Queue!Remove, Queue!ReAttach,
       Queue!DeferFile
  <2>2. f \in Queue!Slots(v1, v5) => f \in Queue!Slots(v1', v5')
    BY <1>1, <1>10 DEF Queue!TusUrlKnown, Queue!Transferred, Queue!Remove, Queue!ReAttach,
       Queue!DeferFile, Queue!Slots
  <2>3. Queue!Slots(v1, v5) \subseteq Queue!Slots(v1', v5')
    BY <1>4, <2>2 DEF Queue!Slots
  <2> QED
    BY <1>2, <1>3, <1>6, <1>7, <2>1, <2>3, NoStartFits
<1> QED
    BY <1>8, <1>9, <1>10

\* The drawer, the folder and the page.
LEMMA DrawerKeepsQueue ==
    ASSUME IsFiniteSet(Files), Queue!QueueInv,
           \/ Queue!DismissMime \/ Queue!DropFolder \/ Queue!FolderScanned \/ Queue!FolderRefused
           \/ Queue!Reload \/ Queue!Stage \/ Queue!CloseEmpty
    PROVE  Queue!QueueInv'
<1>1. /\ v1 \in [Files -> Queue!Statuses] /\ v5 \in [Files -> Queue!Runs] /\ v6 \in Seq(Files)
      /\ \A g \in Files : Queue!ItemFits(g, v1, v5, v6, v3, v4, v8)
    BY DEF Queue!QueueInv, Queue!QueueFits
<1>2. CASE Queue!DismissMime \/ Queue!DropFolder \/ Queue!FolderScanned \/ Queue!FolderRefused
  <2>1. UNCHANGED <<v1, v3, v4, v5, v6, v7>> /\ v8' \subseteq v8
    BY <1>2 DEF Queue!DismissMime, Queue!DropFolder, Queue!FolderScanned, Queue!FolderRefused
  <2>2. \A g \in Files : Queue!ItemFits(g, v1', v5', v6, v3', v4', v8')
    BY <1>1, <2>1 DEF Queue!ItemFits
  <2> QED
    BY <1>1, <2>1, <2>2, NoStartFits
<1>3. CASE Queue!Stage
  <2>1. /\ UNCHANGED <<v4, v5, v6, v7, v8>> /\ v3' \subseteq v3
        /\ v1' = [f \in Files |-> IF v1[f] = "done" THEN "absent" ELSE v1[f]]
    BY <1>3 DEF Queue!Stage
  <2>2. v1' \in [Files -> Queue!Statuses]
    BY <1>1, <2>1 DEF Queue!Statuses
  <2>3. \A g \in Files : Queue!ItemFits(g, v1', v5', v6, v3', v4', v8')
    BY <1>1, <2>1 DEF Queue!ItemFits
  <2>4. Queue!Slots(v1, v5) \subseteq Queue!Slots(v1', v5')
    BY <2>1 DEF Queue!Slots
  <2> QED
    BY <1>1, <2>1, <2>2, <2>3, <2>4, NoStartFits
<1>4. CASE Queue!Reload \/ Queue!CloseEmpty
  <2>1. v6' = <<>> /\ v6' \in Seq(Files) /\ v7' = 0
    <3>1. v6' = <<>> /\ v7' = 0
      BY <1>4 DEF Queue!Reload, Queue!CloseEmpty
    <3> QED
      BY <3>1
  <2>2. v1' \in [Files -> Queue!Statuses] /\ v5' \in [Files -> Queue!Runs]
    BY <1>1, <1>4 DEF Queue!Reload, Queue!CloseEmpty, Queue!Statuses, Queue!Runs
  <2>3. ASSUME NEW g \in Files
        PROVE  Queue!ItemFits(g, v1', v5', v6', v3', v4', v8')
    <3>1. Queue!ItemFits(g, v1, v5, v6, v3, v4, v8)
      BY <1>1
    <3>2. \A i \in 1..Len(v6') : FALSE
      BY <2>1
    <3>3. CASE Queue!Reload
      <4>1. /\ v1'[g] = IF v1[g] \in {"pending", "uploading", "paused"}
                        THEN IF g \in v2 THEN "paused" ELSE "error" ELSE v1[g]
            /\ g \in v4' => g \in v4 \/ v1[g] \in {"pending", "uploading", "paused"}
            /\ v3' = {} /\ v8' = {} /\ v5'[g] = "none"
        BY <3>3 DEF Queue!Reload, Queue!InFlight
      <4> QED
        BY <3>1, <3>2, <4>1 DEF Queue!ItemFits
    <3>4. CASE Queue!CloseEmpty
      <4>1. /\ v1[g] = "absent" /\ v1' = v1 /\ v4' = v4 /\ v8' = v8 /\ v3' = {}
            /\ v5'[g] = IF v5[g] = "none" THEN "none" ELSE "aborted"
        BY <3>4 DEF Queue!CloseEmpty, Queue!Listed
      <4> QED
        BY <3>1, <3>2, <4>1 DEF Queue!ItemFits
    <3> QED
      BY <1>4, <3>3, <3>4
  <2>4. v7' <= Queue!Cardinality(Queue!Slots(v1', v5'))
    <3>1. Queue!Slots(v1', v5') \subseteq Files
      BY DEF Queue!Slots
    <3>2. Cardinality(Queue!Slots(v1', v5')) \in Nat
      BY <3>1, SizesCompare
    <3> QED
      BY <2>1, <3>2, CountsAgree
  <2> QED
    BY <2>1, <2>2, <2>3, <2>4 DEF Queue!QueueInv, Queue!QueueFits
<1> QED
    BY <1>2, <1>3, <1>4

\* Every step of the engine keeps the invariant.
LEMMA QueueKept ==
    ASSUME IsFiniteSet(Files), Queue!QueueInv, [Queue!Next]_(Queue!queueVars)
    PROVE  Queue!QueueInv'
<1>1. CASE UNCHANGED Queue!queueVars
    BY <1>1 DEF Queue!queueVars, Queue!QueueInv
<1> QED
    BY <1>1, AdmissionsKeepQueue, EndsKeepQueue, ItemsKeepQueue, DrawerKeepsQueue DEF Queue!Next

\* A slot that is counted has its run.
LEMMA SlotsAreRuns == ASSUME IsFiniteSet(Files), Queue!QueueInv PROVE Queue!NoSlotIsLost
<1> DEFINE running == {f \in Files : v5[f] # "none"}
<1>1. Queue!Slots(v1, v5) \subseteq running /\ running \subseteq Files
    BY DEF Queue!Slots
<1>2. v7 \in Nat /\ v7 <= Cardinality(Queue!Slots(v1, v5))
    BY CountsAgree DEF Queue!QueueInv, Queue!QueueFits
<1>3. v7 <= Cardinality(running)
  <2> HIDE DEF running
  <2>1. Queue!Slots(v1, v5) \subseteq Files
    BY <1>1
  <2> QED
    BY <1>1, <1>2, <2>1, SizesCompare
<1> QED
    BY <1>3, CountsAgree DEF Queue!NoSlotIsLost

-----------------------------------------------------------------------------
(* PullRequestPages: v1 verdict, v2 undone, v5 detail, v6 dialog, v9 asked. *)

\* What a decision is at the server, what a page shows of it, and what is
\* said of one under way: none of them is about anything else.
LEMMA NothingDecided ==
    ASSUME Pulls!PullsInv, UNCHANGED <<v1, v2, v5, v6, v9>>
    PROVE  Pulls!PullsInv'
    BY DEF Pulls!PullsInv, Pulls!PullsFit, Pulls!ShownIsDecided, Pulls!DoneIsDecided

\* A page that has just been entered shows no decision.
LEMMA MountedShowsNothing ==
    ASSUME Pulls!PullsInv, NEW to, Pulls!Mount(to), UNCHANGED <<v1, v2>>
    PROVE  Pulls!PullsInv'
<1> USE DEF Pulls!PullsInv, Pulls!PullsFit
<1>1. v5' = Pulls!Blank("loading") /\ v6' = "none" /\ v9' = {[a EXCEPT !.mine = FALSE] : a \in v9}
    BY DEF Pulls!Mount
<1>2. v5' \in Pulls!Detail /\ Pulls!ShownIsDecided'
    BY <1>1 DEF Pulls!Blank, Pulls!Detail, Pulls!ShownIsDecided, Pulls!Verdicts
<1>3. v9' \in SUBSET Pulls!Asked /\ Pulls!DoneIsDecided'
    BY <1>1 DEF Pulls!Asked, Pulls!DoneIsDecided, Pulls!Status, Pulls!Decisions
<1> QED
    BY <1>1, <1>2, <1>3

\* The page shows what the server has when it is asked for.
LEMMA DetailIsServers ==
    ASSUME Pulls!PullsInv, Pulls!DetailAnswered
    PROVE  Pulls!PullsInv'
<1> USE DEF Pulls!PullsInv, Pulls!PullsFit
<1>1. UNCHANGED <<v1, v2, v6, v9>>
    BY DEF Pulls!DetailAnswered, Pulls!decisionVars
<1>2. v5' \in {Pulls!Blank("missing"),
               [status |-> v1, undone |-> v2, revertible |-> v1 = "approved" /\ ~v2]}
    BY DEF Pulls!DetailAnswered
<1>3. CASE v5' = Pulls!Blank("missing")
    BY <1>1, <1>3 DEF Pulls!Blank, Pulls!Detail, Pulls!ShownIsDecided, Pulls!DoneIsDecided,
       Pulls!Verdicts
<1>4. CASE v5' = [status |-> v1, undone |-> v2, revertible |-> v1 = "approved" /\ ~v2]
  <2> DEFINE may == v1 = "approved" /\ ~v2
  <2>1. may \in BOOLEAN
    BY Zenon
  <2>2. v5' = [status |-> v1, undone |-> v2, revertible |-> may]
    BY <1>4
  <2> HIDE DEF may
  <2> QED
    BY <1>1, <2>1, <2>2 DEF Pulls!Detail, Pulls!ShownIsDecided, Pulls!DoneIsDecided,
       Pulls!Verdicts
<1> QED
    BY <1>2, <1>3, <1>4

\* A decision that is sent is not done yet.
LEMMA SentIsNotDone ==
    ASSUME Pulls!PullsInv, NEW d \in Pulls!Decisions, Pulls!Send(d), UNCHANGED <<v1, v2, v5>>
    PROVE  Pulls!PullsInv'
<1> DEFINE new == [by |-> d, mine |-> TRUE, result |-> "sent"]
<1>1. new \in Pulls!Asked /\ new.result # "done"
    BY DEF Pulls!Asked
<1>2. v9' = v9 \cup {new} /\ v6' = "none"
    BY DEF Pulls!Send
<1> HIDE DEF new
<1> QED
    BY <1>1, <1>2 DEF Pulls!PullsInv, Pulls!PullsFit, Pulls!ShownIsDecided, Pulls!DoneIsDecided

\* A decision is made of a pull request that no other was made of, or reverts
\* one that was approved: what pages show stays true.
LEMMA DecidedOnce ==
    ASSUME Pulls!PullsInv, NEW d \in Pulls!Decisions, Pulls!Possible(d), Pulls!Decide(d)
    PROVE  /\ v1' \in Pulls!Verdicts /\ v2' \in BOOLEAN
           /\ v1' = Pulls!Status[d] /\ (d = "revert" => v2')
           /\ UNCHANGED <<v5, v6>> /\ Pulls!ShownIsDecided'
           /\ \A a \in v9 : a.result = "done" => v1' = Pulls!Status[a.by] /\ (a.by = "revert" => v2')
<1> USE DEF Pulls!PullsInv, Pulls!PullsFit
<1>1. v1' = Pulls!Status[d] /\ v2' = (v2 \/ d = "revert") /\ UNCHANGED <<v5, v6>>
    BY DEF Pulls!Decide
<1>2. v1 = "open" \/ (v1 = "approved" /\ d = "revert")
    BY DEF Pulls!Possible
<1>3. v1 = "open" \/ v1' = v1
    BY <1>1, <1>2 DEF Pulls!Status
<1>4. v1' \in Pulls!Verdicts
    BY <1>1 DEF Pulls!Status, Pulls!Verdicts, Pulls!Decisions
<1>8. v2' \in BOOLEAN
    BY <1>1, Zenon
<1>5. (v2 => v2') /\ (d = "revert" => v2')
    BY <1>1
<1>6. Pulls!ShownIsDecided'
    BY <1>1, <1>3, <1>5 DEF Pulls!ShownIsDecided
<1>7. ASSUME NEW a \in v9, a.result = "done"
      PROVE  v1' = Pulls!Status[a.by] /\ (a.by = "revert" => v2')
  <2>1. v1 = Pulls!Status[a.by] /\ (a.by = "revert" => v2) /\ a.by \in Pulls!Decisions
    BY <1>7 DEF Pulls!DoneIsDecided, Pulls!Asked
  <2>2. v1 # "open"
    BY <2>1 DEF Pulls!Status, Pulls!Decisions
  <2> QED
    BY <2>1, <2>2, <1>3, <1>5
<1> QED
    BY <1>1, <1>4, <1>5, <1>6, <1>7, <1>8

\* The server does what is possible, or refuses.
LEMMA ServedIsDecided ==
    ASSUME Pulls!PullsInv, NEW a \in v9, Pulls!Serve(a)
    PROVE  Pulls!PullsInv'
<1> USE DEF Pulls!PullsInv, Pulls!PullsFit
<1>1. a.by \in Pulls!Decisions /\ a \in Pulls!Asked
    BY DEF Pulls!Asked
<1>2. CASE /\ Pulls!Possible(a.by) /\ Pulls!Decide(a.by)
           /\ v9' = (v9 \ {a}) \cup {[a EXCEPT !.result = "done"]}
  <2>1. /\ v1' \in Pulls!Verdicts /\ v2' \in BOOLEAN /\ v1' = Pulls!Status[a.by] /\
               (a.by = "revert" => v2')
        /\ UNCHANGED <<v5, v6>> /\ Pulls!ShownIsDecided'
        /\ \A b \in v9 : b.result = "done" => v1' = Pulls!Status[b.by] /\ (b.by = "revert" => v2')
    BY <1>1, <1>2, DecidedOnce
  <2> DEFINE done == [a EXCEPT !.result = "done"]
  <2>2. done \in Pulls!Asked /\ done.by = a.by
    BY <1>1 DEF Pulls!Asked
  <2>3. v9' = (v9 \ {a}) \cup {done}
    BY <1>2
  <2> HIDE DEF done
  <2>4. Pulls!DoneIsDecided' /\ v9' \in SUBSET Pulls!Asked
    BY <2>1, <2>2, <2>3 DEF Pulls!DoneIsDecided
  <2> QED
    BY <2>1, <2>4
<1>3. CASE /\ v9' = (v9 \ {a}) \cup {[a EXCEPT !.result = "refused"]}
           /\ UNCHANGED <<v1, v2, v5, v6>>
    BY <1>1, <1>3 DEF Pulls!ShownIsDecided, Pulls!DoneIsDecided, Pulls!Asked
<1> QED
    BY <1>2, <1>3 DEF Pulls!Serve

\* A page shows as done what was answered to be done.
LEMMA AnsweredIsDecided ==
    ASSUME Pulls!PullsInv, NEW a \in v9, Pulls!DecisionAnswered(a)
    PROVE  Pulls!PullsInv'
<1> USE DEF Pulls!PullsInv, Pulls!PullsFit
<1>1. UNCHANGED <<v1, v2, v6>> /\ v9' = v9 \ {a} /\ v5' \in {v5, Pulls!Shown(a)}
    BY DEF Pulls!DecisionAnswered
<1>2. Pulls!DoneIsDecided' /\ v9' \in SUBSET Pulls!Asked
    BY <1>1 DEF Pulls!DoneIsDecided
<1>3. CASE v5' = v5
    BY <1>1, <1>2, <1>3 DEF Pulls!ShownIsDecided
<1>4. CASE v5' = Pulls!Shown(a) /\ a.result = "done"
  <2>1. a.by \in Pulls!Decisions /\ v1 = Pulls!Status[a.by] /\ (a.by = "revert" => v2)
    BY <1>4 DEF Pulls!Asked, Pulls!DoneIsDecided
  <2>2. CASE a.by = "revert"
    BY <1>1, <1>2, <1>4, <2>1, <2>2 DEF Pulls!Shown, Pulls!Detail, Pulls!ShownIsDecided
  <2>3. CASE a.by # "revert"
    <3>1. v5' = [v5 EXCEPT !.status = v1]
        BY <1>4, <2>1, <2>3 DEF Pulls!Shown
    <3> QED
        BY <1>1, <1>2, <3>1 DEF Pulls!Detail, Pulls!ShownIsDecided
  <2> QED
    BY <2>2, <2>3
<1> QED
    BY <1>1, <1>3, <1>4 DEF Pulls!Shown

\* No step of anybody's makes what a page shows false.
LEMMA PullsKept ==
    ASSUME Pulls!PullsInv, [Pulls!Next]_(Pulls!pullVars)
    PROVE  Pulls!PullsInv'
<1> USE DEF Pulls!decisionVars, Pulls!fileVars, Pulls!listVars
<1>1. CASE UNCHANGED Pulls!pullVars
    BY <1>1, NothingDecided DEF Pulls!pullVars
<1>2. ASSUME NEW q \in v13, Pulls!ReadList(q) \/ Pulls!ListAnswered(q) \/ Pulls!ListFails(q)
      PROVE  Pulls!PullsInv'
    BY <1>2, NothingDecided DEF Pulls!ReadList, Pulls!ListAnswered, Pulls!ListFails
<1>3. CASE Pulls!Hear \/ Pulls!SwitchTab \/ Pulls!RetryList \/ Pulls!ChangePage
    BY <1>3, NothingDecided DEF Pulls!Hear, Pulls!SwitchTab, Pulls!RetryList, Pulls!ChangePage,
       Pulls!ChooseList
<1>4. CASE Pulls!OpenCard \/ Pulls!LeavePreview \/ Pulls!OpenPreviewPage \/ Pulls!BackToList
    BY <1>4, MountedShowsNothing DEF Pulls!OpenCard, Pulls!LeavePreview, Pulls!OpenPreviewPage,
       Pulls!BackToList
<1>5. CASE Pulls!Approve
    BY <1>5, SentIsNotDone DEF Pulls!Approve, Pulls!Decisions
<1>6. CASE Pulls!Confirm
  <2>1. v6 \in Pulls!Decisions
    BY <1>6 DEF Pulls!Confirm, Pulls!PullsInv, Pulls!PullsFit
  <2> QED
    BY <1>6, <2>1, SentIsNotDone DEF Pulls!Confirm
<1>7. CASE Pulls!CloseDialog \/ \E d \in Pulls!Decisions \ {"approve"} : Pulls!OpenDialog(d)
    BY <1>7 DEF Pulls!CloseDialog, Pulls!OpenDialog, Pulls!PullsInv, Pulls!PullsFit,
       Pulls!ShownIsDecided, Pulls!DoneIsDecided
<1>8. ASSUME NEW d \in Pulls!Decisions, Pulls!OthersDecide(d)
      PROVE  Pulls!PullsInv'
    BY <1>8, DecidedOnce DEF Pulls!OthersDecide, Pulls!PullsInv, Pulls!PullsFit,
       Pulls!DoneIsDecided
<1>9. CASE Pulls!FillIn \/ Pulls!RowsFetched \/ Pulls!RowsPlaced \/ Pulls!AskPreview \/
               Pulls!PreviewNamed \/ Pulls!PreviewAnswered \/ Pulls!ClosePreview
    BY <1>9, NothingDecided DEF Pulls!FillIn, Pulls!RowsFetched, Pulls!RowsPlaced,
       Pulls!AskPreview, Pulls!PreviewNamed, Pulls!PreviewAnswered, Pulls!ClosePreview
<1> QED
    BY <1>1, <1>2, <1>3, <1>4, <1>5, <1>6, <1>7, <1>8, <1>9, DetailIsServers,
       AnsweredIsDecided, ServedIsDecided DEF Pulls!Next

\* What the pages of a pull request keep holds at the start.
LEMMA PullsStart == ASSUME Pulls!Init PROVE Pulls!PullsInv
<1>1. Pulls!Blank("loading") \in Pulls!Detail /\ ~Pulls!Blank("loading").undone
  BY DEF Pulls!Detail, Pulls!Blank
<1>2. Pulls!Blank("loading").status = "loading"
  BY DEF Pulls!Blank
<1>3. v1 = "open" /\ v2 = FALSE /\ v5 = Pulls!Blank("loading") /\ v6 = "none" /\ v9 = {}
  BY DEF Pulls!Init
<1>4. Pulls!PullsFit
  BY <1>1, <1>3 DEF Pulls!PullsFit, Pulls!Verdicts
<1>5. Pulls!ShownIsDecided
  BY <1>1, <1>2, <1>3 DEF Pulls!ShownIsDecided, Pulls!Verdicts
<1> QED
  BY <1>3, <1>4, <1>5 DEF Pulls!PullsInv, Pulls!DoneIsDecided

-----------------------------------------------------------------------------
(* PendingContributions: v1 status, v2 author, v3 user, v4 ownerId,        *)
(* v5 ghosts, v6 form, v8 posts, v9 events, v10 connecting, v11 checks,    *)
(* v12 unanswered.                                                         *)

\* Asking again puts a question about each of C that is not answered yet.
LEMMA Reconciled ==
    ASSUME MaxAsks \in Nat, v11 \subseteq Pending!Checks, NEW C \in SUBSET Submissions,
               Pending!reconcile(C)
    PROVE  /\ v11' \subseteq Pending!Checks /\ v11 \subseteq v11' /\ v12' = v12 \ C
           /\ \A c \in C : \E k \in v11' : k.of = c /\ k.read # "open"
<1> DEFINE K == Pending!Newly(C)
<1>1. \A k \in K : k \in Pending!Checks /\ k.read = "unread" /\ k.n \in Nat
  <2>1. ASSUME NEW c \in C, NEW n \in 1..MaxAsks
        PROVE  LET k == [of |-> c, read |-> "unread", n |-> n]
               IN  k \in Pending!Checks /\ k.read = "unread" /\ k.n \in Nat
    BY DEF Pending!Checks
  <2> QED
    BY <2>1 DEF Pending!Newly, Pending!Asked
<1>2. v11' = v11 \cup Pending!First(K) /\ v12' = v12 \ C /\ \A c \in C : \E k \in K : k.of = c
    BY DEF Pending!reconcile
<1> HIDE DEF K
<1>3. \A k \in Pending!First(K) : k \in K
    BY DEF Pending!First
<1>4. ASSUME NEW c \in C
      PROVE  \E k \in Pending!First(K) : k.of = c
  <2> DEFINE T == {n \in Nat : \E k \in K : k.of = c /\ k.n = n}
  <2>1. T \in SUBSET Nat /\ T # {}
    BY <1>1, <1>2
  <2>2. PICK n \in T : \A m \in T : n <= m
    <3> HIDE DEF T
    <3> QED
        BY <2>1, LeastNumber
  <2>3. PICK k \in K : k.of = c /\ k.n = n
    OBVIOUS
  <2>4. \A j \in K : j.of = k.of => k.n <= j.n
    BY <1>1, <2>2, <2>3
  <2> QED
    BY <2>3, <2>4 DEF Pending!First
<1> QED
    BY <1>1, <1>2, <1>3, <1>4

\* What of a step concerns the ghosts of the user's page: they are still
\* those of their owner, and what closed is about to go.
LEMMA NothingPending ==
    ASSUME Pending!PendingInv, UNCHANGED <<v1, v2, v3, v4, v5, v6, v8, v9, v10, v11, v12>>
    PROVE  Pending!PendingInv'
    BY DEF Pending!PendingInv, Pending!PendingFits, Pending!StoreIsItsOwners,
       Pending!PostsAreTheirAuthors, Pending!NoStaleGhost

\* The session, the stream, and all that asks again.
LEMMA PendingSession ==
    ASSUME MaxAsks \in Nat, Pending!PendingInv,
           \/ \E m \in Members : Pending!SessionStarts(m)
           \/ Pending!SessionEnds \/ Pending!Reload
    PROVE  Pending!PendingInv'
<1> USE DEF Pending!PendingInv, Pending!PendingFits, Pending!StoreIsItsOwners, Pending!Server,
       Pending!Store, Pending!Dialogs
<1>1. ASSUME NEW m \in Members, Pending!SessionStarts(m)
      PROVE  Pending!PendingInv'
  <2>1. /\ UNCHANGED <<v1, v2, v6, v8>> /\ v3' = m /\ v4' = m /\ v10' = TRUE
        /\ v5' = IF v4 = m THEN v5 ELSE {}
    BY <1>1 DEF Pending!SessionStarts, Pending!activateOwner
  <2>2. v5' \in SUBSET Submissions
    BY <2>1
  <2>3. v11' \subseteq Pending!Checks
    BY <1>1, <2>2, Reconciled DEF Pending!SessionStarts
  <2> QED
    BY <2>1, <2>2, <2>3 DEF Pending!PostsAreTheirAuthors, Pending!NoStaleGhost
<1>2. CASE Pending!SessionEnds
    BY <1>2 DEF Pending!SessionEnds, Pending!activateOwner, Pending!PostsAreTheirAuthors,
       Pending!NoStaleGhost
<1>3. CASE Pending!Reload
    BY <1>3 DEF Pending!Reload, Pending!PostsAreTheirAuthors, Pending!NoStaleGhost
<1> QED
    BY <1>1, <1>2, <1>3

\* An event names contributions, which are reconciled.
LEMMA PendingHeard ==
    ASSUME MaxAsks \in Nat, Pending!PendingInv,
           \/ Pending!Resync \/ Pending!onVisible \/ Pending!StreamBreaks
           \/ \E c \in Submissions : Pending!resolvePendingContributionEvent(c)
    PROVE  Pending!PendingInv'
<1> USE DEF Pending!PendingInv, Pending!PendingFits, Pending!Server, Pending!Store,
       Pending!Dialogs
<1>1. CASE Pending!StreamBreaks
    BY <1>1 DEF Pending!StreamBreaks, Pending!StoreIsItsOwners, Pending!PostsAreTheirAuthors,
       Pending!NoStaleGhost
<1>2. CASE \/ Pending!Resync \/ Pending!onVisible
           \/ \E c \in Submissions : Pending!resolvePendingContributionEvent(c)
  <2>1. UNCHANGED <<v1, v2, v3, v4, v6, v8>> /\ v5' \subseteq v5 /\ v5' \in SUBSET Submissions
    BY <1>2 DEF Pending!Resync, Pending!onVisible, Pending!resolvePendingContributionEvent
  <2>2. Pending!reconcile(v5')
    BY <1>2 DEF Pending!Resync, Pending!onVisible, Pending!resolvePendingContributionEvent
  <2>3. v11' \subseteq Pending!Checks /\ \A c \in v5' : \E k \in v11' : k.of = c /\ k.read # "open"
    BY <2>1, <2>2, Reconciled
  <2>4. Pending!NoStaleGhost'
    BY <2>3 DEF Pending!NoStaleGhost
  <2> QED
    BY <2>1, <2>3, <2>4 DEF Pending!StoreIsItsOwners, Pending!PostsAreTheirAuthors
<1> QED
    BY <1>1, <1>2

\* An answer that says open was read before what closed it is told of.
LEMMA PendingChecked ==
    ASSUME Pending!PendingInv, NEW k \in v11,
           Pending!CheckIsRead(k) \/ Pending!reconcilePendingContribution(k) \/ Pending!CheckFails(k)
    PROVE  Pending!PendingInv'
<1> USE DEF Pending!PendingInv, Pending!PendingFits, Pending!Server, Pending!Store,
       Pending!Stream, Pending!Dialogs
<1>1. CASE Pending!CheckIsRead(k)
  <2> DEFINE read == IF v1[k.of] = "open" THEN "open" ELSE "closed"
             j == [k EXCEPT !.read = read]
  <2>1. j \in Pending!Checks /\ j.of = k.of /\ j.read = read
    BY DEF Pending!Checks
  <2>2. v11' = (v11 \ {k}) \cup {j} /\ UNCHANGED <<v1, v2, v3, v4, v5, v6, v8, v9, v10, v12>>
    BY <1>1 DEF Pending!CheckIsRead
  <2>3. v1[k.of] = "closed" => j.read # "open"
    BY <2>1
  <2> HIDE DEF j
  <2>4. Pending!NoStaleGhost'
    BY <2>1, <2>2, <2>3 DEF Pending!NoStaleGhost
  <2> QED
    BY <2>1, <2>2, <2>4 DEF Pending!StoreIsItsOwners, Pending!PostsAreTheirAuthors
<1>2. CASE Pending!reconcilePendingContribution(k)
  <2>1. UNCHANGED <<v1, v2, v3, v4, v6, v8, v9, v10, v12>> /\ v11' = v11 \ {k} /\ v5' \subseteq v5
    BY <1>2 DEF Pending!reconcilePendingContribution
  <2>2. k.read = "open" \/ k.of \notin v5'
    BY <1>2 DEF Pending!reconcilePendingContribution
  <2>3. Pending!NoStaleGhost'
    BY <2>1, <2>2 DEF Pending!NoStaleGhost
  <2> QED
    BY <2>1, <2>3 DEF Pending!StoreIsItsOwners, Pending!PostsAreTheirAuthors
<1>3. CASE Pending!CheckFails(k)
    BY <1>3 DEF Pending!CheckFails, Pending!StoreIsItsOwners, Pending!PostsAreTheirAuthors,
       Pending!NoStaleGhost
<1> QED
    BY <1>1, <1>2, <1>3

\* A submission is its author's, and its ghost is asked about.
LEMMA SubmissionSent ==
    ASSUME Pending!PendingInv, Pending!submitDirectOperations
    PROVE  Pending!PendingInv'
<1> USE DEF Pending!PendingInv, Pending!PendingFits, Pending!Server, Pending!Store,
       Pending!Stream, Pending!Dialogs
<1>1. PICK to \in {"open", "approved"} :
         v8' = v8 \cup {[of |-> "unsent", form |-> v6, who |-> v3, to |-> to]}
    BY DEF Pending!submitDirectOperations
<1> DEFINE p == [of |-> "unsent", form |-> v6, who |-> v3, to |-> to]
<1>2. v3 \in Members /\ v3 # Pending!Nobody
    BY DEF Pending!submitDirectOperations
<1>3. p.of = "unsent" /\ p.who = v3 /\ UNCHANGED <<v1, v2, v3, v4, v5, v6, v9, v10, v11, v12>>
    BY DEF Pending!submitDirectOperations
<1>4. p \in Pending!Posts
    BY <1>2 DEF Pending!Posts, Pending!submitDirectOperations
<1>5. v8' = v8 \cup {p}
    BY <1>1
<1> HIDE DEF p
<1> QED
    BY <1>2, <1>3, <1>4, <1>5 DEF Pending!StoreIsItsOwners, Pending!PostsAreTheirAuthors,
       Pending!NoStaleGhost

\* The server creates what was submitted.
LEMMA SubmissionCreated ==
    ASSUME Pending!PendingInv, NEW p \in v8, NEW c \in Submissions, Pending!Created(p, c)
    PROVE  Pending!PendingInv'
<1> USE DEF Pending!PendingInv, Pending!PendingFits, Pending!Server, Pending!Store,
       Pending!Stream, Pending!Dialogs
<1> DEFINE to == IF p.to = "open" THEN "open" ELSE "closed"
           q == [p EXCEPT !.of = c]
<1>1. q \in Pending!Posts /\ q.of = c /\ q.who = p.who /\ p.who \in Members
    BY DEF Pending!Posts
<1>2. /\ v1[c] = "none" /\ v1' = [v1 EXCEPT ![c] = to] /\ v2' = [v2 EXCEPT ![c] = p.who]
      /\ v8' = (v8 \ {p}) \cup {q} /\ UNCHANGED <<v3, v4, v5, v6, v9, v10, v11, v12>>
    BY DEF Pending!Created
<1>3. to \in {"open", "closed"}
    OBVIOUS
<1> HIDE DEF to, q
<1>4. /\ v1' \in [Submissions -> {"none", "open", "closed"}] /\ v2' \in
             [Submissions -> Members \cup {Pending!Nobody}]
      /\ v1'[c] # "none" /\ v2'[c] = p.who
      /\ \A d : d # c => v1'[d] = v1[d] /\ v2'[d] = v2[d]
    BY <1>1, <1>2, <1>3
<1>5. c \notin v5
    BY <1>2 DEF Pending!StoreIsItsOwners
<1>6. Pending!StoreIsItsOwners'
    BY <1>2, <1>4, <1>5 DEF Pending!StoreIsItsOwners
<1>7. ASSUME NEW r \in v8'
      PROVE  r.who # Pending!Nobody /\ (r.of # "unsent" => v2'[r.of] = r.who /\ v1'[r.of] # "none")
  <2>1. CASE r = q
    BY <1>1, <1>4, <2>1 DEF Pending!PostsAreTheirAuthors
  <2>2. CASE r \in v8
    BY <1>2, <1>4, <2>2 DEF Pending!PostsAreTheirAuthors
  <2> QED
    BY <1>2, <2>1, <2>2
<1>8. Pending!NoStaleGhost'
    BY <1>2, <1>4, <1>5 DEF Pending!NoStaleGhost
<1> QED
    BY <1>1, <1>2, <1>4, <1>6, <1>7, <1>8 DEF Pending!PostsAreTheirAuthors

\* The answer reaches the form, or is lost.
LEMMA SubmissionAnswered ==
    ASSUME MaxAsks \in Nat, Pending!PendingInv, NEW p \in v8,
           Pending!reconcileSubmittedOperations(p) \/ Pending!SubmissionFails(p)
    PROVE  Pending!PendingInv'
<1> USE DEF Pending!PendingInv, Pending!PendingFits, Pending!Server, Pending!Store,
       Pending!Stream, Pending!Dialogs
<1>1. UNCHANGED <<v1, v2, v3, v9, v10>> /\ v8' = v8 \ {p} /\ v6' \in {v6, "none"}
    BY DEF Pending!reconcileSubmittedOperations, Pending!SubmissionFails, Pending!Finished
<1>2. CASE UNCHANGED <<v4, v5, v11, v12>>
    BY <1>1, <1>2 DEF Pending!StoreIsItsOwners, Pending!PostsAreTheirAuthors,
       Pending!NoStaleGhost
<1>3. CASE /\ p.of # "unsent" /\ p.who = v3 /\ v4' = v3
           /\ v5' = (IF v4 = v3 THEN v5 ELSE {}) \cup {p.of} /\ Pending!reconcile({p.of})
  <2> DEFINE C == {p.of}
  <2>1. v2[p.of] = v3 /\ v1[p.of] # "none" /\ v3 # Pending!Nobody /\ p.of \in Submissions
    BY <1>3 DEF Pending!PostsAreTheirAuthors, Pending!Posts
  <2>2. C \in SUBSET Submissions /\ Pending!reconcile(C)
    BY <1>3, <2>1
  <2>3. /\ v11' \subseteq Pending!Checks /\ v11 \subseteq v11' /\ v12' = v12 \ C
        /\ \A c \in C : \E k \in v11' : k.of = c /\ k.read # "open"
    <3> HIDE DEF C
    <3> QED
        BY <2>2, Reconciled
  <2>4. v4 = v3
    BY <2>1 DEF Pending!StoreIsItsOwners
  <2>5. v5' = v5 \cup {p.of}
    BY <1>3, <2>4
  <2>6. Pending!NoStaleGhost'
    BY <1>1, <2>1, <2>3, <2>5 DEF Pending!NoStaleGhost
  <2>7. Pending!StoreIsItsOwners'
    BY <1>1, <1>3, <2>1, <2>4, <2>5 DEF Pending!StoreIsItsOwners
  <2> QED
    BY <1>1, <2>1, <2>3, <2>5, <2>6, <2>7 DEF Pending!PostsAreTheirAuthors
<1> QED
    BY <1>2, <1>3 DEF Pending!reconcileSubmittedOperations, Pending!SubmissionFails

\* What closes is told of, unless a snapshot is still to come.
LEMMA SubmissionClosed ==
    ASSUME Pending!PendingInv, NEW c \in Submissions, Pending!Closed(c)
    PROVE  Pending!PendingInv'
<1> USE DEF Pending!PendingInv, Pending!PendingFits, Pending!Server, Pending!Store,
       Pending!Stream, Pending!Dialogs
<1>1. /\ v1[c] = "open" /\ v1' = [v1 EXCEPT ![c] = "closed"] /\
             UNCHANGED <<v2, v3, v4, v5, v6, v8, v10, v11, v12>>
      /\ v9' = IF v3 = Pending!Nobody \/ v10 THEN v9 ELSE v9 \cup {c}
    BY DEF Pending!Closed
<1>2. /\ v1' \in [Submissions -> {"none", "open", "closed"}] /\ v1'[c] # "none"
      /\ \A d : d # c => v1'[d] = v1[d]
    BY <1>1
<1>3. Pending!NoStaleGhost'
    BY <1>1, <1>2 DEF Pending!NoStaleGhost
<1>4. Pending!StoreIsItsOwners' /\ Pending!PostsAreTheirAuthors'
    BY <1>1, <1>2, BoundsAreNumbers DEF Pending!StoreIsItsOwners, Pending!PostsAreTheirAuthors
<1> QED
    BY <1>1, <1>2, <1>3, <1>4

\* Every step keeps the invariant of what is pending.
LEMMA PendingKept ==
    ASSUME MaxAsks \in Nat, Pending!PendingInv, [Pending!Next]_(Pending!pendingVars)
    PROVE  Pending!PendingInv'
<1>1. CASE UNCHANGED Pending!pendingVars
    BY <1>1, NothingPending DEF Pending!pendingVars
<1>2. CASE Pending!goBack \/ \E c \in Submissions : Pending!enterGhostDir(c)
    BY <1>2, NothingPending DEF Pending!goBack, Pending!enterGhostDir, Pending!Server,
       Pending!Store, Pending!Stream
<1>3. CASE Pending!CloseForm \/ \E f \in FormKinds : Pending!OpenForm(f)
    BY <1>3, BoundsAreNumbers DEF Pending!CloseForm, Pending!OpenForm, Pending!Server,
       Pending!Store, Pending!Stream, Pending!PendingInv, Pending!PendingFits,
       Pending!StoreIsItsOwners, Pending!PostsAreTheirAuthors, Pending!NoStaleGhost
<1> QED
    BY <1>1, <1>2, <1>3, PendingSession, PendingHeard, PendingChecked, SubmissionSent,
       SubmissionCreated, SubmissionAnswered, SubmissionClosed DEF Pending!Next

-----------------------------------------------------------------------------
(* EventStream: v1 subs, v2 leader, v3 snapshots, v4 source, v5 url,       *)
(* v6 due, v7 polling, v8 wire, v9 mail, v10 current.                      *)

\* What a message between tabs may be.
LEMMA KindsOfNotes ==
    ASSUME NEW m \in Events!Notes
    PROVE  /\ m.kind \in {"resync", "snapshot_request", "event", "snapshot"}
           /\ m.kind = "snapshot" => m.sender \in Tabs /\ m.channels \in SUBSET Events!Channels
<1>1. m.kind \in {"resync", "snapshot_request", "event", "snapshot"}
    BY DEF Events!Notes
<1>2. m.kind = "snapshot" => m.sender \in Tabs /\ m.channels \in SUBSET Events!Channels
    BY DEF Events!Notes
<1> QED
    BY <1>1, <1>2

\* Two of the messages.
LEMMA NotesToTell ==
    /\ [kind |-> "resync"] \in Events!Notes
    /\ \A c \in Events!Channels : [kind |-> "event", channel |-> c] \in Events!Notes
    BY DEF Events!Notes

\* Messages are notes, and a list of them is too.
LEMMA MessagesFit ==
    ASSUME NEW t \in Tabs, NEW own \in SUBSET Events!Channels
    PROVE  /\ Events!Snapshot(t, own) \in Events!Notes
           /\ [kind |-> "resync"] \in Events!Notes /\ [kind |-> "snapshot_request"] \in Events!Notes
           /\ \A c \in Events!Channels : [kind |-> "event", channel |-> c] \in Events!Notes
           /\ \A m, n \in Events!Notes : <<m>> \in Seq(Events!Notes) /\ <<m, n>> \in Seq(Events!Notes)
<1>1. Events!Snapshot(t, own) \in Events!Notes
    BY DEF Events!Snapshot, Events!Notes
<1>2. [kind |-> "resync"] \in Events!Notes /\ [kind |-> "snapshot_request"] \in Events!Notes
    BY DEF Events!Notes
<1>3. \A c \in Events!Channels : [kind |-> "event", channel |-> c] \in Events!Notes
    BY DEF Events!Notes
<1>4. \A m, n \in Events!Notes : <<m>> \in Seq(Events!Notes) /\ <<m, n>> \in Seq(Events!Notes)
    OBVIOUS
<1> QED
    BY <1>1, <1>2, <1>3, <1>4

\* What a list tells is told by a longer one.
LEMMA LongerTells ==
    ASSUME NEW q \in Seq(Events!Notes), NEW r \in Seq(Events!Notes)
    PROVE  /\ q \o r \in Seq(Events!Notes)
           /\ \A c : Events!Tells(q, c) \/ Events!Tells(r, c) => Events!Tells(q \o r, c)
<1>1. q \o r \in Seq(Events!Notes) /\ Len(q \o r) = Len(q) + Len(r)
    OBVIOUS
<1>2. \A i \in DOMAIN q : i \in DOMAIN (q \o r) /\ (q \o r)[i] = q[i]
    OBVIOUS
<1>3. \A i \in DOMAIN r : Len(q) + i \in DOMAIN (q \o r) /\ (q \o r)[Len(q) + i] = r[i]
    OBVIOUS
<1> QED
    BY <1>1, <1>2, <1>3 DEF Events!Tells

\* A message put at the end of a queue tells no less.
LEMMA AppendTells ==
    ASSUME NEW q \in Seq(Events!Notes), NEW m \in Events!Notes
    PROVE  /\ Append(q, m) \in Seq(Events!Notes)
           /\ \A c : Events!Tells(q, c) => Events!Tells(Append(q, m), c)
<1>1. \A i \in DOMAIN q : i \in DOMAIN Append(q, m) /\ Append(q, m)[i] = q[i]
    OBVIOUS
<1> QED
    BY <1>1 DEF Events!Tells

\* What the first message does not tell, the others do.
LEMMA TailTells ==
    ASSUME NEW q \in Seq(Events!Notes), q # <<>>
    PROVE  /\ Head(q) \in Events!Notes /\ Tail(q) \in Seq(Events!Notes)
           /\ \A c : Events!Tells(q, c) =>
                 \/ Head(q).kind = "resync"
                 \/ Head(q).kind = "event" /\ Head(q).channel = c
                 \/ Events!Tells(Tail(q), c)
<1>1. Head(q) = q[1] /\ Head(q) \in Events!Notes /\ Tail(q) \in Seq(Events!Notes)
    OBVIOUS
<1>2. \A i \in DOMAIN q : i = 1 \/ (i - 1 \in DOMAIN Tail(q) /\ Tail(q)[i - 1] = q[i])
    OBVIOUS
<1> QED
    BY <1>1, <1>2 DEF Events!Tells

\* Messages reach every other tab that is open, after those it has.
LEMMA MessagesReach ==
    ASSUME Events!StreamFits, NEW t, NEW ms \in Seq(Events!Notes), Events!Broadcast(t, ms)
    PROVE  /\ v9' \in [Tabs -> Seq(Events!Notes)]
           /\ \A p \in Tabs : \A c : Events!Tells(v9[p], c) => Events!Tells(v9'[p], c)
           /\ \A p \in Tabs : \A c : p # t /\ Events!Open(p) /\ Events!Tells(ms, c) =>
                  Events!Tells(v9'[p], c)
<1>1. \A p \in Tabs : v9[p] \in Seq(Events!Notes)
    BY DEF Events!StreamFits
<1>2. v9' = [p \in Tabs |-> IF p # t /\ Events!Open(p) THEN v9[p] \o ms ELSE v9[p]]
    BY DEF Events!Broadcast
<1>3. \A p \in Tabs : v9[p] \o ms \in Seq(Events!Notes)
    BY <1>1, LongerTells
<1>4. \A p \in Tabs : \A c : Events!Tells(v9[p], c) \/ Events!Tells(ms, c) => Events!Tells(v9[p] \o ms, c)
    BY <1>1, LongerTells
<1> QED
    BY <1>1, <1>2, <1>3, <1>4

\* Only the leader's refresh touches the stream, and one that stays open has
\* the topics that are wanted.
LEMMA StreamRefreshed ==
    ASSUME Events!StreamFits, NEW t \in Tabs, NEW own, NEW known, Events!ConnectionRefresh(t, own, known)
    PROVE  /\ v4' \in Events!Sources /\ v6' \in BOOLEAN
           /\ v2 # t => UNCHANGED <<v4, v5, v6, v8>> /\ (v2 \in v7 => v2 \in v7')
           /\ v4' # "none" => UNCHANGED <<v4, v5, v8>>
           /\ v2 = t /\ v4' # "none" => v5' = Events!MasterTopics(Events!Wanted(t, own, known))
           /\ Events!Cardinality(Events!Wanted(t, own, known) \cap Topics) > MaxTopics => t \in v7'
<1>1. v4' \in Events!Sources /\ v6' \in BOOLEAN
    BY DEF Events!ConnectionRefresh, Events!StreamFits, Events!Sources
<1>2. /\ v2 # t => UNCHANGED <<v4, v5, v6, v8>>
      /\ v4' # "none" => UNCHANGED <<v4, v5, v8>>
      /\ v2 = t /\ v4' # "none" => v5' = Events!MasterTopics(Events!Wanted(t, own, known))
    BY DEF Events!ConnectionRefresh
<1>3. /\ v2 # t /\ v2 \in v7 => v2 \in v7'
      /\ Events!Cardinality(Events!Wanted(t, own, known) \cap Topics) > MaxTopics => t \in v7'
    BY DEF Events!ConnectionRefresh, Events!OverflowResync
<1> QED
    BY <1>1, <1>2, <1>3

\* A step that brings nothing new leaves nothing untold.
LEMMA StillTold ==
    ASSUME Events!OldIsTold,
           v4' = "open" => v4 = "open" /\ v5' = v5 /\ v8 \subseteq v8' /\ v2' = v2,
           \A t \in Tabs : \A c \in v1'[t] :
              \/ c \in v10'[t]
              \/ /\ c \in v1[t] /\ c \notin v10[t]
                 /\ t # v2 /\ Events!Tells(v9[t], c) => Events!Tells(v9'[t], c)
    PROVE  Events!OldIsTold'
    BY DEF Events!OldIsTold

\* The leader's stream and timer follow what it knows, whoever refreshes.
LEMMA KnownIsFollowed ==
    ASSUME "none" \notin Tabs, Events!StreamFits, Events!StreamIsLeaders, Events!UrlIsKnown,
               Events!OverflowIsTended,
           NEW t \in Tabs, Events!ConnectionRefresh(t, v1'[t], v3'[t]), v2' = v2,
           \A p \in Tabs \ {t} : v1'[p] = v1[p] /\ v3'[p] = v3[p]
    PROVE  /\ v4' \in Events!Sources /\ v6' \in BOOLEAN
           /\ Events!UrlIsKnown' /\ Events!OverflowIsTended'
           /\ v4' = "open" => v4 = "open" /\ v5' = v5 /\ v8 \subseteq v8' /\ v2' = v2
           /\ v2 = "none" => v4' = "none" /\ ~v6'
<1> DEFINE own == v1'[t]
           known == v3'[t]
<1>1. Events!ConnectionRefresh(t, own, known)
    OBVIOUS
<1> HIDE DEF own, known
<1>2. /\ v4' \in Events!Sources /\ v6' \in BOOLEAN
      /\ v2 # t => UNCHANGED <<v4, v5, v6, v8>> /\ (v2 \in v7 => v2 \in v7')
      /\ v4' # "none" => UNCHANGED <<v4, v5, v8>>
      /\ v2 = t /\ v4' # "none" => v5' = Events!MasterTopics(Events!Wanted(t, own, known))
      /\ Events!Cardinality(Events!Wanted(t, own, known) \cap Topics) > MaxTopics => t \in v7'
    BY <1>1, StreamRefreshed
<1>3. CASE v2 = t
  <2>1. Events!Known' = Events!Wanted(t, own, known)
    BY <1>3 DEF own, known, Events!Known, Events!Wanted
  <2>2. Events!UrlIsKnown'
    BY <1>2, <1>3, <2>1 DEF Events!UrlIsKnown, Events!MasterTopics
  <2>3. Events!OverflowIsTended'
    BY <1>2, <1>3, <2>1 DEF Events!OverflowIsTended
  <2> QED
    BY <1>2, <1>3, <2>2, <2>3
<1>4. CASE v2 # t /\ v2 \in Tabs
  <2>1. Events!Known' = Events!Known
    BY <1>4 DEF Events!Known, Events!Wanted
  <2>2. Events!UrlIsKnown'
    BY <1>2, <1>4, <2>1 DEF Events!UrlIsKnown, Events!MasterTopics
  <2>3. Events!OverflowIsTended'
    BY <1>2, <1>4, <2>1 DEF Events!OverflowIsTended
  <2> QED
    BY <1>2, <1>4, <2>2, <2>3
<1>5. CASE v2 = "none"
    BY <1>2, <1>5 DEF Events!StreamIsLeaders, Events!UrlIsKnown, Events!OverflowIsTended
<1> QED
    BY <1>2, <1>3, <1>4, <1>5 DEF Events!StreamFits

\* Nothing of the stream changes, and no more is known.
LEMMA KnownStays ==
    ASSUME Events!UrlIsKnown, Events!OverflowIsTended, UNCHANGED <<v2, v4, v5>>, v7 \subseteq v7',
           v1'[v2] = v1[v2], v3'[v2] = v3[v2]
    PROVE  Events!UrlIsKnown' /\ Events!OverflowIsTended'
<1>1. Events!Known' = Events!Known
    BY DEF Events!Known, Events!Wanted
<1> QED
    BY <1>1 DEF Events!UrlIsKnown, Events!OverflowIsTended, Events!MasterTopics

\* A tab opens.
LEMMA TabOpens ==
    ASSUME "none" \notin Tabs, Events!StreamInv, NEW t \in Tabs, Events!OpenTab(t)
    PROVE  Events!StreamInv'
<1> USE DEF Events!StreamInv, Events!StreamFits
<1>1. /\ v1' = [v1 EXCEPT ![t] = {Plain}] /\ v10' = [v10 EXCEPT ![t] = {Plain}]
      /\ UNCHANGED <<v2, v3, v4, v5, v6, v7, v8>> /\ ~Events!Open(t)
    BY DEF Events!OpenTab
<1>2. v2 # t
    BY <1>1 DEF Events!StreamIsLeaders
<1>3. {} \in SUBSET Events!Channels /\ {Plain} \in SUBSET Events!Channels
    BY DEF Events!Channels
<1>4. <<Events!Snapshot(t, {}), Events!Snapshot(t, {Plain})>> \in Seq(Events!Notes)
    BY <1>3, MessagesFit
<1>5. v9' \in [Tabs -> Seq(Events!Notes)] /\ \A p \in Tabs : \A c : Events!Tells(v9[p], c) =>
          Events!Tells(v9'[p], c)
    BY <1>4, MessagesReach DEF Events!OpenTab
<1>6. Events!StreamFits'
    BY <1>1, <1>3, <1>5
<1>7. Events!StreamIsLeaders'
    BY <1>1, <1>2 DEF Events!StreamIsLeaders, Events!Open
<1>8. Events!UrlIsKnown' /\ Events!OverflowIsTended'
  <2>1. CASE v2 \in Tabs
    BY <1>1, <1>2, <2>1, KnownStays
  <2>2. CASE v2 = "none"
    BY <1>1, <2>2 DEF Events!StreamIsLeaders, Events!UrlIsKnown, Events!OverflowIsTended
  <2> QED
    BY <2>1, <2>2
<1>9. Events!OldIsTold'
    BY <1>1, <1>5, StillTold
<1> QED
    BY <1>6, <1>7, <1>8, <1>9

\* A page that is opened or left.
LEMMA TabSubscribes ==
    ASSUME "none" \notin Tabs, Events!StreamInv, NEW t \in Tabs, NEW c \in Topics,
           Events!Subscribe(t, c) \/ Events!Unsubscribe(t, c)
    PROVE  Events!StreamInv'
<1> USE DEF Events!StreamInv, Events!StreamFits
<1> DEFINE own == IF c \in v1[t] THEN v1[t] \ {c} ELSE v1[t] \cup {c}
           now == IF c \in v1[t] THEN v10[t] \ {c} ELSE v10[t] \cup {c}
<1>1. /\ v1' = [v1 EXCEPT ![t] = own] /\ v10' = [v10 EXCEPT ![t] = now] /\ UNCHANGED <<v2, v3>>
      /\ Events!Broadcast(t, <<Events!Snapshot(t, own)>>) /\ Events!ConnectionRefresh(t, own, v3[t])
      /\ Plain \in own
    BY DEF Events!Subscribe, Events!Unsubscribe, Events!Open, Events!StreamIsLeaders
<1>2. own \in SUBSET Events!Channels /\ now \in SUBSET Events!Channels
    BY DEF Events!Channels
<1>3. \A d \in own : d \in now \/ (d \in v1[t] /\ d \notin v10[t])
    OBVIOUS
<1> HIDE DEF own, now
<1>4. <<Events!Snapshot(t, own)>> \in Seq(Events!Notes)
    BY <1>2, MessagesFit
<1>5. v9' \in [Tabs -> Seq(Events!Notes)] /\ \A p \in Tabs : \A d : Events!Tells(v9[p], d) =>
          Events!Tells(v9'[p], d)
    BY <1>1, <1>4, MessagesReach
<1>6. v1'[t] = own /\ v3'[t] = v3[t] /\ \A p \in Tabs \ {t} : v1'[p] = v1[p] /\ v3'[p] = v3[p]
    BY <1>1
<1>7. Events!ConnectionRefresh(t, v1'[t], v3'[t])
    BY <1>1, <1>6
<1>8. /\ v4' \in Events!Sources /\ v6' \in BOOLEAN
      /\ Events!UrlIsKnown' /\ Events!OverflowIsTended'
      /\ v4' = "open" => v4 = "open" /\ v5' = v5 /\ v8 \subseteq v8' /\ v2' = v2
      /\ v2 = "none" => v4' = "none" /\ ~v6'
    BY <1>1, <1>6, <1>7, KnownIsFollowed
<1>9. Events!StreamFits'
    BY <1>1, <1>2, <1>5, <1>8
<1>10. Events!StreamIsLeaders'
    BY <1>1, <1>6, <1>8 DEF Events!StreamIsLeaders, Events!Open
<1>11. \A p \in Tabs : \A d \in v1'[p] :
          \/ d \in v10'[p]
          \/ d \in v1[p] /\ d \notin v10[p]
    BY <1>1, <1>3
<1>12. Events!OldIsTold'
    BY <1>5, <1>8, <1>11, StillTold
<1> QED
    BY <1>8, <1>9, <1>10, <1>12

\* A tab closes, and its subscriptions with it.
LEMMA TabCloses ==
    ASSUME "none" \notin Tabs, Events!StreamInv, NEW t \in Tabs, Events!CloseTab(t)
    PROVE  Events!StreamInv'
<1> USE DEF Events!StreamInv, Events!StreamFits
<1>1. /\ v1' = [v1 EXCEPT ![t] = {}] /\ v10' = [v10 EXCEPT ![t] = {}]
      /\ v3' = [v3 EXCEPT ![t] = [p \in Tabs |-> {}]] /\ v9' = [v9 EXCEPT ![t] = <<>>] /\ v7' = v7 \ {t}
      /\ v2 = t => v2' = "none" /\ v4' = "none" /\ v6' = FALSE
      /\ v2 # t => UNCHANGED <<v2, v4, v5, v6, v8>>
    BY DEF Events!CloseTab
<1>2. <<>> \in Seq(Events!Notes) /\ [p \in Tabs |-> {}] \in [Tabs -> SUBSET Events!Channels]
    OBVIOUS
<1>3. v3' \in [Tabs -> [Tabs -> SUBSET Events!Channels]] /\ v9' \in [Tabs -> Seq(Events!Notes)]
    BY <1>1, <1>2
<1>4. Events!StreamFits'
    BY <1>1, <1>3 DEF Events!Sources
<1>5. Events!StreamIsLeaders'
    BY <1>1 DEF Events!StreamIsLeaders, Events!Open
<1>6. Events!UrlIsKnown' /\ Events!OverflowIsTended'
  <2>1. CASE v2 = t
    BY <1>1, <2>1 DEF Events!UrlIsKnown, Events!OverflowIsTended
  <2>2. CASE v2 # t /\ v2 \in Tabs
    <3>1. Events!Known' = Events!Known
        BY <1>1, <2>2 DEF Events!Known, Events!Wanted
    <3> QED
        BY <1>1, <2>2, <3>1 DEF Events!UrlIsKnown, Events!OverflowIsTended, Events!MasterTopics
  <2>3. CASE v2 = "none"
    BY <1>1, <2>3 DEF Events!StreamIsLeaders, Events!UrlIsKnown, Events!OverflowIsTended
  <2> QED
    BY <2>1, <2>2, <2>3
<1>7. \A p \in Tabs : \A d \in v1'[p] : p # t /\ v1'[p] = v1[p] /\ v10'[p] = v10[p] /\ v9'[p] = v9[p]
    BY <1>1
<1>8. Events!OldIsTold'
    BY <1>1, <1>7, StillTold
<1> QED
    BY <1>4, <1>5, <1>6, <1>8

\* A new leader has no stream yet, and counts the topics it knows of.
LEMMA LeaderElected ==
    ASSUME "none" \notin Tabs, Events!StreamInv, NEW t \in Tabs, Events!Elected(t)
    PROVE  Events!StreamInv'
<1> USE DEF Events!StreamInv, Events!StreamFits
<1> DEFINE wanted == v1[t] \cup UNION {v3[t][p] : p \in Tabs \ {t}}
<1>1. /\ v2 = "none" /\ v2' = t /\ v6' = TRUE /\ Events!Open(t) /\ UNCHANGED <<v1, v3, v4, v5, v8, v10>>
      /\ Events!Broadcast(t, <<[kind |-> "snapshot_request"], Events!Snapshot(t, v1[t])>>)
      /\ Events!OverflowResync(t, wanted)
    BY DEF Events!Elected
<1>2. v4' = "none"
    BY <1>1 DEF Events!StreamIsLeaders
<1>3. Events!Known' = wanted
    BY <1>1 DEF Events!Known, Events!Wanted
<1> HIDE DEF wanted
<1>4. <<[kind |-> "snapshot_request"], Events!Snapshot(t, v1[t])>> \in Seq(Events!Notes)
    BY MessagesFit
<1>5. v9' \in [Tabs -> Seq(Events!Notes)]
    BY <1>1, <1>4, MessagesReach
<1>6. Events!StreamFits' /\ Events!UrlIsKnown' /\ Events!OldIsTold'
    BY <1>1, <1>2, <1>5 DEF Events!UrlIsKnown, Events!OldIsTold
<1>7. Events!StreamIsLeaders'
    BY <1>1 DEF Events!StreamIsLeaders, Events!Open
<1>8. Events!OverflowIsTended'
    BY <1>1, <1>3 DEF Events!OverflowIsTended, Events!OverflowResync
<1> QED
    BY <1>6, <1>7, <1>8

\* A tab tells the others what it subscribes to.
LEMMA TabBeats ==
    ASSUME "none" \notin Tabs, Events!StreamInv, NEW t \in Tabs, Events!Heartbeat(t)
    PROVE  Events!StreamInv'
<1> USE DEF Events!StreamInv, Events!StreamFits
<1>1. v1[t] \in SUBSET Events!Channels /\ UNCHANGED <<v1, v2, v10>>
    BY DEF Events!Heartbeat
<1>2. <<Events!Snapshot(t, v1[t])>> \in Seq(Events!Notes) /\
          <<Events!Snapshot(t, v1[t]), Events!Snapshot(t, v1[t])>> \in Seq(Events!Notes)
    BY <1>1, MessagesFit
<1>3. Events!Broadcast(t, <<Events!Snapshot(t, v1[t])>>) \/
          Events!Broadcast(t, <<Events!Snapshot(t, v1[t]), Events!Snapshot(t, v1[t])>>)
    BY DEF Events!Heartbeat
<1>4. v9' \in [Tabs -> Seq(Events!Notes)] /\ \A p \in Tabs : \A d : Events!Tells(v9[p], d) =>
          Events!Tells(v9'[p], d)
    BY <1>2, <1>3, MessagesReach
<1>5. CASE UNCHANGED <<v3, v4, v5, v6, v7, v8>>
  <2>1. Events!StreamFits' /\ Events!StreamIsLeaders' /\ Events!UrlIsKnown' /\ Events!OverflowIsTended'
    BY <1>1, <1>4, <1>5
    DEF Events!StreamIsLeaders, Events!UrlIsKnown, Events!OverflowIsTended, Events!Open,
           Events!Known, Events!Wanted, Events!MasterTopics
  <2>2. Events!OldIsTold'
    BY <1>1, <1>4, <1>5, StillTold
  <2> QED
    BY <2>1, <2>2
<1>6. ASSUME NEW p \in Tabs \ {t}, v3' = [v3 EXCEPT ![t] = [v3[t] EXCEPT ![p] = {}]],
             Events!ConnectionRefresh(t, v1[t], [v3[t] EXCEPT ![p] = {}])
      PROVE  Events!StreamInv'
  <2>1. v3' \in [Tabs -> [Tabs -> SUBSET Events!Channels]] /\ v3'[t] = [v3[t] EXCEPT ![p] = {}]
        /\ \A q \in Tabs \ {t} : v3'[q] = v3[q]
    BY <1>6
  <2>2. /\ v4' \in Events!Sources /\ v6' \in BOOLEAN
        /\ Events!UrlIsKnown' /\ Events!OverflowIsTended'
        /\ v4' = "open" => v4 = "open" /\ v5' = v5 /\ v8 \subseteq v8' /\ v2' = v2
        /\ v2 = "none" => v4' = "none" /\ ~v6'
    BY <1>1, <1>6, <2>1, KnownIsFollowed
  <2>3. Events!StreamFits' /\ Events!StreamIsLeaders'
    BY <1>1, <1>4, <2>1, <2>2 DEF Events!StreamIsLeaders, Events!Open
  <2>4. Events!OldIsTold'
    BY <1>1, <1>4, <2>2, StillTold
  <2> QED
    BY <2>2, <2>3, <2>4
<1> QED
    BY <1>5, <1>6 DEF Events!Heartbeat

\* The stream opens and fails, and all pages refetch.
LEMMA PagesResync ==
    ASSUME Events!StreamFits, v2 \in Tabs, Events!ResyncLocal(v2),
               Events!Broadcast(v2, <<[kind |-> "resync"]>>), v1' = v1
    PROVE  /\ v9' \in [Tabs -> Seq(Events!Notes)] /\ v10' \in [Tabs -> SUBSET Events!Channels]
           /\ v10'[v2] = v1[v2]
           /\ \A p \in Tabs : \A c : c \in v1[p] => p = v2 \/ Events!Tells(v9'[p], c)
<1> USE DEF Events!StreamFits
<1>1. <<[kind |-> "resync"]>> \in Seq(Events!Notes)
    BY NotesToTell
<1>2. \A c : Events!Tells(<<[kind |-> "resync"]>>, c)
    BY DEF Events!Tells
<1>3. v9' \in [Tabs -> Seq(Events!Notes)]
    BY <1>1, MessagesReach
<1>4. \A p \in Tabs : \A c : p # v2 /\ Events!Open(p) => Events!Tells(v9'[p], c)
    BY <1>1, <1>2, MessagesReach
<1>5. v10' \in [Tabs -> SUBSET Events!Channels] /\ v10'[v2] = v1[v2]
    BY DEF Events!ResyncLocal
<1> QED
    BY <1>3, <1>4, <1>5 DEF Events!Open

\* The stream of the leader connects, opens or fails.
LEMMA StreamChanges ==
    ASSUME "none" \notin Tabs, Events!StreamInv, Events!Connect \/ Events!StreamOpens \/
               Events!StreamFails
    PROVE  Events!StreamInv'
<1> USE DEF Events!StreamInv, Events!StreamFits
<1>1. v2 \in Tabs /\ UNCHANGED <<v1, v2, v3, v7>>
    BY DEF Events!Connect, Events!StreamOpens, Events!StreamFails, Events!StreamIsLeaders
<1>2. CASE Events!Connect
  <2>1. v4' = "connecting" /\ v6' = FALSE /\ v5' = Events!MasterTopics(Events!Known) /\
            UNCHANGED <<v9, v10>>
    BY <1>2 DEF Events!Connect, Events!Known
  <2>2. Events!Known' = Events!Known
    BY <1>1 DEF Events!Known, Events!Wanted
  <2>3. Events!UrlIsKnown' /\ Events!OverflowIsTended'
    BY <1>1, <2>1, <2>2 DEF Events!UrlIsKnown, Events!OverflowIsTended, Events!MasterTopics
  <2>4. Events!StreamFits'
    BY <1>1, <2>1 DEF Events!Sources
  <2>5. Events!StreamIsLeaders' /\ Events!OldIsTold'
    BY <1>1, <2>1 DEF Events!StreamIsLeaders, Events!OldIsTold, Events!Open
  <2> QED
    BY <2>3, <2>4, <2>5
<1>3. CASE Events!StreamOpens \/ Events!StreamFails
  <2>1. /\ \/ v4' = "open" /\ UNCHANGED <<v5, v6>> /\ v4 # "none"
           \/ v4' = "none" /\ v6' = TRUE
        /\ Events!ResyncLocal(v2) /\ Events!Broadcast(v2, <<[kind |-> "resync"]>>)
    BY <1>3 DEF Events!StreamOpens, Events!StreamFails
  <2>2. /\ v9' \in [Tabs -> Seq(Events!Notes)] /\ v10' \in [Tabs -> SUBSET Events!Channels]
        /\ v10'[v2] = v1[v2]
        /\ \A p \in Tabs : \A c : c \in v1[p] => p = v2 \/ Events!Tells(v9'[p], c)
    BY <1>1, <2>1, PagesResync
  <2>3. Events!Known' = Events!Known
    BY <1>1 DEF Events!Known, Events!Wanted
  <2>4. Events!UrlIsKnown' /\ Events!OverflowIsTended'
    BY <1>1, <2>1, <2>3 DEF Events!UrlIsKnown, Events!OverflowIsTended, Events!MasterTopics
  <2>5. Events!StreamFits'
    BY <1>1, <2>1, <2>2 DEF Events!Sources
  <2>6. Events!StreamIsLeaders' /\ Events!OldIsTold'
    BY <1>1, <2>2 DEF Events!StreamIsLeaders, Events!OldIsTold, Events!Open
  <2> QED
    BY <2>4, <2>5, <2>6
<1> QED
    BY <1>2, <1>3

\* What changes is published to a stream that has its topic; events that are
\* dropped leave a request to resync.
LEMMA ServerPublishes ==
    ASSUME Events!StreamInv, Events!ServerDropsEvents \/ \E c \in
               Events!Channels : Events!ServerChanges(c)
    PROVE  Events!StreamInv'
<1> USE DEF Events!StreamInv, Events!StreamFits
<1>1. UNCHANGED <<v1, v2, v3, v4, v5, v6, v7, v9>>
    BY DEF Events!ServerDropsEvents, Events!ServerChanges
<1>2. Events!StreamIsLeaders' /\ Events!UrlIsKnown' /\ Events!OverflowIsTended'
    BY <1>1 DEF Events!StreamIsLeaders, Events!UrlIsKnown, Events!OverflowIsTended,
       Events!Open, Events!Known, Events!Wanted, Events!MasterTopics
<1>3. CASE Events!ServerDropsEvents
  <2>1. v8' = {"resync"} /\ v10' = v10
    BY <1>3 DEF Events!ServerDropsEvents
  <2> QED
    BY <1>1, <1>2, <2>1 DEF Events!OldIsTold
<1>4. ASSUME NEW c \in Events!Channels, Events!ServerChanges(c)
      PROVE  Events!StreamInv'
  <2>1. /\ v10' = [t \in Tabs |-> v10[t] \ {c}]
        /\ v8' = IF v4 = "open" /\ c \in v5 \cup {Plain} THEN v8 \cup {c} ELSE v8
    BY <1>4 DEF Events!ServerChanges
  <2>2. Events!OldIsTold'
    BY <1>1, <2>1 DEF Events!OldIsTold
  <2> QED
    BY <1>1, <1>2, <2>1, <2>2
<1> QED
    BY <1>3, <1>4

\* An event goes to the leader's own pages, and to the other tabs as a message.
LEMMA StreamDelivered ==
    ASSUME "none" \notin Tabs, Events!StreamInv, NEW c \in Events!Channels \cup {"resync"},
               Events!StreamDelivers(c)
    PROVE  Events!StreamInv'
<1> USE DEF Events!StreamInv, Events!StreamFits
<1>1. v8' = v8 \ {c} /\ UNCHANGED <<v1, v2, v3, v4, v5, v6, v7>>
    BY DEF Events!StreamDelivers
<1>2. Events!StreamIsLeaders' /\ Events!UrlIsKnown' /\ Events!OverflowIsTended'
    BY <1>1 DEF Events!StreamIsLeaders, Events!UrlIsKnown, Events!OverflowIsTended,
       Events!Open, Events!Known, Events!Wanted, Events!MasterTopics
<1>3. CASE v2 \notin Tabs
  <2>1. v4' = "none"
    BY <1>1, <1>3 DEF Events!StreamIsLeaders
  <2>2. CASE c = "resync"
    <3>1. v10' = [v10 EXCEPT ![v2] = v1[v2]] /\ Events!Broadcast(v2, <<[kind |-> "resync"]>>)
        BY <2>2 DEF Events!StreamDelivers, Events!ResyncLocal
    <3>2. <<[kind |-> "resync"]>> \in Seq(Events!Notes)
        BY NotesToTell
    <3>3. v9' \in [Tabs -> Seq(Events!Notes)]
        BY <3>1, <3>2, MessagesReach
    <3> QED
        BY <1>1, <1>2, <1>3, <2>1, <3>1, <3>3 DEF Events!OldIsTold
  <2>3. CASE c # "resync"
    <3>1. v10' = [v10 EXCEPT ![v2] = @ \cup (v1[v2] \cap {c})] /\
              Events!Broadcast(v2, <<[kind |-> "event", channel |-> c]>>)
        BY <2>3 DEF Events!StreamDelivers, Events!Dispatch
    <3>2. <<[kind |-> "event", channel |-> c]>> \in Seq(Events!Notes)
        BY <2>3, NotesToTell
    <3>3. v9' \in [Tabs -> Seq(Events!Notes)]
        BY <3>1, <3>2, MessagesReach
    <3> QED
        BY <1>1, <1>2, <1>3, <2>1, <3>1, <3>3 DEF Events!OldIsTold
  <2> QED
    BY <2>2, <2>3
<1>4. CASE v2 \in Tabs /\ c = "resync"
  <2>1. Events!ResyncLocal(v2) /\ Events!Broadcast(v2, <<[kind |-> "resync"]>>)
    BY <1>4 DEF Events!StreamDelivers
  <2>2. /\ v9' \in [Tabs -> Seq(Events!Notes)] /\ v10' \in [Tabs -> SUBSET Events!Channels]
        /\ v10'[v2] = v1[v2]
        /\ \A p \in Tabs : \A d : d \in v1[p] => p = v2 \/ Events!Tells(v9'[p], d)
    BY <1>1, <1>4, <2>1, PagesResync
  <2>3. Events!OldIsTold'
    BY <1>1, <2>2 DEF Events!OldIsTold
  <2> QED
    BY <1>1, <1>2, <2>2, <2>3
<1>5. CASE v2 \in Tabs /\ c # "resync"
  <2> DEFINE m == [kind |-> "event", channel |-> c]
  <2>1. v10' = [v10 EXCEPT ![v2] = @ \cup (v1[v2] \cap {c})] /\ Events!Broadcast(v2, <<m>>)
    BY <1>5 DEF Events!StreamDelivers, Events!Dispatch
  <2>2. m \in Events!Notes /\ m.kind = "event" /\ m.channel = c
    BY <1>5 DEF Events!Notes
  <2> HIDE DEF m
  <2>3. <<m>> \in Seq(Events!Notes) /\ Events!Tells(<<m>>, c)
    BY <2>2 DEF Events!Tells
  <2>4. /\ v9' \in [Tabs -> Seq(Events!Notes)]
        /\ \A p \in Tabs : \A d : Events!Tells(v9[p], d) => Events!Tells(v9'[p], d)
        /\ \A p \in Tabs : p # v2 /\ Events!Open(p) => Events!Tells(v9'[p], c)
    BY <2>1, <2>3, MessagesReach
  <2>5. v10' \in [Tabs -> SUBSET Events!Channels]
    BY <2>1
  <2>6. \A p \in Tabs : \A d \in v1[p] :
           /\ d \in v10[p] => d \in v10'[p]
           /\ d = c => d \in v10'[p] \/ (p # v2 /\ Events!Tells(v9'[p], d))
    BY <1>5, <2>1, <2>4 DEF Events!Open
  <2>7. \A d : d \in v8 => d = c \/ d \in v8'
    BY <1>1
  <2>8. "resync" \in v8 => "resync" \in v8'
    BY <1>5, <2>7
  <2>9. Events!OldIsTold'
    <3> SUFFICES ASSUME v4' = "open", NEW p \in Tabs, NEW d \in v1'[p] \cap (v5' \cup {Plain})
                 PROVE  \/ d \in v10'[p] \/ d \in v8' \/ "resync" \in v8'
                        \/ p # v2' /\ Events!Tells(v9'[p], d)
        BY DEF Events!OldIsTold
    <3>1. \/ d \in v10[p] \/ d \in v8 \/ "resync" \in v8
          \/ p # v2 /\ Events!Tells(v9[p], d)
        BY <1>1 DEF Events!OldIsTold
    <3> QED
        BY <1>1, <2>4, <2>6, <2>7, <2>8, <3>1
  <2> QED
    BY <1>1, <1>2, <2>4, <2>5, <2>9
<1> QED
    BY <1>3, <1>4, <1>5

\* A tab with topics beyond the stream asks for all of its pages.
LEMMA OverflowTicks ==
    ASSUME Events!StreamInv, NEW t \in Tabs, Events!OverflowTick(t)
    PROVE  Events!StreamInv'
<1> USE DEF Events!StreamInv, Events!StreamFits
<1>1. v10' = [v10 EXCEPT ![t] = v1[t]] /\ UNCHANGED <<v1, v2, v3, v4, v5, v6, v7, v8>>
    BY DEF Events!OverflowTick, Events!ResyncLocal
<1>2. <<[kind |-> "resync"]>> \in Seq(Events!Notes)
    BY NotesToTell
<1>3. v9' \in [Tabs -> Seq(Events!Notes)] /\ \A p \in Tabs : \A d : Events!Tells(v9[p], d) =>
          Events!Tells(v9'[p], d)
    BY <1>2, MessagesReach DEF Events!OverflowTick
<1>4. Events!StreamIsLeaders' /\ Events!UrlIsKnown' /\ Events!OverflowIsTended'
    BY <1>1 DEF Events!StreamIsLeaders, Events!UrlIsKnown, Events!OverflowIsTended,
       Events!Open, Events!Known, Events!Wanted, Events!MasterTopics
<1>5. \A p \in Tabs : \A d \in v1'[p] : d \in v10'[p] \/ (d \in v1[p] /\ d \notin v10[p])
    BY <1>1
<1>6. Events!OldIsTold'
    BY <1>1, <1>3, <1>5, StillTold
<1> QED
    BY <1>1, <1>3, <1>4, <1>6

\* What a message tells a tab that does not lead, its pages refetch.
LEMMA MessageReceived ==
    ASSUME "none" \notin Tabs, Events!StreamInv, NEW t \in Tabs, Events!Receive(t)
    PROVE  Events!StreamInv'
<1> USE DEF Events!StreamInv, Events!StreamFits
<1> DEFINE m == Head(v9[t])
           rest == [v9 EXCEPT ![t] = Tail(@)]
           note == Events!Snapshot(t, v1[t])
           answered == [p \in Tabs |-> IF p # t /\ Events!Open(p) THEN Append(rest[p], note) ELSE rest[p]]
<1>1. v9[t] # <<>> /\ v9[t] \in Seq(Events!Notes) /\ UNCHANGED <<v1, v2>>
    BY DEF Events!Receive
<1>2. /\ m \in Events!Notes
      /\ Tail(v9[t]) \in Seq(Events!Notes)
      /\ \A c : Events!Tells(v9[t], c) =>
            \/ m.kind = "resync"
            \/ m.kind = "event" /\ m.channel = c
            \/ Events!Tells(Tail(v9[t]), c)
    BY <1>1, TailTells
<1>3. rest \in [Tabs -> Seq(Events!Notes)] /\ rest[t] = Tail(v9[t]) /\ \A p \in
          Tabs \ {t} : rest[p] = v9[p]
    BY <1>2
<1>4. note \in Events!Notes
    BY MessagesFit
<1>5. m.kind = "snapshot_request" => v9' = answered /\ UNCHANGED <<v3, v4, v5, v6, v7, v8, v10>>
    BY DEF Events!Receive
<1>6. m.kind = "event" => /\ v9' = rest /\ UNCHANGED <<v3, v4, v5, v6, v7, v8>>
                          /\
                                 v10' = IF v2 # t THEN [v10 EXCEPT ![t] = @ \cup (v1[t] \cap {m.channel})] ELSE v10
    BY DEF Events!Receive, Events!Dispatch
<1>7. m.kind = "resync" => /\ v9' = rest /\ UNCHANGED <<v3, v4, v5, v6, v7, v8>>
                           /\ v10' = IF v2 # t THEN [v10 EXCEPT ![t] = v1[t]] ELSE v10
    BY DEF Events!Receive, Events!ResyncLocal
<1>8. m.kind = "snapshot" =>
         LET known == [v3[t] EXCEPT ![m.sender] = m.channels]
         IN /\ v3' = [v3 EXCEPT ![t] = known] /\ v10' = v10
            /\ v2 = t => v9' = answered /\ Events!ConnectionRefresh(t, v1[t], known)
            /\ v2 # t => v9' = rest /\ UNCHANGED <<v4, v5, v6, v7, v8>>
    BY DEF Events!Receive
<1>9. m.kind \in {"resync", "snapshot_request", "event", "snapshot"}
    BY <1>2, KindsOfNotes
<1>10. m.kind = "snapshot" => m.sender \in Tabs /\ m.channels \in SUBSET Events!Channels
    BY <1>2, KindsOfNotes
<1>11. \A p \in Tabs : Append(rest[p], note) \in Seq(Events!Notes)
         /\ \A c : Events!Tells(rest[p], c) => Events!Tells(Append(rest[p], note), c)
  <2> HIDE DEF rest, note
  <2> QED
    BY <1>3, <1>4, AppendTells
<1> HIDE DEF m, rest, note
<1>12. answered \in [Tabs -> Seq(Events!Notes)] /\ \A p \in
           Tabs : \A c : Events!Tells(rest[p], c) => Events!Tells(answered[p], c)
    BY <1>3, <1>11
<1> HIDE DEF answered
<1>13. \A p \in Tabs : \A c : p = t \/
           (Events!Tells(v9[p], c) => Events!Tells(rest[p], c) /\ Events!Tells(answered[p], c))
    BY <1>3, <1>12
<1>14. CASE m.kind = "snapshot"
  <2> DEFINE known == [v3[t] EXCEPT ![m.sender] = m.channels]
  <2>1. known \in [Tabs -> SUBSET Events!Channels]
    BY <1>10, <1>14
  <2>2. /\ v3' = [v3 EXCEPT ![t] = known] /\ v10' = v10
        /\ v2 = t => v9' = answered /\ Events!ConnectionRefresh(t, v1[t], known)
        /\ v2 # t => v9' = rest /\ UNCHANGED <<v4, v5, v6, v7, v8>>
    BY <1>8, <1>14
  <2> HIDE DEF known
  <2>3. v3' \in [Tabs -> [Tabs -> SUBSET Events!Channels]] /\ v3'[t] = known /\ \A p \in
            Tabs \ {t} : v3'[p] = v3[p]
    BY <2>1, <2>2
  <2>4. v9' \in [Tabs -> Seq(Events!Notes)] /\ \A p \in Tabs : \A c : Events!Tells(v9[p], c) /\
            p # v2 => Events!Tells(v9'[p], c)
    BY <1>2, <1>3, <1>12, <1>13, <1>14, <2>2
  <2>5. /\ v4' \in Events!Sources /\ v6' \in BOOLEAN /\ Events!UrlIsKnown' /\ Events!OverflowIsTended'
        /\ v4' = "open" => v4 = "open" /\ v5' = v5 /\ v8 \subseteq v8' /\ v2' = v2
        /\ v2 = "none" => v4' = "none" /\ ~v6'
    <3>1. CASE v2 = t
        BY <1>1, <2>2, <2>3, <3>1, KnownIsFollowed
    <3>2. CASE v2 # t
      <4>1. CASE v2 \in Tabs
        BY <1>1, <2>2, <2>3, <3>2, <4>1, KnownStays
      <4>2. CASE v2 = "none"
        BY <1>1, <2>2, <3>2, <4>2 DEF Events!StreamIsLeaders, Events!UrlIsKnown,
           Events!OverflowIsTended
      <4> QED
        BY <1>1, <2>2, <3>2, <4>1, <4>2 DEF Events!StreamIsLeaders
    <3> QED
        BY <3>1, <3>2
  <2>6. Events!StreamFits'
    BY <1>1, <2>2, <2>3, <2>4, <2>5
  <2>7. Events!StreamIsLeaders'
    BY <1>1, <2>5 DEF Events!StreamIsLeaders, Events!Open
  <2>8. \A p \in Tabs : \A d \in v1'[p] : d \in v10'[p] \/ (d \in v1[p] /\ d \notin v10[p])
    BY <1>1, <2>2
  <2>9. Events!OldIsTold'
    BY <1>1, <2>4, <2>5, <2>8, StillTold
  <2> QED
    BY <2>5, <2>6, <2>7, <2>9
<1>15. CASE m.kind # "snapshot"
  <2>1. UNCHANGED <<v1, v2, v3, v4, v5, v6, v7, v8>> /\ v9' \in {rest, answered}
    BY <1>1, <1>5, <1>6, <1>7, <1>9, <1>15
  <2>2. PICK shown \in SUBSET Events!Channels : v10[t] \cap v1[t] \subseteq shown /\
            v10' = [v10 EXCEPT ![t] = shown]
    <3>1. v10 = [v10 EXCEPT ![t] = v10[t]] /\ v10[t] \in SUBSET Events!Channels /\ v1[t] \in
              SUBSET Events!Channels
        OBVIOUS
    <3>2. CASE v10' = v10
        BY <3>1, <3>2
    <3>3. CASE m.kind = "event" /\ v2 # t
      <4>1. v10' = [v10 EXCEPT ![t] = v10[t] \cup (v1[t] \cap {m.channel})]
        BY <1>6, <3>3
      <4> QED
        BY <3>1, <4>1
    <3>4. CASE m.kind = "resync" /\ v2 # t
        BY <1>7, <3>1, <3>4
    <3> QED
        BY <1>5, <1>6, <1>7, <1>9, <1>15, <3>2, <3>3, <3>4
  <2>3. Events!StreamFits' /\ Events!StreamIsLeaders' /\ Events!UrlIsKnown' /\ Events!OverflowIsTended'
    BY <1>3, <1>12, <2>1, <2>2
    DEF Events!StreamIsLeaders, Events!UrlIsKnown, Events!OverflowIsTended, Events!Open,
           Events!Known, Events!Wanted, Events!MasterTopics
  <2>4. ASSUME NEW d \in v1[t], d \notin v10'[t], t # v2, Events!Tells(v9[t], d)
        PROVE  Events!Tells(v9'[t], d)
    <3>1. m.kind # "resync"
        BY <1>7, <2>4
    <3>2. ~(m.kind = "event" /\ m.channel = d)
        BY <1>6, <2>4
    <3> QED
        BY <1>2, <1>3, <1>12, <2>1, <2>4, <3>1, <3>2
  <2>5. \A p \in Tabs : \A d \in v1'[p] :
           \/ d \in v10'[p]
           \/ /\ d \in v1[p] /\ d \notin v10[p]
              /\ p # v2 /\ Events!Tells(v9[p], d) => Events!Tells(v9'[p], d)
    <3> SUFFICES ASSUME NEW p \in Tabs, NEW d \in v1[p], d \notin v10'[p]
                 PROVE  d \notin v10[p] /\ (p # v2 /\ Events!Tells(v9[p], d) => Events!Tells(v9'[p], d))
        BY <2>1
    <3>1. d \notin v10[p]
        BY <2>2
    <3>2. p # v2 /\ Events!Tells(v9[p], d) => Events!Tells(v9'[p], d)
      <4>1. CASE p = t
        BY <2>4, <4>1
      <4>2. CASE p # t
        BY <1>13, <2>1, <4>2
      <4> QED
        BY <4>1, <4>2
    <3> QED
        BY <3>1, <3>2
  <2>6. Events!OldIsTold'
    BY <2>1, <2>5, StillTold
  <2> QED
    BY <2>3, <2>6
<1> QED
    BY <1>14, <1>15

\* Every step of the tabs and the server keeps the invariant.
LEMMA StreamKept ==
    ASSUME "none" \notin Tabs, Events!StreamInv, [Events!Next]_(Events!eventVars)
    PROVE  Events!StreamInv'
<1>1. CASE UNCHANGED Events!eventVars
    BY <1>1
    DEF Events!eventVars, Events!StreamInv, Events!StreamFits, Events!StreamIsLeaders,
           Events!UrlIsKnown, Events!OverflowIsTended, Events!OldIsTold, Events!Open,
           Events!Known, Events!Wanted, Events!MasterTopics
<1>2. CASE Events!Next
    BY <1>2, TabOpens, TabCloses, LeaderElected, TabBeats, OverflowTicks, MessageReceived,
       TabSubscribes, StreamChanges, ServerPublishes, StreamDelivered DEF Events!Next
<1> QED
    BY <1>1, <1>2

\* The stream starts with its invariant.
LEMMA StreamStarts ==
    ASSUME "none" \notin Tabs, Events!Init
    PROVE  Events!StreamInv
<1>1. /\ v1 = [t \in Tabs |-> {}] /\ v2 = "none" /\ v3 = [t \in Tabs |-> [p \in Tabs |-> {}]]
      /\ v4 = "none" /\ v6 = FALSE /\ v9 = [t \in Tabs |-> <<>>] /\ v10 = [t \in Tabs |-> {}]
    BY DEF Events!Init
<1>2. <<>> \in Seq(Events!Notes)
    OBVIOUS
<1>3. Events!StreamFits
    BY <1>1, <1>2 DEF Events!StreamFits, Events!Sources
<1> QED
    BY <1>1, <1>3 DEF Events!StreamInv, Events!StreamIsLeaders, Events!UrlIsKnown,
       Events!OverflowIsTended, Events!OldIsTold, Events!Open

\* What is not shown is under way, and what the stream has no room for is on
\* the timer.
LEMMA QuietIsCurrent ==
    ASSUME "none" \notin Tabs, IsFiniteSet(Topics), MaxTopics \in Nat, Events!StreamInv
    PROVE  Events!QuietMeansCurrent
<1> USE DEF Events!StreamInv, Events!StreamFits
<1> SUFFICES ASSUME v4 = "open", v8 = {}, \A t \in Tabs : v9[t] = <<>>, \A t \in
                 Tabs \ {v2} : v3[v2][t] = v1[t],
                    NEW t \in Tabs, NEW c \in v1[t]
             PROVE  IF c \in v5 \cup {Plain} THEN c \in v10[t] ELSE v2 \in v7
    BY DEF Events!QuietMeansCurrent
<1>1. v2 \in Tabs /\ v5 = Events!MasterTopics(Events!Known)
    BY DEF Events!StreamIsLeaders, Events!UrlIsKnown
<1>2. ~Events!Tells(v9[t], c)
    BY DEF Events!Tells
<1>3. c \in v5 \cup {Plain} => c \in v10[t]
    BY <1>2 DEF Events!OldIsTold
<1>4. ASSUME c \notin v5 \cup {Plain}
      PROVE  v2 \in v7
  <2>1. c \in Topics /\ c \in Events!Known
    <3>1. c \in Topics
        BY <1>4 DEF Events!Channels
    <3>2. t # v2 => v1[t] \in {v3[v2][p] : p \in Tabs \ {v2}}
        OBVIOUS
    <3> QED
        BY <3>1, <3>2 DEF Events!Known, Events!Wanted
  <2>2. Events!Cardinality(Events!Known \cap Topics) \in Nat
    <3>1. IsFiniteSet(Events!Known \cap Topics)
        BY FS_Subset
    <3>2. Cardinality(Events!Known \cap Topics) \in Nat
        BY <3>1, FS_CardinalityType
    <3> QED
        BY <3>2, Zenon DEF Events!Cardinality, Cardinality
  <2>3. ~(Events!Cardinality(Events!Known \cap Topics) <= MaxTopics)
    BY <1>1, <1>4, <2>1 DEF Events!MasterTopics
  <2>4. Events!Cardinality(Events!Known \cap Topics) > MaxTopics
    BY <2>2, <2>3
  <2> QED
    BY <1>1, <2>4 DEF Events!OverflowIsTended
<1> QED
    BY <1>3, <1>4

-----------------------------------------------------------------------------
(* Notifications: v1 unread, v2 read, v3 filter, v4 fetches, v5 loading,   *)
(* v6 more, v7 failed, v8 of, v9 shown, v10 done, v11 page, v12 hasMore,   *)
(* v13 selected, v14 marks, v15 all.                                       *)

\* What a refresh leaves of the requests before it.
LEMMA SupersededAreWhole ==
    ASSUME Notices!NotificationsInv
    PROVE  \A r \in Notices!Superseded : r = [what |-> r.what, filter |-> r.filter, page |-> r.page, current |-> r.current] /\ ~r.current
    BY DEF Notices!NotificationsInv, Notices!PresentAreTheFilters, Notices!Superseded

\* A refresh supersedes what was under way and asks under the filter.
LEMMA RefreshKeeps ==
    ASSUME Notices!NotificationsInv, NEW f, Notices!refresh(f), v3' = f
    PROVE  Notices!NotificationsInv'
<1>1. Notices!PresentAreTheFilters'
    BY SupersededAreWhole DEF Notices!refresh, Notices!PresentAreTheFilters
<1> QED
    BY <1>1 DEF Notices!refresh, Notices!NotificationsInv, Notices!NotificationsAreTheFilters

\* Every step keeps what the page lists that of its filter.
LEMMA NotificationsKept ==
    ASSUME Notices!NotificationsInv, [Notices!Next]_(Notices!notificationVars)
    PROVE  Notices!NotificationsInv'
<1> USE DEF Notices!NotificationsInv, Notices!PresentAreTheFilters,
       Notices!NotificationsAreTheFilters
<1>1. CASE UNCHANGED Notices!notificationVars
    BY <1>1 DEF Notices!notificationVars
<1>2. CASE \/ \E i \in Items : Notices!markRead(i) \/ Notices!Marked(i) \/ Notices!toggleSelect(i)
           \/ Notices!markSelectedRead \/ Notices!markAllRead \/ Notices!AllMarked \/
                  Notices!AllFails \/ Notices!toggleSelectAll
    BY <1>2 DEF Notices!markRead, Notices!Marked, Notices!toggleSelect,
       Notices!markSelectedRead, Notices!markAllRead, Notices!AllMarked, Notices!AllFails,
       Notices!toggleSelectAll, Notices!Load, Notices!List
<1>3. CASE (\E i \in Items : Notices!MarkFails(i)) \/ \E f \in Notices!Filters : Notices!SetFilter(f)
    BY <1>3, RefreshKeeps DEF Notices!MarkFails, Notices!SetFilter
<1>4. CASE Notices!loadMore
    BY <1>4 DEF Notices!loadMore, Notices!List
<1>5. ASSUME NEW r \in v4, Notices!Fails(r)
      PROVE  Notices!NotificationsInv'
    BY <1>5 DEF Notices!Fails, Notices!Ends, Notices!List
<1>6. ASSUME NEW r \in v4, NEW items, Notices!Answered(r, items)
      PROVE  Notices!NotificationsInv'
    BY <1>6 DEF Notices!Answered, Notices!Takes, Notices!Ends, Notices!List
<1> QED
    BY <1>1, <1>2, <1>3, <1>4, <1>5, <1>6 DEF Notices!Next

\* It holds at first.
LEMMA NotificationsStart == Notices!Init => Notices!NotificationsInv
    BY DEF Notices!Init, Notices!NotificationsInv, Notices!PresentAreTheFilters,
       Notices!NotificationsAreTheFilters

-----------------------------------------------------------------------------
(* SavedPages: v1 saved, v2 shelves, v3 holds, v4 place, v5 library, v6    *)
(* collections, v7 selectedId, v8 detailOf, v9 detail, v10 loads, v11      *)
(* loading, v12 detailLoading, v13 narrow, v14 keys, v15 dialog, v16 acts, *)
(* v17 target, v18 open, v19 asks, v20 picking, v21 listedFor, v22 listed, *)
(* v23 members, v24 changing, v25 creating.                                *)

\* Every step keeps a press of the item whose list it was made in.
LEMMA PickerKept ==
    ASSUME Saved!PickerInv, [Saved!Next]_(Saved!savedVars)
    PROVE  Saved!PickerInv'
<1> USE DEF Saved!PickerInv, Saved!PickerIsItsItem, Saved!PressesAreWhole
<1>1. CASE UNCHANGED v24
    BY <1>1
<1>2. ASSUME NEW s \in Shelves, Saved!Press(s)
      PROVE  Saved!PickerInv'
    BY <1>2 DEF Saved!Press, Saved!visibleCollections
<1>3. ASSUME NEW r \in v19, Saved!ListAnswered(r) \/ Saved!ListFails(r)
      PROVE  Saved!PickerInv'
    BY <1>3 DEF Saved!ListAnswered, Saved!ListFails
<1>4. ASSUME NEW c \in v24, Saved!Pressed(c)
      PROVE  Saved!PickerInv'
    BY <1>4 DEF Saved!Pressed
<1>5. ASSUME NEW c \in v24, Saved!PressFails(c)
      PROVE  Saved!PickerInv'
  <2>1. v24' = (v24 \ {c}) \cup {[c EXCEPT !.reloads = TRUE]}
    BY <1>5 DEF Saved!PressFails
  <2>2. [c EXCEPT !.reloads = TRUE].item = c.item /\
            [c EXCEPT !.reloads = TRUE].shown = c.shown /\ DOMAIN [c EXCEPT !.reloads = TRUE] = DOMAIN c
    OBVIOUS
  <2> QED
    BY <2>1, <2>2
<1>6. CASE \/ Saved!AllAnswered \/ Saved!Filter \/ Saved!selectAll \/ Saved!deselectAll
           \/ \E s \in Saved!Maybe : Saved!Select(s) \/ Saved!CollectionsAnswered(s)
           \/ \E s \in Shelves : Saved!DetailAnswered(s) \/ Saved!confirmDelete(s) \/ Saved!BatchAdd(s)
           \/ \E r \in v10 : Saved!LoadFails(r)
           \/ \E i \in Items : Saved!toggleItemSelect(i) \/ Saved!remove(i)
           \/ Saved!openCreate \/ Saved!openRename \/ Saved!BatchRemove \/ Saved!CloseDialog \/
                  Saved!Submit
    BY <1>1, <1>6 DEF Saved!AllAnswered, Saved!Filter, Saved!selectAll, Saved!deselectAll,
       Saved!Select, Saved!CollectionsAnswered, Saved!DetailAnswered, Saved!confirmDelete,
       Saved!BatchAdd, Saved!LoadFails, Saved!toggleItemSelect, Saved!remove, Saved!openCreate,
       Saved!openRename, Saved!BatchRemove, Saved!CloseDialog, Saved!Submit, Saved!OnPage,
       Saved!Opens, Saved!Picker
<1>7. CASE \E a \in v16 :
            \/ Saved!Renamed(a) \/ Saved!Erased(a) \/ Saved!removeVisibleItem(a) \/ Saved!Refused(a)
            \/ \E s \in Shelves : Saved!Created(a, s)
            \/ \E items \in SUBSET Items : Saved!BatchDone(a, items)
    BY <1>1, <1>7 DEF Saved!Renamed, Saved!Erased, Saved!removeVisibleItem, Saved!Refused,
       Saved!Created, Saved!BatchDone, Saved!Done, Saved!OnPage, Saved!Picker
<1>8. CASE \/ \E i \in Items : Saved!Retarget(i)
           \/ Saved!Leave \/ Saved!Toggle \/ Saved!createAndAdd
           \/ \E i \in v25 : Saved!CreateFails(i) \/ \E s \in Shelves, b \in
                  BOOLEAN : Saved!CreatedAndAdded(i, s, b)
    BY <1>1, <1>8 DEF Saved!Retarget, Saved!Leave, Saved!Toggle, Saved!createAndAdd,
       Saved!CreateFails, Saved!CreatedAndAdded, Saved!Picker
<1> QED
    BY <1>1, <1>2, <1>3, <1>4, <1>5, <1>6, <1>7, <1>8 DEF Saved!Next, Saved!savedVars

\* It holds at first.
LEMMA PickerStarts == Saved!Init => Saved!PickerInv
    BY DEF Saved!Init, Saved!PickerInv, Saved!PickerIsItsItem, Saved!PressesAreWhole

-----------------------------------------------------------------------------
(* AccountPages: v1 screen, v2 server, v3 store, v4 signedIn, v5 profile,  *)
(* v6 loaded, v7 fetches, v8 form, v9 saving, v10 upload, v11 activeTab,   *)
(* v12 displayedTab, v13 visitedTabs, v14 readyTabs, v15 failedTabs, v16   *)
(* tabLoads, v17 switching, v18 creating, v19 exporting, v20 confirming,   *)
(* v21 board, v22 shownBoard, v23 boardLoads, v24 boardFailed.             *)

\* Every step keeps an open tab's list, and the chosen period's, displayed.
LEMMA AccountKept ==
    ASSUME Account!AccountInv, [Account!Next]_(Account!accountVars)
    PROVE  Account!AccountInv'
<1> USE DEF Account!AccountInv, Account!OpenTabIsDisplayed, Account!BoardIsAsked
<1>1. CASE UNCHANGED Account!accountVars
    BY <1>1 DEF Account!accountVars
<1>2. CASE Account!OpenProfile \/ Account!OpenSettings \/ Account!OpenBoard
    BY <1>2 DEF Account!OpenProfile, Account!OpenSettings, Account!OpenBoard, Account!Leave
<1>3. CASE \E f \in v7 : Account!ProfileFails(f) \/ \E late \in BOOLEAN : Account!ProfileAnswered(f, late)
    BY <1>3 DEF Account!ProfileFails, Account!ProfileAnswered, Account!Tab, Account!Board
<1>4. CASE Account!Edit \/ Account!submit \/ Account!Saved \/ Account!SaveFails \/
               Account!handleAvatarUpload \/ Account!AvatarMoves \/ Account!AvatarAdopted \/
                   Account!AvatarFails
    BY <1>4 DEF Account!Edit, Account!submit, Account!Saved, Account!SaveFails,
       Account!handleAvatarUpload, Account!AvatarMoves, Account!AvatarAdopted,
       Account!AvatarFails, Account!OnProfile, Account!Tab, Account!Board
<1>5. CASE \/ \E v \in Panels : Account!handleTabChange(v) \/ Account!markTabReady(v) \/
                  Account!markTabError(v)
           \/ Account!retryTab \/ Account!fetchContributions
    BY <1>5 DEF Account!handleTabChange, Account!markTabReady, Account!markTabError,
       Account!retryTab, Account!fetchContributions, Account!OnTabs, Account!OnProfile,
       Account!Board
<1>6. CASE \/ Account!handleToggleAutoApprove \/ Account!AutoApproveSet \/
                  Account!handleCreatePassword \/ Account!PasswordCreated
           \/ Account!SettingFails \/ Account!handleExport \/ Account!handleDeleteAccount \/
                  Account!AccountDeleted
    BY <1>6 DEF Account!handleToggleAutoApprove, Account!AutoApproveSet,
       Account!handleCreatePassword, Account!PasswordCreated, Account!SettingFails,
       Account!handleExport, Account!handleDeleteAccount, Account!AccountDeleted,
       Account!OnSettings, Account!Tab, Account!Board
<1>7. CASE (\E b \in Boards : Account!changePeriod(b) \/ Account!BoardAnswered(b) \/ Account!BoardFails(b)) \/ Account!retry
    BY <1>7 DEF Account!changePeriod, Account!BoardAnswered, Account!BoardFails, Account!retry,
       Account!OnBoard, Account!Tab
<1> QED
    BY <1>1, <1>2, <1>3, <1>4, <1>5, <1>6, <1>7 DEF Account!Next

\* It holds at first.
LEMMA AccountStarts == Account!Init => Account!AccountInv
    BY DEF Account!Init, Account!AccountInv, Account!OpenTabIsDisplayed, Account!BoardIsAsked

-----------------------------------------------------------------------------
(* MaterialEditing: v1 head, v2 seen, v3 place, v4 target, v5 open, v6     *)
(* tab, v7 base, v8 dirty, v9 title, v10 retitled, v11 loads, v12 loading, *)
(* v13 failed, v14 panel, v15 picks, v16 replacement, v17 busy, v18 saves, *)
(* v19 drafts, v20 contributions, v21 history.                             *)

\* What is loaded next is of the item the dialog is about.
LEMMA LoadsOwnText ==
    ASSUME Editing!LoadText
    PROVE  \A l \in v11' : l \in v11 \/ l.item = v4'
    BY DEF Editing!LoadText

\* What of a step concerns the form no more than what it awaits.
LEMMA NothingInRow ==
    ASSUME Editing!RowsInv, UNCHANGED <<v3, v4, v5, v9, v16, v7, v11, v15>>
    PROVE  Editing!RowsInv'
    BY DEF Editing!RowsInv, Editing!RowsEditThemselves, Editing!RowsAwaitTheirOwn

\* A dialog that is mounted anew awaits nothing of another's.
LEMMA FreshKeeps ==
    ASSUME NEW i, Editing!Fresh(i)
    PROVE  Editing!RowsInv'
    BY DEF Editing!Fresh, Editing!Mounted, Editing!RowsInv, Editing!RowsEditThemselves,
       Editing!RowsAwaitTheirOwn

\* On the page of a material only the picks keep their shape.
LEMMA OnMaterial ==
    ASSUME v3' = "material", v15' = {} \/ (Editing!RowsInv /\ (v15' = v15 \/ Editing!Hidden))
    PROVE  Editing!RowsInv'
<1>1. \A p \in v15' : p = [of |-> p.of, shown |-> p.shown]
    BY DEF Editing!RowsInv, Editing!RowsAwaitTheirOwn, Editing!Hidden
<1> QED
    BY <1>1 DEF Editing!RowsInv, Editing!RowsEditThemselves, Editing!RowsAwaitTheirOwn

\* The uploads that go on without their tab.
LEMMA HiddenKeeps ==
    ASSUME Editing!RowsInv, Editing!Hidden
    PROVE  \A p \in v15' : p = [of |-> p.of, shown |-> p.shown] /\ (v3 = "directory" => p.of = v4)
    BY DEF Editing!RowsInv, Editing!RowsAwaitTheirOwn, Editing!Hidden

\* Opening, closing and moving about.
LEMMA RowMoves ==
    ASSUME Editing!RowsInv,
           \/ \E i \in Contents : Editing!OpenFromRow(i) \/ Editing!GoAcross(i) \/ \E there \in
                  {"directory", "material"} : Editing!GoTo(i, there)
           \/ Editing!OpenFromActions \/ Editing!Close
    PROVE  Editing!RowsInv'
<1>1. ASSUME NEW i, Editing!OpenFromRow(i)
      PROVE  Editing!RowsInv'
  <2>1. /\ v3' = v3 /\ v3 = "directory" /\ v4' = i /\ v9' = i /\ v7' = {} /\ v16' = {} /\ v15' = {}
        /\ v5' = TRUE /\ v11 = {} /\ Editing!LoadText
    BY <1>1 DEF Editing!OpenFromRow, Editing!Mounted, Editing!RowsInv, Editing!RowsAwaitTheirOwn
  <2> QED
    BY <2>1, LoadsOwnText DEF Editing!RowsInv, Editing!RowsEditThemselves,
       Editing!RowsAwaitTheirOwn
<1>2. ASSUME NEW i, Editing!GoAcross(i)
      PROVE  Editing!RowsInv'
    BY <1>2, OnMaterial DEF Editing!GoAcross, Editing!Picking
<1>3. ASSUME NEW i, NEW there, Editing!GoTo(i, there)
      PROVE  Editing!RowsInv'
    BY <1>3, FreshKeeps DEF Editing!GoTo
<1>4. CASE Editing!OpenFromActions
    BY <1>4, OnMaterial DEF Editing!OpenFromActions, Editing!Picking
<1>5. CASE Editing!Close
  <2>1. CASE v3 = "directory"
    BY <1>5, <2>1, FreshKeeps DEF Editing!Close, Editing!Unmounts
  <2>2. CASE v3 # "directory"
    BY <1>5, <2>2, OnMaterial, HiddenKeeps DEF Editing!Close, Editing!Unmounts,
       Editing!RowsInv, Editing!RowsEditThemselves, Editing!RowsAwaitTheirOwn
  <2> QED
    BY <2>1, <2>2
<1> QED
    BY <1>1, <1>2, <1>3, <1>4, <1>5

\* Filling the forms in.
LEMMA RowForms ==
    ASSUME Editing!RowsInv,
           \/ \E to \in {"content", "metadata"} : Editing!SwitchTab(to)
           \/ Editing!Type \/ Editing!Retitle \/ Editing!TryAgain \/ Editing!handleFile \/ Editing!reset
    PROVE  Editing!RowsInv'
<1>1. ASSUME NEW to, Editing!SwitchTab(to)
      PROVE  Editing!RowsInv'
    BY <1>1, LoadsOwnText, HiddenKeeps DEF Editing!SwitchTab, Editing!InForm, Editing!RowsInv,
       Editing!RowsEditThemselves, Editing!RowsAwaitTheirOwn
<1>2. CASE Editing!Type \/ Editing!Retitle
    BY <1>2, NothingInRow DEF Editing!Type, Editing!Retitle, Editing!InForm, Editing!Reading,
       Editing!Picking
<1>3. CASE Editing!TryAgain \/ Editing!handleFile \/ Editing!reset
    BY <1>3 DEF Editing!TryAgain, Editing!handleFile, Editing!reset, Editing!InForm,
       Editing!Form, Editing!Reading, Editing!Picking, Editing!RowsInv,
       Editing!RowsEditThemselves, Editing!RowsAwaitTheirOwn
<1> QED
    BY <1>1, <1>2, <1>3

\* Texts and files that come, or fail.
LEMMA RowAnswers ==
    ASSUME Editing!RowsInv,
           \/ \E l \in v11 : Editing!TextArrives(l) \/ Editing!TextFails(l)
           \/ \E p \in v15 : Editing!FileReady(p) \/ Editing!FileFails(p)
    PROVE  Editing!RowsInv'
<1>1. ASSUME NEW l \in v11, Editing!TextArrives(l)
      PROVE  Editing!RowsInv'
    BY <1>1 DEF Editing!TextArrives, Editing!Picking, Editing!RowsInv,
       Editing!RowsEditThemselves, Editing!RowsAwaitTheirOwn
<1>2. ASSUME NEW l \in v11, Editing!TextFails(l)
      PROVE  Editing!RowsInv'
    BY <1>2 DEF Editing!TextFails, Editing!Picking, Editing!RowsInv,
       Editing!RowsEditThemselves, Editing!RowsAwaitTheirOwn
<1>3. ASSUME NEW p \in v15, Editing!FileReady(p) \/ Editing!FileFails(p)
      PROVE  Editing!RowsInv'
    BY <1>3 DEF Editing!FileReady, Editing!FileFails, Editing!Form, Editing!Reading,
       Editing!RowsInv, Editing!RowsEditThemselves, Editing!RowsAwaitTheirOwn
<1> QED
    BY <1>1, <1>2, <1>3

\* The end of a save closes the dialog or leaves it.
LEMMA EndKeeps ==
    ASSUME Editing!RowsInv, NEW s, NEW closing \in BOOLEAN, Editing!Ends(s, closing), v3' = v3
    PROVE  Editing!RowsInv'
<1>1. CASE closing /\ Editing!Closes(s) /\ v3 = "directory"
    BY <1>1, FreshKeeps DEF Editing!Ends
<1>2. CASE closing /\ Editing!Closes(s) /\ v3 # "directory"
    BY <1>2, HiddenKeeps DEF Editing!Ends, Editing!Form, Editing!Reading, Editing!RowsInv,
       Editing!RowsEditThemselves, Editing!RowsAwaitTheirOwn
<1>3. CASE ~(closing /\ Editing!Closes(s))
    BY <1>3, NothingInRow DEF Editing!Ends, Editing!Form, Editing!Reading, Editing!Picking
<1> QED
    BY <1>1, <1>2, <1>3

\* Sending an edit, and its answers.
LEMMA RowSaves ==
    ASSUME Editing!RowsInv,
           \/ Editing!handleDraft \/ Editing!handleDirectSubmit
           \/ \E s \in v18 : Editing!TextStored(s) \/ Editing!Submitted(s) \/ Editing!SaveFails(s)
    PROVE  Editing!RowsInv'
<1>1. CASE Editing!handleDraft
  <2>1. CASE Editing!textChanged
    BY <1>1, <2>1, NothingInRow DEF Editing!handleDraft, Editing!Form, Editing!Reading,
       Editing!Picking
  <2>2. CASE ~Editing!textChanged /\ v3 = "directory"
    BY <1>1, <2>2, FreshKeeps DEF Editing!handleDraft, Editing!Unmounts
  <2>3. CASE ~Editing!textChanged /\ v3 # "directory"
    BY <1>1, <2>3, HiddenKeeps DEF Editing!handleDraft, Editing!Unmounts, Editing!RowsInv,
       Editing!RowsEditThemselves, Editing!RowsAwaitTheirOwn
  <2> QED
    BY <2>1, <2>2, <2>3
<1>2. CASE Editing!handleDirectSubmit
    BY <1>2, NothingInRow DEF Editing!handleDirectSubmit, Editing!Form, Editing!Reading,
       Editing!Picking
<1>3. ASSUME NEW s \in v18, Editing!TextStored(s)
      PROVE  Editing!RowsInv'
  <2>1. CASE s.mode = "draft"
    BY <1>3, <2>1, EndKeeps DEF Editing!TextStored
  <2>2. CASE s.mode # "draft"
    BY <1>3, <2>2, NothingInRow DEF Editing!TextStored, Editing!Form, Editing!Reading,
       Editing!Picking
  <2> QED
    BY <2>1, <2>2
<1>4. ASSUME NEW s \in v18, Editing!Submitted(s) \/ Editing!SaveFails(s)
      PROVE  Editing!RowsInv'
    BY <1>4, EndKeeps DEF Editing!Submitted, Editing!SaveFails
<1> QED
    BY <1>1, <1>2, <1>3, <1>4

\* Every step keeps a row's dialog about its row.
LEMMA RowsKept ==
    ASSUME Editing!RowsInv, [Editing!Next]_(Editing!editVars)
    PROVE  Editing!RowsInv'
<1>1. CASE UNCHANGED Editing!editVars
    BY <1>1, NothingInRow DEF Editing!editVars, Editing!Form, Editing!Reading, Editing!Picking
<1>2. CASE \E i \in Contents : Editing!OtherEdits(i) \/ Editing!fetchData(i)
    BY <1>2, NothingInRow DEF Editing!OtherEdits, Editing!fetchData, Editing!Form,
       Editing!Reading, Editing!Picking
<1>3. CASE Editing!SubmitDraft \/ \E c \in v20 : Editing!_exec_edit_material(c) \/ Editing!Rejected(c)
    BY <1>3, NothingInRow DEF Editing!SubmitDraft, Editing!_exec_edit_material,
       Editing!Rejected, Editing!OnServer, Editing!Form, Editing!Reading, Editing!Picking
<1> QED
    BY <1>1, <1>2, <1>3, RowMoves, RowForms, RowAnswers, RowSaves DEF Editing!Next

\* It holds at first.
LEMMA RowsStart == Editing!Init => Editing!RowsInv
    BY DEF Editing!Init, Editing!RowsInv, Editing!RowsEditThemselves, Editing!RowsAwaitTheirOwn
-----------------------------------------------------------------------------
(* ClientSession: v1 jar, v2 hint, v3 logins, v4 spent, v5 lost, v6 ended, *)
(* v7 late, v8 lock, v9 sent, v10 answer, v11 call, v12 token, v13 shown,  *)
(* v14 stage, v15 timer, v16 asks, v17 held, v18 channel. Cookies first.   *)

\* The first visit and the page loaded with a session satisfy the invariant.
LEMMA CookiesStart == Session!Init => Session!CookieInv
    BY DEF Session!Init, Session!CookieInv, Session!CookieTypes, Session!Cookie, Session!None,
          Session!Unspent, Session!Latest

\* Steps that change neither a cookie nor what the server knows of it.
LEMMA CookiesUntouched ==
    ASSUME Session!CookieInv, UNCHANGED <<v3, v1, v9, v4, v5, v8, v10>>
    PROVE  Session!CookieInv'
    BY DEF Session!CookieInv, Session!CookieTypes, Session!Unspent, Session!Latest

\* A session created now is newer than all that was spent.
LEMMA SignInKeepsCookies ==
    ASSUME Session!CookieInv, NEW t \in Tabs, Session!SignIn(t)
    PROVE  Session!CookieInv'
<1>1. /\ v3' = v3 + 1 /\ v1' = [sess |-> v3', gen |-> 0]
      /\ UNCHANGED <<v4, v5, v8, v9, v10>>
    BY DEF Session!SignIn
<1>2. Session!CookieTypes'
    BY <1>1 DEF Session!CookieInv, Session!CookieTypes, Session!Cookie, Session!None
<1>3. Session!Unspent(v1)'
    BY <1>1 DEF Session!CookieInv, Session!CookieTypes, Session!Cookie, Session!Unspent
<1> QED
    BY <1>1, <1>2, <1>3 DEF Session!CookieInv, Session!Latest

\* Signing out leaves no cookie, and none is spent.
LEMMA SignOutKeepsCookies ==
    ASSUME Session!CookieInv, NEW t \in Tabs, Session!SignOut(t)
    PROVE  Session!CookieInv'
<1>1. CASE v1' = v1
    BY <1>1, CookiesUntouched DEF Session!SignOut
<1>2. CASE v1' = Session!None
  <2>1. UNCHANGED <<v3, v4, v5, v8, v9, v10>>
    BY DEF Session!SignOut
  <2>2. Session!CookieTypes'
    BY <1>2, <2>1 DEF Session!CookieInv, Session!CookieTypes, Session!None
  <2>3. Session!Unspent(v1)'
    BY <1>2, <2>1 DEF Session!CookieInv, Session!CookieTypes, Session!Cookie, Session!None,
          Session!Unspent
  <2> QED
    BY <2>1, <2>2, <2>3 DEF Session!CookieInv, Session!Latest
<1> QED
    BY <1>1, <1>2 DEF Session!SignOut

\* Under the lock the cookie of the jar is presented; if the server grants
\* the refresh, the cookie is the latest one spent in its session.
LEMMA AskKeepsCookies ==
    ASSUME Failures \subseteq {"unavailable", "throttled"},
           Session!CookieInv, NEW t \in Tabs, NEW c \in Session!Callers, Session!EnterAndAsk(t,
              c)
    PROVE  Session!CookieInv'
<1>1. v8 = <<>> /\ v8' = <<t, c>> /\ v9' = v1 /\ UNCHANGED <<v1, v3>> /\ Session!Serve(v1)
    BY DEF Session!EnterAndAsk, Session!MayEnter
<1>2. Session!Unspent(v1)
    BY <1>1 DEF Session!CookieInv
<1>3. CASE v10' # "granted" /\ UNCHANGED <<v4, v5>>
    BY <1>1, <1>2, <1>3 DEF Session!CookieInv, Session!CookieTypes, Session!Unspent
<1>4. CASE v10' = "granted" /\ v1 # Session!None /\ v4' = v4 \cup {v1}
  <2>1. v1 \in Session!Cookie /\ v1.gen \in Nat
    BY <1>4 DEF Session!CookieInv, Session!CookieTypes, Session!Cookie
  <2>2. Session!CookieTypes'
    BY <1>1, <1>4, <2>1 DEF Session!CookieInv, Session!CookieTypes
  <2>3. Session!Latest(v9)'
    BY <1>1, <1>2, <1>4, <2>1 DEF Session!CookieInv, Session!CookieTypes, Session!Cookie,
          Session!Unspent, Session!Latest
  <2>4. v8' # <<>>
    BY <1>1
  <2> QED
    BY <1>1, <1>4, <2>1, <2>2, <2>3, <2>4 DEF Session!CookieInv
<1>5. CASE v10' # "granted" /\ v1 # Session!None /\ v4' = v4 \cup {v1} /\ v5' = v5 \cup {v1}
  <2>1. v1 \in Session!Cookie /\ v1.gen \in Nat
    BY <1>5 DEF Session!CookieInv, Session!CookieTypes, Session!Cookie
  <2>2. Session!CookieTypes'
    BY <1>1, <1>5, <2>1 DEF Session!CookieInv, Session!CookieTypes
  <2>3. Session!Unspent(v1)'
    BY <1>1, <1>2, <1>5 DEF Session!Unspent
  <2> QED
    BY <1>5, <2>2, <2>3 DEF Session!CookieInv
<1> QED
    BY <1>1, <1>3, <1>4, <1>5 DEF Session!Serve

\* The answer arrives: a granted refresh brings a cookie ahead of the spent one.
LEMMA AnswerKeepsCookies ==
    ASSUME Session!CookieInv, NEW t \in Tabs, NEW c \in Session!Callers, Session!Answered(t, c)
    PROVE  Session!CookieInv'
<1>1. /\ v9' = Session!None /\ v10' = "none" /\ UNCHANGED <<v3, v4, v5>>
      /\ v1' = IF v10 = "granted" THEN Session!Renewed ELSE v1
    BY DEF Session!Answered, Session!serverVars
<1>2. CASE v10 # "granted"
    BY <1>1, <1>2 DEF Session!CookieInv, Session!CookieTypes, Session!Unspent, Session!None
<1>3. CASE v10 = "granted"
  <2>1. v9 \in Session!Cookie /\ Session!Latest(v9)
    BY <1>3 DEF Session!CookieInv
  <2>2. Session!Renewed \in Session!Cookie /\ Session!Renewed.sess = v9.sess
        /\ Session!Renewed.gen = v9.gen + 1
    BY <2>1 DEF Session!Renewed, Session!Cookie
  <2>3. Session!CookieTypes'
    BY <1>1, <1>3, <2>2 DEF Session!CookieInv, Session!CookieTypes, Session!None
  <2>4. Session!Unspent(v1)'
    BY <1>1, <1>3, <2>1, <2>2 DEF Session!CookieInv, Session!CookieTypes, Session!Cookie,
          Session!Latest, Session!Unspent
  <2> QED
    BY <1>1, <2>3, <2>4 DEF Session!CookieInv
<1> QED
    BY <1>2, <1>3

\* Every step of a tab, of the server and of time keeps the invariant.
LEMMA CookiesKept ==
    ASSUME Failures \subseteq {"unavailable", "throttled"}
    PROVE  Session!CookieInv /\ [Session!Next]_(Session!sessionVars) => Session!CookieInv'
<1> SUFFICES ASSUME Session!CookieInv, [Session!Next]_(Session!sessionVars)
             PROVE  Session!CookieInv'
    OBVIOUS
<1>1. ASSUME NEW t \in Tabs,
             Session!TimerFires(t) \/ Session!BecomesVisible(t) \/ Session!Boot(t)
                \/ Session!Unauthorized(t) \/ Session!Receive(t)
      PROVE  Session!CookieInv'
    BY <1>1, CookiesUntouched
       DEF Session!TimerFires, Session!BecomesVisible, Session!Boot, Session!Unauthorized,
           Session!Receive, Session!serverVars, Session!lockVars
<1>2. ASSUME NEW t \in Tabs, NEW c \in Session!Callers, Session!EnterWithToken(t, c)
      PROVE  Session!CookieInv'
    BY <1>2, CookiesUntouched DEF Session!EnterWithToken, Session!serverVars, Session!lockVars
<1>3. ASSUME NEW t \in Tabs, NEW a \in Session!Ask, Session!ProfileAnswered(t, a)
      PROVE  Session!CookieInv'
    BY <1>3, CookiesUntouched DEF Session!ProfileAnswered, Session!serverVars, Session!lockVars
<1>4. ASSUME NEW tok \in Session!Token, Session!TokenAges(tok)
      PROVE  Session!CookieInv'
    BY <1>4, CookiesUntouched DEF Session!TokenAges, Session!lockVars
<1>5. CASE UNCHANGED Session!sessionVars
    BY <1>5, CookiesUntouched DEF Session!sessionVars
<1> QED
    BY <1>1, <1>2, <1>3, <1>4, <1>5, SignInKeepsCookies, SignOutKeepsCookies, AskKeepsCookies,
       AnswerKeepsCookies DEF Session!Next

\* Whoever finds the lock free and the browser's cookie spent lost an answer.
LEMMA CookiesFit == Session!CookieInv => Session!OnlyLostAnswersAreReplayed
<1> SUFFICES ASSUME Session!CookieInv, v8 = <<>>, v1 \in v4
             PROVE  v1 \in v5
    BY DEF Session!OnlyLostAnswersAreReplayed
<1>1. (v1.gen < v1.gen \/ v1 \in v5) /\ v1.gen \in Nat
    BY DEF Session!CookieInv, Session!CookieTypes, Session!Unspent, Session!Cookie
<1> QED
    BY <1>1

\* Whichever tabs and code paths want a refresh at once, none of them presents
\* a cookie that was presented before, unless its answer was lost: the Web Lock
\* and the jar they share are enough, with no help from messages between tabs.
THEOREM NoReplay == Session!Spec => []Session!OnlyLostAnswersAreReplayed
<1>1. Session!CookieInv /\ [Session!Next]_(Session!sessionVars) => Session!CookieInv'
    BY CookiesKept, FailuresAreKnown
<1> QED
    BY CookiesStart, <1>1, CookiesFit, PTL DEF Session!Spec

-----------------------------------------------------------------------------
(* Tokens.                                                                 *)

\* The property survives such a step.
LEMMA TendedStepKeeps ==
    ASSUME Session!TendedInv, NEW t \in Tabs, Session!TendedStep(t)
    PROVE  Session!TokenIsTended'
    BY DEF Session!TendedInv, Session!TendedStep, Session!TokenIsTended

\* What the outcomes of a refresh do to the tab.
LEMMA OutcomesTend ==
    ASSUME Session!TendedInv, NEW t \in Tabs, NEW c \in Session!Callers, Session!Leave(t, c),
           \/ \E tok, w : Session!Granted(t, c, tok, w)
           \/ Session!Denied(t, c) \/ Session!Unavailable(t, c) \/ Session!Throttled(t, c)
    PROVE  Session!TendedStep(t)
<1> USE DEF Session!TendedInv, Session!TendedStep, Session!Leave, Session!Callers
<1>1. CASE \E tok, w : Session!Granted(t, c, tok, w)
    BY <1>1 DEF Session!Granted, Session!SetToken
<1>2. CASE Session!Denied(t, c)
    BY <1>2 DEF Session!Denied, Session!PerformLogout, Session!ForgetUser, Session!ClearToken,
          Session!StopTimer, Session!ApiGivesUp
<1>3. CASE Session!Unavailable(t, c)
    BY <1>3 DEF Session!Unavailable
<1> QED
    BY <1>1, <1>2, <1>3 DEF Session!Throttled

\* Every other step of a tab.
LEMMA TabsTend ==
    ASSUME Session!TendedInv, NEW t \in Tabs,
           \/ Session!SignIn(t) \/ Session!SignOut(t) \/ Session!TimerFires(t)
              \/ Session!BecomesVisible(t)
           \/ Session!Boot(t) \/ Session!Unauthorized(t) \/ Session!Receive(t)
           \/ \E a \in Session!Ask : Session!ProfileAnswered(t, a)
    PROVE  Session!TendedStep(t)
<1> USE DEF Session!TendedInv, Session!TendedStep
<1>1. CASE Session!SignIn(t)
    BY <1>1 DEF Session!SignIn, Session!SetToken
<1>2. CASE Session!SignOut(t)
    BY <1>2 DEF Session!SignOut, Session!PerformLogout, Session!ForgetUser, Session!ClearToken,
          Session!StopTimer
<1>3. CASE Session!TimerFires(t)
    BY <1>3 DEF Session!TimerFires, Session!StopTimer, Session!Wait
<1>4. CASE Session!BecomesVisible(t) \/ Session!Unauthorized(t) \/ Session!Boot(t)
    BY <1>4 DEF Session!BecomesVisible, Session!Unauthorized, Session!Boot, Session!Wait
<1>5. CASE Session!Receive(t)
    BY <1>5 DEF Session!Receive, Session!SetToken, Session!ForgetUser, Session!ClearToken,
          Session!StopTimer
<1>6. CASE \E a \in Session!Ask : Session!ProfileAnswered(t, a)
    BY <1>6 DEF Session!ProfileAnswered
<1> QED
    BY <1>1, <1>2, <1>3, <1>4, <1>5, <1>6

\* Every step keeps the lock's answer known and the tokens tended.
LEMMA TendedKept ==
    ASSUME Failures \subseteq {"unavailable", "throttled"}
    PROVE  Session!TendedInv /\ [Session!Next]_(Session!sessionVars) => Session!TendedInv'
<1> SUFFICES ASSUME Session!TendedInv, [Session!Next]_(Session!sessionVars)
             PROVE  Session!TendedInv'
    OBVIOUS
<1>1. ASSUME NEW t \in Tabs, Session!TendedStep(t),
             v8' # <<>> => v10' \in {"granted", "denied", "unavailable", "throttled"}
      PROVE  Session!TendedInv'
    BY <1>1, TendedStepKeeps DEF Session!TendedInv, Session!TendedStep
<1>2. ASSUME NEW t \in Tabs,
             \/ Session!SignIn(t) \/ Session!SignOut(t) \/ Session!TimerFires(t)
                \/ Session!BecomesVisible(t)
             \/ Session!Boot(t) \/ Session!Unauthorized(t) \/ Session!Receive(t)
             \/ \E a \in Session!Ask : Session!ProfileAnswered(t, a)
      PROVE  Session!TendedInv'
  <2>1. UNCHANGED <<v8, v10>>
    BY <1>2 DEF Session!SignIn, Session!SignOut, Session!TimerFires, Session!BecomesVisible,
          Session!Boot, Session!Unauthorized, Session!Receive,
                Session!ProfileAnswered, Session!lockVars
  <2> QED
    BY <1>1, <1>2, <2>1, TabsTend DEF Session!TendedInv
<1>3. ASSUME NEW t \in Tabs, NEW c \in Session!Callers, Session!EnterWithToken(t, c)
      PROVE  Session!TendedInv'
  <2>1. UNCHANGED <<v8, v10>> /\ Session!Leave(t, c) /\ Session!Granted(t, c, v12[t], FALSE)
    BY <1>3 DEF Session!EnterWithToken, Session!lockVars
  <2> QED
    BY <1>1, <2>1, OutcomesTend DEF Session!TendedInv
<1>4. ASSUME NEW t \in Tabs, NEW c \in Session!Callers, Session!EnterAndAsk(t, c)
      PROVE  Session!TendedInv'
  <2>1. v10' \in {"granted", "denied", "unavailable", "throttled"}
    BY <1>4 DEF Session!EnterAndAsk, Session!Serve
  <2>2. UNCHANGED <<v12, v15, v11>>
    BY <1>4 DEF Session!EnterAndAsk
  <2> QED
    BY <2>1, <2>2 DEF Session!TendedInv, Session!TokenIsTended
<1>5. ASSUME NEW t \in Tabs, NEW c \in Session!Callers, Session!Answered(t, c)
      PROVE  Session!TendedInv'
  <2>1. v8 # <<>> /\ v8' = <<>> /\ Session!Leave(t, c)
    BY <1>5 DEF Session!Answered
  <2>2. \/ Session!Granted(t, c, Session!Renewed, TRUE) \/ Session!Denied(t, c)
        \/ Session!Unavailable(t, c) \/ Session!Throttled(t, c)
    BY <1>5, <2>1 DEF Session!Answered, Session!TendedInv
  <2> QED
    BY <1>1, <2>1, <2>2, OutcomesTend
<1>6. ASSUME NEW tok \in Session!Token, Session!TokenAges(tok)
      PROVE  Session!TendedInv'
    BY <1>6 DEF Session!TokenAges, Session!lockVars, Session!TendedInv, Session!TokenIsTended
<1>7. CASE UNCHANGED Session!sessionVars
    BY <1>7 DEF Session!sessionVars, Session!TendedInv, Session!TokenIsTended
<1> QED
    BY <1>2, <1>3, <1>4, <1>5, <1>6, <1>7 DEF Session!Next

\* Nobody has a token at first.
LEMMA TendedStarts == Session!Init => Session!TendedInv
    BY DEF Session!Init, Session!TendedInv, Session!TokenIsTended

\* The property is a conjunct of its invariant.
LEMMA TendedFits == Session!TendedInv => Session!TokenIsTended
    BY DEF Session!TendedInv

\* A token is never left to expire: wherever a handler stops the timer it
\* drops the token, arms the timer again or has the timer's refresh under way.
THEOREM TokensAreTended == Session!Spec => []Session!TokenIsTended
<1>1. Session!TendedInv /\ [Session!Next]_(Session!sessionVars) => Session!TendedInv'
    BY TendedKept, FailuresAreKnown
<1> QED
    BY TendedStarts, TendedFits, <1>1, PTL DEF Session!Spec

-----------------------------------------------------------------------------
(* ClientSession: v1 jar, v2 hint, v3 logins, v4 spent, v5 lost, v6 ended, *)
(* v7 late, v8 lock, v9 sent, v10 answer, v11 call, v12 token, v13 shown,  *)
(* v14 stage, v15 timer, v16 asks, v17 held, v18 channel.                  *)

\* What the types say of the tabs and what they say of the server are the
\* types.
LEMMA TypesAreParts ==
    Session!TypeOK /\ Session!ChannelsFit <=> Session!TabsFit /\ Session!ServerFits
    BY DEF Session!TypeOK, Session!TabsFit, Session!ServerFits, Session!ChannelsFit

\* A token names a session that was opened, and its asks and messages name the
\* same one.
LEMMA TokensNameSessions ==
    /\ 0 \in 0..MaxLogins /\ Session!None \notin Session!Token
    /\ \A tok \in Session!Token : /\ tok.sess \in 1..MaxLogins /\ tok.sess \in 0..MaxLogins
       /\ tok # Session!None
                          /\ [by |-> "boot", sess |-> tok.sess] \in Session!Ask
                          /\ [by |-> "acquired", sess |-> tok.sess] \in Session!Ask
                          /\ <<"refreshed", tok>> \in Session!Message /\ <<"acquired",
                             tok>> \in Session!Message
                          /\ \A a \in Session!Ask : [a EXCEPT !.sess = tok.sess] \in Session!Ask
    /\ <<"logout", Session!None>> \in Session!Message
    BY SessionBounds DEF Session!Token, Session!None, Session!Ask, Session!Message

\* A message is only posted where the other tabs' channels have room for it.
LEMMA PostFits ==
    ASSUME Session!ChannelsFit, NEW t \in Tabs, NEW m \in Session!Message, Session!Post(t, m)
    PROVE  Session!ChannelsFit'
<1>1. ASSUME NEW u \in Tabs
      PROVE  /\ (IF u = t THEN v18[u] ELSE Append(v18[u], m)) \in Seq(Session!Message)
             /\ Len(IF u = t THEN v18[u] ELSE Append(v18[u], m)) <= MaxMessages
  <2>1. v18[u] \in Seq(Session!Message) /\ Len(v18[u]) <= MaxMessages /\ Len(v18[u]) \in Nat
      BY DEF Session!ChannelsFit
  <2>2. Append(v18[u], m) \in Seq(Session!Message) /\ Len(Append(v18[u], m)) = Len(v18[u]) + 1
      BY <2>1
  <2>3. CASE u = t
      BY <2>1, <2>3
  <2>4. CASE u # t
      BY <2>1, <2>2, <2>4, SessionBounds DEF Session!Post
  <2> QED
      BY <2>3, <2>4
<1> QED
    BY <1>1 DEF Session!Post, Session!ChannelsFit

\* A logout leaves the tab's own fields and the channels in their types.
LEMMA PerformLogoutFits ==
    ASSUME Session!TabsFit, NEW t \in Tabs, Session!PerformLogout(t)
    PROVE  /\ v2' \in BOOLEAN /\ v12' \in [Tabs -> Session!Token \cup {Session!None}]
           /\ v13' \in [Tabs -> 0..MaxLogins] /\ v14' \in [Tabs -> {"loading", "ready",
              "error"}]
           /\ v15' \in [Tabs -> BOOLEAN] /\ Session!ChannelsFit'
<1>1. Session!ChannelsFit'
    BY PostFits, TokensNameSessions DEF Session!PerformLogout, Session!TabsFit
<1> QED
    BY <1>1, TokensNameSessions
    DEF Session!PerformLogout, Session!ForgetUser, Session!ClearToken, Session!StopTimer,
    Session!SetUser, Session!TabsFit

\* What a tab does with a granted token keeps the tabs in their types.
LEMMA GrantedFits ==
    ASSUME Session!TabsFit, NEW t \in Tabs, NEW c \in Session!Callers,
           NEW tok \in Session!Token, NEW withUser \in BOOLEAN,
           Session!Granted(t, c, tok, withUser)
    PROVE  Session!TabsFit'
<1>1. Session!ChannelsFit'
    BY PostFits, TokensNameSessions DEF Session!Granted, Session!TabsFit, Session!ChannelsFit
<1>2. v2' \in BOOLEAN /\ v12' \in [Tabs -> Session!Token \cup {Session!None}]
      /\ v15' \in [Tabs -> BOOLEAN]
    BY DEF Session!Granted, Session!SetToken, Session!TabsFit
<1>3. v13' \in [Tabs -> 0..MaxLogins] /\ v14' \in [Tabs -> {"loading", "ready", "error"}]
    BY TokensNameSessions DEF Session!Granted, Session!SetUser, Session!TabsFit
<1>4. v16' \in [Tabs -> SUBSET Session!Ask]
  <2> DEFINE more == IF c = "boot" /\ ~withUser THEN v16[t] \cup {[by |-> "boot",
      sess |-> tok.sess]}
                     ELSE IF c = "api" THEN v16[t] \cup {[a EXCEPT !.sess = tok.sess] : a \in v17[t]}
                     ELSE v16[t]
  <2>1. v16[t] \subseteq Session!Ask /\ v17[t] \subseteq Session!Ask
      BY DEF Session!TabsFit
  <2>2. more \subseteq Session!Ask
      BY <2>1, TokensNameSessions
  <2>3. v16' = [v16 EXCEPT ![t] = more]
      BY DEF Session!Granted
  <2> HIDE DEF more
  <2> QED
      BY <2>2, <2>3 DEF Session!TabsFit
<1>5. v17' \in [Tabs -> SUBSET Session!Ask]
    BY DEF Session!Granted, Session!TabsFit
<1> QED
    BY <1>1, <1>2, <1>3, <1>4, <1>5 DEF Session!TabsFit

\* What a tab does when it is refused keeps the tabs in their types.
LEMMA DeniedFits ==
    ASSUME Session!TabsFit, NEW t \in Tabs, NEW c \in Session!Callers, Session!Denied(t, c)
    PROVE  Session!TabsFit'
<1>1. CASE c \in {"timer", "visible", "boot"}
    BY <1>1, PerformLogoutFits DEF Session!Denied, Session!TabsFit
<1>2. CASE c = "restore"
    BY <1>2 DEF Session!Denied, Session!TabsFit, Session!ChannelsFit
<1>3. CASE c = "api"
  <2>1. v17' \in [Tabs -> SUBSET Session!Ask] /\ UNCHANGED v16
      BY <1>3 DEF Session!Denied, Session!ApiGivesUp, Session!TabsFit
  <2>2. CASE Session!PerformLogout(t)
      BY <2>1, <2>2, PerformLogoutFits DEF Session!TabsFit
  <2>3. CASE Session!ClearToken(t) /\ UNCHANGED <<v15, v13, v14, v18>>
      BY <2>1, <2>3 DEF Session!ClearToken, Session!TabsFit, Session!ChannelsFit
  <2> QED
      BY <1>3, <2>2, <2>3 DEF Session!Denied, Session!ApiGivesUp
<1> QED
    BY <1>1, <1>2, <1>3 DEF Session!Callers

\* What a tab does when the server cannot be reached keeps the tabs in their
\* types.
LEMMA UnavailableFits ==
    ASSUME Session!TabsFit, NEW t \in Tabs, NEW c \in Session!Callers, Session!Unavailable(t, c)
    PROVE  Session!TabsFit'
    BY DEF Session!Unavailable, Session!TabsFit, Session!ChannelsFit

\* The first states have their types.
LEMMA SessionTypesStart ==
    Session!Init => Session!TypeOK /\ Session!ChannelsFit /\ Session!RequestFits
<1> SUFFICES ASSUME Session!Init PROVE Session!TabsFit /\ Session!ServerFits
    /\ Session!RequestFits
    BY TypesAreParts
<1>1. Session!ChannelsFit
  <2>1. <<>> \in Seq(Session!Message) /\ Len(<<>>) <= MaxMessages
      BY SessionBounds
  <2> QED
      BY <2>1 DEF Session!Init, Session!ChannelsFit
<1>2. Session!TabsFit
    BY <1>1, TokensNameSessions DEF Session!Init, Session!TabsFit
<1>3. Session!ServerFits
  <2>1. v1 \in Session!Token \cup {Session!None} /\ v3 \in 0..MaxLogins
      BY SessionBounds DEF Session!Init, Session!Token
  <2> QED
      BY <2>1 DEF Session!Init, Session!ServerFits
<1> QED
    BY <1>2, <1>3 DEF Session!RequestFits, Session!Init

\* Every step keeps the types.
LEMMA SessionTypesKept ==
    Session!TypeOK /\ Session!ChannelsFit /\ Session!RequestFits
    /\ [Session!Next]_(Session!sessionVars)
    => Session!TypeOK' /\ Session!ChannelsFit'
   /\ Session!RequestFits'
<1> SUFFICES ASSUME Session!TabsFit, Session!ServerFits, Session!RequestFits,
    [Session!Next]_(Session!sessionVars)
             PROVE  Session!TabsFit' /\ Session!ServerFits' /\ Session!RequestFits'
    BY DEF Session!TypeOK, Session!TabsFit, Session!ServerFits, Session!ChannelsFit
<1>1. ASSUME NEW t \in Tabs, Session!SignIn(t)
      PROVE  Session!TabsFit' /\ Session!ServerFits' /\ Session!RequestFits'
  <2> DEFINE new == [sess |-> v3 + 1, gen |-> 0]
  <2>1. new \in Session!Token /\ v3' \in 0..MaxLogins
      BY <1>1, SessionBounds DEF Session!SignIn, Session!ServerFits, Session!Token
  <2>2. /\ v1' = new /\ Session!SetToken(t, new) /\ Session!SetUser(t, new.sess)
           /\ Session!Post(t, <<"acquired", new>>)
        /\ UNCHANGED <<v4, v5, v6, v7, v8, v9, v10, v11, v16, v17>>
      BY <1>1 DEF Session!SignIn
  <2> HIDE DEF new
  <2>3. Session!ChannelsFit'
      BY <2>1, <2>2, PostFits, TokensNameSessions DEF Session!TabsFit
  <2>4. Session!TabsFit'
      BY <2>1, <2>2, <2>3, TokensNameSessions DEF Session!TabsFit, Session!SetToken,
         Session!SetUser
  <2> QED
      BY <2>1, <2>2, <2>4 DEF Session!ServerFits, Session!RequestFits
<1>2. ASSUME NEW t \in Tabs, Session!SignOut(t)
      PROVE  Session!TabsFit' /\ Session!ServerFits' /\ Session!RequestFits'
  <2>1. Session!TabsFit'
      BY <1>2, PerformLogoutFits DEF Session!SignOut, Session!TabsFit
  <2>2. v1.sess \in 0..MaxLogins /\ v12[t].sess \in 0..MaxLogins
    <3>1. \A x \in Session!Token \cup {Session!None} : x.sess \in 0..MaxLogins
      <4>1. Session!None.sess \in 0..MaxLogins
          BY SessionBounds DEF Session!None
      <4> QED
          BY <4>1, TokensNameSessions
    <3> QED
        BY <3>1 DEF Session!TabsFit, Session!ServerFits
  <2>3. v6' \subseteq 1..MaxLogins /\ v1' \in Session!Token \cup {Session!None}
    <3>1. CASE UNCHANGED <<v6, v1>>
        BY <3>1 DEF Session!ServerFits
    <3>2. CASE v6' = v6 \cup ({v12[t].sess, v1.sess} \ {0}) /\ v1' = Session!None
      <4>1. {v12[t].sess, v1.sess} \ {0} \subseteq 1..MaxLogins
          BY <2>2, SessionBounds
      <4> QED
          BY <3>2, <4>1 DEF Session!ServerFits
    <3> QED
        BY <1>2, <3>1, <3>2 DEF Session!SignOut
  <2> QED
      BY <1>2, <2>1, <2>3 DEF Session!SignOut, Session!ServerFits, Session!RequestFits
<1>3. ASSUME NEW t \in Tabs, Session!TimerFires(t) \/ Session!BecomesVisible(t)
             \/ Session!Unauthorized(t)
      PROVE  Session!TabsFit' /\ Session!ServerFits' /\ Session!RequestFits'
  <2>1. v11' \in [Tabs -> SUBSET Session!Callers]
      BY <1>3 DEF Session!TimerFires, Session!BecomesVisible, Session!Unauthorized,
         Session!Wait, Session!ServerFits, Session!Callers
  <2>2. v15' \in [Tabs -> BOOLEAN]
      BY <1>3 DEF Session!TimerFires, Session!BecomesVisible, Session!Unauthorized,
         Session!StopTimer, Session!TabsFit
  <2> QED
      BY <1>3, <2>1, <2>2
      DEF Session!TimerFires, Session!BecomesVisible, Session!Unauthorized, Session!TabsFit,
      Session!ChannelsFit, Session!ServerFits,
          Session!RequestFits, Session!serverVars, Session!lockVars
<1>4. ASSUME NEW t \in Tabs, Session!Boot(t)
      PROVE  Session!TabsFit' /\ Session!ServerFits' /\ Session!RequestFits'
  <2>1. v11' \in [Tabs -> SUBSET Session!Callers]
      BY <1>4 DEF Session!Boot, Session!Wait, Session!ServerFits, Session!Callers
  <2>2. v12[t] # Session!None => [by |-> "boot", sess |-> v12[t].sess] \in Session!Ask
      BY TokensNameSessions DEF Session!TabsFit
  <2>3. v16' \in [Tabs -> SUBSET Session!Ask]
      BY <1>4, <2>2 DEF Session!Boot, Session!TabsFit
  <2>4. v13' \in [Tabs -> 0..MaxLogins] /\ v14' \in [Tabs -> {"loading", "ready", "error"}]
      BY <1>4, TokensNameSessions DEF Session!Boot, Session!SetUser, Session!TabsFit
  <2> QED
      BY <1>4, <2>1, <2>3, <2>4
      DEF Session!Boot, Session!TabsFit, Session!ChannelsFit, Session!ServerFits,
      Session!RequestFits, Session!serverVars, Session!lockVars
<1>5. ASSUME NEW t \in Tabs, Session!Receive(t)
      PROVE  Session!TabsFit' /\ Session!ServerFits' /\ Session!RequestFits'
  <2>1. /\ v18[t] \in Seq(Session!Message) /\ Head(v18[t]) \in Session!Message
           /\ Tail(v18[t]) \in Seq(Session!Message)
        /\ Len(Tail(v18[t])) <= MaxMessages
    <3>1. v18[t] \in Seq(Session!Message) /\ v18[t] # <<>> /\ Len(v18[t]) <= MaxMessages
        BY <1>5 DEF Session!Receive, Session!TabsFit, Session!ChannelsFit
    <3>2. Len(Tail(v18[t])) = Len(v18[t]) - 1 /\ Len(v18[t]) \in Nat
        BY <3>1
    <3> QED
        BY <3>1, <3>2, SessionBounds
  <2>2. Session!ChannelsFit'
      BY <1>5, <2>1 DEF Session!Receive, Session!TabsFit, Session!ChannelsFit
  <2> DEFINE kind == Head(v18[t])[1]
             tok == Head(v18[t])[2]
  <2>3. kind \in {"refreshed", "acquired"} => tok \in Session!Token
      BY <2>1 DEF Session!Message
  <2>4. UNCHANGED <<Session!serverVars, Session!lockVars, v11, v17>>
      BY <1>5 DEF Session!Receive
  <2>5. \/ kind = "refreshed" /\ Session!SetToken(t, tok) /\ UNCHANGED <<v13, v14, v16>>
        \/ /\ kind = "acquired" /\ Session!SetToken(t, tok) /\ UNCHANGED <<v13, v14>>
           /\ v16' = [v16 EXCEPT ![t] = @ \cup {[by |-> "acquired", sess |-> tok.sess]}]
        \/ Session!ForgetUser(t) /\ UNCHANGED v16
      BY <1>5 DEF Session!Receive
  <2> HIDE DEF kind, tok
  <2>6. v2' \in BOOLEAN /\ v12' \in [Tabs -> Session!Token \cup {Session!None}]
        /\ v15' \in [Tabs -> BOOLEAN]
      BY <2>3, <2>5 DEF Session!SetToken, Session!ForgetUser, Session!ClearToken,
         Session!StopTimer, Session!TabsFit
  <2>7. v13' \in [Tabs -> 0..MaxLogins] /\ v14' \in [Tabs -> {"loading", "ready", "error"}]
      BY <2>5, TokensNameSessions DEF Session!ForgetUser, Session!SetUser, Session!TabsFit
  <2>8. v16' \in [Tabs -> SUBSET Session!Ask]
    <3> DEFINE more == v16[t] \cup {[by |-> "acquired", sess |-> tok.sess]}
    <3>1. kind = "acquired" => more \subseteq Session!Ask
        BY <2>3, TokensNameSessions DEF Session!TabsFit
    <3>2. UNCHANGED v16 \/ (kind = "acquired" /\ v16' = [v16 EXCEPT ![t] = more])
        BY <2>5
    <3> HIDE DEF more
    <3> QED
        BY <3>1, <3>2 DEF Session!TabsFit
  <2> QED
      BY <2>2, <2>4, <2>6, <2>7, <2>8 DEF Session!TabsFit, Session!ServerFits,
         Session!RequestFits, Session!serverVars, Session!lockVars
<1>6. ASSUME NEW t \in Tabs, NEW c \in Session!Callers, Session!EnterWithToken(t, c)
      PROVE  Session!TabsFit' /\ Session!ServerFits' /\ Session!RequestFits'
  <2>1. v12[t] \in Session!Token
      BY <1>6 DEF Session!EnterWithToken, Session!Fresh, Session!TabsFit
  <2>2. Session!TabsFit'
      BY <1>6, <2>1, GrantedFits DEF Session!EnterWithToken
  <2>3. v11' \in [Tabs -> SUBSET Session!Callers]
      BY <1>6 DEF Session!EnterWithToken, Session!Leave, Session!ServerFits
  <2> QED
      BY <1>6, <2>2, <2>3 DEF Session!EnterWithToken, Session!ServerFits, Session!RequestFits,
         Session!serverVars, Session!lockVars
<1>7. ASSUME NEW t \in Tabs, NEW c \in Session!Callers, Session!EnterAndAsk(t, c)
      PROVE  Session!TabsFit' /\ Session!ServerFits' /\ Session!RequestFits'
  <2>1. Session!TabsFit'
      BY <1>7 DEF Session!EnterAndAsk, Session!TabsFit, Session!ChannelsFit
  <2>2. v1 \in v4 => v1.sess \in 1..MaxLogins
      BY TokensNameSessions DEF Session!ServerFits
  <2>3. /\ v4' \subseteq Session!Token /\ v5' \subseteq v4' /\ v6' \subseteq 1..MaxLogins
        /\ v10' \in {"granted", "denied"} \cup Failures
        /\ v10' = "granted" => v1 \in Session!Token /\ v1.gen < MaxRenewals
      BY <1>7, <2>2, FailuresAreKnown DEF Session!EnterAndAsk, Session!Serve, Session!ServerFits
  <2> QED
      BY <1>7, <2>1, <2>3, FailuresAreKnown DEF Session!EnterAndAsk, Session!ServerFits,
         Session!RequestFits
<1>8. ASSUME NEW t \in Tabs, NEW c \in Session!Callers, Session!Answered(t, c)
      PROVE  Session!TabsFit' /\ Session!ServerFits' /\ Session!RequestFits'
  <2>1. v10 = "granted" => Session!Renewed \in Session!Token
      BY SessionBounds DEF Session!RequestFits, Session!Renewed, Session!Token
  <2>2. v10 \in {"granted", "denied", "unavailable", "throttled"}
      BY <1>8, FailuresAreKnown DEF Session!Answered, Session!RequestFits, Session!ServerFits
  <2>3. Session!TabsFit'
    <3>1. CASE v10 = "granted"
        BY <1>8, <2>1, <3>1, GrantedFits DEF Session!Answered
    <3>2. CASE v10 = "denied"
        BY <1>8, <3>2, DeniedFits DEF Session!Answered
    <3>3. CASE v10 = "unavailable"
        BY <1>8, <3>3, UnavailableFits DEF Session!Answered
    <3>4. CASE v10 = "throttled"
        BY <1>8, <3>4, UnavailableFits, DeniedFits DEF Session!Answered, Session!Throttled
    <3> QED
        BY <2>2, <3>1, <3>2, <3>3, <3>4
  <2>4. v11' \in [Tabs -> SUBSET Session!Callers] /\ v1' \in Session!Token \cup {Session!None}
      BY <1>8, <2>1 DEF Session!Answered, Session!Leave, Session!ServerFits
  <2> QED
      BY <1>8, <2>3, <2>4 DEF Session!Answered, Session!ServerFits, Session!RequestFits,
         Session!serverVars
<1>9. ASSUME NEW t \in Tabs, NEW a \in Session!Ask, Session!ProfileAnswered(t, a)
      PROVE  Session!TabsFit' /\ Session!ServerFits' /\ Session!RequestFits'
  <2>1. a.sess \in 0..MaxLogins
      BY SessionBounds DEF Session!Ask
  <2>2. v11' \in [Tabs -> SUBSET Session!Callers]
      BY <1>9 DEF Session!ProfileAnswered, Session!ServerFits, Session!Callers
  <2>3. v17' \in [Tabs -> SUBSET Session!Ask] /\ v16' \in [Tabs -> SUBSET Session!Ask]
      BY <1>9 DEF Session!ProfileAnswered, Session!TabsFit
  <2>4. /\ v13' \in [Tabs -> 0..MaxLogins] /\ v14' \in [Tabs -> {"loading", "ready", "error"}]
        /\ v15' \in [Tabs -> BOOLEAN]
      BY <1>9, <2>1 DEF Session!ProfileAnswered, Session!SetUser, Session!TabsFit
  <2> QED
      BY <1>9, <2>2, <2>3, <2>4
      DEF Session!ProfileAnswered, Session!TabsFit, Session!ChannelsFit, Session!ServerFits,
      Session!RequestFits, Session!serverVars, Session!lockVars
<1>10. ASSUME NEW tok \in Session!Token, Session!TokenAges(tok)
      PROVE  Session!TabsFit' /\ Session!ServerFits' /\ Session!RequestFits'
    BY <1>10 DEF Session!TokenAges, Session!TabsFit, Session!ChannelsFit, Session!ServerFits,
       Session!RequestFits, Session!lockVars
<1>11. CASE UNCHANGED Session!sessionVars
    BY <1>11 DEF Session!sessionVars, Session!TabsFit, Session!ChannelsFit, Session!ServerFits,
       Session!RequestFits
<1> QED
    BY <1>1, <1>2, <1>3, <1>4, <1>5, <1>6, <1>7, <1>8, <1>9, <1>10, <1>11 DEF Session!Next

-----------------------------------------------------------------------------
(* EventStream: v1 subs, v2 leader, v3 snapshots, v4 source, v5 url, v6    *)
(* due, v7 polling, v8 wire, v9 mail, v10 current.                         *)

\* The part's number of elements is the library's.
LEMMA EventsCounts == \A S : Events!Cardinality(S) = Cardinality(S)
    BY Zenon DEF Events!Cardinality, Cardinality

\* The first states have their types.
LEMMA EventsTypesStart == Events!Init => Events!TypeOK
<1> SUFFICES ASSUME Events!Init PROVE Events!TypeOK
    OBVIOUS
<1> USE DEF Events!TypeOK, Events!Channels, Events!Sources, Events!Notes
<1>1. v1 \in [Tabs -> SUBSET Events!Channels]
    BY EventsBounds DEF Events!Init
<1>2. v2 \in Tabs \cup {"none"}
    BY EventsBounds DEF Events!Init
<1>3. v3 \in [Tabs -> [Tabs -> SUBSET Events!Channels]]
    BY EventsBounds DEF Events!Init
<1>4. v4 \in Events!Sources
    BY EventsBounds DEF Events!Init
<1>5. v5 \subseteq Topics
    BY EventsBounds DEF Events!Init
<1>6. v6 \in BOOLEAN
    BY EventsBounds DEF Events!Init
<1>7. v7 \subseteq Tabs
    BY EventsBounds DEF Events!Init
<1>8. v8 \subseteq Events!Channels \cup {"resync"}
    BY EventsBounds DEF Events!Init
<1>9. v9 \in [Tabs -> Seq(Events!Notes)]
    BY EventsBounds DEF Events!Init
<1>10. v10 \in [Tabs -> SUBSET Events!Channels]
    BY EventsBounds DEF Events!Init
<1> QED
    BY <1>1, <1>2, <1>3, <1>4, <1>5, <1>6, <1>7, <1>8, <1>9, <1>10

\* A finite set has a subset of every size up to its own.
LEMMA SubsetOfSize ==
    ASSUME NEW S, IsFiniteSet(S), NEW k \in Nat, k <= Cardinality(S)
    PROVE  \E T \in SUBSET S : Cardinality(T) = k
<1> DEFINE n == Cardinality(S)
<1>1. PICK f \in Bijection(1..n, S) : TRUE
    BY FS_CardinalityType DEF ExistsBijection
<1>2. n \in Nat
    BY FS_CardinalityType
<1> HIDE DEF n
<1> DEFINE T == {f[i] : i \in 1..k}
           g == [i \in 1..k |-> f[i]]
<1>3. k <= n
    BY DEF n
<1>4. f \in [1..n -> S] /\ \A i, j \in 1..n : f[i] = f[j] => i = j
    BY <1>1 DEF Bijection, Injection, IsInjective
<1>5. g \in Bijection(1..k, T)
    BY <1>2, <1>3, <1>4 DEF Bijection, Injection, Surjection, IsInjective
<1>6. IsFiniteSet(1..k) /\ Cardinality(1..k) = k
    BY FS_Interval
<1>7. Cardinality(T) = k
    BY <1>5, <1>6, FS_Bijection DEF ExistsBijection
<1>8. T \in SUBSET S
    BY <1>2, <1>3, <1>4
<1> QED
    BY <1>7, <1>8

\* The topics that the master tab asks for are topics.
LEMMA MasterTopicsFit ==
    ASSUME NEW w
    PROVE  Events!MasterTopics(w) \subseteq Topics
<1> DEFINE topics == w \cap Topics
<1>1. IsFiniteSet(topics)
    BY EventsBounds, FS_Subset
<1>2. CASE ~(Cardinality(topics) <= MaxTopics)
  <2>1. Cardinality(topics) \in Nat /\ MaxTopics \in Nat /\ MaxTopics <= Cardinality(topics)
      BY <1>1, <1>2, EventsBounds, FS_CardinalityType
  <2>2. \E T \in SUBSET topics : Cardinality(T) = MaxTopics
    <3> HIDE DEF topics
    <3> QED
        BY <1>1, <2>1, SubsetOfSize
  <2> QED
      BY EventsCounts, <1>2, <2>2 DEF Events!MasterTopics
<1> QED
    BY EventsCounts, <1>2 DEF Events!MasterTopics

\* Every step keeps the types.
LEMMA EventsTypesKept ==
    Events!TypeOK /\ [Events!Next]_(Events!eventVars) /\ Events!StreamInv' => Events!TypeOK'
<1> SUFFICES ASSUME Events!TypeOK, [Events!Next]_(Events!eventVars), Events!StreamInv'
             PROVE  Events!TypeOK'
    OBVIOUS
<1>0. /\ (v1 \in [Tabs -> SUBSET Events!Channels])'
      /\ (v2 \in Tabs \cup {"none"})'
      /\ (v3 \in [Tabs -> [Tabs -> SUBSET Events!Channels]])'
      /\ (v4 \in Events!Sources)'
      /\ (v6 \in BOOLEAN)'
      /\ (v9 \in [Tabs -> Seq(Events!Notes)])'
      /\ (v10 \in [Tabs -> SUBSET Events!Channels])'
    BY DEF
       Events!StreamInv, Events!StreamIsLeaders, Events!UrlIsKnown, Events!OverflowIsTended,
       Events!OldIsTold, Events!StreamFits,
       Events!Open, Events!MasterTopics, Events!Known, Events!Tells, Events!Channels,
       Events!Sources, Events!Notes, Events!Wanted
<1> USE DEF Events!TypeOK, Events!Channels, Events!Sources, Events!Notes
<1>1. ASSUME NEW t \in Tabs, Events!OpenTab(t)
      PROVE  Events!TypeOK'
    BY <1>1, EventsBounds, <1>0 DEF Events!OpenTab, Events!Open, Events!Snapshot,
       Events!Broadcast, Events!Room
<1>2. ASSUME NEW t \in Tabs, Events!CloseTab(t)
      PROVE  Events!TypeOK'
    BY <1>2, EventsBounds, <1>0 DEF Events!CloseTab, Events!Open
<1>3. ASSUME NEW t \in Tabs, Events!Elected(t)
      PROVE  Events!TypeOK'
    BY <1>3, EventsBounds, <1>0 DEF Events!Elected, Events!Open, Events!Snapshot,
       Events!Broadcast, Events!Room, Events!OverflowResync
<1>4. ASSUME NEW t \in Tabs, Events!Heartbeat(t)
      PROVE  Events!TypeOK'
    BY <1>4, EventsBounds, <1>0 DEF Events!Heartbeat, Events!Open, Events!Snapshot,
       Events!Broadcast, Events!Room, Events!ConnectionRefresh,
       Events!Wanted, Events!MasterTopics, Events!OverflowResync
<1>5. ASSUME NEW t \in Tabs, Events!OverflowTick(t)
      PROVE  Events!TypeOK'
    BY <1>5, EventsBounds, <1>0 DEF Events!OverflowTick, Events!Broadcast, Events!Room,
       Events!ResyncLocal, Events!Open
<1>6. ASSUME NEW t \in Tabs, Events!Receive(t)
      PROVE  Events!TypeOK'
    BY <1>6, EventsBounds, <1>0 DEF Events!Receive, Events!Open, Events!Snapshot, Events!Room,
       Events!ConnectionRefresh, Events!ResyncLocal,
       Events!Dispatch, Events!Wanted, Events!MasterTopics, Events!OverflowResync
<1>7. ASSUME NEW t \in Tabs, NEW c \in Topics, Events!Subscribe(t, c)
      PROVE  Events!TypeOK'
    BY <1>7, EventsBounds, <1>0 DEF Events!Subscribe, Events!Open, Events!Snapshot,
       Events!Broadcast, Events!Room, Events!ConnectionRefresh,
       Events!Wanted, Events!MasterTopics, Events!OverflowResync
<1>8. ASSUME NEW t \in Tabs, NEW c \in Topics, Events!Unsubscribe(t, c)
      PROVE  Events!TypeOK'
    BY <1>8, EventsBounds, <1>0 DEF Events!Unsubscribe, Events!Snapshot, Events!Broadcast,
       Events!Room, Events!ConnectionRefresh,
       Events!Open, Events!Wanted, Events!MasterTopics, Events!OverflowResync
<1>9. CASE Events!Connect
  <2>5. (v5 \subseteq Topics)'
      BY <1>9, MasterTopicsFit DEF Events!Connect
  <2> QED
      BY <1>9, <2>5, EventsBounds, <1>0 DEF Events!Connect, Events!Wanted, Events!MasterTopics
<1>10. CASE Events!StreamOpens
    BY <1>10, EventsBounds, <1>0 DEF Events!StreamOpens, Events!Broadcast, Events!Room,
       Events!ResyncLocal, Events!Open
<1>11. CASE Events!StreamFails
    BY <1>11, EventsBounds, <1>0 DEF Events!StreamFails, Events!Broadcast, Events!Room,
       Events!ResyncLocal, Events!Open
<1>12. CASE Events!ServerDropsEvents
    BY <1>12, EventsBounds, <1>0 DEF Events!ServerDropsEvents
<1>13. ASSUME NEW c \in Events!Channels, Events!ServerChanges(c)
      PROVE  Events!TypeOK'
    BY <1>13, EventsBounds, <1>0 DEF Events!ServerChanges
<1>14. ASSUME NEW c \in Events!Channels \cup {"resync"}, Events!StreamDelivers(c)
      PROVE  Events!TypeOK'
    BY <1>14, EventsBounds, <1>0 DEF Events!StreamDelivers, Events!Broadcast, Events!Room,
       Events!ResyncLocal, Events!Dispatch, Events!Open
<1>15. CASE UNCHANGED Events!eventVars
    BY <1>15, EventsBounds, <1>0 DEF Events!eventVars
<1> QED
    BY <1>1, <1>2, <1>3, <1>4, <1>5, <1>6, <1>7, <1>8, <1>9, <1>10, <1>11, <1>12,
       <1>13, <1>14, <1>15 DEF Events!Next

-----------------------------------------------------------------------------
(* UploadTransfer: v1 size, v2 step, v3 parts, v4 tries, v5 unsure, v6     *)
(* committed, v7 withdrawn, v8 cancelled, v9 job, v10 outcome.             *)

\* The first states have their types.
LEMMA TransferTypesStart == Transfer!Init => Transfer!TypeOK
<1> SUFFICES ASSUME Transfer!Init PROVE Transfer!TypeOK
    OBVIOUS
<1> USE DEF Transfer!TypeOK, Transfer!Sizes, Transfer!Steps, Transfer!PartStates, Transfer!Jobs,
    Transfer!Outcomes
<1>1. v1 \in Transfer!Sizes
    BY TransferBounds DEF Transfer!Init
<1>2. v2 \in Transfer!Steps
    BY TransferBounds DEF Transfer!Init
<1>3. v3 \in [Parts -> Transfer!PartStates]
    BY TransferBounds DEF Transfer!Init
<1>4. v4 \in [Parts \cup {"all"} -> 0..MaxRetries + MaxBreaks]
    BY TransferBounds DEF Transfer!Init
<1>5. v5 \in BOOLEAN
    BY TransferBounds DEF Transfer!Init
<1>6. v6 \in BOOLEAN
    BY TransferBounds DEF Transfer!Init
<1>7. v7 \in BOOLEAN
    BY TransferBounds DEF Transfer!Init
<1>8. v8 \in BOOLEAN
    BY TransferBounds DEF Transfer!Init
<1>9. v9 \in Transfer!Jobs
    BY TransferBounds DEF Transfer!Init
<1>10. v10 \in Transfer!Outcomes
    BY TransferBounds DEF Transfer!Init
<1> QED
    BY <1>1, <1>2, <1>3, <1>4, <1>5, <1>6, <1>7, <1>8, <1>9, <1>10

\* The first step of an upload has a try left.
LEMMA AttemptsStart == Transfer!Init => Transfer!AttemptsFit
    BY TransferBounds DEF Transfer!Init, Transfer!AttemptsFit

\* Every step leaves tries for the step that follows.
LEMMA AttemptsStep ==
    Transfer!TypeOK /\ Transfer!AttemptsFit /\ [Transfer!Next]_(Transfer!transferVars)
    => Transfer!AttemptsFit'
<1> SUFFICES ASSUME Transfer!TypeOK, Transfer!AttemptsFit,
    [Transfer!Next]_(Transfer!transferVars)
             PROVE  Transfer!AttemptsFit'
    OBVIOUS
<1> USE TransferBounds DEF Transfer!TypeOK, Transfer!Steps, Transfer!AttemptsFit,
    Transfer!Throw, Transfer!Commit
<1>1. ASSUME v4'["all"] = v4["all"], v2' = v2 \/ v2' = "over"
      PROVE  Transfer!AttemptsFit'
    BY <1>1
<1>2. CASE Transfer!Prepared
  <2>1. v2' \in {"direct", "presigned", "tus", "multipart"} /\ v4' = v4 /\ v2 = "prepare"
      BY <1>2 DEF Transfer!Prepared
  <2> QED
      BY <2>1
<1>3. CASE Transfer!PrepareFails \/ Transfer!GiveUpParts \/ Transfer!CompletionRefused
      \/ Transfer!Cancel \/ Transfer!Unwind \/ Transfer!JobEnds \/ Transfer!Verdict
         \/ Transfer!Deadline
    BY <1>3, <1>1 DEF Transfer!PrepareFails, Transfer!GiveUpParts, Transfer!CompletionRefused,
       Transfer!Cancel, Transfer!Unwind, Transfer!JobEnds, Transfer!Verdict, Transfer!Deadline
<1>4. CASE Transfer!DirectSends \/ Transfer!TusSends \/ Transfer!MultipartRefused
      \/ Transfer!AllPartsSent \/ Transfer!Pause \/ Transfer!Resume
    BY <1>4 DEF Transfer!DirectSends, Transfer!TusSends, Transfer!MultipartRefused,
       Transfer!AllPartsSent, Transfer!Pause, Transfer!Resume
<1>5. CASE Transfer!PresignedPutFails \/ Transfer!CompletionLost
    BY <1>5 DEF Transfer!PresignedPutFails, Transfer!CompletionLost
<1>6. CASE Transfer!StreamBreaks
    BY <1>6 DEF Transfer!StreamBreaks
<1>7. CASE Transfer!PresignedSends \/ Transfer!CompletionAnswered \/ Transfer!StreamReads
    BY <1>7 DEF Transfer!PresignedSends, Transfer!CompletionAnswered, Transfer!StreamReads
<1>8. ASSUME NEW p \in Parts, Transfer!SendPart(p) \/ Transfer!PartSent(p)
             \/ Transfer!PartFails(p)
      PROVE  Transfer!AttemptsFit'
  <2>1. v4'["all"] = v4["all"] /\ v2' = v2
      BY <1>8 DEF Transfer!SendPart, Transfer!PartSent, Transfer!PartFails
  <2> QED
      BY <2>1, <1>1
<1>9. CASE UNCHANGED Transfer!transferVars
    BY <1>9, <1>1 DEF Transfer!transferVars
<1> QED
    BY <1>2, <1>3, <1>4, <1>5, <1>6, <1>7, <1>8, <1>9 DEF Transfer!Next

\* Every step keeps the types.
LEMMA TransferTypesKept ==
    Transfer!TypeOK /\ [Transfer!Next]_(Transfer!transferVars) /\ Transfer!TransferInv'
    /\ Transfer!AttemptsFit
    => Transfer!TypeOK'
<1> SUFFICES ASSUME Transfer!TypeOK, [Transfer!Next]_(Transfer!transferVars),
    Transfer!TransferInv', Transfer!AttemptsFit
             PROVE  Transfer!TypeOK'
    OBVIOUS
<1>0. /\ (v2 \in Transfer!Steps)'
      /\ (v5 \in BOOLEAN)'
      /\ (v6 \in BOOLEAN)'
      /\ (v7 \in BOOLEAN)'
      /\ (v8 \in BOOLEAN)'
    BY DEF
       Transfer!TransferInv, Transfer!Steps, Transfer!NothingSentEarly,
       Transfer!WithdrawalEndsCall, Transfer!Flags, Transfer!Unsent
<1> USE DEF Transfer!TypeOK, Transfer!Sizes, Transfer!Steps, Transfer!PartStates, Transfer!Jobs,
    Transfer!Outcomes
<1>1. CASE Transfer!Prepared
    BY <1>1, TransferBounds, <1>0 DEF Transfer!Prepared
<1>2. CASE Transfer!PrepareFails
    BY <1>2, TransferBounds, <1>0 DEF Transfer!PrepareFails, Transfer!Throw
<1>3. CASE Transfer!DirectSends
    BY <1>3, TransferBounds, <1>0 DEF Transfer!DirectSends, Transfer!Throw, Transfer!Commit
<1>4. CASE Transfer!PresignedPutFails
  <2>4. (v4 \in [Parts \cup {"all"} -> 0..MaxRetries + MaxBreaks])'
      BY <1>4, TransferBounds, Transfer!AttemptsFit DEF Transfer!PresignedPutFails,
         Transfer!Throw, Transfer!AttemptsFit
  <2> QED
      BY <1>4, <2>4, TransferBounds, <1>0 DEF Transfer!PresignedPutFails, Transfer!Throw
<1>5. CASE Transfer!PresignedSends
    BY <1>5, TransferBounds, <1>0 DEF Transfer!PresignedSends, Transfer!Throw, Transfer!Commit
<1>6. CASE Transfer!MultipartRefused
    BY <1>6, TransferBounds, <1>0 DEF Transfer!MultipartRefused, Transfer!Throw,
       Transfer!Sending
<1>7. CASE Transfer!GiveUpParts
    BY <1>7, TransferBounds, <1>0 DEF Transfer!GiveUpParts, Transfer!Throw
<1>8. CASE Transfer!AllPartsSent
    BY <1>8, TransferBounds, <1>0 DEF Transfer!AllPartsSent
<1>9. ASSUME NEW p \in Parts, Transfer!SendPart(p)
      PROVE  Transfer!TypeOK'
    BY <1>9, TransferBounds, <1>0 DEF Transfer!SendPart, Transfer!Sending
<1>10. ASSUME NEW p \in Parts, Transfer!PartSent(p)
      PROVE  Transfer!TypeOK'
    BY <1>10, TransferBounds, <1>0 DEF Transfer!PartSent
<1>11. ASSUME NEW p \in Parts, Transfer!PartFails(p)
      PROVE  Transfer!TypeOK'
    BY <1>11, TransferBounds, <1>0 DEF Transfer!PartFails
<1>12. CASE Transfer!CompletionAnswered
    BY <1>12, TransferBounds, <1>0 DEF Transfer!CompletionAnswered, Transfer!Commit
<1>13. CASE Transfer!CompletionRefused
    BY <1>13, TransferBounds, <1>0 DEF Transfer!CompletionRefused, Transfer!Throw
<1>14. CASE Transfer!CompletionLost
  <2>4. (v4 \in [Parts \cup {"all"} -> 0..MaxRetries + MaxBreaks])'
      BY <1>14, TransferBounds, Transfer!AttemptsFit DEF Transfer!CompletionLost,
         Transfer!Throw, Transfer!AttemptsFit
  <2> QED
      BY <1>14, <2>4, TransferBounds, <1>0 DEF Transfer!CompletionLost, Transfer!Throw,
         Transfer!Commit
<1>15. CASE Transfer!TusSends
    BY <1>15, TransferBounds, <1>0 DEF Transfer!TusSends, Transfer!Throw, Transfer!Commit
<1>16. CASE Transfer!Pause
    BY <1>16, TransferBounds, <1>0 DEF Transfer!Pause
<1>17. CASE Transfer!Resume
    BY <1>17, TransferBounds, <1>0 DEF Transfer!Resume
<1>18. CASE Transfer!Cancel
    BY <1>18, TransferBounds, <1>0 DEF Transfer!Cancel
<1>19. CASE Transfer!Unwind
    BY <1>19, TransferBounds, <1>0 DEF Transfer!Unwind, Transfer!Throw
<1>20. CASE Transfer!JobEnds
    BY <1>20, TransferBounds, <1>0 DEF Transfer!JobEnds
<1>21. CASE Transfer!StreamReads
    BY <1>21, TransferBounds, <1>0 DEF Transfer!StreamReads
<1>22. CASE Transfer!StreamBreaks
  <2>4. (v4 \in [Parts \cup {"all"} -> 0..MaxRetries + MaxBreaks])'
      BY <1>22, TransferBounds, Transfer!AttemptsFit DEF Transfer!StreamBreaks, Transfer!Throw,
         Transfer!AttemptsFit
  <2> QED
      BY <1>22, <2>4, TransferBounds, <1>0 DEF Transfer!StreamBreaks, Transfer!Throw
<1>23. CASE Transfer!Verdict
    BY <1>23, TransferBounds, <1>0 DEF Transfer!Verdict, Transfer!Throw
<1>24. CASE Transfer!Deadline
    BY <1>24, TransferBounds, <1>0 DEF Transfer!Deadline, Transfer!Throw
<1>25. CASE UNCHANGED Transfer!transferVars
    BY <1>25, TransferBounds, <1>0 DEF Transfer!transferVars
<1> QED
    BY <1>1, <1>2, <1>3, <1>4, <1>5, <1>6, <1>7, <1>8, <1>9, <1>10, <1>11, <1>12,
       <1>13, <1>14, <1>15, <1>16, <1>17, <1>18, <1>19, <1>20, <1>21, <1>22, <1>23, <1>24,
       <1>25 DEF Transfer!Next

-----------------------------------------------------------------------------
(* UploadQueue: v1 status, v2 resumable, v3 attached, v4 lost, v5 run, v6  *)
(* waiting, v7 active, v8 unsorted, v9 folder, v10 staged.                 *)

\* The first states have their types.
LEMMA QueueTypesStart == Queue!Init => Queue!TypeOK
<1> SUFFICES ASSUME Queue!Init PROVE Queue!TypeOK
    OBVIOUS
<1> USE DEF Queue!TypeOK, Queue!Statuses, Queue!Runs, Queue!Folders
<1> QED
    BY QueueBounds DEF Queue!Init

\* Every step keeps the types.
LEMMA QueueTypesKept ==
    Queue!TypeOK /\ [Queue!Next]_(Queue!queueVars) /\ Queue!QueueInv' => Queue!TypeOK'
<1> SUFFICES ASSUME Queue!TypeOK, [Queue!Next]_(Queue!queueVars), Queue!QueueInv'
             PROVE  Queue!TypeOK'
    OBVIOUS
<1>0. v1' \in [Files -> Queue!Statuses] /\ v5' \in [Files -> Queue!Runs] /\ v6' \in Seq(Files)
      /\ v7' \in Nat
    BY DEF Queue!QueueInv, Queue!QueueFits
<1> USE DEF Queue!TypeOK, Queue!Statuses, Queue!Runs, Queue!Folders
<1>1. CASE Queue!DismissMime
    BY <1>1, QueueBounds DEF Queue!DismissMime
<1>2. CASE Queue!DropFolder
    BY <1>2, QueueBounds DEF Queue!DropFolder
<1>3. CASE Queue!FolderScanned
    BY <1>3, QueueBounds DEF Queue!FolderScanned
<1>4. CASE Queue!FolderRefused
    BY <1>4, QueueBounds DEF Queue!FolderRefused
<1>5. CASE Queue!Reload
    BY <1>5, QueueBounds DEF Queue!Reload, Queue!Listed, Queue!InFlight
<1>6. CASE Queue!Stage
    BY <1>6, QueueBounds DEF Queue!Stage, Queue!InFlight
<1>7. CASE Queue!CloseEmpty
    BY <1>7, QueueBounds DEF Queue!CloseEmpty, Queue!Listed
<1>8. ASSUME NEW f \in Files, Queue!AddFile(f)
      PROVE  Queue!TypeOK'
    BY <1>0, <1>8 DEF Queue!AddFile, Queue!New
<1>9. ASSUME NEW f \in Files, Queue!DeferFile(f)
      PROVE  Queue!TypeOK'
    BY <1>9, QueueBounds DEF Queue!DeferFile, Queue!New, Queue!Listed
<1>10. ASSUME NEW f \in Files, Queue!MimeConfirmed(f)
      PROVE  Queue!TypeOK'
    BY <1>0, <1>10 DEF Queue!MimeConfirmed
<1>11. ASSUME NEW f \in Files, Queue!Recover(f)
      PROVE  Queue!TypeOK'
    BY <1>0, <1>11 DEF Queue!Recover
<1>12. ASSUME NEW f \in Files, Queue!FolderAdmitted(f)
      PROVE  Queue!TypeOK'
    BY <1>0, <1>12 DEF Queue!FolderAdmitted, Queue!New
<1>13. ASSUME NEW f \in Files, Queue!TusUrlKnown(f)
      PROVE  Queue!TypeOK'
    BY <1>13, QueueBounds DEF Queue!TusUrlKnown
<1>14. ASSUME NEW f \in Files, Queue!Transferred(f)
      PROVE  Queue!TypeOK'
    BY <1>14, QueueBounds DEF Queue!Transferred
<1>15. ASSUME NEW f \in Files, Queue!RunFails(f)
      PROVE  Queue!TypeOK'
    BY <1>0, <1>15 DEF Queue!RunFails, Queue!Settle
<1>16. ASSUME NEW f \in Files, Queue!RunEnds(f)
      PROVE  Queue!TypeOK'
    BY <1>0, <1>16 DEF Queue!RunEnds, Queue!Settle
<1>17. ASSUME NEW f \in Files, Queue!RunAborts(f)
      PROVE  Queue!TypeOK'
    BY <1>0, <1>17 DEF Queue!RunAborts, Queue!Settle
<1>18. ASSUME NEW f \in Files, Queue!Pause(f)
      PROVE  Queue!TypeOK'
    BY <1>18, QueueBounds DEF Queue!Pause, Queue!LessOne
<1>19. ASSUME NEW f \in Files, Queue!Resume(f)
      PROVE  Queue!TypeOK'
    BY <1>19, QueueBounds DEF Queue!Resume, Queue!MayStart
<1>20. ASSUME NEW f \in Files, Queue!Retry(f)
      PROVE  Queue!TypeOK'
    BY <1>0, <1>20 DEF Queue!Retry
<1>21. ASSUME NEW f \in Files, Queue!Remove(f)
      PROVE  Queue!TypeOK'
    BY <1>21, QueueBounds DEF Queue!Remove, Queue!Listed
<1>22. ASSUME NEW f \in Files, Queue!ReAttach(f)
      PROVE  Queue!TypeOK'
    BY <1>22, QueueBounds DEF Queue!ReAttach, Queue!Listed
<1>23. CASE UNCHANGED Queue!queueVars
    BY <1>23, QueueBounds DEF Queue!queueVars
<1> QED
    BY <1>1, <1>2, <1>3, <1>4, <1>5, <1>6, <1>7, <1>8, <1>9, <1>10, <1>11, <1>12,
       <1>13, <1>14, <1>15, <1>16, <1>17, <1>18, <1>19, <1>20, <1>21, <1>22, <1>23
            DEF Queue!Next

-----------------------------------------------------------------------------
(* PullRequestPages: v1 verdict, v2 undone, v3 role, v4 screen, v5 detail, *)
(* v6 dialog, v7 filled, v8 acting, v9 asked, v10 rows, v11 preview, v12   *)
(* list, v13 queries, v14 heard, v15 unlisted.                             *)

\* The first states have their types.
LEMMA PullsTypesStart == Pulls!Init => Pulls!TypeOK
<1> SUFFICES ASSUME Pulls!Init PROVE Pulls!TypeOK
    OBVIOUS
<1> USE DEF Pulls!TypeOK, Pulls!Verdicts, Pulls!Decisions, Pulls!Detail, Pulls!Asked,
    Pulls!Query
<1>1. v1 \in Pulls!Verdicts
    BY PullsBounds DEF Pulls!Init, Pulls!Blank, Pulls!NewQuery
<1>2. v2 \in BOOLEAN
    BY PullsBounds DEF Pulls!Init, Pulls!Blank, Pulls!NewQuery
<1>3. v3 \in {"author", "moderator", "admin"}
    BY PullsBounds DEF Pulls!Init, Pulls!Blank, Pulls!NewQuery
<1>4. v4 \in {"list", "detail", "preview"}
    BY PullsBounds DEF Pulls!Init, Pulls!Blank, Pulls!NewQuery
<1>5. v5 \in Pulls!Detail
    BY PullsBounds DEF Pulls!Init, Pulls!Blank, Pulls!NewQuery
<1>6. v6 \in {"none"} \cup (Pulls!Decisions \ {"approve"})
    BY PullsBounds DEF Pulls!Init, Pulls!Blank, Pulls!NewQuery
<1>7. v7 \in BOOLEAN
    BY PullsBounds DEF Pulls!Init, Pulls!Blank, Pulls!NewQuery
<1>8. v8 \in {"none"} \cup Pulls!Decisions
    BY PullsBounds DEF Pulls!Init, Pulls!Blank, Pulls!NewQuery
<1>9. v9 \subseteq Pulls!Asked
    BY PullsBounds DEF Pulls!Init, Pulls!Blank, Pulls!NewQuery
<1>10. v10 \in {"none", "resolving", "fetched", "known", "bare"}
    BY PullsBounds DEF Pulls!Init, Pulls!Blank, Pulls!NewQuery
<1>11. v11 \in {"idle", "named", "asked", "fallback", "open", "failed"}
    BY PullsBounds DEF Pulls!Init, Pulls!Blank, Pulls!NewQuery
<1>12. v12 \in {"none", "old", "now"}
    BY PullsBounds DEF Pulls!Init, Pulls!Blank, Pulls!NewQuery
<1>13. v13 \subseteq Pulls!Query
    BY PullsBounds DEF Pulls!Init, Pulls!Blank, Pulls!NewQuery
<1>14. v14 \in BOOLEAN
    BY PullsBounds DEF Pulls!Init, Pulls!Blank, Pulls!NewQuery
<1>15. v15 \in BOOLEAN
    BY PullsBounds DEF Pulls!Init, Pulls!Blank, Pulls!NewQuery
<1> QED
    BY <1>1, <1>2, <1>3, <1>4, <1>5, <1>6, <1>7, <1>8, <1>9, <1>10, <1>11, <1>12,
       <1>13, <1>14, <1>15

\* The queries that stay when a page is left are queries.
LEMMA InactiveFit == v13 \subseteq Pulls!Query => Pulls!Inactive \subseteq Pulls!Query
    BY DEF Pulls!Inactive, Pulls!Query

\* Asking for a page adds a query only.
LEMMA FetchFits == v13 \subseteq Pulls!Query /\ Pulls!FetchList => v13' \subseteq Pulls!Query
<1>1. Pulls!NewQuery \in Pulls!Query
    BY DEF Pulls!NewQuery, Pulls!Query
<1> QED
    BY <1>1, InactiveFit DEF Pulls!FetchList

\* Every step keeps the types.
LEMMA PullsTypesKept ==
    Pulls!TypeOK /\ [Pulls!Next]_(Pulls!pullVars) /\ Pulls!PullsInv' => Pulls!TypeOK'
<1> SUFFICES ASSUME Pulls!TypeOK, [Pulls!Next]_(Pulls!pullVars), Pulls!PullsInv'
             PROVE  Pulls!TypeOK'
    OBVIOUS
<1>0. /\ (v1 \in Pulls!Verdicts)'
      /\ (v2 \in BOOLEAN)'
      /\ (v5 \in Pulls!Detail)'
      /\ (v9 \subseteq Pulls!Asked)'
    BY DEF
       Pulls!PullsInv, Pulls!ShownIsDecided, Pulls!DoneIsDecided, Pulls!PullsFit,
       Pulls!Verdicts, Pulls!Status, Pulls!Decisions,
       Pulls!Detail, Pulls!Asked
<1> USE DEF Pulls!TypeOK, Pulls!Verdicts, Pulls!Decisions, Pulls!Detail, Pulls!Asked,
    Pulls!Query
<1>1. ASSUME NEW q \in v13, Pulls!ReadList(q)
      PROVE  Pulls!TypeOK'
    BY <1>1, PullsBounds, <1>0 DEF Pulls!ReadList, Pulls!fileVars, Pulls!decisionVars
<1>2. ASSUME NEW q \in v13, Pulls!ListAnswered(q)
      PROVE  Pulls!TypeOK'
    BY <1>2, PullsBounds, <1>0 DEF Pulls!ListAnswered, Pulls!fileVars, Pulls!decisionVars
<1>3. ASSUME NEW q \in v13, Pulls!ListFails(q)
      PROVE  Pulls!TypeOK'
    BY <1>3, PullsBounds, <1>0 DEF Pulls!ListFails, Pulls!fileVars, Pulls!decisionVars
<1>4. CASE Pulls!Hear
  <2>1. (/\ v1 \in Pulls!Verdicts /\ v2 \in BOOLEAN
         /\ v3 \in {"author", "moderator", "admin"}
         /\ v4 \in {"list", "detail", "preview"} /\ v5 \in Pulls!Detail
         /\ v6 \in {"none"} \cup (Pulls!Decisions \ {"approve"}))'
      BY <1>4, PullsBounds, <1>0 DEF Pulls!Hear, Pulls!FetchList, Pulls!fileVars,
         Pulls!decisionVars, Pulls!Inactive, Pulls!NewQuery
  <2>7. (/\ v7 \in BOOLEAN /\ v8 \in {"none"} \cup Pulls!Decisions /\ v9 \subseteq Pulls!Asked
         /\ v10 \in {"none", "resolving", "fetched", "known", "bare"}
         /\ v11 \in {"idle", "named", "asked", "fallback", "open", "failed"}
         /\ v12 \in {"none", "old", "now"})'
      BY <1>4, PullsBounds, <1>0 DEF Pulls!Hear, Pulls!FetchList, Pulls!fileVars,
         Pulls!decisionVars, Pulls!Inactive, Pulls!NewQuery
  <2>13. (v13 \subseteq Pulls!Query)'
    <3> HIDE DEF Pulls!Query
    <3> QED
        BY <1>4, FetchFits DEF Pulls!Hear
  <2>14. (/\ v14 \in BOOLEAN /\ v15 \in BOOLEAN)'
      BY <1>4, PullsBounds, <1>0 DEF Pulls!Hear, Pulls!FetchList, Pulls!fileVars,
         Pulls!decisionVars, Pulls!Inactive, Pulls!NewQuery
  <2> QED
      BY <2>1, <2>7, <2>13, <2>14
<1>5. CASE Pulls!SwitchTab
  <2>1. (/\ v1 \in Pulls!Verdicts /\ v2 \in BOOLEAN
         /\ v3 \in {"author", "moderator", "admin"}
         /\ v4 \in {"list", "detail", "preview"} /\ v5 \in Pulls!Detail
         /\ v6 \in {"none"} \cup (Pulls!Decisions \ {"approve"}))'
      BY <1>5, PullsBounds, <1>0 DEF Pulls!SwitchTab, Pulls!ChooseList, Pulls!FetchList,
         Pulls!fileVars, Pulls!decisionVars,
         Pulls!Inactive, Pulls!NewQuery
  <2>7. (/\ v7 \in BOOLEAN /\ v8 \in {"none"} \cup Pulls!Decisions /\ v9 \subseteq Pulls!Asked
         /\ v10 \in {"none", "resolving", "fetched", "known", "bare"}
         /\ v11 \in {"idle", "named", "asked", "fallback", "open", "failed"}
         /\ v12 \in {"none", "old", "now"})'
      BY <1>5, PullsBounds, <1>0 DEF Pulls!SwitchTab, Pulls!ChooseList, Pulls!FetchList,
         Pulls!fileVars, Pulls!decisionVars,
         Pulls!Inactive, Pulls!NewQuery
  <2>13. (v13 \subseteq Pulls!Query)'
    <3> HIDE DEF Pulls!Query
    <3> QED
        BY <1>5, FetchFits DEF Pulls!SwitchTab, Pulls!ChooseList
  <2>14. (/\ v14 \in BOOLEAN /\ v15 \in BOOLEAN)'
      BY <1>5, PullsBounds, <1>0 DEF Pulls!SwitchTab, Pulls!ChooseList, Pulls!FetchList,
         Pulls!fileVars, Pulls!decisionVars,
         Pulls!Inactive, Pulls!NewQuery
  <2> QED
      BY <2>1, <2>7, <2>13, <2>14
<1>6. CASE Pulls!RetryList
  <2>1. (/\ v1 \in Pulls!Verdicts /\ v2 \in BOOLEAN
         /\ v3 \in {"author", "moderator", "admin"}
         /\ v4 \in {"list", "detail", "preview"} /\ v5 \in Pulls!Detail
         /\ v6 \in {"none"} \cup (Pulls!Decisions \ {"approve"}))'
      BY <1>6, PullsBounds, <1>0 DEF Pulls!RetryList, Pulls!ChooseList, Pulls!FetchList,
         Pulls!fileVars, Pulls!decisionVars,
         Pulls!Inactive, Pulls!NewQuery
  <2>7. (/\ v7 \in BOOLEAN /\ v8 \in {"none"} \cup Pulls!Decisions /\ v9 \subseteq Pulls!Asked
         /\ v10 \in {"none", "resolving", "fetched", "known", "bare"}
         /\ v11 \in {"idle", "named", "asked", "fallback", "open", "failed"}
         /\ v12 \in {"none", "old", "now"})'
      BY <1>6, PullsBounds, <1>0 DEF Pulls!RetryList, Pulls!ChooseList, Pulls!FetchList,
         Pulls!fileVars, Pulls!decisionVars,
         Pulls!Inactive, Pulls!NewQuery
  <2>13. (v13 \subseteq Pulls!Query)'
    <3> HIDE DEF Pulls!Query
    <3> QED
        BY <1>6, FetchFits DEF Pulls!RetryList, Pulls!ChooseList
  <2>14. (/\ v14 \in BOOLEAN /\ v15 \in BOOLEAN)'
      BY <1>6, PullsBounds, <1>0 DEF Pulls!RetryList, Pulls!ChooseList, Pulls!FetchList,
         Pulls!fileVars, Pulls!decisionVars,
         Pulls!Inactive, Pulls!NewQuery
  <2> QED
      BY <2>1, <2>7, <2>13, <2>14
<1>7. CASE Pulls!ChangePage
  <2>1. (/\ v1 \in Pulls!Verdicts /\ v2 \in BOOLEAN
         /\ v3 \in {"author", "moderator", "admin"}
         /\ v4 \in {"list", "detail", "preview"} /\ v5 \in Pulls!Detail
         /\ v6 \in {"none"} \cup (Pulls!Decisions \ {"approve"}))'
      BY <1>7, PullsBounds, <1>0 DEF Pulls!ChangePage, Pulls!ChooseList, Pulls!Loading,
         Pulls!FetchList, Pulls!fileVars,
         Pulls!decisionVars, Pulls!Inactive, Pulls!NewQuery
  <2>7. (/\ v7 \in BOOLEAN /\ v8 \in {"none"} \cup Pulls!Decisions /\ v9 \subseteq Pulls!Asked
         /\ v10 \in {"none", "resolving", "fetched", "known", "bare"}
         /\ v11 \in {"idle", "named", "asked", "fallback", "open", "failed"}
         /\ v12 \in {"none", "old", "now"})'
      BY <1>7, PullsBounds, <1>0 DEF Pulls!ChangePage, Pulls!ChooseList, Pulls!Loading,
         Pulls!FetchList, Pulls!fileVars,
         Pulls!decisionVars, Pulls!Inactive, Pulls!NewQuery
  <2>13. (v13 \subseteq Pulls!Query)'
    <3> HIDE DEF Pulls!Query
    <3> QED
        BY <1>7, FetchFits DEF Pulls!ChangePage, Pulls!ChooseList
  <2>14. (/\ v14 \in BOOLEAN /\ v15 \in BOOLEAN)'
      BY <1>7, PullsBounds, <1>0 DEF Pulls!ChangePage, Pulls!ChooseList, Pulls!Loading,
         Pulls!FetchList, Pulls!fileVars,
         Pulls!decisionVars, Pulls!Inactive, Pulls!NewQuery
  <2> QED
      BY <2>1, <2>7, <2>13, <2>14
<1>8. CASE Pulls!OpenCard
  <2>13. (v13 \subseteq Pulls!Query)'
    <3> HIDE DEF Pulls!Query
    <3> QED
        BY <1>8, InactiveFit DEF Pulls!OpenCard
  <2> QED
      BY <1>8, <2>13, PullsBounds, <1>0 DEF Pulls!OpenCard, Pulls!Inactive, Pulls!Mount,
         Pulls!Blank
<1>9. CASE Pulls!LeavePreview
    BY <1>9, PullsBounds, <1>0 DEF Pulls!LeavePreview, Pulls!Mount, Pulls!Blank
<1>10. CASE Pulls!OpenPreviewPage
    BY <1>10, PullsBounds, <1>0 DEF Pulls!OpenPreviewPage, Pulls!Mount, Pulls!Blank
<1>11. CASE Pulls!BackToList
  <2>13. (v13 \subseteq Pulls!Query)'
    <3> HIDE DEF Pulls!Query
    <3> QED
        BY <1>11, FetchFits DEF Pulls!BackToList
  <2> QED
      BY <1>11, <2>13, PullsBounds, <1>0 DEF Pulls!BackToList, Pulls!FetchList, Pulls!Mount,
         Pulls!Inactive, Pulls!NewQuery,
         Pulls!Blank
<1>12. CASE Pulls!DetailAnswered
    BY <1>12, PullsBounds, <1>0 DEF Pulls!DetailAnswered, Pulls!Blank, Pulls!listVars,
       Pulls!decisionVars
<1>13. CASE Pulls!Approve
    BY <1>13, PullsBounds, <1>0 DEF Pulls!Approve, Pulls!listVars, Pulls!fileVars, Pulls!May,
       Pulls!Send, Pulls!MayModerate,
       Pulls!MayCancel, Pulls!MayRevert
<1>14. CASE Pulls!FillIn
    BY <1>14, PullsBounds, <1>0 DEF Pulls!FillIn, Pulls!listVars, Pulls!fileVars
<1>15. CASE Pulls!CloseDialog
  <2>1. (/\ v1 \in Pulls!Verdicts /\ v2 \in BOOLEAN
         /\ v3 \in {"author", "moderator", "admin"}
         /\ v4 \in {"list", "detail", "preview"} /\ v5 \in Pulls!Detail
         /\ v6 \in {"none"} \cup (Pulls!Decisions \ {"approve"}))'
      BY <1>15, PullsBounds, <1>0 DEF Pulls!CloseDialog, Pulls!listVars, Pulls!fileVars
  <2>7. (/\ v7 \in BOOLEAN /\ v8 \in {"none"} \cup Pulls!Decisions /\ v9 \subseteq Pulls!Asked
         /\ v10 \in {"none", "resolving", "fetched", "known", "bare"}
         /\ v11 \in {"idle", "named", "asked", "fallback", "open", "failed"}
         /\ v12 \in {"none", "old", "now"})'
      BY <1>15, PullsBounds, <1>0 DEF Pulls!CloseDialog, Pulls!listVars, Pulls!fileVars
  <2>13. (/\ v13 \subseteq Pulls!Query /\ v14 \in BOOLEAN /\ v15 \in BOOLEAN)'
      BY <1>15, PullsBounds, <1>0 DEF Pulls!CloseDialog, Pulls!listVars, Pulls!fileVars
  <2> QED
      BY <2>1, <2>7, <2>13
<1>16. CASE Pulls!Confirm
    BY <1>16, PullsBounds, <1>0 DEF Pulls!Confirm, Pulls!listVars, Pulls!fileVars, Pulls!Send
<1>17. ASSUME NEW d \in Pulls!Decisions \ {"approve"}, Pulls!OpenDialog(d)
      PROVE  Pulls!TypeOK'
    BY <1>17, PullsBounds, <1>0 DEF Pulls!OpenDialog, Pulls!listVars, Pulls!fileVars, Pulls!May,
       Pulls!MayModerate, Pulls!MayCancel,
       Pulls!MayRevert
<1>18. ASSUME NEW d \in Pulls!Decisions, Pulls!OthersDecide(d)
      PROVE  Pulls!TypeOK'
    BY <1>18, PullsBounds, <1>0 DEF Pulls!OthersDecide, Pulls!Possible, Pulls!Decide,
       Pulls!Status, Pulls!fileVars, Pulls!Announce
<1>19. ASSUME NEW a \in v9, Pulls!DecisionAnswered(a)
      PROVE  Pulls!TypeOK'
  <2>1. (/\ v1 \in Pulls!Verdicts /\ v2 \in BOOLEAN
         /\ v3 \in {"author", "moderator", "admin"}
         /\ v4 \in {"list", "detail", "preview"} /\ v5 \in Pulls!Detail
         /\ v6 \in {"none"} \cup (Pulls!Decisions \ {"approve"}))'
      BY <1>19, PullsBounds, <1>0 DEF Pulls!DecisionAnswered, Pulls!listVars, Pulls!fileVars,
         Pulls!Shown, Pulls!Status
  <2>7. (/\ v7 \in BOOLEAN /\ v8 \in {"none"} \cup Pulls!Decisions /\ v9 \subseteq Pulls!Asked
         /\ v10 \in {"none", "resolving", "fetched", "known", "bare"}
         /\ v11 \in {"idle", "named", "asked", "fallback", "open", "failed"}
         /\ v12 \in {"none", "old", "now"})'
      BY <1>19, PullsBounds, <1>0 DEF Pulls!DecisionAnswered, Pulls!listVars, Pulls!fileVars,
         Pulls!Shown, Pulls!Status
  <2>13. (/\ v13 \subseteq Pulls!Query /\ v14 \in BOOLEAN /\ v15 \in BOOLEAN)'
      BY <1>19, PullsBounds, <1>0 DEF Pulls!DecisionAnswered, Pulls!listVars, Pulls!fileVars,
         Pulls!Shown, Pulls!Status
  <2> QED
      BY <2>1, <2>7, <2>13
<1>20. ASSUME NEW a \in v9, Pulls!Serve(a)
      PROVE  Pulls!TypeOK'
  <2>1. (/\ v1 \in Pulls!Verdicts /\ v2 \in BOOLEAN
         /\ v3 \in {"author", "moderator", "admin"}
         /\ v4 \in {"list", "detail", "preview"} /\ v5 \in Pulls!Detail
         /\ v6 \in {"none"} \cup (Pulls!Decisions \ {"approve"}))'
      BY <1>20, PullsBounds, <1>0 DEF Pulls!Serve, Pulls!listVars, Pulls!fileVars,
         Pulls!Possible, Pulls!Decide, Pulls!Status,
         Pulls!Announce
  <2>7. (/\ v7 \in BOOLEAN /\ v8 \in {"none"} \cup Pulls!Decisions /\ v9 \subseteq Pulls!Asked
         /\ v10 \in {"none", "resolving", "fetched", "known", "bare"}
         /\ v11 \in {"idle", "named", "asked", "fallback", "open", "failed"}
         /\ v12 \in {"none", "old", "now"})'
      BY <1>20, PullsBounds, <1>0 DEF Pulls!Serve, Pulls!listVars, Pulls!fileVars,
         Pulls!Possible, Pulls!Decide, Pulls!Status,
         Pulls!Announce
  <2>13. (v13 \subseteq Pulls!Query)'
      BY <1>20, PullsBounds, <1>0 DEF Pulls!Serve, Pulls!listVars, Pulls!fileVars,
         Pulls!Possible, Pulls!Decide, Pulls!Status,
         Pulls!Announce
  <2>14. (/\ v14 \in BOOLEAN /\ v15 \in BOOLEAN)'
      BY <1>20, PullsBounds, <1>0 DEF Pulls!Serve, Pulls!listVars, Pulls!fileVars,
         Pulls!Possible, Pulls!Decide, Pulls!Status,
         Pulls!Announce
  <2> QED
      BY <2>1, <2>7, <2>13, <2>14
<1>21. CASE Pulls!RowsFetched
    BY <1>21, PullsBounds, <1>0 DEF Pulls!RowsFetched, Pulls!listVars, Pulls!decisionVars
<1>22. CASE Pulls!RowsPlaced
    BY <1>22, PullsBounds, <1>0 DEF Pulls!RowsPlaced, Pulls!listVars, Pulls!decisionVars
<1>23. CASE Pulls!AskPreview
    BY <1>23, PullsBounds, <1>0 DEF Pulls!AskPreview, Pulls!listVars, Pulls!decisionVars
<1>24. CASE Pulls!PreviewNamed
    BY <1>24, PullsBounds, <1>0 DEF Pulls!PreviewNamed, Pulls!listVars, Pulls!decisionVars
<1>25. CASE Pulls!PreviewAnswered
    BY <1>25, PullsBounds, <1>0 DEF Pulls!PreviewAnswered, Pulls!listVars, Pulls!decisionVars
<1>26. CASE Pulls!ClosePreview
    BY <1>26, PullsBounds, <1>0 DEF Pulls!ClosePreview, Pulls!listVars, Pulls!decisionVars
<1>27. CASE UNCHANGED Pulls!pullVars
    BY <1>27, PullsBounds, <1>0 DEF Pulls!pullVars
<1> QED
    BY <1>1, <1>2, <1>3, <1>4, <1>5, <1>6, <1>7, <1>8, <1>9, <1>10, <1>11, <1>12,
       <1>13, <1>14, <1>15, <1>16, <1>17, <1>18, <1>19, <1>20, <1>21, <1>22, <1>23, <1>24,
       <1>25, <1>26, <1>27 DEF Pulls!Next

-----------------------------------------------------------------------------
(* Notifications: v1 unread, v2 read, v3 filter, v4 fetches, v5 loading,   *)
(* v6 more, v7 failed, v8 of, v9 shown, v10 done, v11 page, v12 hasMore,   *)
(* v13 selected, v14 marks, v15 all.                                       *)

\* The part's number of elements is the library's.
LEMMA NoticesCounts == \A S : Notices!Cardinality(S) = Cardinality(S)
    BY Zenon DEF Notices!Cardinality, Cardinality

\* The first page of notifications is a page.
LEMMA NoticesFirstPage == 1 \in Notices!Pages /\ Cardinality(Items) \in Nat
    BY NoticesCounts, NoticesBounds, FS_CardinalityType, FS_EmptySet DEF Notices!Pages

\* A refresh adds a fetch only.
LEMMA RefreshFits ==
    ASSUME v4 \subseteq Notices!Fetches, NEW f \in Notices!Filters, Notices!refresh(f)
    PROVE  v4' \subseteq Notices!Fetches
<1>1. [what |-> "refresh", filter |-> f, page |-> 1, current |-> TRUE] \in Notices!Fetches
    BY NoticesFirstPage DEF Notices!Fetches
<1>2. \A r \in Notices!Fetches : [r EXCEPT !.current = FALSE] \in Notices!Fetches
    BY DEF Notices!Fetches
<1> QED
    BY <1>1, <1>2 DEF Notices!refresh, Notices!Superseded

\* The first states have their types.
LEMMA NoticesTypesStart == Notices!Init => Notices!TypeOK
<1> SUFFICES ASSUME Notices!Init PROVE Notices!TypeOK
    OBVIOUS
<1> USE DEF Notices!TypeOK, Notices!Filters, Notices!Pages, Notices!Fetches
<1>6. v4 \subseteq Notices!Fetches
  <2> HIDE DEF Notices!Pages
  <2> QED
    BY NoticesFirstPage DEF Notices!Init
<1>13. v11 \in Notices!Pages
  <2> HIDE DEF Notices!Pages
  <2> QED
    BY NoticesFirstPage DEF Notices!Init
<1> QED
    BY <1>6, <1>13, NoticesBounds DEF Notices!Init

\* Every step keeps the types.
LEMMA NoticesTypesKept ==
    Notices!TypeOK /\ [Notices!Next]_(Notices!notificationVars) => Notices!TypeOK'
<1> SUFFICES ASSUME Notices!TypeOK, [Notices!Next]_(Notices!notificationVars)
             PROVE  Notices!TypeOK'
    OBVIOUS
<1> USE DEF Notices!TypeOK, Notices!Filters, Notices!Pages, Notices!Fetches
<1>1. ASSUME NEW i \in Items, Notices!markRead(i)
      PROVE  Notices!TypeOK'
    BY <1>1, NoticesBounds DEF Notices!markRead, Notices!Server, Notices!Paging, Notices!Load,
       Notices!Shows, Notices!Quiet
<1>2. ASSUME NEW i \in Items, Notices!Marked(i)
      PROVE  Notices!TypeOK'
    BY <1>2, NoticesBounds DEF Notices!Marked, Notices!List, Notices!Paging, Notices!Load
<1>3. ASSUME NEW i \in Items, Notices!MarkFails(i)
      PROVE  Notices!TypeOK'
  <2>6. (v4 \subseteq Notices!Fetches)'
    <3> HIDE DEF Notices!Fetches, Notices!Filters
    <3> QED
      BY <1>3, RefreshFits DEF Notices!MarkFails
  <2> QED
      BY <1>3, <2>6, NoticesBounds DEF Notices!MarkFails, Notices!Server, Notices!List,
         Notices!Paging, Notices!refresh, Notices!Superseded
<1>4. ASSUME NEW i \in Items, Notices!toggleSelect(i)
      PROVE  Notices!TypeOK'
    BY <1>4, NoticesBounds DEF Notices!toggleSelect, Notices!Server, Notices!List,
       Notices!Paging, Notices!Load, Notices!Quiet
<1>5. ASSUME NEW f \in Notices!Filters, Notices!SetFilter(f)
      PROVE  Notices!TypeOK'
  <2>6. (v4 \subseteq Notices!Fetches)'
    <3> HIDE DEF Notices!Fetches, Notices!Filters
    <3> QED
      BY <1>5, RefreshFits DEF Notices!SetFilter
  <2> QED
      BY <1>5, <2>6, NoticesBounds DEF Notices!SetFilter, Notices!Server, Notices!List,
         Notices!Paging, Notices!refresh, Notices!Superseded
<1>6. CASE Notices!loadMore
  <2>6. (v4 \subseteq Notices!Fetches)'
    <3> HIDE DEF Notices!Pages
    <3>1. [what |-> "more", filter |-> v3, page |-> v11 + 1,
          current |-> TRUE] \in Notices!Fetches
        BY <1>6 DEF Notices!loadMore
    <3> QED
        BY <1>6, <3>1 DEF Notices!loadMore
  <2> QED
      BY <1>6, <2>6, NoticesBounds DEF Notices!loadMore, Notices!Server, Notices!List,
         Notices!Paging
<1>7. ASSUME NEW r \in v4, Notices!Fails(r)
      PROVE  Notices!TypeOK'
    BY <1>7, NoticesBounds DEF Notices!Fails, Notices!Server, Notices!List, Notices!Paging,
       Notices!Ends
<1>8. ASSUME NEW r \in v4, NEW items \in SUBSET Items, Notices!Answered(r, items)
      PROVE  Notices!TypeOK'
  <2>10. (v12 \in BOOLEAN)'
    <3>1. r \in Notices!Fetches /\ r.filter \in Notices!Filters /\ r.page \in Nat
        BY <1>8, NoticesFirstPage
    <3>2. Notices!Fits(r.filter) \subseteq Items
        BY <3>1 DEF Notices!Fits
    <3>3. Cardinality(Notices!Fits(r.filter)) \in Nat /\ PageSize * r.page \in Nat
        BY <3>1, <3>2, NoticesBounds, FS_Subset, FS_CardinalityType
    <3>4. (Cardinality(Notices!Fits(r.filter)) > PageSize * r.page) \in BOOLEAN
        BY <3>3
    <3>5. v12' = v12 \/ v12' = (Cardinality(Notices!Fits(r.filter)) > PageSize * r.page)
        BY NoticesCounts, <1>8 DEF Notices!Answered, Notices!Takes, Notices!List, Notices!Paging
    <3> QED
        BY <3>4, <3>5
  <2> QED
      BY <1>8, <2>10, NoticesBounds DEF Notices!Answered, Notices!Server, Notices!List,
         Notices!Paging, Notices!Fits, Notices!Takes, Notices!Ends
<1>9. CASE Notices!markSelectedRead
    BY <1>9, NoticesBounds DEF Notices!markSelectedRead, Notices!Server, Notices!Paging,
       Notices!Load, Notices!Shows, Notices!Quiet
<1>10. CASE Notices!markAllRead
    BY <1>10, NoticesBounds DEF Notices!markAllRead, Notices!Server, Notices!List,
       Notices!Paging, Notices!Load, Notices!Quiet
<1>11. CASE Notices!AllMarked
    BY <1>11, NoticesBounds DEF Notices!AllMarked, Notices!Paging, Notices!Load, Notices!Shows
<1>12. CASE Notices!AllFails
    BY <1>12, NoticesBounds DEF Notices!AllFails, Notices!Server, Notices!List, Notices!Paging,
       Notices!Load
<1>13. CASE Notices!toggleSelectAll
    BY <1>13, NoticesBounds DEF Notices!toggleSelectAll, Notices!Server, Notices!List,
       Notices!Paging, Notices!Load, Notices!Quiet
<1>14. CASE UNCHANGED Notices!notificationVars
    BY <1>14, NoticesBounds DEF Notices!notificationVars
<1> QED
    BY <1>1, <1>2, <1>3, <1>4, <1>5, <1>6, <1>7, <1>8, <1>9, <1>10, <1>11, <1>12,
       <1>13, <1>14 DEF Notices!Next

-----------------------------------------------------------------------------
(* SavedPages: v1 saved, v2 shelves, v3 holds, v4 place, v5 library, v6    *)
(* collections, v7 selectedId, v8 detailOf, v9 detail, v10 loads, v11      *)
(* loading, v12 detailLoading, v13 narrow, v14 keys, v15 dialog, v16 acts, *)
(* v17 target, v18 open, v19 asks, v20 picking, v21 listedFor, v22 listed, *)
(* v23 members, v24 changing, v25 creating.                                *)

\* Asking for an item's collections adds an ask only.
LEMMA SavedAsksFit ==
    ASSUME v19 \subseteq Saved!Asks, NEW i \in Items, Saved!loadCollections(i)
    PROVE  v19' \subseteq Saved!Asks
<1>1. [of |-> i, current |-> TRUE] \in Saved!Asks
    BY DEF Saved!Asks
<1>2. \A r \in Saved!Asks : [of |-> r.of, current |-> FALSE] \in Saved!Asks
    BY DEF Saved!Asks
<1> QED
    BY <1>1, <1>2 DEF Saved!loadCollections

\* The first states have their types.
LEMMA SavedTypesStart == Saved!Init => Saved!TypeOK
<1> SUFFICES ASSUME Saved!Init PROVE Saved!TypeOK
    OBVIOUS
<1> USE DEF Saved!TypeOK, Saved!Maybe, Saved!Dialogs, Saved!Acts, Saved!Loads, Saved!Asks,
    Saved!Changes, Saved!Forms, Saved!Closed
<1>1. v1 \subseteq Items
    BY SavedBounds DEF Saved!Init
<1>2. v2 \subseteq Shelves
    BY SavedBounds DEF Saved!Init
<1>3. v3 \subseteq v2 \X Items
  <2>1. (CHOOSE s \in v2 : TRUE) \in v2
      BY DEF Saved!Init
  <2> QED
      BY <2>1, SavedBounds DEF Saved!Init
<1>4. v4 \in {"page", "picker"}
    BY SavedBounds DEF Saved!Init
<1>5. v5 \subseteq Items
    BY SavedBounds DEF Saved!Init
<1>6. v6 \subseteq Shelves
    BY SavedBounds DEF Saved!Init
<1>7. v7 \in Saved!Maybe
    BY SavedBounds DEF Saved!Init
<1>8. v8 \in Saved!Maybe
    BY SavedBounds DEF Saved!Init
<1>9. v9 \subseteq Items
    BY SavedBounds DEF Saved!Init
<1>10. v10 \subseteq Saved!Loads
    BY SavedBounds DEF Saved!Init
<1>11. v11 \in BOOLEAN
    BY SavedBounds DEF Saved!Init
<1>12. v12 \in BOOLEAN
    BY SavedBounds DEF Saved!Init
<1>13. v13 \in BOOLEAN
    BY SavedBounds DEF Saved!Init
<1>14. v14 \subseteq Items
    BY SavedBounds DEF Saved!Init
<1>15. v15 \in Saved!Dialogs
    BY SavedBounds DEF Saved!Init
<1>16. v16 \subseteq Saved!Acts
    BY SavedBounds DEF Saved!Init
<1>17. v17 \in Items
  <2>1. (CHOOSE i \in Items : TRUE) \in Items
      BY SavedBounds
  <2> QED
      BY <2>1 DEF Saved!Init
<1>18. v18 \in BOOLEAN
    BY SavedBounds DEF Saved!Init
<1>19. v19 \subseteq Saved!Asks
    BY SavedBounds DEF Saved!Init
<1>20. v20 \in BOOLEAN
    BY SavedBounds DEF Saved!Init
<1>21. v21 \in Items \cup {"none"}
    BY SavedBounds DEF Saved!Init
<1>22. v22 \subseteq Shelves
    BY SavedBounds DEF Saved!Init
<1>23. v23 \subseteq v22
    BY SavedBounds DEF Saved!Init
<1>24. v24 \subseteq Saved!Changes
    BY SavedBounds DEF Saved!Init
<1>25. v25 \subseteq Items
    BY SavedBounds DEF Saved!Init
<1> QED
    BY <1>1, <1>2, <1>3, <1>4, <1>5, <1>6, <1>7, <1>8, <1>9, <1>10, <1>11, <1>12,
       <1>13, <1>14, <1>15, <1>16, <1>17, <1>18, <1>19, <1>20, <1>21, <1>22, <1>23, <1>24,
       <1>25

\* Every step keeps the types.
LEMMA SavedTypesKept == Saved!TypeOK /\ [Saved!Next]_(Saved!savedVars) => Saved!TypeOK'
<1> SUFFICES ASSUME Saved!TypeOK, [Saved!Next]_(Saved!savedVars)
             PROVE  Saved!TypeOK'
    OBVIOUS
<1> USE DEF Saved!TypeOK, Saved!Maybe, Saved!Dialogs, Saved!Acts, Saved!Loads, Saved!Asks,
    Saved!Changes, Saved!Forms, Saved!Closed
<1>1. CASE Saved!AllAnswered
    BY <1>1, SavedBounds DEF Saved!AllAnswered, Saved!Server, Saved!OnPage, Saved!Picker
<1>2. CASE Saved!Filter
    BY <1>2, SavedBounds DEF Saved!Filter, Saved!Server, Saved!Told, Saved!Loading,
       Saved!OnPage, Saved!Picker
<1>3. CASE Saved!selectAll
    BY <1>3, SavedBounds DEF Saved!selectAll, Saved!Server, Saved!Told, Saved!Loading,
       Saved!filteredItems, Saved!OnPage, Saved!rawItems,
       Saved!Picker
<1>4. CASE Saved!deselectAll
    BY <1>4, SavedBounds DEF Saved!deselectAll, Saved!Server, Saved!Told, Saved!Loading,
       Saved!OnPage, Saved!Picker
<1>5. ASSUME NEW s \in Saved!Maybe, Saved!Select(s)
      PROVE  Saved!TypeOK'
  <2>1. (/\ v1 \subseteq Items /\ v2 \subseteq Shelves
         /\ v3 \subseteq v2 \X Items /\ v4 \in {"page", "picker"}
         /\ v5 \subseteq Items /\ v6 \subseteq Shelves)'
      BY <1>5, SavedBounds DEF Saved!Select, Saved!Server, Saved!OnPage, Saved!Selects,
         Saved!Detail, Saved!Picker
  <2>7. (/\ v7 \in Saved!Maybe /\ v8 \in Saved!Maybe /\ v9 \subseteq Items)'
      BY <1>5, SavedBounds DEF Saved!Select, Saved!Server, Saved!OnPage, Saved!Selects,
         Saved!Detail, Saved!Picker
  <2>10. (v10 \subseteq Saved!Loads)'
      BY <1>5, SavedBounds DEF Saved!Select, Saved!Server, Saved!OnPage, Saved!Selects,
         Saved!Detail, Saved!Picker
  <2>11. (/\ v11 \in BOOLEAN /\ v12 \in BOOLEAN /\ v13 \in BOOLEAN
          /\ v14 \subseteq Items /\ v15 \in Saved!Dialogs /\ v16 \subseteq Saved!Acts)'
      BY <1>5, SavedBounds DEF Saved!Select, Saved!Server, Saved!OnPage, Saved!Selects,
         Saved!Detail, Saved!Picker
  <2>17. (/\ v17 \in Items /\ v18 \in BOOLEAN /\ v19 \subseteq Saved!Asks
          /\ v20 \in BOOLEAN /\ v21 \in Items \cup {"none"}
          /\ v22 \subseteq Shelves)'
      BY <1>5, SavedBounds DEF Saved!Select, Saved!Server, Saved!OnPage, Saved!Selects,
         Saved!Detail, Saved!Picker
  <2>23. (/\ v23 \subseteq v22 /\ v24 \subseteq Saved!Changes
          /\ v25 \subseteq Items)'
      BY <1>5, SavedBounds DEF Saved!Select, Saved!Server, Saved!OnPage, Saved!Selects,
         Saved!Detail, Saved!Picker
  <2> QED
      BY <2>1, <2>7, <2>10, <2>11, <2>17, <2>23
<1>6. ASSUME NEW s \in Saved!Maybe, Saved!CollectionsAnswered(s)
      PROVE  Saved!TypeOK'
  <2>1. (/\ v1 \subseteq Items /\ v2 \subseteq Shelves
         /\ v3 \subseteq v2 \X Items /\ v4 \in {"page", "picker"}
         /\ v5 \subseteq Items /\ v6 \subseteq Shelves)'
      BY <1>6, SavedBounds DEF Saved!CollectionsAnswered, Saved!Server, Saved!OnPage,
         Saved!Selects, Saved!Detail, Saved!Picker
  <2>7. (/\ v7 \in Saved!Maybe /\ v8 \in Saved!Maybe /\ v9 \subseteq Items)'
      BY <1>6, SavedBounds DEF Saved!CollectionsAnswered, Saved!Server, Saved!OnPage,
         Saved!Selects, Saved!Detail, Saved!Picker
  <2>10. (v10 \subseteq Saved!Loads)'
      BY <1>6, SavedBounds DEF Saved!CollectionsAnswered, Saved!Server, Saved!OnPage,
         Saved!Selects, Saved!Detail, Saved!Picker
  <2>11. (/\ v11 \in BOOLEAN /\ v12 \in BOOLEAN /\ v13 \in BOOLEAN
          /\ v14 \subseteq Items /\ v15 \in Saved!Dialogs /\ v16 \subseteq Saved!Acts)'
      BY <1>6, SavedBounds DEF Saved!CollectionsAnswered, Saved!Server, Saved!OnPage,
         Saved!Selects, Saved!Detail, Saved!Picker
  <2>17. (/\ v17 \in Items /\ v18 \in BOOLEAN /\ v19 \subseteq Saved!Asks
          /\ v20 \in BOOLEAN /\ v21 \in Items \cup {"none"}
          /\ v22 \subseteq Shelves)'
      BY <1>6, SavedBounds DEF Saved!CollectionsAnswered, Saved!Server, Saved!OnPage,
         Saved!Selects, Saved!Detail, Saved!Picker
  <2>23. (/\ v23 \subseteq v22 /\ v24 \subseteq Saved!Changes
          /\ v25 \subseteq Items)'
      BY <1>6, SavedBounds DEF Saved!CollectionsAnswered, Saved!Server, Saved!OnPage,
         Saved!Selects, Saved!Detail, Saved!Picker
  <2> QED
      BY <2>1, <2>7, <2>10, <2>11, <2>17, <2>23
<1>7. ASSUME NEW s \in Shelves, Saved!DetailAnswered(s)
      PROVE  Saved!TypeOK'
    BY <1>7, SavedBounds DEF Saved!DetailAnswered, Saved!Server, Saved!Of, Saved!OnPage,
       Saved!Picker
<1>8. ASSUME NEW s \in Shelves, Saved!confirmDelete(s)
      PROVE  Saved!TypeOK'
    BY <1>8, SavedBounds DEF Saved!confirmDelete, Saved!Loading, Saved!Opens, Saved!Server,
       Saved!Told, Saved!OnPage, Saved!Picker
<1>9. ASSUME NEW s \in Shelves, Saved!BatchAdd(s)
      PROVE  Saved!TypeOK'
    BY <1>9, SavedBounds DEF Saved!BatchAdd, Saved!Loading, Saved!selectedItems, Saved!Opens,
       Saved!filteredItems, Saved!Server,
       Saved!Told, Saved!OnPage, Saved!rawItems, Saved!Picker
<1>10. ASSUME NEW s \in Shelves, Saved!Press(s)
      PROVE  Saved!TypeOK'
    BY <1>10, SavedBounds DEF Saved!Press, Saved!Server, Saved!OnPicker,
       Saved!visibleCollections, Saved!Page, Saved!Told, Saved!Loading
<1>11. ASSUME NEW r \in v10, Saved!LoadFails(r)
      PROVE  Saved!TypeOK'
    BY <1>11, SavedBounds DEF Saved!LoadFails, Saved!Server, Saved!Told, Saved!OnPage,
       Saved!Picker
<1>12. ASSUME NEW i \in Items, Saved!toggleItemSelect(i)
      PROVE  Saved!TypeOK'
    BY <1>12, SavedBounds DEF Saved!toggleItemSelect, Saved!Server, Saved!Told, Saved!Loading,
       Saved!filteredItems, Saved!OnPage,
       Saved!rawItems, Saved!Picker
<1>13. ASSUME NEW i \in Items, Saved!remove(i)
      PROVE  Saved!TypeOK'
    BY <1>13, SavedBounds DEF Saved!remove, Saved!Server, Saved!Told, Saved!Loading,
       Saved!filteredItems, Saved!OnPage, Saved!Starts,
       Saved!rawItems, Saved!Picker
<1>14. ASSUME NEW i \in Items, Saved!Retarget(i)
      PROVE  Saved!TypeOK'
  <2>19. (v19 \subseteq Saved!Asks)'
    <3>1. v19 \subseteq Saved!Asks /\ v17 \in Items
        OBVIOUS
    <3> HIDE DEF Saved!Asks, Saved!TypeOK
    <3> QED
        BY <1>14, <3>1, SavedAsksFit DEF Saved!Retarget, Saved!Toggle
  <2> QED
      BY <1>14, <2>19, SavedBounds, ZenonT(30) DEF Saved!Retarget, Saved!Server, Saved!OnPicker,
         Saved!loadCollections, Saved!Page, Saved!Told,
         Saved!Loading
<1>15. CASE Saved!openCreate
    BY <1>15, SavedBounds DEF Saved!openCreate, Saved!Loading, Saved!Opens, Saved!Server,
       Saved!Told, Saved!OnPage, Saved!Picker
<1>16. CASE Saved!openRename
    BY <1>16, SavedBounds DEF Saved!openRename, Saved!Loading, Saved!Opens, Saved!Server,
       Saved!Told, Saved!OnPage, Saved!Picker
<1>17. CASE Saved!BatchRemove
    BY <1>17, SavedBounds DEF Saved!BatchRemove, Saved!Loading, Saved!selectedItems,
       Saved!Opens, Saved!filteredItems, Saved!Server,
       Saved!Told, Saved!OnPage, Saved!rawItems, Saved!Picker
<1>18. CASE Saved!CloseDialog
    BY <1>18, SavedBounds DEF Saved!CloseDialog, Saved!Server, Saved!Told, Saved!Loading,
       Saved!OnPage, Saved!Picker
<1>19. CASE Saved!Submit
    BY <1>19, SavedBounds DEF Saved!Submit, Saved!Server, Saved!Told, Saved!Loading,
       Saved!OnPage, Saved!Starts, Saved!Picker
<1>20. ASSUME NEW a \in v16, Saved!Renamed(a)
      PROVE  Saved!TypeOK'
    BY <1>20, SavedBounds DEF Saved!Renamed, Saved!Server, Saved!Told, Saved!Loading,
       Saved!Done, Saved!OnPage, Saved!Picker
<1>21. ASSUME NEW a \in v16, Saved!Erased(a)
      PROVE  Saved!TypeOK'
    BY <1>21, SavedBounds DEF Saved!Erased, Saved!Selects, Saved!Done, Saved!OnPage,
       Saved!Picker
<1>22. ASSUME NEW a \in v16, Saved!removeVisibleItem(a)
      PROVE  Saved!TypeOK'
    BY <1>22, SavedBounds DEF Saved!removeVisibleItem, Saved!Loading, Saved!Done,
       Saved!Withdraws, Saved!OnPage, Saved!Picker
<1>23. ASSUME NEW a \in v16, Saved!Refused(a)
      PROVE  Saved!TypeOK'
    BY <1>23, SavedBounds DEF Saved!Refused, Saved!Server, Saved!Told, Saved!Loading,
       Saved!Done, Saved!OnPage, Saved!Picker
<1>24. ASSUME NEW a \in v16, NEW s \in Shelves, Saved!Created(a, s)
      PROVE  Saved!TypeOK'
    BY <1>24, SavedBounds DEF Saved!Created, Saved!Told, Saved!Done, Saved!OnPage, Saved!Picker
<1>25. ASSUME NEW a \in v16, NEW items \in SUBSET Items, Saved!BatchDone(a, items)
      PROVE  Saved!TypeOK'
    BY <1>25, SavedBounds DEF Saved!BatchDone, Saved!Told, Saved!Done, Saved!Withdraws,
       Saved!OnPage, Saved!Picker
<1>26. CASE Saved!Leave
    BY <1>26, SavedBounds DEF Saved!Leave, Saved!Server, Saved!Loading, Saved!Picker
<1>27. CASE Saved!Toggle
  <2>19. (v19 \subseteq Saved!Asks)'
    <3>1. v19 \subseteq Saved!Asks /\ v17 \in Items
        OBVIOUS
    <3> HIDE DEF Saved!Asks, Saved!TypeOK
    <3> QED
        BY <1>27, <3>1, SavedAsksFit DEF Saved!Retarget, Saved!Toggle
  <2> QED
      BY <1>27, <2>19, SavedBounds DEF Saved!Toggle, Saved!Server, Saved!OnPicker,
         Saved!loadCollections, Saved!Page, Saved!Told,
         Saved!Loading
<1>28. CASE Saved!createAndAdd
    BY <1>28, SavedBounds DEF Saved!createAndAdd, Saved!Server, Saved!OnPicker, Saved!Page,
       Saved!Told, Saved!Loading
<1>29. ASSUME NEW r \in v19, Saved!ListAnswered(r)
      PROVE  Saved!TypeOK'
    BY <1>29, SavedBounds, ZenonT(30) DEF Saved!ListAnswered, Saved!Server, Saved!OnPicker, Saved!Page,
       Saved!Told, Saved!Loading
<1>30. ASSUME NEW r \in v19, Saved!ListFails(r)
      PROVE  Saved!TypeOK'
    BY <1>30, SavedBounds DEF Saved!ListFails, Saved!Server, Saved!OnPicker, Saved!Page,
       Saved!Told, Saved!Loading
<1>31. ASSUME NEW c \in v24, Saved!Pressed(c)
      PROVE  Saved!TypeOK'
    BY <1>31, SavedBounds DEF Saved!Pressed, Saved!OnPicker, Saved!Page, Saved!Told,
       Saved!Loading
<1>32. ASSUME NEW c \in v24, Saved!PressFails(c)
      PROVE  Saved!TypeOK'
  <2>19. (v19 \subseteq Saved!Asks)'
    <3>1. v19 \subseteq Saved!Asks /\ c.item \in Items
        BY <1>32 DEF Saved!PressFails
    <3> HIDE DEF Saved!Asks, Saved!TypeOK
    <3> QED
        BY <1>32, <3>1, SavedAsksFit DEF Saved!PressFails
  <2> QED
      BY <1>32, <2>19, SavedBounds DEF Saved!PressFails, Saved!Server, Saved!OnPicker,
         Saved!loadCollections, Saved!Page, Saved!Told,
         Saved!Loading
<1>33. ASSUME NEW i \in v25, Saved!CreateFails(i)
      PROVE  Saved!TypeOK'
    BY <1>33, SavedBounds DEF Saved!CreateFails, Saved!Server, Saved!OnPicker, Saved!Page,
       Saved!Told, Saved!Loading
<1>34. ASSUME NEW i \in v25, NEW s \in Shelves, NEW b \in BOOLEAN, Saved!CreatedAndAdded(i, s,
              b)
      PROVE  Saved!TypeOK'
    BY <1>34, SavedBounds DEF Saved!CreatedAndAdded, Saved!OnPicker, Saved!Page, Saved!Told,
       Saved!Loading
<1>35. CASE UNCHANGED Saved!savedVars
    BY <1>35, SavedBounds DEF Saved!savedVars
<1> QED
    BY <1>1, <1>2, <1>3, <1>4, <1>5, <1>6, <1>7, <1>8, <1>9, <1>10, <1>11, <1>12,
       <1>13, <1>14, <1>15, <1>16, <1>17, <1>18, <1>19, <1>20, <1>21, <1>22, <1>23, <1>24,
       <1>25, <1>26, <1>27, <1>28, <1>29, <1>30, <1>31, <1>32, <1>33, <1>34, <1>35
            DEF Saved!Next

-----------------------------------------------------------------------------
(* AccountPages: v1 screen, v2 server, v3 store, v4 signedIn, v5 profile,  *)
(* v6 loaded, v7 fetches, v8 form, v9 saving, v10 upload, v11 activeTab,   *)
(* v12 displayedTab, v13 visitedTabs, v14 readyTabs, v15 failedTabs, v16   *)
(* tabLoads, v17 switching, v18 creating, v19 exporting, v20 confirming,   *)
(* v21 board, v22 shownBoard, v23 boardLoads, v24 boardFailed.             *)

\* The named parts of the invariant make up the types.
LEMMA AccountIsTyped == Account!AccountFits => Account!TypeOK
    BY DEF Account!AccountFits, Account!RecordsFit, Account!TabsFit, Account!SettingsFit,
       Account!BoardFits, Account!TypeOK

\* An edit of a user below the bound gives a user.
LEMMA NewUsers ==
    /\ Account!Idle \in Account!Pending /\ Account!Fresh \in Account!Users
    /\ \A u \in Account!Users : Account!Face(u) \in Account!Faces
    /\ \A u \in Account!Users, f \in Account!Faces : [u EXCEPT !.name = f.name,
       !.avatar = f.avatar] \in Account!Users
    /\ \A u \in Account!Users : u.name < MaxEdits => [u EXCEPT !.name = @ + 1] \in Account!Users
    /\ \A u \in Account!Users : u.avatar < MaxEdits => [u EXCEPT !.avatar = @ + 1] \in Account!Users
<1>1. Account!Idle \in Account!Pending /\ Account!Fresh \in Account!Users
    BY AccountBounds DEF Account!Users, Account!Pending, Account!Idle, Account!Fresh
<1>2. \A u \in Account!Users : Account!Face(u) \in Account!Faces
    BY DEF Account!Users, Account!Faces, Account!Face
<1>3. ASSUME NEW u \in Account!Users, NEW f \in Account!Faces
      PROVE  [u EXCEPT !.name = f.name, !.avatar = f.avatar] \in Account!Users
  <2>1. f.name \in 0..MaxEdits /\ f.avatar \in 0..MaxEdits
      BY DEF Account!Faces
  <2> QED
      BY <2>1 DEF Account!Users
<1>4. ASSUME NEW u \in Account!Users, u.name < MaxEdits
      PROVE  [u EXCEPT !.name = @ + 1] \in Account!Users
  <2>1. u.name + 1 \in 0..MaxEdits
      BY <1>4, AccountBounds DEF Account!Users
  <2> QED
      BY <2>1 DEF Account!Users
<1>5. ASSUME NEW u \in Account!Users, u.avatar < MaxEdits
      PROVE  [u EXCEPT !.avatar = @ + 1] \in Account!Users
  <2>1. u.avatar + 1 \in 0..MaxEdits
      BY <1>5, AccountBounds DEF Account!Users
  <2> QED
      BY <2>1 DEF Account!Users
<1> QED
    BY <1>1, <1>2, <1>3, <1>4, <1>5

\* The first states have their types.
LEMMA AccountTypesStart == Account!Init => Account!AccountFits
<1> SUFFICES ASSUME Account!Init PROVE Account!AccountFits
    OBVIOUS
<1>1. Account!RecordsFit
    BY NewUsers DEF Account!Init, Account!RecordsFit
<1>2. Account!TabsFit /\ Account!BoardFits
    BY AccountBounds DEF Account!Init, Account!TabsFit, Account!BoardFits
<1>3. Account!SettingsFit
    BY NewUsers DEF Account!Init, Account!SettingsFit
<1> QED
    BY <1>1, <1>2, <1>3 DEF Account!AccountFits

\* A step that leaves a part's variables alone leaves that part as it was.
LEMMA AccountUnmoved ==
    ASSUME Account!AccountFits
    PROVE  /\ UNCHANGED <<v1, v2, v3, v4, Account!Profile, v7,
              Account!Editing>> => Account!RecordsFit'
           /\ UNCHANGED Account!Tab => Account!TabsFit'
           /\ UNCHANGED Account!Settings => Account!SettingsFit'
           /\ UNCHANGED Account!Board => Account!BoardFits'
<1>1. UNCHANGED <<v1, v2, v3, v4, Account!Profile, v7, Account!Editing>> => Account!RecordsFit'
    BY DEF Account!AccountFits, Account!RecordsFit, Account!Profile, Account!Editing,
       Account!Users, Account!Faces
<1>2. UNCHANGED Account!Tab => Account!TabsFit'
    BY DEF Account!AccountFits, Account!TabsFit, Account!Tab
<1>3. UNCHANGED Account!Settings => Account!SettingsFit'
    BY DEF Account!AccountFits, Account!SettingsFit, Account!Settings, Account!Pending,
       Account!Users
<1>4. UNCHANGED Account!Board => Account!BoardFits'
    BY DEF Account!AccountFits, Account!BoardFits, Account!Board
<1> QED
    BY <1>1, <1>2, <1>3, <1>4

\* From page to page.
LEMMA LeaveStep ==
    Account!AccountFits /\ (Account!OpenProfile \/ Account!OpenSettings \/ Account!OpenBoard)
    => Account!AccountFits'
<1> SUFFICES ASSUME Account!AccountFits, Account!OpenProfile \/ Account!OpenSettings
    \/ Account!OpenBoard PROVE Account!AccountFits'
    OBVIOUS
<1>1. PICK s \in {"profile", "settings", "leaderboard"} : Account!Leave(s)
    BY DEF Account!OpenProfile, Account!OpenSettings, Account!OpenBoard
<1>2. /\ v2 \in Account!Users /\ v3 \in Account!Users /\ v4 \in BOOLEAN /\ v9 \in BOOLEAN
      /\ v10 \in {"none", "sending", "processing", "adopting"}
      /\ v10 # "none" => v2.avatar < MaxEdits
      /\ v7 \subseteq Account!Faces /\ v21 \in Boards
    BY DEF Account!AccountFits, Account!RecordsFit, Account!BoardFits
<1>3. Account!Face(v2) \in Account!Faces /\ Account!Face(Account!Fresh) \in Account!Faces
    BY <1>2, NewUsers
<1>4. v7' \subseteq Account!Faces /\ v23' \subseteq Boards
    BY <1>2, <1>3 DEF Account!OpenProfile, Account!OpenSettings, Account!OpenBoard,
       Account!fetchProfile
<1>5. Account!RecordsFit'
    BY <1>1, <1>2, <1>3, <1>4 DEF Account!Leave, Account!RecordsFit, Account!Users,
       Account!Faces
<1>6. Account!TabsFit'
    BY <1>1, AccountBounds DEF Account!Leave, Account!TabsFit
<1>7. Account!BoardFits'
    BY <1>1, <1>2, <1>4 DEF Account!Leave, Account!BoardFits
<1> QED
    BY <1>1, <1>5, <1>6, <1>7, AccountUnmoved DEF Account!Leave, Account!AccountFits

\* The profile.
LEMMA ProfileStep ==
    ASSUME Account!AccountFits,
           \/ \E f \in v7 : Account!ProfileFails(f)
              \/ \E late \in BOOLEAN : Account!ProfileAnswered(f, late)
           \/ Account!Edit \/ Account!submit \/ Account!Saved \/ Account!SaveFails
           \/ Account!handleAvatarUpload \/ Account!AvatarMoves \/ Account!AvatarAdopted
              \/ Account!AvatarFails
    PROVE  Account!AccountFits'
<1>0. /\ v1 \in {"profile", "settings", "leaderboard", "login"}
      /\ v2 \in Account!Users /\ v3 \in Account!Users /\ v4 \in BOOLEAN
      /\ v5 \in Account!Faces /\ v6 \in BOOLEAN /\ v7 \subseteq Account!Faces
      /\ v8 \in {"closed", "open"} /\ v9 \in BOOLEAN
      /\ v10 \in {"none", "sending", "processing", "adopting"}
      /\ v10 # "none" => v2.avatar < MaxEdits
    BY DEF Account!AccountFits, Account!RecordsFit
<1>1. ASSUME NEW f \in Account!Faces,
             Account!syncAuthUserFromProfile(f) PROVE v3' \in Account!Users
    BY <1>0, <1>1, NewUsers DEF Account!syncAuthUserFromProfile
<1>2. ASSUME NEW f \in v7, Account!ProfileFails(f) PROVE Account!AccountFits'
  <2>1. Account!RecordsFit'
      BY <1>0, <1>2 DEF Account!ProfileFails, Account!RecordsFit, Account!Users, Account!Faces,
         Account!Profile, Account!Editing
  <2> QED
      BY <1>2, <2>1, AccountUnmoved DEF Account!ProfileFails, Account!AccountFits
<1>3. ASSUME NEW f \in v7, NEW late \in BOOLEAN, Account!ProfileAnswered(f,
             late) PROVE Account!AccountFits'
  <2> DEFINE told == IF late THEN f ELSE Account!Face(v2)
  <2>1. told \in Account!Faces
      BY <1>0, NewUsers
  <2>2. /\ v7' = v7 \ {f} /\ Account!syncAuthUserFromProfile(told)
        /\ v5' = IF v1 = "profile" THEN told ELSE v5
        /\ v6' = (v6 \/ v1 = "profile")
        /\ v16' = IF v1 = "profile" /\ ~v6 THEN {"materials"} ELSE v16
        /\ UNCHANGED <<v1, v2, v4, Account!Editing, v11, v12, v13,
                       v14, v15, Account!Settings, Account!Board>>
      BY <1>3 DEF Account!ProfileAnswered
  <2> HIDE DEF told
  <2>3. v3' \in Account!Users /\ v5' \in Account!Faces /\ v6' \in BOOLEAN
      BY <1>0, <1>1, <2>1, <2>2
  <2>4. Account!RecordsFit'
      BY <1>0, <2>2, <2>3 DEF Account!RecordsFit, Account!Users, Account!Faces, Account!Editing
  <2>5. Account!TabsFit'
      BY <2>2 DEF Account!AccountFits, Account!TabsFit
  <2> QED
      BY <2>2, <2>4, <2>5, AccountUnmoved DEF Account!AccountFits
<1>4. CASE Account!Saved
  <2>1. v2' \in Account!Users /\ v2'.avatar = v2.avatar
      BY <1>0, <1>4, NewUsers DEF Account!Saved, Account!Users
  <2>2. v5' \in Account!Faces /\ v3' \in Account!Users
      BY <1>1, <1>4, <2>1, NewUsers DEF Account!Saved
  <2>3. Account!RecordsFit'
      BY <1>0, <1>4, <2>1, <2>2 DEF Account!Saved, Account!OnProfile, Account!RecordsFit,
         Account!Users, Account!Faces
  <2> QED
      BY <1>4, <2>3, AccountUnmoved DEF Account!Saved, Account!OnProfile, Account!AccountFits
<1>5. CASE Account!AvatarAdopted
  <2>1. v2' \in Account!Users
      BY <1>0, <1>5, NewUsers DEF Account!AvatarAdopted
  <2>2. v5' \in Account!Faces /\ v3' \in Account!Users /\ v7' \subseteq Account!Faces
      BY <1>0, <1>1, <1>5, <2>1, NewUsers DEF Account!AvatarAdopted, Account!fetchProfile
  <2>3. Account!RecordsFit'
      BY <1>0, <1>5, <2>1, <2>2 DEF Account!AvatarAdopted, Account!OnProfile,
         Account!RecordsFit, Account!Users, Account!Faces
  <2> QED
      BY <1>5, <2>3, AccountUnmoved DEF Account!AvatarAdopted, Account!OnProfile,
         Account!AccountFits
<1>6. CASE Account!Edit \/ Account!submit \/ Account!SaveFails \/ Account!handleAvatarUpload
      \/ Account!AvatarMoves \/ Account!AvatarFails
  <2>1. Account!RecordsFit'
      BY <1>0, <1>6 DEF Account!Edit, Account!submit, Account!SaveFails,
         Account!handleAvatarUpload, Account!AvatarMoves, Account!AvatarFails,
         Account!OnProfile,
         Account!RecordsFit, Account!Users, Account!Faces, Account!Profile
  <2> QED
      BY <1>6, <2>1, AccountUnmoved DEF Account!Edit, Account!submit, Account!SaveFails,
         Account!handleAvatarUpload, Account!AvatarMoves,
         Account!AvatarFails, Account!OnProfile, Account!AccountFits
<1> QED
    BY <1>2, <1>3, <1>4, <1>5, <1>6

\* The tabs of the profile.
LEMMA TabStep ==
    ASSUME Account!AccountFits,
           \/ \E v \in Panels : Account!handleTabChange(v) \/ Account!markTabReady(v)
              \/ Account!markTabError(v)
           \/ Account!retryTab \/ Account!fetchContributions
    PROVE  Account!AccountFits'
<1>1. Account!TabsFit'
    BY DEF Account!AccountFits, Account!TabsFit, Account!handleTabChange, Account!markTabReady,
       Account!markTabError, Account!retryTab, Account!fetchContributions
<1> QED
    BY <1>1, AccountUnmoved DEF Account!AccountFits, Account!handleTabChange,
       Account!markTabReady, Account!markTabError, Account!retryTab,
       Account!fetchContributions, Account!OnTabs, Account!OnProfile

\* Settings.
LEMMA SettingStep ==
    ASSUME Account!AccountFits,
           \/ Account!handleToggleAutoApprove \/ Account!AutoApproveSet
              \/ Account!handleCreatePassword \/ Account!PasswordCreated
           \/ Account!SettingFails \/ Account!handleExport \/ Account!handleDeleteAccount
              \/ Account!AccountDeleted
    PROVE  Account!AccountFits'
<1>0. /\ v2 \in Account!Users /\ v3 \in Account!Users /\ v4 \in BOOLEAN
      /\ v17 \in Account!Pending /\ v18 \in Account!Pending
      /\ v19 \in BOOLEAN /\ v20 \in {"no", "asked", "sent"}
    BY DEF Account!AccountFits, Account!RecordsFit, Account!SettingsFit
<1>1. Account!Idle \in Account!Pending /\ Account!Had \in Account!Pending
    BY <1>0, NewUsers DEF Account!Had, Account!Pending
<1>2. Account!SettingsFit'
  <2>1. v17' \in Account!Pending /\ v18' \in Account!Pending
      BY <1>0, <1>1 DEF Account!handleToggleAutoApprove, Account!AutoApproveSet,
         Account!handleCreatePassword, Account!PasswordCreated,
         Account!SettingFails, Account!handleExport, Account!handleDeleteAccount,
         Account!AccountDeleted
  <2>2. v19' \in BOOLEAN /\ v20' \in {"no", "asked", "sent"}
      BY <1>0 DEF Account!handleToggleAutoApprove, Account!AutoApproveSet,
         Account!handleCreatePassword, Account!PasswordCreated,
         Account!SettingFails, Account!handleExport, Account!handleDeleteAccount,
         Account!AccountDeleted
  <2> QED
      BY <2>1, <2>2 DEF Account!SettingsFit, Account!Pending, Account!Users
<1>3. v2' \in Account!Users /\ v3' \in Account!Users /\ v2'.avatar = v2.avatar
  <2>1. CASE Account!AutoApproveSet
      BY <1>0, <2>1 DEF Account!AutoApproveSet, Account!Users, Account!Pending
  <2>2. CASE Account!PasswordCreated
      BY <1>0, <2>2 DEF Account!PasswordCreated, Account!Users, Account!Pending
  <2> QED
      BY <1>0, <2>1, <2>2 DEF Account!handleToggleAutoApprove, Account!handleCreatePassword,
         Account!SettingFails, Account!handleExport,
         Account!handleDeleteAccount, Account!AccountDeleted
<1>4. v1' \in {"profile", "settings", "leaderboard", "login"} /\ v4' \in BOOLEAN
    BY DEF Account!AccountFits, Account!RecordsFit, Account!handleToggleAutoApprove,
       Account!AutoApproveSet, Account!handleCreatePassword,
       Account!PasswordCreated, Account!SettingFails, Account!handleExport,
       Account!handleDeleteAccount, Account!AccountDeleted
<1>5. UNCHANGED <<Account!Profile, v7, Account!Editing, Account!Tab, Account!Board>>
    BY DEF Account!OnSettings, Account!handleToggleAutoApprove, Account!AutoApproveSet,
       Account!handleCreatePassword, Account!PasswordCreated,
       Account!SettingFails, Account!handleExport, Account!handleDeleteAccount,
       Account!AccountDeleted
<1>6. Account!RecordsFit'
    BY <1>3, <1>4, <1>5 DEF Account!AccountFits, Account!RecordsFit, Account!Profile,
       Account!Editing, Account!Users, Account!Faces
<1> QED
    BY <1>2, <1>5, <1>6, AccountUnmoved DEF Account!AccountFits

\* The steps of the leaderboard keep all parts.
LEMMA BoardStep ==
    ASSUME Account!AccountFits,
           \/ \E b \in Boards : Account!changePeriod(b) \/ Account!BoardAnswered(b)
              \/ Account!BoardFails(b)
           \/ Account!retry
    PROVE  Account!AccountFits'
<1>1. Account!BoardFits'
    BY DEF Account!AccountFits, Account!BoardFits, Account!changePeriod, Account!BoardAnswered,
       Account!BoardFails, Account!retry
<1> QED
    BY <1>1, AccountUnmoved DEF Account!AccountFits, Account!changePeriod,
       Account!BoardAnswered, Account!BoardFails, Account!retry, Account!OnBoard

\* Every step keeps the types.
LEMMA AccountTypesKept ==
    Account!AccountFits /\ [Account!Next]_(Account!accountVars) => Account!AccountFits'
<1> SUFFICES ASSUME Account!AccountFits, Account!Next \/ UNCHANGED Account!accountVars
             PROVE  Account!AccountFits'
    OBVIOUS
<1>1. CASE UNCHANGED Account!accountVars
    BY <1>1, AccountUnmoved DEF Account!accountVars, Account!Profile, Account!Editing,
       Account!Tab, Account!Settings, Account!Board, Account!AccountFits
<1>2. CASE Account!Next
    BY <1>2, LeaveStep, ProfileStep, TabStep, SettingStep, BoardStep DEF Account!Next
<1> QED
    BY <1>1, <1>2

-----------------------------------------------------------------------------
(* MaterialEditing: v1 head, v2 seen, v3 place, v4 target, v5 open, v6     *)
(* tab, v7 base, v8 dirty, v9 title, v10 retitled, v11 loads, v12 loading, *)
(* v13 failed, v14 panel, v15 picks, v16 replacement, v17 busy, v18 saves, *)
(* v19 drafts, v20 contributions, v21 history.                             *)

\* The part's number of elements is the library's.
LEMMA EditingCounts == \A S : Editing!Cardinality(S) = Cardinality(S)
    BY Zenon DEF Editing!Cardinality, Cardinality

\* The part's finite sets are the library's.
LEMMA EditingFinite == \A S : Editing!IsFiniteSet(S) <=> IsFiniteSet(S)
    BY Zenon DEF Editing!IsFiniteSet, IsFiniteSet

\* The part's sums are the library's.
LEMMA EditingSums == \A f, S : Editing!SumFunctionOnSet(f, S) = SumFunctionOnSet(f, S)
    BY Zenon DEF Editing!SumFunctionOnSet, SumFunctionOnSet, Editing!FoldFunctionOnSet,
       FoldFunctionOnSet,
       Editing!MapThenFoldSet, MapThenFoldSet

\* The named parts of the invariant make up the types.
LEMMA EditingIsTyped == Editing!EditingFits => Editing!TypeOK
    BY EditingCounts, EditingFinite DEF Editing!EditingFits, Editing!ServerFits, Editing!DialogFits,
       Editing!SentFits, Editing!SaveFits,
       Editing!Early, Editing!TypeOK

\* Sets of no element or one are small and finite.
LEMMA FewContents ==
    /\ Editing!AtMostOne({}) /\ IsFiniteSet({})
    /\ \A x : Editing!AtMostOne({x}) /\ IsFiniteSet({x})
<1>1. IsFiniteSet({}) /\ Cardinality({}) = 0
    BY FS_EmptySet
<1>2. \A x : IsFiniteSet({x}) /\ Cardinality({x}) = 1
    BY FS_Singleton
<1>3. Editing!AtMostOne({}) /\ IsFiniteSet({})
    BY EditingCounts, EditingFinite, <1>1 DEF Editing!AtMostOne
<1>4. ASSUME NEW x PROVE Editing!AtMostOne({x}) /\ IsFiniteSet({x})
  <2>1. Cardinality({x}) = 1 /\ IsFiniteSet({x})
      BY <1>2
  <2> QED
      BY EditingCounts, EditingFinite, <2>1 DEF Editing!AtMostOne
<1> QED
    BY <1>3, <1>4

\* A small set is empty or has one element.
LEMMA NoneOrOne ==
    ASSUME NEW S, IsFiniteSet(S), Editing!AtMostOne(S) PROVE S = {} \/ \E x : S = {x}
<1> SUFFICES ASSUME NEW x \in S PROVE S \ {x} = {}
    OBVIOUS
<1>1. IsFiniteSet(S \ {x}) /\ Cardinality(S \ {x}) = Cardinality(S) - 1
    BY FS_RemoveElement
<1>2. Cardinality(S) \in Nat /\ Cardinality(S \ {x}) \in Nat
    BY <1>1, FS_CardinalityType
<1>3. Cardinality(S \ {x}) = 0
    BY EditingCounts, EditingFinite, <1>1, <1>2 DEF Editing!AtMostOne
<1> QED
    BY <1>1, <1>3, FS_EmptySet

\* The first states have their types.
LEMMA EditingTypesStart == Editing!Init => Editing!EditingFits
<1> SUFFICES ASSUME Editing!Init PROVE Editing!EditingFits
    OBVIOUS
<1>1. v4 \in Contents
    BY EditingBounds DEF Editing!Init
<1>2. Editing!ServerFits
    BY EditingBounds DEF Editing!Init, Editing!ServerFits, Editing!Versions
<1>3. Editing!DialogFits
    BY EditingCounts, EditingFinite, <1>1, FewContents DEF Editing!Init, Editing!DialogFits
<1>4. Editing!SentFits
    BY EditingCounts, EditingFinite, FewContents DEF Editing!Init, Editing!SentFits,
       Editing!Early
<1> QED
    BY <1>2, <1>3, <1>4 DEF Editing!Init, Editing!EditingFits

\* Loading the text of a dialog starts one read.
LEMMA EditLoadFits ==
    ASSUME Editing!EditingFits, v4' \in Contents, Editing!LoadText
    PROVE  v11' \subseteq Editing!Reads /\ v12' \in BOOLEAN /\ v13' \in BOOLEAN
<1>1. CASE UNCHANGED <<v11, v12, v13>>
    BY <1>1 DEF Editing!EditingFits, Editing!DialogFits
<1>2. ASSUME NEW n \in 1..MaxReads, v11' = v11 \cup {[item |-> v4', since |-> v1[v4'],
             n |-> n]},
             v12' = TRUE, v13' = FALSE
      PROVE  v11' \subseteq Editing!Reads /\ v12' \in BOOLEAN /\ v13' \in BOOLEAN
  <2>1. v1[v4'] \in Editing!Versions
      BY DEF Editing!EditingFits, Editing!ServerFits
  <2>2. [item |-> v4', since |-> v1[v4'], n |-> n] \in Editing!Reads
      BY <2>1 DEF Editing!Reads
  <2> QED
      BY <1>2, <2>2 DEF Editing!EditingFits, Editing!DialogFits
<1> QED
    BY <1>1, <1>2 DEF Editing!LoadText

\* A dialog just mounted has its types.
LEMMA MountedFits ==
    ASSUME NEW i \in Contents, Editing!Mounted(i), v11' \subseteq Editing!Reads,
           v12' \in BOOLEAN, v13' \in BOOLEAN
    PROVE  Editing!DialogFits'
    BY EditingCounts, EditingFinite, FewContents DEF Editing!Mounted, Editing!DialogFits,
       Editing!Sources, Editing!Reads,
       Editing!AtMostOne, Editing!Versions

\* A fresh dialog has its types.
LEMMA FreshFits == ASSUME NEW i \in Contents, Editing!Fresh(i) PROVE Editing!DialogFits'
    BY MountedFits DEF Editing!Fresh

\* A dialog that is hidden has its panel idle, and picks of known contents.
LEMMA HiddenFits ==
    Editing!EditingFits /\ Editing!Hidden
    => v14' = "idle" /\ v15' \subseteq [of : Contents, shown : BOOLEAN]
    BY DEF Editing!EditingFits, Editing!DialogFits, Editing!Hidden

\* Hiding a dialog keeps its form and its types.
LEMMA KeptFits ==
    ASSUME Editing!EditingFits, UNCHANGED <<v4, v6, Editing!Form, Editing!Reading>>,
           Editing!Hidden
    PROVE  Editing!DialogFits'
<1>1. v14' = "idle" /\ v15' \subseteq [of : Contents, shown : BOOLEAN]
    BY HiddenFits
<1> QED
    BY <1>1 DEF Editing!EditingFits, Editing!DialogFits, Editing!Form, Editing!Reading,
       Editing!Sources, Editing!Reads, Editing!AtMostOne, Editing!Versions

\* A dialog that is unmounted has its types.
LEMMA UnmountsFits == ASSUME Editing!EditingFits, Editing!Unmounts PROVE Editing!DialogFits'
<1>1. CASE Editing!Fresh(v4)
    BY <1>1, FreshFits DEF Editing!EditingFits, Editing!DialogFits
<1>2. CASE Editing!Hidden /\ UNCHANGED <<v4, v6, Editing!Form, Editing!Reading, v17>>
    BY <1>2, KeptFits
<1> QED
    BY <1>1, <1>2 DEF Editing!Unmounts

\* A step that leaves the dialog alone keeps its types.
LEMMA SameDialog ==
    ASSUME Editing!EditingFits, UNCHANGED <<v4, v6, Editing!Form, Editing!Reading,
           Editing!Picking>>
    PROVE  Editing!DialogFits'
    BY DEF Editing!EditingFits, Editing!DialogFits, Editing!Form, Editing!Reading, Editing!Picking,
       Editing!Sources, Editing!Reads, Editing!AtMostOne, Editing!Versions

\* The end of a save leaves the dialog in its types, whether it closes it or
\* not.
LEMMA EndsFits == ASSUME Editing!EditingFits, NEW s \in v18, NEW closing, Editing!Ends(s,
closing) PROVE Editing!DialogFits' /\ v5' \in BOOLEAN /\ v17' \in BOOLEAN
<1>1. v5' \in BOOLEAN
    BY DEF Editing!Ends, Editing!EditingFits
<1>2. v17' \in BOOLEAN
    BY DEF Editing!Ends, Editing!EditingFits, Editing!Fresh, Editing!Mounted
<1>3. CASE Editing!Fresh(v4)
    BY <1>1, <1>2, <1>3, FreshFits DEF Editing!EditingFits, Editing!DialogFits
<1>4. CASE Editing!Hidden /\ UNCHANGED <<v4, v6, Editing!Form, Editing!Reading>>
    BY <1>1, <1>2, <1>4, KeptFits
<1>5. CASE UNCHANGED <<v4, v6, Editing!Form, Editing!Reading, Editing!Picking>>
    BY <1>1, <1>2, <1>5, SameDialog
<1> QED
    BY <1>3, <1>4, <1>5 DEF Editing!Ends

\* Every step keeps the dialog and the place it is opened at in their types.
LEMMA DialogStep ==
    Editing!EditingFits /\ [Editing!Next]_(Editing!editVars)
    => Editing!DialogFits' /\ v5' \in BOOLEAN
   /\ v17' \in BOOLEAN /\ v3' \in {"directory", "material"}
<1> SUFFICES ASSUME Editing!EditingFits, [Editing!Next]_(Editing!editVars)
             PROVE  Editing!DialogFits' /\ v5' \in BOOLEAN /\ v17' \in BOOLEAN
                    /\ v3' \in {"directory", "material"}
    OBVIOUS
<1> DEFINE Fine == Editing!DialogFits' /\ v5' \in BOOLEAN /\ v17' \in BOOLEAN
    /\ v3' \in {"directory", "material"}
<1>0. v3 \in {"directory", "material"} /\ v5 \in BOOLEAN /\ v17 \in BOOLEAN
      /\ Editing!DialogFits
    BY DEF Editing!EditingFits
<1>1. ASSUME NEW i \in Contents, Editing!OpenFromRow(i) PROVE Fine
  <2>1. v4' \in Contents
      BY <1>1 DEF Editing!OpenFromRow, Editing!Mounted
  <2>2. v11' \subseteq Editing!Reads /\ v12' \in BOOLEAN /\ v13' \in BOOLEAN
      BY <1>1, <2>1, EditLoadFits DEF Editing!OpenFromRow
  <2>3. Editing!DialogFits'
      BY <1>1, <2>2, MountedFits DEF Editing!OpenFromRow
  <2> QED
      BY <1>0, <1>1, <2>3 DEF Editing!OpenFromRow, Editing!Mounted
<1>2. ASSUME Editing!LoadText, v4' \in Contents, v6' \in {"content", "metadata"},
             UNCHANGED <<v3, v7, v8, v9, v10, v16, v17>>, v5' \in BOOLEAN,
             UNCHANGED <<v14, v15>> \/ Editing!Hidden
      PROVE  Fine
  <2>1. v11' \subseteq Editing!Reads /\ v12' \in BOOLEAN /\ v13' \in BOOLEAN
      BY <1>2, EditLoadFits
  <2>2. v14' \in {"idle", "uploading", "done", "error"} /\ v15' \subseteq [of : Contents,
        shown : BOOLEAN]
      BY <1>0, <1>2, HiddenFits DEF Editing!DialogFits
  <2>3. Editing!DialogFits'
      BY <1>0, <1>2, <2>1, <2>2 DEF Editing!DialogFits, Editing!Sources, Editing!Reads,
         Editing!AtMostOne, Editing!Versions
  <2> QED
      BY <1>0, <1>2, <2>3
<1>3. ASSUME NEW i \in Contents, Editing!GoAcross(i) PROVE Fine
    BY <1>0, <1>2, <1>3 DEF Editing!GoAcross, Editing!Picking, Editing!DialogFits
<1>4. CASE Editing!OpenFromActions
    BY <1>0, <1>2, <1>4 DEF Editing!OpenFromActions, Editing!Picking, Editing!DialogFits
<1>5. ASSUME NEW to \in {"content", "metadata"}, Editing!SwitchTab(to) PROVE Fine
    BY <1>0, <1>2, <1>5 DEF Editing!SwitchTab, Editing!InForm, Editing!DialogFits
<1>6. ASSUME NEW i \in Contents, NEW there \in {"directory", "material"}, Editing!GoTo(i,
             there) PROVE Fine
  <2>1. Editing!Fresh(i)
      BY <1>6 DEF Editing!GoTo
  <2>2. Editing!DialogFits'
      BY <2>1, FreshFits
  <2> QED
      BY <1>0, <1>6, <2>1, <2>2 DEF Editing!GoTo, Editing!Fresh, Editing!Mounted
<1>7. CASE Editing!Close
    BY <1>0, <1>7, UnmountsFits DEF Editing!Close, Editing!Unmounts, Editing!Fresh,
       Editing!Mounted
<1>8. CASE Editing!handleDraft
  <2>1. CASE UNCHANGED <<v5, v4, v6, Editing!Form, Editing!Reading, Editing!Picking>>
        /\ v17' = TRUE
      BY <1>0, <1>8, <2>1, SameDialog DEF Editing!handleDraft
  <2>2. CASE v5' = FALSE /\ Editing!Unmounts
      BY <1>0, <1>8, <2>2, UnmountsFits DEF Editing!handleDraft, Editing!Unmounts,
         Editing!Fresh, Editing!Mounted
  <2> QED
      BY <1>8, <2>1, <2>2 DEF Editing!handleDraft
<1>9. CASE Editing!handleDirectSubmit
    BY <1>0, <1>9, SameDialog DEF Editing!handleDirectSubmit
<1>10. ASSUME NEW s \in v18, Editing!TextStored(s) \/ Editing!Submitted(s)
              \/ Editing!SaveFails(s) PROVE Fine
  <2>1. v3' = v3
      BY <1>10 DEF Editing!TextStored, Editing!Submitted, Editing!SaveFails
  <2>2. CASE UNCHANGED <<v5, v17, v4, v6, Editing!Form, Editing!Reading, Editing!Picking>>
      BY <1>0, <2>1, <2>2, SameDialog
  <2>3. CASE \E closing : Editing!Ends(s, closing)
      BY <1>0, <2>1, <2>3, EndsFits
  <2> QED
      BY <1>10, <2>2, <2>3 DEF Editing!TextStored, Editing!Submitted, Editing!SaveFails
<1>11. ASSUME UNCHANGED <<v3, v4, v5, v6, Editing!Form, Editing!Reading, Editing!Picking,
              v17>> PROVE Fine
    BY <1>0, <1>11, SameDialog
<1>12. ASSUME NEW i \in Contents, Editing!OtherEdits(i) \/ Editing!fetchData(i) PROVE Fine
    BY <1>11, <1>12 DEF Editing!OtherEdits, Editing!fetchData
<1>13. ASSUME NEW c \in v20, Editing!_exec_edit_material(c) \/ Editing!Rejected(c) PROVE Fine
    BY <1>11, <1>13 DEF Editing!_exec_edit_material, Editing!Rejected, Editing!OnServer
<1>14. CASE Editing!SubmitDraft \/ UNCHANGED Editing!editVars
    BY <1>11, <1>14 DEF Editing!SubmitDraft, Editing!OnServer, Editing!editVars
<1>15. CASE Editing!TryAgain
    BY EditingCounts, EditingFinite, <1>0, <1>15, FewContents DEF Editing!TryAgain,
       Editing!InForm, Editing!DialogFits,
       Editing!Sources, Editing!Reads, Editing!AtMostOne, Editing!Versions, Editing!Picking
<1>16. CASE Editing!Type \/ Editing!Retitle
    BY <1>0, <1>16 DEF Editing!Type, Editing!Retitle, Editing!InForm, Editing!DialogFits,
       Editing!Sources, Editing!Reads, Editing!AtMostOne, Editing!Versions, Editing!Picking,
       Editing!Reading
<1>17. CASE Editing!handleFile
  <2>1. v15' \subseteq [of : Contents, shown : BOOLEAN]
    <3>1. [of |-> v4, shown |-> TRUE] \in [of : Contents, shown : BOOLEAN]
        BY <1>0 DEF Editing!DialogFits
    <3> QED
        BY <1>0, <1>17, <3>1 DEF Editing!handleFile, Editing!DialogFits
  <2> QED
      BY <1>0, <1>17, <2>1 DEF Editing!handleFile, Editing!InForm, Editing!DialogFits,
         Editing!Sources, Editing!Reads, Editing!AtMostOne, Editing!Versions, Editing!Form,
         Editing!Reading
<1>18. CASE Editing!reset
    BY <1>0, <1>18, FewContents DEF Editing!reset, Editing!InForm, Editing!DialogFits,
       Editing!Sources, Editing!Reads, Editing!AtMostOne, Editing!Versions, Editing!Reading
<1>19. ASSUME NEW l \in v11, Editing!TextArrives(l) PROVE Fine
  <2>1. l.item \in Contents /\ l.since \in Editing!Versions /\ v1[l.item] \in Editing!Versions
      BY <1>0 DEF Editing!DialogFits, Editing!Reads, Editing!EditingFits, Editing!ServerFits
  <2>2. PICK v \in l.since..v1[l.item] : v7' = {[item |-> l.item, version |-> v]}
      BY <1>19 DEF Editing!TextArrives
  <2>3. v \in Editing!Versions
      BY <2>1, EditingBounds DEF Editing!Versions
  <2>4. [item |-> l.item, version |-> v] \in Editing!Sources
      BY <2>1, <2>3 DEF Editing!Sources
  <2>5. v7' \subseteq Editing!Sources /\ Editing!AtMostOne(v7') /\ IsFiniteSet(v7')
      BY <2>2, <2>4, FewContents
  <2> QED
      BY EditingCounts, EditingFinite, <1>0, <1>19, <2>5 DEF Editing!TextArrives,
         Editing!DialogFits, Editing!Sources,
         Editing!Reads, Editing!AtMostOne, Editing!Versions, Editing!Picking
<1>20. ASSUME NEW l \in v11, Editing!TextFails(l) PROVE Fine
    BY <1>0, <1>20 DEF Editing!TextFails, Editing!DialogFits, Editing!Sources, Editing!Reads,
       Editing!AtMostOne, Editing!Versions, Editing!Picking
<1>21. ASSUME NEW p \in v15, Editing!FileReady(p) PROVE Fine
  <2>1. p.of \in Contents
      BY <1>0 DEF Editing!DialogFits
  <2>2. v16' \subseteq Contents /\ Editing!AtMostOne(v16')
      BY <1>21, <2>1, FewContents DEF Editing!FileReady
  <2>3. v14' \in {"idle", "uploading", "done", "error"} /\ v15' \subseteq [of : Contents,
        shown : BOOLEAN]
      BY <1>0, <1>21 DEF Editing!FileReady, Editing!DialogFits
  <2> QED
      BY <1>0, <1>21, <2>2, <2>3 DEF Editing!FileReady, Editing!DialogFits, Editing!Sources,
         Editing!Reads, Editing!AtMostOne, Editing!Versions, Editing!Reading
<1>22. ASSUME NEW p \in v15, Editing!FileFails(p) PROVE Fine
  <2>1. v14' \in {"idle", "uploading", "done", "error"} /\ v15' \subseteq [of : Contents,
        shown : BOOLEAN]
      BY <1>0, <1>22 DEF Editing!FileFails, Editing!DialogFits
  <2> QED
      BY <1>0, <1>22, <2>1 DEF Editing!FileFails, Editing!DialogFits, Editing!Sources,
         Editing!Reads, Editing!AtMostOne, Editing!Versions, Editing!Form, Editing!Reading
<1> QED
    BY <1>1, <1>3, <1>4, <1>5, <1>6, <1>7, <1>8, <1>9, <1>10, <1>12, <1>13, <1>14, <1>15, <1>16,
       <1>17, <1>18, <1>19, <1>20, <1>21, <1>22 DEF Editing!Next

\* While there is room for one more edit, every lock is below its bound.
LEMMA RoomTells == ASSUME Editing!EditingFits, Editing!Room,
NEW i \in Contents PROVE v1[i] < MaxEdits
<1>1. /\ v1 \in [Contents -> Nat] /\ \A j \in Contents : v1[j] \in Nat
    BY EditingBounds DEF Editing!EditingFits, Editing!ServerFits, Editing!Versions
<1>2. /\ SumFunctionOnSet(v1, Contents) = v1[i] + SumFunctionOnSet(v1, Contents \ {i})
      /\ IsFiniteSet(Contents \ {i})
    BY <1>1, SumRemove, EditingBounds, FS_RemoveElement
<1>3. SumFunctionOnSet(v1, Contents \ {i}) \in Nat
    BY <1>1, <1>2, SumType
<1>4. Editing!Edited = SumFunctionOnSet(v1, Contents)
    BY EditingSums, <1>1 DEF Editing!Edited, Editing!SumFunction
<1>5. Cardinality(v19) \in Nat /\ Cardinality(v20) \in Nat
    BY EditingCounts, EditingFinite, FS_CardinalityType DEF Editing!EditingFits,
       Editing!SentFits, Editing!SaveFits
<1> QED
    BY EditingCounts, EditingFinite, <1>1, <1>2, <1>3, <1>4, <1>5, EditingBounds
       DEF Editing!Room

\* The operations built from a form are finitely many and locked below the
\* bound.
LEMMA OpsFit ==
    ASSUME Editing!EditingFits, Editing!Room
    PROVE  Editing!Early(Editing!buildOps) /\ IsFiniteSet(Editing!buildOps)
<1>1. /\ v9 \in Contents /\ v4 \in Contents /\ v7 \subseteq Editing!Sources
         /\ v16 \subseteq Contents
      /\ IsFiniteSet(v7) /\ IsFiniteSet(v16)
    BY EditingCounts, EditingFinite, EditingBounds, FS_Subset DEF Editing!EditingFits,
       Editing!DialogFits
<1>2. ASSUME NEW k \in {"title", "text", "file"}, NEW of \in Contents,
             NEW v \in Editing!Versions
      PROVE  Editing!Edit(k, of, v) \in Editing!Edits /\ Editing!Edit(k, of, v).lock < MaxEdits
  <2>1. v2[v4] \in Editing!Versions /\ v1[v4] \in Editing!Versions /\ v2[v4] <= v1[v4]
      BY <1>1 DEF Editing!EditingFits, Editing!ServerFits
  <2>2. v1[v4] < MaxEdits
      BY <1>1, RoomTells
  <2>3. v2[v4] < MaxEdits
      BY <2>1, <2>2, EditingBounds DEF Editing!Versions
  <2> QED
      BY <1>1, <1>2, <2>1, <2>3 DEF Editing!Edit, Editing!Edits
<1> DEFINE T == {v9} \cap (IF Editing!metadataChanged THEN {v9} ELSE {})
           B == IF Editing!textChanged THEN v7 ELSE {}
           R == IF Editing!binaryChanged THEN v16 ELSE {}
           OT == {Editing!Edit("title", v9, 0) : x \in T}
           OB == {Editing!Edit("text", b.item, b.version) : b \in B}
           OR == {Editing!Edit("file", r, 0) : r \in R}
<1>3. Editing!Early(OT)
    BY <1>1, <1>2, EditingBounds DEF Editing!Early, Editing!Versions
<1>4. Editing!Early(OB)
  <2>1. \A b \in B : b.item \in Contents /\ b.version \in Editing!Versions
      BY <1>1 DEF Editing!Sources
  <2> HIDE DEF B
  <2> QED
      BY <1>2, <2>1 DEF Editing!Early
<1>5. Editing!Early(OR)
  <2>1. \A r \in R : r \in Contents
      BY <1>1
  <2>2. 0 \in Editing!Versions
      BY EditingBounds DEF Editing!Versions
  <2> HIDE DEF R
  <2> QED
      BY <1>2, <2>1, <2>2 DEF Editing!Early
<1>6. OT = {} \/ OT = {Editing!Edit("title", v9, 0)}
    OBVIOUS
<1>7. OB = {} \/ \E b : OB = {Editing!Edit("text", b.item, b.version)}
    BY <1>1, NoneOrOne DEF Editing!EditingFits, Editing!DialogFits
<1>8. OR = {} \/ \E r : OR = {Editing!Edit("file", r, 0)}
    BY <1>1, NoneOrOne DEF Editing!EditingFits, Editing!DialogFits
<1>9. Editing!buildOps = (OT \cup OB) \cup OR
    BY DEF Editing!buildOps
<1>10. IsFiniteSet(OT) /\ IsFiniteSet(OB) /\ IsFiniteSet(OR)
    BY <1>6, <1>7, <1>8, FewContents
<1> HIDE DEF OT, OB, OR
<1>11. IsFiniteSet(OT \cup OB)
    BY <1>10, FS_Union
<1>12. IsFiniteSet((OT \cup OB) \cup OR)
    BY <1>10, <1>11, FS_Union
<1> QED
    BY <1>3, <1>4, <1>5, <1>9, <1>12 DEF Editing!Early

\* A press of a save button starts a save that has its types.
LEMMA PressedFits ==
    ASSUME Editing!EditingFits, Editing!Room, NEW mode \in {"draft", "direct"},
           NEW step \in {"text", "submit"}
    PROVE  /\ Editing!Pressed(mode, step) \in Editing!Saves
           /\ IsFiniteSet(Editing!Pressed(mode, step).ops)
              /\ Editing!Early(Editing!Pressed(mode, step).ops)
<1>1. Editing!Early(Editing!buildOps) /\ IsFiniteSet(Editing!buildOps)
    BY OpsFit
<1>2. v4 \in Contents /\ v3 \in {"directory", "material"}
    BY DEF Editing!EditingFits, Editing!DialogFits
<1> QED
    BY <1>1, <1>2 DEF Editing!Pressed, Editing!Saves, Editing!Early

\* Staging keeps the operations finitely many and locked below the bound.
LEMMA StagedFits ==
    ASSUME Editing!EditingFits, NEW ops, Editing!Early(ops), IsFiniteSet(ops)
    PROVE  Editing!Early(Editing!Staged(ops)) /\ IsFiniteSet(Editing!Staged(ops))
<1> DEFINE kept == {d \in v19 : ~\E e \in ops : e.item = d.item
    /\ (e.kind = "title") = (d.kind = "title")}
<1>1. kept \subseteq v19 /\ IsFiniteSet(v19) /\ Editing!Early(v19)
    BY EditingCounts, EditingFinite DEF Editing!EditingFits, Editing!SentFits, Editing!SaveFits
<1>2. Editing!Staged(ops) = kept \cup ops
    BY DEF Editing!Staged
<1> HIDE DEF kept
<1>3. IsFiniteSet(kept)
    BY <1>1, FS_Subset
<1>4. IsFiniteSet(kept \cup ops)
    BY <1>3, FS_Union
<1> QED
    BY <1>1, <1>2, <1>4 DEF Editing!Early

\* A request that is under way names what it sends, whatever it is told of the dialog.
LEMMA SaveKeeps ==
    ASSUME NEW s \in Editing!Saves
    PROVE  /\ \A m \in BOOLEAN : [s EXCEPT !.mounted = m] \in Editing!Saves
              /\ [s EXCEPT !.mounted = m].ops = s.ops
           /\ [s EXCEPT !.at = "gone", !.mounted = FALSE] \in Editing!Saves
           /\ [s EXCEPT !.at = "gone", !.mounted = FALSE].ops = s.ops
           /\ [s EXCEPT !.step = "submit"] \in Editing!Saves
              /\ [s EXCEPT !.step = "submit"].ops = s.ops
    BY DEF Editing!Saves

\* A save whose dialog is gone keeps its types.
LEMMA SavesDetachedFit == Editing!EditingFits => \A s \in Editing!Detached : Editing!SaveFits(s)
<1> SUFFICES ASSUME Editing!EditingFits,
    NEW s \in v18 PROVE Editing!SaveFits([s EXCEPT !.mounted = @ /\ v3 = "material"])
    BY DEF Editing!Detached
<1>1. Editing!SaveFits(s)
    BY DEF Editing!EditingFits, Editing!SentFits, Editing!SaveFits
<1>2. (s.mounted /\ v3 = "material") \in BOOLEAN
    OBVIOUS
<1> QED
    BY <1>1, <1>2, SaveKeeps DEF Editing!SaveFits

\* Every step keeps what was sent in its types.
LEMMA SentStep == Editing!EditingFits /\ [Editing!Next]_(Editing!editVars) => Editing!SentFits'
<1> SUFFICES ASSUME Editing!EditingFits, [Editing!Next]_(Editing!editVars)
             PROVE  Editing!SentFits'
    OBVIOUS
<1>0. /\ \A s \in v18 : Editing!SaveFits(s)
      /\ IsFiniteSet(v19) /\ Editing!Early(v19)
      /\ IsFiniteSet(v20) /\ \A c \in v20 : Editing!Early(c)
    BY EditingCounts, EditingFinite DEF Editing!EditingFits, Editing!SentFits, Editing!SaveFits
<1>1. ASSUME \A s \in v18' : Editing!SaveFits(s), IsFiniteSet(v19'), Editing!Early(v19'),
             IsFiniteSet(v20'), \A c \in v20' : Editing!Early(c)
      PROVE  Editing!SentFits'
    BY EditingCounts, EditingFinite, <1>1 DEF Editing!SentFits, Editing!SaveFits, Editing!Early,
       Editing!Saves, Editing!Edits,
       Editing!Versions
<1>2. ASSUME UNCHANGED Editing!Sent PROVE Editing!SentFits'
    BY <1>0, <1>1, <1>2 DEF Editing!Sent
<1>3. ASSUME NEW i \in Contents, Editing!OpenFromRow(i) \/ Editing!GoAcross(i)
             \/ Editing!OtherEdits(i) \/ Editing!fetchData(i)
      PROVE  Editing!SentFits'
    BY <1>2, <1>3 DEF Editing!OpenFromRow, Editing!GoAcross, Editing!OtherEdits,
       Editing!fetchData
<1>4. ASSUME NEW to \in {"content", "metadata"}, Editing!SwitchTab(to) PROVE Editing!SentFits'
    BY <1>2, <1>4 DEF Editing!SwitchTab, Editing!InForm
<1>5. CASE Editing!OpenFromActions \/ Editing!TryAgain \/ Editing!Type \/ Editing!Retitle
      \/ Editing!handleFile \/ Editing!reset \/ UNCHANGED Editing!editVars
    BY <1>2, <1>5 DEF Editing!OpenFromActions, Editing!TryAgain, Editing!Type, Editing!Retitle,
       Editing!handleFile, Editing!reset, Editing!InForm, Editing!editVars
<1>6. ASSUME NEW l \in v11, Editing!TextArrives(l)
             \/ Editing!TextFails(l) PROVE Editing!SentFits'
    BY <1>2, <1>6 DEF Editing!TextArrives, Editing!TextFails
<1>7. ASSUME NEW p \in v15, Editing!FileReady(p) \/ Editing!FileFails(p) PROVE Editing!SentFits'
    BY <1>2, <1>7 DEF Editing!FileReady, Editing!FileFails
<1>8. ASSUME NEW i \in Contents, NEW there \in {"directory", "material"}, Editing!GoTo(i,
             there) PROVE Editing!SentFits'
  <2>1. \A s \in v18' : Editing!SaveFits(s)
    <3>1. ASSUME NEW s \in v18 PROVE Editing!SaveFits([s EXCEPT !.at = "gone",
                 !.mounted = FALSE])
        BY <1>0, SaveKeeps DEF Editing!SaveFits
    <3> QED
        BY <1>8, <3>1 DEF Editing!GoTo
  <2> QED
      BY <1>0, <1>1, <1>8, <2>1 DEF Editing!GoTo
<1>9. CASE Editing!Close
    BY <1>0, <1>1, <1>9, SavesDetachedFit DEF Editing!Close
<1>10. CASE Editing!handleDraft
  <2>1. CASE v18' = v18 \cup {Editing!Pressed("draft", "text")} /\ v19' = v19
    <3>1. Editing!SaveFits(Editing!Pressed("draft", "text"))
        BY EditingCounts, EditingFinite, <1>10, PressedFits DEF Editing!handleDraft,
           Editing!SaveFits
    <3> QED
        BY <1>0, <1>1, <1>10, <2>1, <3>1 DEF Editing!handleDraft
  <2>2. CASE v18' = Editing!Detached /\ v19' = Editing!Staged(Editing!buildOps)
    <3>1. Editing!Early(v19') /\ IsFiniteSet(v19')
        BY <1>10, <2>2, OpsFit, StagedFits DEF Editing!handleDraft
    <3> QED
        BY <1>0, <1>1, <1>10, <2>2, <3>1, SavesDetachedFit DEF Editing!handleDraft
  <2> QED
      BY <1>10, <2>1, <2>2 DEF Editing!handleDraft
<1>11. CASE Editing!handleDirectSubmit
  <2>1. PICK step \in {"text", "submit"} : v18' = v18 \cup {Editing!Pressed("direct", step)}
      BY <1>11 DEF Editing!handleDirectSubmit
  <2>2. Editing!SaveFits(Editing!Pressed("direct", step))
      BY EditingCounts, EditingFinite, <1>11, PressedFits DEF Editing!handleDirectSubmit,
         Editing!SaveFits
  <2> QED
      BY <1>0, <1>1, <1>11, <2>1, <2>2 DEF Editing!handleDirectSubmit
<1>12. ASSUME NEW s \in v18, Editing!TextStored(s) PROVE Editing!SentFits'
  <2>1. CASE v18' = v18 \ {s} /\ v19' = Editing!Staged(s.ops)
      BY EditingCounts, EditingFinite, <1>0, <1>1, <1>12, <2>1, StagedFits
         DEF Editing!TextStored, Editing!SaveFits
  <2>2. CASE v18' = (v18 \ {s}) \cup {[s EXCEPT !.step = "submit"]} /\ v19' = v19
    <3>1. Editing!SaveFits([s EXCEPT !.step = "submit"])
        BY <1>0, SaveKeeps DEF Editing!SaveFits
    <3> QED
        BY <1>0, <1>1, <1>12, <2>2, <3>1 DEF Editing!TextStored
  <2> QED
      BY <1>12, <2>1, <2>2 DEF Editing!TextStored
<1>13. ASSUME NEW s \in v18, Editing!Submitted(s) PROVE Editing!SentFits'
  <2>1. IsFiniteSet(v20') /\ Editing!Early(s.ops)
      BY <1>0, <1>13, FS_AddElement DEF Editing!Submitted, Editing!SaveFits
  <2> QED
      BY <1>0, <1>1, <1>13, <2>1 DEF Editing!Submitted
<1>14. ASSUME NEW s \in v18, Editing!SaveFails(s) PROVE Editing!SentFits'
    BY <1>0, <1>1, <1>14 DEF Editing!SaveFails
<1>15. CASE Editing!SubmitDraft
  <2>1. IsFiniteSet(v20 \cup {v19}) /\ IsFiniteSet({}) /\ Editing!Early({})
      BY <1>0, FS_AddElement, FewContents DEF Editing!Early
  <2> QED
      BY <1>0, <1>1, <1>15, <2>1 DEF Editing!SubmitDraft, Editing!OnServer
<1>16. ASSUME NEW c \in v20, Editing!_exec_edit_material(c)
              \/ Editing!Rejected(c) PROVE Editing!SentFits'
  <2>1. IsFiniteSet(v20 \ {c})
      BY <1>0, FS_RemoveElement
  <2> QED
      BY <1>0, <1>1, <1>16, <2>1 DEF Editing!_exec_edit_material, Editing!Rejected,
         Editing!OnServer
<1> QED
    BY <1>3, <1>4, <1>5, <1>6, <1>7, <1>8, <1>9, <1>10, <1>11, <1>12, <1>13, <1>14, <1>15, <1>16
       DEF Editing!Next

\* Every step keeps what the server holds in its types.
LEMMA ServerStep ==
    Editing!EditingFits /\ [Editing!Next]_(Editing!editVars) => Editing!ServerFits'
<1> SUFFICES ASSUME Editing!EditingFits, [Editing!Next]_(Editing!editVars)
             PROVE  Editing!ServerFits'
    OBVIOUS
<1>0. /\ v1 \in [Contents -> Editing!Versions] /\ v2 \in [Contents -> Editing!Versions]
      /\ \A i \in Contents : v2[i] <= v1[i]
      /\ \A h \in v21 : h.edit \in Editing!Edits /\ h.replaces \in Editing!Versions
    BY DEF Editing!EditingFits, Editing!ServerFits
<1>1. ASSUME UNCHANGED <<Editing!Server, v2>> PROVE Editing!ServerFits'
    BY <1>0, <1>1 DEF Editing!ServerFits, Editing!Server, Editing!Versions, Editing!Edits
<1>2. ASSUME NEW i \in Contents, Editing!OtherEdits(i) PROVE Editing!ServerFits'
  <2>1. v1[i] < MaxEdits
      BY <1>2, RoomTells DEF Editing!OtherEdits
  <2>2. v1' \in [Contents -> Editing!Versions] /\ \A j \in Contents : v2[j] <= v1'[j]
      BY <1>0, <1>2, <2>1, EditingBounds DEF Editing!OtherEdits, Editing!Versions
  <2> QED
      BY <1>0, <1>2, <2>2 DEF Editing!OtherEdits, Editing!ServerFits, Editing!Versions,
         Editing!Edits
<1>3. ASSUME NEW i \in Contents, Editing!fetchData(i) PROVE Editing!ServerFits'
  <2>1. v2' \in [Contents -> Editing!Versions] /\ \A j \in Contents : v2'[j] <= v1[j]
      BY <1>0, <1>3, EditingBounds DEF Editing!fetchData, Editing!Versions
  <2> QED
      BY <1>0, <1>3, <2>1 DEF Editing!fetchData, Editing!ServerFits, Editing!Versions,
         Editing!Edits, Editing!Server
<1>4. ASSUME NEW c \in v20, Editing!_exec_edit_material(c) PROVE Editing!ServerFits'
  <2>1. Editing!Early(c)
      BY DEF Editing!EditingFits, Editing!SentFits, Editing!SaveFits
  <2>2. ASSUME NEW i \in Contents
        PROVE  v1'[i] \in Editing!Versions /\ v1[i] <= v1'[i]
    <3> DEFINE E == {e \in Editing!WithFile(c) : e.item = i}
    <3>1. v1'[i] = v1[i] + Cardinality(E) /\ v1[i] \in Editing!Versions
        BY EditingCounts, EditingFinite, <1>0, <1>4 DEF Editing!_exec_edit_material
    <3>2. CASE E = {}
      <4>1. Cardinality(E) = 0
          BY <3>2, FS_EmptySet
      <4> QED
          BY <3>1, <4>1, EditingBounds DEF Editing!Versions
    <3>3. ASSUME NEW e \in E PROVE v1'[i] \in Editing!Versions /\ v1[i] <= v1'[i]
      <4>1. E = {e} /\ e.lock = v1[i]
          BY <1>4, <3>3 DEF Editing!_exec_edit_material
      <4>2. e.lock < MaxEdits
          BY <2>1 DEF Editing!Early, Editing!WithFile
      <4>3. Cardinality(E) = 1
          BY <4>1, FS_Singleton
      <4> HIDE DEF E
      <4> QED
          BY <3>1, <4>1, <4>2, <4>3, EditingBounds DEF Editing!Versions
    <3> QED
        BY <3>2, <3>3
  <2>3. v1' \in [Contents -> Editing!Versions]
      BY <1>4, <2>2 DEF Editing!_exec_edit_material
  <2>4. \A i \in Contents : v2'[i] <= v1'[i]
    <3> SUFFICES ASSUME NEW i \in Contents PROVE v2[i] <= v1'[i]
        BY <1>4 DEF Editing!_exec_edit_material, Editing!OnServer
    <3> QED
        BY <1>0, <2>2, EditingBounds DEF Editing!Versions
  <2>5. \A h \in v21' : h.edit \in Editing!Edits /\ h.replaces \in Editing!Versions
    <3>1. \A e \in Editing!WithFile(c) : e \in Editing!Edits /\ e.item \in Contents
        BY <2>1 DEF Editing!Early, Editing!WithFile, Editing!Edits
    <3> QED
        BY <1>0, <1>4, <3>1 DEF Editing!_exec_edit_material
  <2> QED
      BY <1>0, <1>4, <2>3, <2>4, <2>5 DEF Editing!_exec_edit_material, Editing!OnServer,
         Editing!ServerFits, Editing!Versions, Editing!Edits
<1>5. ASSUME NEW i \in Contents, NEW there \in {"directory", "material"},
             Editing!OpenFromRow(i) \/ Editing!GoAcross(i) \/ Editing!GoTo(i, there)
      PROVE  Editing!ServerFits'
    BY <1>1, <1>5 DEF Editing!OpenFromRow, Editing!GoAcross, Editing!GoTo
<1>6. ASSUME NEW to \in {"content", "metadata"}, Editing!SwitchTab(to) PROVE Editing!ServerFits'
    BY <1>1, <1>6 DEF Editing!SwitchTab, Editing!InForm
<1>7. CASE Editing!OpenFromActions \/ Editing!Close \/ Editing!TryAgain \/ Editing!Type
      \/ Editing!Retitle \/ Editing!handleFile \/ Editing!reset
           \/ Editing!handleDraft \/ Editing!handleDirectSubmit \/ Editing!SubmitDraft
              \/ UNCHANGED Editing!editVars
    BY <1>1, <1>7 DEF Editing!OpenFromActions, Editing!Close, Editing!TryAgain, Editing!Type,
       Editing!Retitle, Editing!handleFile, Editing!reset, Editing!handleDraft,
       Editing!handleDirectSubmit, Editing!SubmitDraft, Editing!OnServer, Editing!InForm,
       Editing!editVars
<1>8. ASSUME NEW l \in v11, Editing!TextArrives(l)
             \/ Editing!TextFails(l) PROVE Editing!ServerFits'
    BY <1>1, <1>8 DEF Editing!TextArrives, Editing!TextFails
<1>9. ASSUME NEW p \in v15, Editing!FileReady(p)
             \/ Editing!FileFails(p) PROVE Editing!ServerFits'
    BY <1>1, <1>9 DEF Editing!FileReady, Editing!FileFails
<1>10. ASSUME NEW s \in v18, Editing!TextStored(s) \/ Editing!Submitted(s)
              \/ Editing!SaveFails(s) PROVE Editing!ServerFits'
    BY <1>1, <1>10 DEF Editing!TextStored, Editing!Submitted, Editing!SaveFails
<1>11. ASSUME NEW c \in v20, Editing!Rejected(c) PROVE Editing!ServerFits'
    BY <1>1, <1>11 DEF Editing!Rejected, Editing!OnServer
<1> QED
    BY <1>2, <1>3, <1>4, <1>5, <1>6, <1>7, <1>8, <1>9, <1>10, <1>11 DEF Editing!Next

\* Every step keeps the types.
LEMMA EditingTypesKept ==
    Editing!EditingFits /\ [Editing!Next]_(Editing!editVars) => Editing!EditingFits'
    BY DialogStep, SentStep, ServerStep DEF Editing!EditingFits

-----------------------------------------------------------------------------
(* PendingContributions: v1 status, v2 author, v3 user, v4 ownerId, v5     *)
(* ghosts, v6 form, v7 submitting, v8 posts, v9 events, v10 connecting,    *)
(* v11 checks, v12 unanswered, v13 within.                                 *)

\* The first states have their types.
LEMMA PendingTypesStart == Pending!Init => Pending!TypeOK
<1> SUFFICES ASSUME Pending!Init PROVE Pending!TypeOK
    OBVIOUS
<1> USE DEF Pending!TypeOK, Pending!Nobody, Pending!Posts, Pending!Checks
<1> QED
    BY PendingBounds DEF Pending!Init

\* Every step keeps the types.
LEMMA PendingTypesKept ==
    Pending!TypeOK /\ [Pending!Next]_(Pending!pendingVars) /\ Pending!PendingInv'
    => Pending!TypeOK'
<1> SUFFICES ASSUME Pending!TypeOK, [Pending!Next]_(Pending!pendingVars), Pending!PendingInv'
             PROVE  Pending!TypeOK'
    OBVIOUS
<1>0. /\ (v1 \in [Submissions -> {"none", "open", "closed"}])'
      /\ (v2 \in [Submissions -> Members \cup {Pending!Nobody}])'
      /\ (v3 \in Members \cup {Pending!Nobody})'
      /\ (v5 \subseteq Submissions)'
      /\ (v6 \in FormKinds \cup {"none"})'
      /\ (v8 \subseteq Pending!Posts)'
      /\ (v11 \subseteq Pending!Checks)'
    BY DEF
       Pending!PendingInv, Pending!NoStaleGhost, Pending!StoreIsItsOwners,
       Pending!PostsAreTheirAuthors, Pending!PendingFits,
       Pending!Nobody, Pending!Posts, Pending!Checks
<1> USE DEF Pending!TypeOK, Pending!Nobody, Pending!Posts, Pending!Checks
<1>1. ASSUME NEW m \in Members, Pending!SessionStarts(m)
      PROVE  Pending!TypeOK'
    BY <1>1, PendingBounds, <1>0 DEF Pending!SessionStarts, Pending!Server, Pending!Dialogs,
       Pending!activateOwner, Pending!reconcile,
       Pending!Newly, Pending!First, Pending!Asked
<1>2. CASE Pending!SessionEnds
    BY <1>2, PendingBounds, <1>0 DEF Pending!SessionEnds, Pending!Server, Pending!Dialogs,
       Pending!activateOwner
<1>3. CASE Pending!Reload
    BY <1>3, PendingBounds, <1>0 DEF Pending!Reload, Pending!Server, Pending!Store
<1>4. CASE Pending!Resync
    BY <1>4, PendingBounds, <1>0 DEF Pending!Resync, Pending!Server, Pending!Store,
       Pending!Dialogs, Pending!reconcile, Pending!Newly, Pending!First, Pending!Asked
<1>5. CASE Pending!onVisible
    BY <1>5, PendingBounds, <1>0 DEF Pending!onVisible, Pending!Server, Pending!Store,
       Pending!Dialogs, Pending!Stream, Pending!reconcile, Pending!Newly,
       Pending!First, Pending!Asked
<1>6. CASE Pending!StreamBreaks
    BY <1>6, PendingBounds, <1>0 DEF Pending!StreamBreaks, Pending!Server, Pending!Store,
       Pending!Dialogs
<1>7. ASSUME NEW c \in Submissions, Pending!resolvePendingContributionEvent(c)
      PROVE  Pending!TypeOK'
    BY <1>7, PendingBounds, <1>0 DEF Pending!resolvePendingContributionEvent, Pending!Server,
       Pending!Dialogs, Pending!reconcile,
       Pending!Newly, Pending!First, Pending!Asked
<1>8. ASSUME NEW c \in Submissions, Pending!Closed(c)
      PROVE  Pending!TypeOK'
    BY <1>8, PendingBounds, <1>0 DEF Pending!Closed, Pending!Store, Pending!Dialogs
<1>9. ASSUME NEW c \in Submissions, Pending!enterGhostDir(c)
      PROVE  Pending!TypeOK'
    BY <1>9, PendingBounds, <1>0 DEF Pending!enterGhostDir, Pending!Server, Pending!Store,
       Pending!Stream
<1>10. ASSUME NEW k \in v11, Pending!CheckIsRead(k)
      PROVE  Pending!TypeOK'
    BY <1>10, PendingBounds, <1>0 DEF Pending!CheckIsRead, Pending!Server, Pending!Store,
       Pending!Dialogs, Pending!Stream
<1>11. ASSUME NEW k \in v11, Pending!reconcilePendingContribution(k)
      PROVE  Pending!TypeOK'
    BY <1>11, PendingBounds, <1>0 DEF Pending!reconcilePendingContribution, Pending!Server,
       Pending!Dialogs, Pending!Stream
<1>12. ASSUME NEW k \in v11, Pending!CheckFails(k)
      PROVE  Pending!TypeOK'
    BY <1>12, PendingBounds, <1>0 DEF Pending!CheckFails, Pending!Server, Pending!Store,
       Pending!Dialogs, Pending!Stream
<1>13. ASSUME NEW f \in FormKinds, Pending!OpenForm(f)
      PROVE  Pending!TypeOK'
    BY <1>13, PendingBounds, <1>0 DEF Pending!OpenForm, Pending!Server, Pending!Store,
       Pending!Stream
<1>14. CASE Pending!CloseForm
    BY <1>14, PendingBounds, <1>0 DEF Pending!CloseForm, Pending!Server, Pending!Store,
       Pending!Stream
<1>15. CASE Pending!submitDirectOperations
    BY <1>15, PendingBounds, <1>0 DEF Pending!submitDirectOperations, Pending!Server,
       Pending!Store, Pending!Stream
<1>16. CASE Pending!goBack
    BY <1>16, PendingBounds, <1>0 DEF Pending!goBack, Pending!Server, Pending!Store,
       Pending!Stream
<1>17. ASSUME NEW p \in v8, NEW c \in Submissions, Pending!Created(p, c)
      PROVE  Pending!TypeOK'
    BY <1>17, PendingBounds, <1>0 DEF Pending!Created, Pending!Store, Pending!Dialogs,
       Pending!Stream
<1>18. ASSUME NEW p \in v8, Pending!reconcileSubmittedOperations(p)
      PROVE  Pending!TypeOK'
  <2>1. (v1 \in [Submissions -> {"none", "open", "closed"}])'
      BY <1>18, PendingBounds, <1>0 DEF Pending!reconcileSubmittedOperations, Pending!Server,
         Pending!Stream, Pending!reconcile,
         Pending!Finished, Pending!Newly, Pending!First, Pending!Asked
  <2>2. (v2 \in [Submissions -> Members \cup {Pending!Nobody}])'
      BY <1>18, PendingBounds, <1>0 DEF Pending!reconcileSubmittedOperations, Pending!Server,
         Pending!Stream, Pending!reconcile,
         Pending!Finished, Pending!Newly, Pending!First, Pending!Asked
  <2>3. (v3 \in Members \cup {Pending!Nobody})'
      BY <1>18, PendingBounds, <1>0 DEF Pending!reconcileSubmittedOperations, Pending!Server,
         Pending!Stream, Pending!reconcile,
         Pending!Finished, Pending!Newly, Pending!First, Pending!Asked
  <2>4. (v4 \in Members \cup {Pending!Nobody})'
      BY <1>18, PendingBounds, <1>0 DEF Pending!reconcileSubmittedOperations, Pending!Server,
         Pending!Stream, Pending!reconcile,
         Pending!Finished, Pending!Newly, Pending!First, Pending!Asked
  <2>5. (v5 \subseteq Submissions)'
      BY <1>18, PendingBounds, <1>0 DEF Pending!reconcileSubmittedOperations, Pending!Server,
         Pending!Stream, Pending!reconcile,
         Pending!Finished, Pending!Newly, Pending!First, Pending!Asked
  <2>6. (v6 \in FormKinds \cup {"none"})'
      BY <1>18, PendingBounds, <1>0 DEF Pending!reconcileSubmittedOperations, Pending!Server,
         Pending!Stream, Pending!reconcile,
         Pending!Finished, Pending!Newly, Pending!First, Pending!Asked
  <2>7. (v7 \subseteq FormKinds)'
      BY <1>18, PendingBounds, <1>0 DEF Pending!reconcileSubmittedOperations, Pending!Server,
         Pending!Stream, Pending!reconcile,
         Pending!Finished, Pending!Newly, Pending!First, Pending!Asked
  <2>8. (v8 \subseteq Pending!Posts)'
      BY <1>18, PendingBounds, <1>0 DEF Pending!reconcileSubmittedOperations, Pending!Server,
         Pending!Stream, Pending!reconcile,
         Pending!Finished, Pending!Newly, Pending!First, Pending!Asked
  <2>9. (v9 \subseteq Submissions)'
      BY <1>18, PendingBounds, <1>0 DEF Pending!reconcileSubmittedOperations, Pending!Server,
         Pending!Stream, Pending!reconcile,
         Pending!Finished, Pending!Newly, Pending!First, Pending!Asked
  <2>10. (v10 \in BOOLEAN)'
      BY <1>18, PendingBounds, <1>0 DEF Pending!reconcileSubmittedOperations, Pending!Server,
         Pending!Stream, Pending!reconcile,
         Pending!Finished, Pending!Newly, Pending!First, Pending!Asked
  <2>11. (v11 \subseteq Pending!Checks)'
      BY <1>18, PendingBounds, <1>0 DEF Pending!reconcileSubmittedOperations, Pending!Server,
         Pending!Stream, Pending!reconcile,
         Pending!Finished, Pending!Newly, Pending!First, Pending!Asked
  <2>12. (v12 \subseteq Submissions)'
      BY <1>18, PendingBounds, <1>0 DEF Pending!reconcileSubmittedOperations, Pending!Server,
         Pending!Stream, Pending!reconcile,
         Pending!Finished, Pending!Newly, Pending!First, Pending!Asked
  <2>13. (v13 \in Submissions \cup {"none"})'
      BY <1>18, PendingBounds, <1>0 DEF Pending!reconcileSubmittedOperations, Pending!Server,
         Pending!Stream, Pending!reconcile,
         Pending!Finished, Pending!Newly, Pending!First, Pending!Asked
  <2> QED
      BY <2>1, <2>2, <2>3, <2>4, <2>5, <2>6, <2>7, <2>8, <2>9, <2>10, <2>11,
       <2>12, <2>13
<1>19. ASSUME NEW p \in v8, Pending!SubmissionFails(p)
      PROVE  Pending!TypeOK'
    BY <1>19, PendingBounds, <1>0 DEF Pending!SubmissionFails, Pending!Server, Pending!Store,
       Pending!Stream
<1>20. CASE UNCHANGED Pending!pendingVars
    BY <1>20, PendingBounds, <1>0 DEF Pending!pendingVars
<1> QED
    BY <1>1, <1>2, <1>3, <1>4, <1>5, <1>6, <1>7, <1>8, <1>9, <1>10, <1>11, <1>12,
       <1>13, <1>14, <1>15, <1>16, <1>17, <1>18, <1>19, <1>20 DEF Pending!Next
=============================================================================
