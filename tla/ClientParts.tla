----------------------------- MODULE ClientParts ----------------------------
(***************************************************************************)
(* The constants and the variables of the run of the web client and the    *)
(* delivery worker. "part" names the one whose behaviour it is, and its    *)
(* variables are the first of v1, v2, ... in the order of its module.      *)
(***************************************************************************)
EXTENDS Naturals, FiniteSets

CONSTANTS Tabs, MaxLogins, MaxRenewals, MaxMessages, MaxCalls, Failures,
          MaxHops, Topics, Plain, MaxTopics, MaxOwn, MaxMail, Parts,
          Concurrency, MaxRetries, MaxBreaks, Files, MaxConcurrent, MaxFiles,
          MaxQueue, MaxOps, MaxTemp, MaxDraftFiles, MaxRequests, MaxPulls,
          MaxQueries, MaxSheet, Clients, Keys, Materials, Buttons,
          MaxPublished, MaxDrops, MaxActive, Items, MaxPresses,
          WithAttachments, MaxChores, MaxParts, MaxVisits, Rows, MaxPages,
          MaxLoads, MaxActs, Objects, Featured, MaxSaves, MaxKept, MaxFetches, Chapters,
          Images, MaxImages, MaxQuestions, Subjects, MaxRoots, PageLimit,
          MaxWritten, MaxErased, MaxWire, MaxListed, PageSize, Shelves,
          SavedFirst, Narrow, MaxCodes, MaxResets, MaxSent, Panels, Boards,
          MaxEdits, MaxProfileFetches, Contents, Texts, MaxReads, Submissions,
          Members, FormKinds, MaxAsks, Subfolders, Leaves, Drafted, MaxStaged,
          MaxArchives, MaxDepth, MaxHeld, MaxSends

\* A refresh of the token fails in one of the ways the session tells apart.
ASSUME FailuresAreKnown == Failures \subseteq {"unavailable", "throttled"}

\* A visitor may be sent on at least as often as the guards can do it.
ASSUME HopsSuffice == MaxHops \in Nat /\ MaxHops >= 3

\* The bounds are numbers; a search has a first sheet, a thread a first note.
ASSUME BoundsAreNumbers ==
    /\ MaxCodes \in Nat /\ MaxResets \in Nat /\ MaxAsks \in Nat /\ MaxTopics \in Nat
    /\ MaxOps \in Nat /\ MaxTemp \in Nat
    /\ MaxSheet \in Nat \ {0} /\ MaxRoots \in Nat \ {0}

\* A queue has finitely many files, the server finitely many channels.
ASSUME FewAtATime == IsFiniteSet(Files) /\ IsFiniteSet(Topics)

\* "none" stands for no tab, no item and no material.
ASSUME NoneIsNone == "none" \notin Tabs /\ "none" \notin Items /\ "none" \notin Materials

\* The types of a part hold where its own bounds are numbers, and leave room
\* for the first of what they bound.
ASSUME SessionBounds ==
    /\ MaxCalls \in Nat /\ MaxLogins \in Nat /\ MaxMessages \in Nat /\ MaxRenewals \in Nat
    /\ MaxLogins > 0
ASSUME EventsBounds ==
    MaxMail \in Nat /\ MaxOwn \in Nat /\ MaxTopics \in Nat /\ IsFiniteSet(Topics)
ASSUME TransferBounds ==
    /\ Concurrency \in Nat /\ MaxBreaks \in Nat /\ MaxRetries \in Nat
    /\ MaxRetries > 0 /\ MaxBreaks > 0 /\ "all" \notin Parts
ASSUME QueueBounds == MaxConcurrent \in Nat /\ MaxFiles \in Nat /\ MaxQueue \in Nat
ASSUME TreeBounds == MaxRequests \in Nat
ASSUME PullsBounds == MaxQueries \in Nat
ASSUME SearchBounds == MaxSheet \in Nat \ {0}
ASSUME ThumbsBounds ==
    MaxActive \in Nat /\ MaxDrops \in Nat /\ MaxPublished \in Nat /\ IsFiniteSet(Buttons)
ASSUME ReactionsBounds == MaxPresses \in Nat
ASSUME PanelBounds == MaxChores \in Nat
ASSUME MenuBounds == MaxParts \in Nat /\ MaxVisits \in Nat \ {0}
ASSUME ListsBounds == MaxPages \in Nat \ {0}
ASSUME SystemBounds == MaxFetches \in Nat /\ MaxKept \in Nat /\ MaxSaves \in Nat
ASSUME QuizBounds ==
    /\ MaxFiles \in Nat /\ MaxImages \in Nat /\ MaxQuestions \in Nat
    /\ MaxFiles > 0 /\ MaxQuestions > 0 /\ IsFiniteSet(Chapters) /\ Chapters # {}
ASSUME DiscussBounds ==
    /\ MaxErased \in Nat /\ MaxListed \in Nat /\ MaxRoots \in Nat /\ MaxWire \in Nat
    /\ MaxWritten \in Nat /\ PageLimit \in Nat /\ PageLimit > 0 /\ MaxRoots > 0
    /\ Subjects # {}
ASSUME NoticesBounds ==
    MaxFetches \in Nat /\ PageSize \in Nat /\ IsFiniteSet(Items) /\ Items # {}
ASSUME SavedBounds ==
    MaxActs \in Nat /\ MaxLoads \in Nat /\ SavedFirst \subseteq Items /\ Items # {}
ASSUME AccountBounds == MaxEdits \in Nat /\ "materials" \in Panels
ASSUME EditingBounds ==
    MaxEdits \in Nat \ {0} /\ MaxReads \in Nat /\ IsFiniteSet(Contents) /\ Contents # {}
ASSUME PendingBounds == MaxAsks \in Nat
ASSUME ListingBounds ==
    /\ MaxStaged \in Nat /\ MaxArchives \in Nat /\ MaxDepth \in Nat
    /\ IsFiniteSet(Subfolders) /\ IsFiniteSet(Leaves) /\ IsFiniteSet(Drafted)

VARIABLES part, v1, v2, v3, v4, v5, v6, v7, v8, v9, v10, v11, v12, v13, v14,
          v15, v16, v17, v18, v19, v20, v21, v22, v23, v24, v25
=============================================================================
