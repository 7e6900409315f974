----------------------------- MODULE QuizPages -----------------------------
(***************************************************************************)
(* A quiz in its editor, with the preview the editor shows of it, and a    *)
(* quiz on the page of its material.  What is typed is left out: a chapter *)
(* has so many questions, and refers to so many embedded images.  An image *)
(* is inserted when it has been re-encoded, by a closure that holds the    *)
(* place and the chapter of the moment it was picked.                      *)
(***************************************************************************)
EXTENDS Naturals, Sequences, FiniteSets, SequencesExt

CONSTANTS Chapters,         \* chapters; at most MAX_CHAPTERS_PER_QCM at a time
          Images,
          MaxImages,        \* MAX_IMAGES_PER_QCM
          MaxQuestions,     \* max_questions_per_qcm
          MaxFiles          \* bound: files a material has one after another

VARIABLES where,            \* "editor" or "page"; "left", "broken"
          quiz, images,     \* the chapters, the embedded images
          insert,           \* an insertion under way, or NoInsert
          parse, asks,      \* an import of the server's; the dialog that asks about it
          saving,           \* isSavingDraft, isSubmitting
          open,             \* the preview, or the viewer of the page
          shown, started,   \* the viewer's own quiz; hasStartedRef
          answered,         \* chapters with an answer chosen or shown
          finished,         \* the results are shown
          file, loads,      \* the file of the page; requests for files under way
          loading, failed, held \* the viewer's state, the file it shows

quizVars == <<where, quiz, images, insert, parse, asks, saving, open, shown, started, answered, finished, file, loads, loading, failed, held>>
Imports == <<parse, asks>>
Viewer == <<open, shown, started, answered, finished>>
Page == <<file, loads, loading, failed, held>>

Chapter == [id : Chapters, questions : 0..MaxQuestions, refs : SUBSET Images]
Quizzes == UNION {[1..n -> Chapter] : n \in 0..Cardinality(Chapters)}
Empty(c) == [id |-> c, questions |-> 0, refs |-> {}]
First == CHOOSE c \in Chapters : TRUE
NoInsert == [at |-> 0, base |-> Empty(First), left |-> {}]
Ids(q) == {q[i].id : i \in DOMAIN q}
Total(q) == SumFunction([i \in DOMAIN q |-> q[i].questions])   \* countQCMQuestions

TypeOK ==
    /\ where \in {"editor", "page", "left", "broken"}
    /\ quiz \in Quizzes /\ images \subseteq Images
    /\ insert \in [at : 0..Cardinality(Chapters), base : Chapter, left : SUBSET Images]
    /\ parse \in {"idle", "over nothing", "over content"} /\ asks \in BOOLEAN
    /\ saving \in BOOLEAN
    /\ open \in BOOLEAN /\ shown \in Quizzes /\ started \in BOOLEAN
    /\ answered \subseteq Chapters /\ finished \in BOOLEAN
    /\ file \in 1..MaxFiles /\ loads \subseteq 1..MaxFiles
    /\ loading \in BOOLEAN /\ failed \in BOOLEAN /\ held \in 0..MaxFiles

\* A new quiz has an empty chapter; a page begins to load its file.
Init ==
    /\ where \in {"editor", "page"}
    /\ quiz = <<Empty(First)>> /\ images = {} /\ insert = NoInsert
    /\ parse = "idle" /\ asks = FALSE /\ saving = FALSE
    /\ open = FALSE /\ shown = <<>> /\ started = FALSE /\ answered = {} /\ finished = FALSE
    /\ file = 1 /\ held = 0 /\ failed = FALSE
    /\ loading = (where = "page") /\ loads = IF where = "page" THEN {1} ELSE {}

Editing == where = "editor"
Reachable == Editing /\ ~open /\ ~asks          \* no dialog covers the editor

-----------------------------------------------------------------------------
(* The viewer in the preview of the editor: the quiz it is passed.          *)
Take(q) ==
    /\ IF started
       THEN UNCHANGED <<shown, answered, finished>>
       ELSE shown' = q /\ answered' = {} /\ finished' = FALSE
    /\ UNCHANGED started

Become(q) ==
    /\ quiz' = q
    /\ IF open THEN Take(q) /\ UNCHANGED open ELSE UNCHANGED Viewer

OpenPreview ==
    /\ Reachable /\ Total(quiz) > 0
    /\ open' = TRUE /\ Take(quiz)
    /\ UNCHANGED <<where, quiz, images, insert, Imports, saving, Page>>

ClosePreview ==
    /\ Editing /\ open
    /\ open' = FALSE /\ shown' = <<>> /\ started' = FALSE /\ answered' = {} /\ finished' = FALSE
    /\ UNCHANGED <<where, quiz, images, insert, Imports, saving, Page>>

(* Chapters and questions.                                                  *)
Edit(q) ==
    /\ Reachable /\ Become(q)
    /\ UNCHANGED <<where, images, insert, Imports, saving, Page>>

AddChapter ==
    \E c \in Chapters \ Ids(quiz) :
        /\ Len(quiz) < Cardinality(Chapters)
        /\ Edit(Append(quiz, Empty(c)))

DeleteChapter(i) == Edit(RemoveAt(quiz, i))

MoveChapter(i, j) ==
    /\ j \in {i - 1, i + 1} \cap DOMAIN quiz
    /\ Edit([quiz EXCEPT ![i] = quiz[j], ![j] = quiz[i]])

AddQuestion(i) ==
    /\ Total(quiz) < MaxQuestions
    /\ Edit([quiz EXCEPT ![i].questions = @ + 1])

DeleteQuestion(i) ==
    /\ quiz[i].questions > 0
    /\ Edit([quiz EXCEPT ![i].questions = @ - 1, ![i].refs = {}])

\* A text that referred to an image is typed over.
Unrefer(i) == quiz[i].refs # {} /\ Edit([quiz EXCEPT ![i].refs = {}])

\* The editor is gone, and what it holds with it.
Cleared ==
    /\ quiz' = <<>> /\ images' = {} /\ insert' = NoInsert
    /\ parse' = "idle" /\ asks' = FALSE /\ saving' = FALSE
    /\ open' = FALSE /\ shown' = <<>> /\ started' = FALSE /\ answered' = {} /\ finished' = FALSE

(* Images.                                                                  *)
PickImages(i, files) ==
    /\ Reachable /\ insert = NoInsert
    /\ files # {} /\ files \cap images = {} /\ quiz[i].questions > 0
    /\ insert' = [at |-> i, base |-> quiz[i], left |-> files]
    /\ UNCHANGED <<where, quiz, images, Imports, saving, Viewer, Page>>

Rest(g) == IF insert.left = {g} THEN NoInsert ELSE [insert EXCEPT !.left = @ \ {g}]

Reencoded(g) ==
    /\ Editing /\ g \in insert.left
    /\ Cardinality(images) < MaxImages
    /\ insert' = Rest(g) /\ images' = images \cup {g}
    /\ insert.at <= Len(quiz) + 1
    /\ LET put == [insert.base EXCEPT !.refs = @ \cup {g}]
       IN  Become(IF insert.at \in DOMAIN quiz THEN [quiz EXCEPT ![insert.at] = put] ELSE Append(quiz, put))
    /\ UNCHANGED <<where, Imports, saving, Page>>

TooMany(g) ==
    /\ Editing /\ g \in insert.left
    /\ Cardinality(images) >= MaxImages /\ insert' = NoInsert
    /\ UNCHANGED <<where, quiz, images, Imports, saving, Viewer, Page>>

\* The place is past the end by two: a hole in the list, which nothing can show.
Breaks(g) ==
    /\ Editing /\ g \in insert.left
    /\ Cardinality(images) < MaxImages /\ insert.at > Len(quiz) + 1
    /\ where' = "broken" /\ Cleared
    /\ UNCHANGED Page

NotEncoded(g) ==
    /\ Editing /\ g \in insert.left /\ insert' = Rest(g)
    /\ UNCHANGED <<where, quiz, images, Imports, saving, Viewer, Page>>

(* The import of a Moodle quiz.                                             *)
Imported == <<[Empty(First) EXCEPT !.questions = 1]>>

AskImport ==
    /\ Reachable /\ parse = "idle"
    /\ parse' = IF Total(quiz) > 0 THEN "over content" ELSE "over nothing"
    /\ UNCHANGED <<where, quiz, images, insert, asks, saving, Viewer, Page>>

\* Whether there is content to lose was read when it was asked for.
Parsed ==
    /\ Editing /\ parse # "idle" /\ parse' = "idle"
    /\ IF parse = "over content"
       THEN asks' = TRUE /\ UNCHANGED <<quiz, images, Viewer>>
       ELSE Become(Imported) /\ images' = {} /\ UNCHANGED asks
    /\ UNCHANGED <<where, insert, saving, Page>>

NotParsed ==
    /\ Editing /\ parse # "idle" /\ parse' = "idle"
    /\ UNCHANGED <<where, quiz, images, insert, asks, saving, Viewer, Page>>

ConfirmImport(yes) ==
    /\ Editing /\ asks /\ asks' = FALSE
    /\ IF yes THEN Become(Imported) /\ images' = {} ELSE UNCHANGED <<quiz, images, Viewer>>
    /\ UNCHANGED <<where, insert, parse, saving, Page>>

(* The quiz is staged, and then proposed or kept in the draft.              *)
Save ==
    /\ Reachable /\ ~saving /\ saving' = TRUE
    /\ UNCHANGED <<where, quiz, images, insert, Imports, Viewer, Page>>

Submit ==
    /\ Reachable /\ ~saving /\ Total(quiz) > 0 /\ saving' = TRUE
    /\ UNCHANGED <<where, quiz, images, insert, Imports, Viewer, Page>>

Saved ==
    /\ Editing /\ saving
    /\ where' = "left" /\ Cleared
    /\ UNCHANGED Page

NotSaved ==
    /\ Editing /\ saving /\ saving' = FALSE
    /\ UNCHANGED <<where, quiz, images, insert, Imports, Viewer, Page>>

-----------------------------------------------------------------------------
(* Answering, in the preview and on the page.                               *)
Questioned == IF Editing THEN {c \in Ids(shown) : \E i \in DOMAIN shown : shown[i].id = c /\ shown[i].questions > 0}
                         ELSE Chapters
Answerable == IF Editing THEN open /\ shown # <<>> ELSE where = "page" /\ ~loading /\ ~failed /\ held > 0

\* mutant: an answer is shown and the ref is forgotten
AnswerUnmarked(c) ==
    /\ Answerable /\ ~finished /\ c \in Questioned \ answered
    /\ answered' = answered \cup {c}
    /\ UNCHANGED <<where, quiz, images, insert, Imports, saving, open, shown, started, finished, Page>>

Answer(c) ==
    /\ Answerable /\ ~finished /\ c \in Questioned \ answered
    /\ started' = TRUE /\ answered' = answered \cup {c}
    /\ UNCHANGED <<where, quiz, images, insert, Imports, saving, open, shown, finished, Page>>

\* The last choice of a chapter is taken back.
Unchoose(c) ==
    /\ Answerable /\ ~finished /\ c \in answered
    /\ started' = TRUE /\ answered' = answered \ {c}
    /\ UNCHANGED <<where, quiz, images, insert, Imports, saving, open, shown, finished, Page>>

Finish ==
    /\ Answerable /\ ~finished /\ finished' = TRUE
    /\ UNCHANGED <<where, quiz, images, insert, Imports, saving, open, shown, started, answered, Page>>

\* The same quiz again: what it was passed meanwhile is not looked at.
Retry ==
    /\ Answerable
    /\ started' = FALSE /\ answered' = {} /\ finished' = FALSE
    /\ UNCHANGED <<where, quiz, images, insert, Imports, saving, open, shown, Page>>

(* The page: another file is opened in the viewer that is there.            *)
OpenFile ==
    /\ where = "page" /\ file < MaxFiles
    /\ file' = file + 1 /\ loads' = loads \cup {file + 1} /\ loading' = TRUE /\ failed' = FALSE
    /\ UNCHANGED <<where, quiz, images, insert, Imports, saving, Viewer, held>>

\* mutant: an answer is taken whatever file it is of
LoadedAnyway(n, ok) ==
    /\ n \in loads /\ loads' = loads \ {n}
    /\ loading' = FALSE /\ failed' = ~ok
    /\ IF ok THEN held' = n /\ answered' = {} /\ finished' = FALSE ELSE UNCHANGED <<held, answered, finished>>
    /\ UNCHANGED <<where, quiz, images, insert, Imports, saving, open, shown, started, file>>

Loaded(n, ok) ==
    /\ n \in loads /\ loads' = loads \ {n}
    /\ IF n = file                             \* not cancelled
       THEN /\ loading' = FALSE /\ failed' = ~ok
            /\ IF ok THEN held' = n /\ answered' = {} /\ finished' = FALSE
                     ELSE UNCHANGED <<held, answered, finished>>
       ELSE UNCHANGED <<loading, failed, held, answered, finished>>
    /\ UNCHANGED <<where, quiz, images, insert, Imports, saving, open, shown, started, file>>

Next ==
    \/ OpenPreview \/ ClosePreview \/ AddChapter
    \/ \E i \in DOMAIN quiz :
          \/ DeleteChapter(i) \/ AddQuestion(i) \/ DeleteQuestion(i) \/ Unrefer(i)
          \/ \E j \in DOMAIN quiz : MoveChapter(i, j)
          \/ \E files \in SUBSET Images : PickImages(i, files)
    \/ \E g \in Images : Reencoded(g) \/ TooMany(g) \/ Breaks(g) \/ NotEncoded(g)
    \/ AskImport \/ Parsed \/ NotParsed
    \/ \E yes \in BOOLEAN : ConfirmImport(yes)
    \/ Save \/ Submit \/ Saved \/ NotSaved
    \/ \E c \in Chapters : Answer(c) \/ Unchoose(c)
    \/ Finish \/ Retry \/ OpenFile
    \/ \E n \in 1..MaxFiles, ok \in BOOLEAN : Loaded(n, ok)

Spec == Init /\ [][Next]_quizVars

-----------------------------------------------------------------------------
(* Once there is an answer, no arrival takes it away or replaces what is     *)
(* answered: in the preview no image and no import (comment at               *)
(* qcm-viewer.tsx:552), on the page no late answer about another file.       *)
(* Only starting over, leaving, or opening another file does.                *)
Arrives ==
    \/ Editing /\ open' /\ <<quiz, images, insert, Imports>>' # <<quiz, images, insert, Imports>>
    \/ where = "page" /\ file' = file /\ loads' # loads
AnswersStay ==
    Answerable /\ answered # {} /\ Arrives => UNCHANGED <<shown, held, answered, finished>>
AnswersAreKept == [][AnswersStay]_quizVars

(* On the page of a quiz, what is shown once the spinner is gone is the file *)
(* the page is about.                                                        *)
QuizIsItsFile == where = "page" /\ ~loading /\ ~failed => held = file

-----------------------------------------------------------------------------
(* Inductive strengthening of AnswersAreKept and QuizIsItsFile: an editor    *)
(* loads no file, the ref is set whenever the preview has an answer, and the *)
(* spinner turns while the file of the page is awaited.                      *)
QuizInv ==
    /\ file \in Nat /\ (answered # {} => started)
    /\ Editing => loads = {}
    /\ where = "page" /\ file \in loads => loading
    /\ QuizIsItsFile

-----------------------------------------------------------------------------
\* Inductive strengthening of TypeOK: images are inserted at a place of the quiz.
PlaceFits == insert.left # {} => insert.at > 0
=============================================================================
