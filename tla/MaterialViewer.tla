--------------------------- MODULE MaterialViewer ---------------------------
(***************************************************************************)
(* The page of a material and its viewers.  Going from one material to     *)
(* another of the same type keeps the viewer: what was under way for the   *)
(* first may still end.  Most viewers load the file, with retries.  The    *)
(* PDF viewer starts an engine and hands it the file; the office viewer    *)
(* starts an editor; the audio player decodes the file for a waveform.     *)
(***************************************************************************)
EXTENDS Naturals, FiniteSets

CONSTANT Materials

VARIABLES viewer,    \* viewerType: "file" for those that only load the file
          material,  \* materialId
          file,      \* content or blobUrl, loading, error
          load,      \* the load under way: its attempt, 0 for none
          waits,     \* it waits before the next attempt
          engine,    \* modulesReady of the PDF viewer
          works,     \* documents being opened, editors being configured
          view,      \* status of the document or editor, and whose it is
          printable  \* registerViewerPrint: the material whose viewer prints

viewerVars == <<viewer, material, file, load, waits, engine, works, view, printable>>

Some == Materials \cup {"none"}
MaxAttempts == 3
File == [loading : BOOLEAN, error : BOOLEAN, of : Some]
Work == [of : Materials, live : BOOLEAN]
View == [status : {"loading", "starting", "ready", "error"}, of : Some]

TypeOK ==
    /\ viewer \in {"file", "pdf", "office", "audio"} /\ material \in Materials
    /\ file \in File /\ load \in 0..MaxAttempts /\ waits \in BOOLEAN
    /\ engine \in {"starting", "up", "down"} /\ works \subseteq Work /\ view \in View
    /\ printable \in Some

Fresh == [loading |-> TRUE, error |-> FALSE, of |-> "none"]
Loads == viewer # "office"

Init ==
    /\ viewer \in {"file", "pdf", "office", "audio"} /\ material \in Materials
    /\ file = [Fresh EXCEPT !.loading = Loads]
    /\ load = IF Loads THEN 1 ELSE 0
    /\ waits = FALSE
    /\ engine = "starting" /\ view = [status |-> "loading", of |-> "none"]
    /\ works = IF viewer = "office" THEN {[of |-> material, live |-> TRUE]} ELSE {}
    /\ printable = "none"

\* cancelled, left or timed out: what is under way ends without being wanted
Left(s) == {[w EXCEPT !.live = FALSE] : w \in s}

fileRest == <<viewer, material, engine, printable>>
loadRest == <<viewer, material, file, load, waits, printable>>

-----------------------------------------------------------------------------
(* The file.                                                               *)

\* The load before is aborted.  The audio player keeps the waveform it has.
StartLoad ==
    /\ load' = 1 /\ waits' = FALSE
    /\ file' = IF viewer = "audio" THEN [file EXCEPT !.loading = TRUE] ELSE Fresh

\* The document's effect: the URL, the engine or the retry has changed.
OpenDocument(url, state) ==
    IF url = "none" \/ state # "up"
    THEN works' = Left(works) /\ UNCHANGED view
    ELSE /\ works' = Left(works) \cup {[of |-> url, live |-> TRUE]}
         /\ view' = [view EXCEPT !.status = "loading"]

LoadEnds == load > 0 /\ ~waits
LoadEnded == load' = 0 /\ UNCHANGED waits

FileAnswered ==
    /\ LoadEnds /\ LoadEnded
    /\ file' = [loading |-> FALSE, error |-> FALSE, of |-> material]
    /\ IF viewer = "pdf" THEN OpenDocument(material, engine) ELSE UNCHANGED <<works, view>>
    /\ UNCHANGED fileRest

\* A truncated or empty file, a network or a server error is tried again.
Retries == viewer # "audio"
FileBreaks ==
    /\ LoadEnds /\ Retries /\ load < MaxAttempts
    /\ waits' = TRUE
    /\ UNCHANGED <<fileRest, file, load, works, view>>

BackoffEnds ==
    /\ waits /\ waits' = FALSE /\ load' = load + 1
    /\ UNCHANGED <<fileRest, file, works, view>>

\* A refusal, the last attempt, sixty seconds without an answer, or a
\* recording that cannot be decoded: the player plays it all the same.
FileFails ==
    /\ LoadEnds /\ LoadEnded
    /\ file' = [file EXCEPT !.loading = FALSE, !.error = viewer # "audio"]
    /\ UNCHANGED <<fileRest, works, view>>

-----------------------------------------------------------------------------
(* The PDF engine and its documents.                                       *)
Url == IF file.loading \/ file.error THEN "none" ELSE file.of

EngineUp ==
    /\ viewer = "pdf" /\ engine = "starting" /\ engine' = "up"
    /\ OpenDocument(Url, "up")
    /\ UNCHANGED loadRest

\* An import that fails; one that takes 45 seconds is still under way.
EngineFails ==
    /\ viewer = "pdf" /\ engine = "starting" /\ engine' \in {"starting", "down"}
    /\ view' = [view EXCEPT !.status = "error"]
    /\ UNCHANGED <<loadRest, works>>

StartEngine ==
    /\ engine' = "starting" /\ works' = Left(works)
    /\ view' = [status |-> "loading", of |-> "none"]

\* The configuration changes: links are allowed, or no more.
EngineRestarts ==
    /\ viewer = "pdf" /\ StartEngine
    /\ UNCHANGED loadRest

\* mutant: a document that is no longer wanted is shown all the same
ReceiveAnyway(w) == view' = [status |-> "ready", of |-> w.of]

Receive(w) == view' = IF w.live THEN [status |-> "ready", of |-> w.of] ELSE view

DocumentOpens(w) ==
    /\ viewer = "pdf" /\ w \in works /\ works' = works \ {w} /\ Receive(w)
    /\ UNCHANGED <<loadRest, engine>>

DocumentFails(w) ==
    /\ viewer = "pdf" /\ w \in works /\ works' = works \ {w}
    /\ view' = IF w.live THEN [view EXCEPT !.status = "error"] ELSE view
    /\ UNCHANGED <<loadRest, engine>>

\* Sixty seconds: what the engine still delivers is not wanted.
DocumentTimesOut(w) ==
    /\ viewer = "pdf" /\ w \in works /\ w.live
    /\ works' = (works \ {w}) \cup {[w EXCEPT !.live = FALSE]}
    /\ view' = [view EXCEPT !.status = "error"]
    /\ UNCHANGED <<loadRest, engine>>

-----------------------------------------------------------------------------
(* The office editor: its configuration and script, then the editor itself. *)
EditorStarts(w) ==
    /\ viewer = "office" /\ w \in works /\ works' = works \ {w}
    /\ view' = IF w.live THEN [status |-> "starting", of |-> w.of] ELSE view
    /\ UNCHANGED <<loadRest, engine>>

StartupFails(w) ==
    /\ viewer = "office" /\ w \in works /\ works' = works \ {w}
    /\ view' = IF w.live THEN [view EXCEPT !.status = "error"] ELSE view
    /\ UNCHANGED <<loadRest, engine>>

EditorReady ==
    /\ viewer = "office" /\ view.status = "starting"
    /\ view' = [view EXCEPT !.status = "ready"] /\ printable' = material
    /\ UNCHANGED <<viewer, material, file, load, waits, engine, works>>

\* An error of the editor, or thirty seconds before it is ready.
EditorFails ==
    /\ viewer = "office" /\ view.status \in {"starting", "ready"}
    /\ view' = [view EXCEPT !.status = "error"]
    /\ UNCHANGED <<loadRest, engine, works>>

StartEditor(m) ==
    /\ works' = Left(works) \cup {[of |-> m, live |-> TRUE]}
    /\ view' = [status |-> "loading", of |-> "none"]

-----------------------------------------------------------------------------
(* What the viewer shows.                                                  *)
Failed == (viewer \in {"file", "pdf"} /\ file.error) \/ (viewer \in {"pdf", "office"} /\ view.status = "error")
Spinner ==
    CASE viewer = "pdf" -> file.loading \/ view.status = "loading"
      [] viewer = "office" -> view.status \in {"loading", "starting"}
      [] OTHER -> file.loading

\* onRetry
Retry ==
    /\ Failed
    /\ CASE viewer = "office" -> StartEditor(material) /\ UNCHANGED <<file, load, waits, engine>>
         [] viewer = "file" \/ (viewer = "pdf" /\ file.error) ->
                /\ StartLoad /\ UNCHANGED engine
                /\ IF viewer = "pdf" THEN OpenDocument("none", engine) ELSE UNCHANGED <<works, view>>
         [] OTHER -> /\ UNCHANGED <<file, load, waits>>
                     /\ IF engine = "up"
                        THEN /\ UNCHANGED engine
                             /\ works' = Left(works) \cup
                                    (IF Url = "none" THEN {} ELSE {[of |-> Url, live |-> TRUE]})
                             /\ view' = [view EXCEPT !.status = "loading"]
                        ELSE StartEngine
    /\ printable' = IF viewer = "office" THEN "none" ELSE printable
    /\ UNCHANGED <<viewer, material>>

\* Another material, or another version, of the same type.
SwitchMaterial(m) ==
    /\ m # material /\ material' = m
    /\ IF viewer = "office" THEN StartEditor(m) /\ UNCHANGED <<file, load, waits>>
       ELSE /\ StartLoad
            /\ IF viewer = "pdf" THEN OpenDocument("none", engine) ELSE UNCHANGED <<works, view>>
    /\ printable' = "none"
    /\ UNCHANGED <<viewer, engine>>

Next ==
    \/ FileAnswered \/ FileBreaks \/ BackoffEnds \/ FileFails
    \/ EngineUp \/ EngineFails \/ EngineRestarts \/ EditorReady \/ EditorFails
    \/ \E w \in works : DocumentOpens(w) \/ DocumentFails(w) \/ DocumentTimesOut(w)
                        \/ EditorStarts(w) \/ StartupFails(w)
    \/ Retry
    \/ \E m \in Materials : SwitchMaterial(m)

Spec == Init /\ [][Next]_viewerVars

-----------------------------------------------------------------------------
(* A viewer that neither waits nor reports an error shows the material of   *)
(* the page: nothing that was under way for the one before ends up in it.   *)
(* (The waveform of the audio player is no such thing: a file that cannot   *)
(* be decoded leaves the one before.)                                       *)
ShownIsAsked ==
    viewer # "audio" /\ ~Spinner /\ ~Failed =>
        /\ viewer # "office" => file.of = material
        /\ viewer # "file" => view.of = material

\* Records keep their fields.
ViewerParts ==
    /\ file = [loading |-> file.loading, error |-> file.error, of |-> file.of]
    /\ view = [status |-> view.status, of |-> view.of]
    /\ \A w \in works : w = [of |-> w.of, live |-> w.live]
    /\ material \in Materials /\ viewer \in {"file", "pdf", "office"}

\* A file that is loaded is that of the page; so is the document or the editor
\* that is wanted, and the one that is shown unless its file is loaded anew. An
\* engine that is not up opens nothing.
OpenedIsAsked ==
    /\ viewer # "office" => file.loading \/ file.error \/ file.of = material
    /\ viewer # "file" => \A w \in works : w.live => w.of = material
    /\ viewer = "pdf" /\ engine # "up" =>
          view.status \in {"loading", "error"} /\ \A w \in works : ~w.live
    /\ viewer = "pdf" =>
          file.loading \/ file.error \/ view.status \in {"loading", "error"} \/ view.of = material
    /\ viewer = "office" => view.status \in {"loading", "error"} \/ view.of = material

\* What keeps ShownIsAsked.
ViewerInv == viewer # "audio" => ViewerParts /\ OpenedIsAsked

-----------------------------------------------------------------------------
\* Inductive strengthening of TypeOK: one waits only for a try that is left.
TriesRemain == waits => load \in 1..(MaxAttempts - 1)
=============================================================================
