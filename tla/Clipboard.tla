------------------------------ MODULE Clipboard ------------------------------
(***************************************************************************)
(* Copying with auto-clear (AppController::copyToClipboard and              *)
(* clearClipboardIfOurs): the system clipboard, which every application     *)
(* writes, one single-shot timer and the text it is to clear.               *)
(*                                                                          *)
(* Mutants (see VaultOps) are marked as such.                               *)
(***************************************************************************)
CONSTANTS
  Texts,    \* texts copied in Leyni
  Foreign,  \* texts copied in other applications
  NoText    \* an empty clipboard, an empty m_clipboardExpected

ASSUME ClipboardAssumption == Texts \cap Foreign = {} /\ NoText \notin Texts

VARIABLES
  clipboard,  \* QGuiApplication::clipboard()->text()
  expected,   \* m_clipboardExpected
  ticking,    \* m_clipboardTimer.isActive()
  clears,     \* clipboardClearSeconds() > 0
  notice      \* what notify() said last: "clears", "copied", or "" for neither

copies == <<clipboard, expected, ticking, clears, notice>>

ClipboardTypeOK ==
  /\ clipboard \in Texts \cup Foreign \cup {NoText}
  /\ expected \in Texts \cup {NoText}
  /\ ticking \in BOOLEAN /\ clears \in BOOLEAN
  /\ notice \in {"clears", "copied", ""}

ClipboardInit ==
  /\ clipboard = NoText /\ expected = NoText /\ ticking = FALSE
  /\ clears \in BOOLEAN /\ notice = ""

(* Mutant of CopyToClipboard: a running timer keeps the text it started for. *)
CopyToClipboardOnce(text) ==
  /\ clipboard' = text
  /\ expected' = IF ticking THEN expected ELSE text
  /\ ticking' = (clears \/ ticking)
  /\ notice' = IF clears THEN "clears" ELSE "copied"
  /\ UNCHANGED clears

(* The timer is started anew, or left as it is when clearing is switched off.*)
CopyToClipboard(text) ==
  /\ clipboard' = text /\ expected' = text
  /\ ticking' = (clears \/ ticking)
  /\ notice' = IF clears THEN "clears" ELSE "copied"
  /\ UNCHANGED clears

SetClipboardClear ==
  /\ clears' = ~clears
  /\ UNCHANGED <<clipboard, expected, ticking, notice>>

(* Mutant of Cleared: without a look at what the clipboard holds.            *)
ClearedBlindly == NoText

Cleared == IF clipboard = expected THEN NoText ELSE clipboard

ClearClipboardIfOurs ==
  /\ ticking /\ ticking' = FALSE
  /\ clipboard' = Cleared /\ expected' = NoText
  /\ UNCHANGED <<clears, notice>>

CopiedElsewhere ==
  /\ \E text \in Foreign : clipboard' = text
  /\ UNCHANGED <<expected, ticking, clears, notice>>

(* The process ends: the clipboard stays, timer and text are gone.           *)
ForgetCopies ==
  /\ expected' = NoText /\ ticking' = FALSE /\ notice' = ""
  /\ UNCHANGED <<clipboard, clears>>
=============================================================================
