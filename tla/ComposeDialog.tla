---------------------------- MODULE ComposeDialog ----------------------------
(***************************************************************************)
(* The compose dialog of web/app.js: opening, choosing attachments (read   *)
(* and checked by web/compose-attachments.js one file after the other),    *)
(* submitting, and what the answer of the provider does to a dialog that   *)
(* may by then belong to another message.                                  *)
(*                                                                         *)
(* Of a message only its attachments are kept.  A file has a declared size *)
(* and may turn out to have another when it is read.                       *)
(***************************************************************************)
EXTENDS Integers, FiniteSets, FiniteSetsExt

CONSTANTS
  Files,         \* files the user has
  Declared,      \* [Files -> Nat], File.size
  Actual,        \* the sizes reading may find
  MaxFiles,      \* COMPOSE_ATTACHMENT_LIMITS.count
  MaxFileSize,   \* .perFileBytes
  MaxTotal,      \* .totalBytes
  MaxComposes,   \* bound on openings of the dialog
  MaxSelections, \* bound on file selections
  MaxWrites,     \* bound on submissions
  Absent         \* no value

VARIABLES
  gateway,     \* runtime.canSendAttachments
  open,        \* is the dialog shown?
  compose,     \* history: which opening this is
  picker,      \* the files in the file input
  reading,     \* the selections being materialised
  picks,       \* how many selections there have been
  attached,    \* selectedComposeAttachments, what a submission takes
  preview,     \* the rows of composeAttachmentPreview, what the dialog shows
  writes,      \* the calls of send and createDraft, in order of submission
  timers       \* pending setTimeout calls that will close the dialog

dialog == <<open, compose>>
materialized == <<attached, preview>>
dialogVars == <<gateway, dialog, picker, reading, picks, materialized, writes, timers>>

\* An attachment is a file as it was read, at the size found.
Attachments == SUBSET (Files \X Actual)

\* A list of attachments; history: the opening of the dialog in whose preview it was put.
Lists == [content : Attachments, shownIn : 0 .. MaxComposes]

NoAttachments == [content |-> {}, shownIn |-> 0]

Readings == [todo : SUBSET Files, done : Attachments]

\* History: what the dialog showed, and what its file input held.
Writes == [compose : 1 .. MaxComposes, attachments : Lists, pending : BOOLEAN,
           shown : Attachments, chosen : {"nothing", "files", "being read"}]

ASSUME DialogAssumption ==
  /\ IsFiniteSet(Files)
  /\ Declared \in [Files -> Nat]
  /\ Actual \subseteq Nat
  /\ MaxFiles \in Nat /\ MaxFileSize \in Nat /\ MaxTotal \in Nat
  /\ MaxComposes \in Nat /\ MaxSelections \in Nat /\ MaxWrites \in Nat
  /\ Absent \notin Readings /\ Absent \notin Writes

DialogTypeOK ==
  /\ gateway \in BOOLEAN /\ open \in BOOLEAN
  /\ compose \in 0 .. MaxComposes
  /\ picker \subseteq Files
  /\ reading \in [1 .. MaxSelections -> Readings \cup {Absent}]
  /\ picks \in 0 .. MaxSelections
  /\ attached \in Lists /\ preview \in Attachments
  /\ writes \in [1 .. MaxWrites -> Writes \cup {Absent}]
  /\ timers \in 0 .. MaxWrites

DialogInit ==
  /\ gateway \in BOOLEAN
  /\ open = FALSE /\ compose = 0
  /\ picker = {}
  /\ reading = [i \in 1 .. MaxSelections |-> Absent] /\ picks = 0
  /\ attached = NoAttachments /\ preview = {}
  /\ writes = [i \in 1 .. MaxWrites |-> Absent]
  /\ timers = 0

-----------------------------------------------------------------------------
(* The dialog *)

\* Bug: the rows go, the list stays.
ClearRows == preview' = {} /\ UNCHANGED attached

\* clearComposeAttachmentPreview
Clear == attached' = NoAttachments /\ preview' = {}

\* renderComposeAttachmentPreview, of a list that is not empty
Render(list) == attached' = list /\ preview' = list.content

\* openCompose resets the form and the preview.  The dialog is modal: while it is
\* shown the buttons that open it cannot be reached.
OpenCompose ==
  /\ ~open
  /\ compose < MaxComposes
  /\ open' = TRUE /\ compose' = compose + 1
  /\ Clear /\ picker' = {}
  /\ UNCHANGED <<gateway, reading, picks, writes, timers>>

\* The close button; nothing is reset.
Close ==
  /\ open
  /\ open' = FALSE
  /\ UNCHANGED <<gateway, compose, picker, reading, picks, materialized, writes, timers>>

\* The timer of an earlier success.  A dialog that is closed stays so.
CloseByTimer ==
  /\ timers > 0
  /\ timers' = timers - 1
  /\ open' = FALSE
  /\ UNCHANGED <<gateway, compose, picker, reading, picks, materialized, writes>>

-----------------------------------------------------------------------------
(* Choosing attachments: the change handler *)

\* A selection that fails empties preview and input, whatever they hold by now.
Reject == Clear /\ picker' = {}

\* Too many files are refused before any is read; no files empty the preview.
Select(files) ==
  /\ open
  /\ picks < MaxSelections
  /\ picks' = picks + 1
  /\ \/ /\ Cardinality(files) > MaxFiles
        /\ Reject
        /\ UNCHANGED reading
     \/ /\ files = {}
        /\ Clear /\ picker' = {}
        /\ UNCHANGED reading
     \/ /\ Cardinality(files) \in 1 .. MaxFiles
        /\ picker' = files
        /\ reading' = [reading EXCEPT ![picks + 1] = [todo |-> files, done |-> {}]]
        /\ UNCHANGED materialized
  /\ UNCHANGED <<gateway, dialog, writes, timers>>

TotalSize(attachments) == MapThenSumSet(LAMBDA a : a[2], attachments)

\* Bug: only the size of each file is limited.
FitsEach(f, n, done) == n <= MaxFileSize /\ n = Declared[f]

\* What a file must satisfy once its bytes are there.
Fits(f, n, done) ==
  /\ n <= MaxFileSize
  /\ n = Declared[f]
  /\ TotalSize(done) + n <= MaxTotal

EndReading(i) == reading' = [reading EXCEPT ![i] = Absent]

\* The bytes of one more file have come; a declared size above the limit is refused
\* before.  After the last one the selection becomes the list of attachments.
ReadFile(i, f, n) ==
  /\ reading[i] # Absent
  /\ f \in reading[i].todo /\ Declared[f] <= MaxFileSize
  /\ LET done == reading[i].done \cup {<<f, n>>}
         todo == reading[i].todo \ {f}
     IN  \/ /\ ~Fits(f, n, reading[i].done)
            /\ EndReading(i) /\ Reject
         \/ /\ Fits(f, n, reading[i].done) /\ todo # {}
            /\ reading' = [reading EXCEPT ![i] = [todo |-> todo, done |-> done]]
            /\ UNCHANGED <<materialized, picker>>
         \/ /\ Fits(f, n, reading[i].done) /\ todo = {}
            /\ EndReading(i)
            /\ Render([content |-> done, shownIn |-> compose])
            /\ UNCHANGED picker
  /\ UNCHANGED <<gateway, dialog, picks, writes, timers>>

\* An unreadable file, an unsafe name or media type, a declared size that is too big.
RejectFile(i) ==
  /\ reading[i] # Absent
  /\ EndReading(i) /\ Reject
  /\ UNCHANGED <<gateway, dialog, picks, writes, timers>>

-----------------------------------------------------------------------------
(* Submitting *)

Submissions == {i \in 1 .. MaxWrites : writes[i] # Absent}

\* Demo mode does not take attachments.
Blocked == attached.content # {} /\ ~gateway

Chosen ==
  CASE picker = {} -> "nothing"
    [] picker # {} /\ (\A i \in DOMAIN reading : reading[i] = Absent) -> "files"
    [] picker # {} /\ (\E i \in DOMAIN reading : reading[i] # Absent) -> "being read"

Message == [compose |-> compose, attachments |-> attached, pending |-> TRUE,
            shown |-> preview, chosen |-> Chosen]

\* Bug: the form can be submitted while the dialog is closed.
SubmitClosed ==
  /\ ~Blocked
  /\ Cardinality(Submissions) < MaxWrites
  /\ writes' = [writes EXCEPT ![Cardinality(Submissions) + 1] = Message]
  /\ UNCHANGED <<gateway, dialog, picker, reading, picks, materialized, timers>>

\* Nothing keeps the user from submitting again while the answer is outstanding.
Submit ==
  /\ open
  /\ ~Blocked
  /\ Cardinality(Submissions) < MaxWrites
  /\ writes' = [writes EXCEPT ![Cardinality(Submissions) + 1] = Message]
  /\ UNCHANGED <<gateway, dialog, picker, reading, picks, materialized, timers>>

\* The success resets the form, whichever message it holds by now.
WriteSucceeds(i) ==
  /\ writes[i] # Absent /\ writes[i].pending
  /\ writes' = [writes EXCEPT ![i].pending = FALSE]
  /\ Clear /\ picker' = {}
  /\ timers' = timers + 1
  /\ UNCHANGED <<gateway, dialog, reading, picks>>

WriteFails(i) ==
  /\ writes[i] # Absent /\ writes[i].pending
  /\ writes' = [writes EXCEPT ![i].pending = FALSE]
  /\ UNCHANGED <<gateway, dialog, picker, reading, picks, materialized, timers>>

-----------------------------------------------------------------------------
DialogNext ==
  \/ OpenCompose
  \/ Close
  \/ CloseByTimer
  \/ \E files \in SUBSET Files : Select(files)
  \/ \E i \in 1 .. MaxSelections, f \in Files, n \in Actual : ReadFile(i, f, n)
  \/ \E i \in 1 .. MaxSelections : RejectFile(i)
  \/ Submit
  \/ \E i \in 1 .. MaxWrites : WriteSucceeds(i)
  \/ \E i \in 1 .. MaxWrites : WriteFails(i)

DialogSpec == DialogInit /\ [][DialogNext]_dialogVars

-----------------------------------------------------------------------------
(* Properties *)

WithinLimits(attachments) ==
  /\ Cardinality(attachments) <= MaxFiles
  /\ \A a \in attachments : a[2] = Declared[a[1]] /\ a[2] <= MaxFileSize
  /\ TotalSize(attachments) <= MaxTotal

\* The sum of the sizes is a sum: one more attachment adds its size.
SumsAdd ==
  /\ TotalSize({}) = 0
  /\ \A done \in Attachments, a \in Files \X Actual :
       IsFiniteSet(done) /\ a \notin done => TotalSize(done \cup {a}) = TotalSize(done) + a[2]

\* Whatever is submitted, and however often a selection is replaced while it is
\* being read: demo mode hands over no attachment, and the gateway gets a list
\* that passed every limit as a whole.
OnlyCheckedAttachmentsLeave ==
  \A i \in Submissions :
    LET sent == writes[i].attachments.content
    IN  WithinLimits(sent) /\ (sent # {} => gateway)

\* A message leaves with exactly the list its dialog shows, and with none that was rendered
\* before that dialog was opened: a selection made for another message goes with this one
\* only if it was still being read then. Files that were chosen are left behind only while
\* some selection is being read, whatever has been read, refused, sent, failed, closed and
\* reopened before.
PreviewIsWhatLeaves ==
  \A i \in Submissions :
    LET sent == writes[i].attachments
    IN  /\ sent.content = writes[i].shown
        /\ sent.content # {} => sent.shownIn = writes[i].compose
        /\ sent.content = {} => writes[i].chosen # "files"

\* README.md: "Demo mode refuses every attachment-bearing submission". A message whose files
\* are still being read is submitted in demo mode, and leaves without them.
DemoRefusesAttachments ==
  \A i \in Submissions : ~gateway => writes[i].chosen = "nothing"

=============================================================================
