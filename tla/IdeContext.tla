------------------------------- MODULE IdeContext -------------------------------
(***************************************************************************)
(* What the model is told of the editor.  The companion keeps the files    *)
(* opened last (open-files-manager.ts) and notifies the CLI, which stores  *)
(* the last notification (ideContext.ts).  A turn adds the whole of it to  *)
(* the history, or what changed since the last turn (client.ts), so that   *)
(* what the model knows is put together from messages of one history.      *)
(*                                                                         *)
(* Order and time stamps of the files agree, since both change only when a *)
(* file becomes the active one, and that one stands in front.  A place is  *)
(* a cursor and its selection.  Only turns read the store, so that a       *)
(* notification that comes late, debounced or lost, is a turn that comes   *)
(* early: while connected the store holds the state of the companion.      *)
(***************************************************************************)
EXTENDS Naturals, SequencesExt

CONSTANTS FilePaths, Places,
          MAX_FILES             \* of the companion; IDE_MAX_OPEN_FILES is the same

ASSUME ContextAssumption == MAX_FILES \in Nat \ {0}

VARIABLES openFiles,            \* the companion's list, and the place in its active file
          connected,            \* and notified since; a lost connection clears the store
          lastSentIdeContext,
          forceFullIdeContext,
          chatReset,            \* startChat, which awaits before it replaces the chat
          told,                 \* what the messages of the history say of the editor
          misled                \* history: the code missed to correct them

clientVars == <<lastSentIdeContext, forceFullIdeContext, chatReset, told, misled>>
contextVars == <<openFiles, connected, clientVars>>

NoPlace == "none"
NoFile == "no file"
\* The front file of the list is active if it has a place.
NoFiles == [files |-> <<>>, place |-> NoPlace]

View == [open: SUBSET FilePaths, active: FilePaths \cup {NoFile}, place: Places \cup {NoPlace}]
Nothing == [open |-> {}, active |-> NoFile, place |-> NoPlace]
NoContext == [Nothing EXCEPT !.place = "undefined"]

ContextTypeOK ==
    /\ openFiles \in [files: Seq(FilePaths), place: Places \cup {NoPlace}]
    /\ Len(openFiles.files) <= MAX_FILES
    /\ connected \in BOOLEAN
    /\ lastSentIdeContext \in View \cup {NoContext}
    /\ forceFullIdeContext \in BOOLEAN
    /\ chatReset \in {"no", "reset", "compress"}
    /\ told \in View /\ misled \in BOOLEAN

\* A file that is open at the start is added like one that is opened next.
ContextInit ==
    /\ openFiles = NoFiles
    /\ connected = FALSE /\ lastSentIdeContext = NoContext
    /\ forceFullIdeContext = TRUE /\ chatReset = "no"
    /\ told = Nothing /\ misled = FALSE

-------------------------------------------------------------------------------
(* The companion *)

EditorChanges(files, place) ==
    /\ openFiles' = [files |-> files, place |-> place]
    /\ UNCHANGED <<connected, clientVars>>

\* findIndex: where a path stands first, if at all.
FirstAt(p) ==
    {i \in DOMAIN openFiles.files :
        openFiles.files[i] = p /\ \A j \in 1 .. i - 1 : openFiles.files[j] # p}

\* addOrMoveToFront
ActivateFile(p, place) ==
    \E others \in IF FirstAt(p) = {} THEN {openFiles.files}
                  ELSE {RemoveAt(openFiles.files, i) : i \in FirstAt(p)} :
        LET files == <<p>> \o others
        IN  EditorChanges(IF Len(files) > MAX_FILES THEN Front(files) ELSE files, place)

\* updateActiveContext
MoveCursor(place) ==
    /\ openFiles.place # NoPlace
    /\ EditorChanges(openFiles.files, place)

\* remove, for a closed or deleted file: behind the active file none is active.
RemoveFile(p) ==
    \E i \in FirstAt(p) :
        EditorChanges(RemoveAt(openFiles.files, i), IF i = 1 THEN NoPlace ELSE openFiles.place)

\* The path changes where it stands; an entry of the new path stays beside it.
RenameFile(p, new) ==
    /\ p # new
    /\ \E i \in FirstAt(p) :
           EditorChanges([openFiles.files EXCEPT ![i] = new], openFiles.place)

-------------------------------------------------------------------------------
(* The store *)

\* IdeContextStore.set: a file is active only in front of the list.
Stored ==
    [open |-> ToSet(openFiles.files),
     active |-> IF openFiles.place = NoPlace THEN NoFile ELSE openFiles.files[1],
     place |-> openFiles.place]

ideContextState == IF connected THEN Stored ELSE NoContext

\* Connected, or disconnected (IdeClient.setState).
ConnectionChanges ==
    /\ connected' = ~connected
    /\ UNCHANGED <<openFiles, clientVars>>

-------------------------------------------------------------------------------
(* The client *)

\* Mutant: closed files are not told.
withChanges_keepsClosed(known, last, now) ==
    [open |-> known.open \cup (now.open \ last.open),
     active |-> IF now.active # last.active THEN now.active ELSE known.active,
     place |-> IF now.active # last.active \/ now.place # last.place THEN now.place
               ELSE known.place]

\* What is known when the changes from one view to the next are told:
\* filesOpened, filesClosed, activeFileChanged, cursorMoved, selectionChanged.
withChanges(known, last, now) ==
    [open |-> (known.open \cup (now.open \ last.open)) \ (last.open \ now.open),
     active |-> IF now.active # last.active THEN now.active ELSE known.active,
     place |-> IF now.active # last.active \/ now.place # last.place THEN now.place
               ELSE known.place]

FullContextDue == forceFullIdeContext \/ lastSentIdeContext = NoContext

\* processTurn, in a turn that answers no function call (another one leaves all
\* of this as it is), and getIdeContextParts.  A full context without files is
\* not told, whatever the model was told of files before.
TellContext ==
    LET now == ideContextState IN
    /\ IF now = NoContext \/ (FullContextDue /\ now.open = {})
         THEN told' = told /\ misled' = (misled \/ (now # NoContext /\ told # Nothing))
       ELSE IF FullContextDue THEN told' = now /\ misled' = FALSE
       ELSE told' = withChanges(told, lastSentIdeContext, now) /\ misled' = misled
    /\ lastSentIdeContext' = now
    /\ forceFullIdeContext' = FALSE
    /\ UNCHANGED <<openFiles, connected, chatReset>>

\* A history that may still hold what was told takes the place of this one.
SetHistory(kept) ==
    /\ forceFullIdeContext' = TRUE
    /\ told' = IF kept THEN told ELSE Nothing
    /\ UNCHANGED <<openFiles, connected, lastSentIdeContext, chatReset, misled>>

\* startChat, called by resetChat, resumeChat and tryCompressChat.
StartChat(caller) ==
    /\ chatReset = "no" /\ chatReset' = caller
    /\ forceFullIdeContext' = TRUE
    /\ UNCHANGED <<openFiles, connected, lastSentIdeContext, told, misled>>

\* The new chat is installed.  Compression keeps the end of the history and asks
\* for the full context again; a reset does not, although a cancelled turn that
\* still awaited may have told it to the old chat meanwhile.
ChatStarted(kept) ==
    /\ chatReset # "no" /\ chatReset' = "no"
    /\ kept => chatReset = "compress"
    /\ told' = IF kept THEN told ELSE Nothing
    /\ forceFullIdeContext' = (forceFullIdeContext \/ chatReset = "compress")
    /\ misled' = (misled \/ ~forceFullIdeContext')
    /\ UNCHANGED <<openFiles, connected, lastSentIdeContext>>

ContextNext ==
    \/ \E p \in FilePaths, place \in Places : ActivateFile(p, place)
    \/ \E place \in Places : MoveCursor(place)
    \/ \E p \in FilePaths : RemoveFile(p)
    \/ \E p, new \in FilePaths : RenameFile(p, new)
    \/ ConnectionChanges \/ TellContext
    \/ \E kept \in BOOLEAN : SetHistory(kept) \/ ChatStarted(kept)
    \/ \E caller \in {"reset", "compress"} : StartChat(caller)

ContextSpec == ContextInit /\ [][ContextNext]_contextVars

-------------------------------------------------------------------------------

\* Put together, the messages of the history say what was read from the store
\* for the last turn: no file too many or too few, the right one active, at the
\* right place.  Until the next full context this is not so where the code does
\* mislead the model: the full context was due while no file was open, or a
\* reset was overtaken by a turn (client.ts:345, :371, :395, :588).
ContextTold ==
    lastSentIdeContext # NoContext /\ ~forceFullIdeContext
    => told = lastSentIdeContext \/ misled
===============================================================================
