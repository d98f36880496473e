------------------------------- MODULE Window -------------------------------
(***************************************************************************)
(* The window and the main thread: one frame after the other it refreshes  *)
(* the list of torrents when 30 ms have passed, draws the list with its    *)
(* buttons, the file dialog and the dialog that confirms a removal, and    *)
(* calls Furrent through the functions that main has set.  Furrent is what *)
(* Torrents promises, which FurrentRefines shows of its threads; while the *)
(* window makes its steps the workers finish pieces and complete torrents. *)
(*                                                                         *)
(* The buttons of the list stay alive behind the dialogs.                  *)
(***************************************************************************)
EXTENDS Integers, FiniteSets, Sequences

CONSTANTS
  MaxTorrents,   \* bound on the calls of add_torrent
  PiecesCount,   \* pieces_count of each torrent
  NoTorrent      \* nothing chosen, nothing loaded

TID == 0 .. (MaxTorrents - 1)

ASSUME WindowAssumption ==
  /\ MaxTorrents \in Nat
  /\ PiecesCount \in [TID -> Nat \ {0}]
  /\ NoTorrent \notin TID

VARIABLES
  status, finished, completing, stopping,   \* Furrent
  next_uid,      \* _descriptor_next_uid
  at,            \* the step of the frame, "closed", or "threw" for get_gui_data
  due,           \* 30 ms have passed since the last refresh
  torrents,      \* _scroller.torrents
  place,         \* of the torrent that is refreshed
  loaded,        \* the state get_gui_data has loaded
  file_dialog,   \* _button_file_dialog
  active,        \* _file_loader.fileDialogActive
  deleting,      \* torrent_dialog_state.delete_torrent
  chosen,        \* torrent_dialog_state.torrent
  confirmed      \* history: the torrents whose removal the user confirmed

furrentVars == <<status, finished, completing, stopping>>
listVars == <<torrents, place, loaded>>
dialogVars == <<file_dialog, active, deleting, chosen, confirmed>>
vars == <<furrentVars, next_uid, at, due, listVars, dialogVars>>

F == INSTANCE Torrents WITH Pieces <- [t \in TID |-> 1 .. PiecesCount[t]]

\* The constructor value-initializes the dialogs and the list.
Init ==
  /\ F!Init
  /\ next_uid = 0
  /\ at = "frame"
  /\ due = FALSE
  /\ torrents = <<>>
  /\ place = 1
  /\ loaded = NoTorrent
  /\ file_dialog = FALSE
  /\ active = FALSE
  /\ deleting = FALSE
  /\ chosen = NoTorrent
  /\ confirmed = {}

-----------------------------------------------------------------------------
(* get_gui_data *)

\* Loads the state, or throws if there is no such torrent.
LoadsState(t, then) ==
  /\ loaded' = status[t]
  /\ at' = IF status[t] = "None" THEN "threw" ELSE then

\* What is shown of a torrent: the state loaded before and the count now.
GuiData(t) ==
  [tid |-> t, state |-> loaded, processed |-> Cardinality(finished[t])]

-----------------------------------------------------------------------------
(* Window::run *)

Close ==
  /\ at = "frame"
  /\ at' = "closed"
  /\ UNCHANGED <<furrentVars, next_uid, due, listVars, dialogVars>>

\* Fault: the list is never refreshed.
FrameNeverDue ==
  /\ at = "frame"
  /\ at' = "base"
  /\ place' = 1
  /\ UNCHANGED <<furrentVars, next_uid, due, torrents, loaded, dialogVars>>

Frame ==
  /\ at = "frame"
  /\ at' = IF due THEN "update" ELSE "base"
  /\ place' = 1
  /\ UNCHANGED <<furrentVars, next_uid, due, torrents, loaded, dialogVars>>

\* _update_fn for the next torrent of the list ...
UpdateState ==
  /\ at = "update"
  /\ place <= Len(torrents)
  /\ LoadsState(torrents[place].tid, "update_count")
  /\ UNCHANGED <<furrentVars, next_uid, due, torrents, place, dialogVars>>

\* Fault: the answer is written to the first torrent.
UpdateCountFirst ==
  /\ at = "update_count"
  /\ torrents' = [torrents EXCEPT ![1] = GuiData(torrents[place].tid)]
  /\ place' = place + 1
  /\ loaded' = NoTorrent
  /\ at' = "update"
  /\ UNCHANGED <<furrentVars, next_uid, due, dialogVars>>

UpdateCount ==
  /\ at = "update_count"
  /\ torrents' = [torrents EXCEPT ![place] = GuiData(@.tid)]
  /\ place' = place + 1
  /\ loaded' = NoTorrent
  /\ at' = "update"
  /\ UNCHANGED <<furrentVars, next_uid, due, dialogVars>>

\* ... until the end of the list; the clock starts again.
Updated ==
  /\ at = "update"
  /\ place > Len(torrents)
  /\ due' = FALSE
  /\ at' = "base"
  /\ UNCHANGED <<furrentVars, next_uid, listVars, dialogVars>>

\* render_torrents: the button of a torrent that is to be removed.
DeleteButton(k) ==
  /\ deleting' = TRUE
  /\ chosen' = torrents[k].tid

\* render_base: the user may press the button of the file dialog, or the one
\* of a torrent.
Base ==
  /\ at = "base"
  /\ at' = "file_dialog"
  /\ \/ file_dialog' \in BOOLEAN /\ UNCHANGED <<deleting, chosen>>
     \/ file_dialog' = FALSE /\ \E k \in DOMAIN torrents : DeleteButton(k)
  /\ UNCHANGED <<furrentVars, next_uid, due, listVars, active, confirmed>>

\* render_file_dialog: the user does nothing, closes the dialog, or selects a
\* file, of the right extension or not.
FileDialog ==
  /\ at = "file_dialog"
  /\ \/ /\ active' \in {active \/ file_dialog, file_dialog}
        /\ at' = "confirm_dialog"
     \/ /\ active
        /\ active' = TRUE
        /\ at' = "confirm_dialog"
     \/ /\ active
        /\ next_uid \in TID
        /\ active' = FALSE
        /\ at' = "insert"
  /\ UNCHANGED <<furrentVars, next_uid, due, listVars, file_dialog, deleting,
                 chosen, confirmed>>

\* _insert_fn: add_torrent fails before or after there is an entry ...
InsertFails ==
  /\ at = "insert"
  /\ next_uid' = next_uid + 1
  /\ F!Fail(next_uid) \/ UNCHANGED furrentVars
  /\ at' = "confirm_dialog"
  /\ UNCHANGED <<due, listVars, dialogVars>>

\* ... or starts the download, and the torrent is asked for its data.
InsertStarts ==
  /\ at = "insert"
  /\ next_uid' = next_uid + 1
  /\ F!Start(next_uid)
  /\ at' = "insert_state"
  /\ UNCHANGED <<due, listVars, dialogVars>>

InsertState ==
  /\ at = "insert_state"
  /\ LoadsState(next_uid - 1, "insert_count")
  /\ UNCHANGED <<furrentVars, next_uid, due, torrents, place, dialogVars>>

InsertCount ==
  /\ at = "insert_count"
  /\ torrents' = Append(torrents, GuiData(next_uid - 1))
  /\ loaded' = NoTorrent
  /\ at' = "confirm_dialog"
  /\ UNCHANGED <<furrentVars, next_uid, due, place, dialogVars>>

\* render_confirm_dialog: there is no dialog, no answer, "No", or "Yes".
ConfirmDialog ==
  /\ at = "confirm_dialog"
  /\ \/ /\ at' = "frame"
        /\ deleting' \in {deleting, FALSE}
        /\ UNCHANGED confirmed
     \/ /\ deleting
        /\ deleting' = FALSE
        /\ at' = "remove"
        /\ confirmed' = confirmed \union {chosen}
  /\ UNCHANGED <<furrentVars, next_uid, due, listVars, file_dialog, active, chosen>>

\* remove_torrent loads the state and decides.
Remove ==
  /\ at = "remove"
  /\ IF status[chosen] \in {"Completed", "Error"}
       THEN at' = "erase" /\ UNCHANGED furrentVars
       ELSE at' = "stop" /\ F!DecideStop(chosen)
  /\ UNCHANGED <<next_uid, due, listVars, dialogVars>>

Stop ==
  /\ at = "stop"
  /\ F!Stop(chosen)
  /\ at' = "erase"
  /\ UNCHANGED <<next_uid, due, listVars, dialogVars>>

\* Fault: the last of the list is erased.
EraseLast ==
  /\ at = "erase"
  /\ torrents' = SubSeq(torrents, 1, Len(torrents) - 1)
  /\ at' = "frame"
  /\ UNCHANGED <<furrentVars, next_uid, due, place, loaded, dialogVars>>

\* std::remove_if and erase: the entries of s at the places J move together,
\* in their order.
Kept(s, J) ==
  [k \in 1 .. Cardinality(J) |-> s[CHOOSE j \in J : Cardinality({i \in J : i <= j}) = k]]

Erase ==
  /\ at = "erase"
  /\ torrents' = Kept(torrents, {j \in DOMAIN torrents : torrents[j].tid # chosen})
  /\ at' = "frame"
  /\ UNCHANGED <<furrentVars, next_uid, due, place, loaded, dialogVars>>

-----------------------------------------------------------------------------
(* What happens meanwhile *)

Tick ==
  /\ ~due
  /\ due' = TRUE
  /\ UNCHANGED <<furrentVars, next_uid, at, listVars, dialogVars>>

Workers ==
  /\ \E t \in TID : F!Complete(t) \/ \E p \in 1 .. PiecesCount[t] : F!FinishPiece(t, p)
  /\ UNCHANGED <<next_uid, at, due, listVars, dialogVars>>

\* The loop of the window goes on until the user closes it.
Loop ==
  \/ Frame
  \/ UpdateState
  \/ UpdateCount
  \/ Updated
  \/ Base
  \/ FileDialog
  \/ InsertFails
  \/ InsertStarts
  \/ InsertState
  \/ InsertCount
  \/ ConfirmDialog
  \/ Remove
  \/ Stop
  \/ Erase

Next == Loop \/ Close \/ Tick \/ Workers

\* The thread runs, add_torrent returns, and time passes.
Spec == Init /\ [][Next]_vars /\ WF_vars(Loop) /\ WF_vars(Tick)

-----------------------------------------------------------------------------
(* Properties *)

Listed == {torrents[k].tid : k \in DOMAIN torrents}

\* Outside of the calls of insert and remove the list shows each torrent that
\* was started and whose removal was not confirmed, once, in the order of
\* adding, whichever calls failed and whatever was pressed while a dialog was
\* open.  So get_gui_data is never asked for a torrent that does not exist,
\* which would end the program.
ListIsExact ==
  /\ at \in {"frame", "update", "update_count", "base", "file_dialog"} =>
       Listed = {t \in TID : status[t] \notin {"None", "Error"}} \ confirmed
  /\ \A j, k \in DOMAIN torrents : j < k => torrents[j].tid < torrents[k].tid

\* What the list shows of a torrent only goes forward: its count never
\* decreases, Completed stays, and comes with the full count; the count of
\* one torrent is never shown at another.
ShownOnlyGrows ==
  [][\A j \in DOMAIN torrents, k \in DOMAIN torrents' :
       torrents[j].tid = torrents'[k].tid =>
         /\ torrents[j].processed <= torrents'[k].processed
         /\ torrents[j].state = "Completed" => torrents'[k].state = "Completed"
         /\ torrents'[k].state = "Completed" =>
              torrents'[k].processed = PiecesCount[torrents'[k].tid]]_vars

ShownCompleted(t) ==
  \E k \in DOMAIN torrents : torrents[k].tid = t /\ torrents[k].state = "Completed"

\* A torrent that is completed is shown as completed, unless its removal is
\* confirmed or the window is closed: dialogs, failing inserts and removals
\* of others do not keep the list from being refreshed.
CompletionIsShown ==
  \A t \in TID :
    status[t] = "Completed" /\ t \in Listed
      ~> ShownCompleted(t) \/ t \in confirmed \/ at = "closed"
=============================================================================
