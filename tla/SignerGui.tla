----------------------------- MODULE SignerGui -----------------------------
(***************************************************************************)
(* The signer's GUI (signer-gui) around a signing session: the menu, the   *)
(* video view that starts a player when it appears (VideoWidget,           *)
(* SignFeed::watch_video), SignController, which shows every frame and     *)
(* signs when it is told to, and the callbacks the player leaves for the   *)
(* UI thread.                                                              *)
(*                                                                         *)
(* Keys are Enter, which asks for a signature, and Space, which would      *)
(* pause.  flip_playing blocks on the runtime that already runs main, and  *)
(* that panics: the player is never paused, and wait_if_paused never waits.*)
(***************************************************************************)
EXTENDS Session

CONSTANT MaxVideos     \* bound: videos signed one after the other

ASSUME GuiAssumption ==
    MaxVideos \in Nat /\ None \notin {"pause", "overlay", "write"}

VARIABLES
    view,       \* AppData::view: "menu" or "video"
    src,        \* VideoOptions::src: a session, or None
    output,     \* has VideoOptions::output been chosen?
    shown,      \* VideoState::curr_frame: the time it starts at, or None
    lastShown,  \* VideoOptions::last_sign, what the overlay goes by
    signCtrl,   \* VideoOptions::sign_ctrl, which the controller shares
    lastSign,   \* SignController::last_sign
    player,     \* watch_video: "none", "running", "dead" or "done"
    idle,       \* the callbacks the UI thread has not run yet
    down,       \* what took the program down, or None
    videos      \* how many videos were started (bound)

guiVars == <<view, src, output, shown, lastShown, signCtrl, lastSign, player,
             idle, down, videos>>

Callback(do, at) == [do |-> do, at |-> at]

InitGui ==
    /\ view = "menu" /\ src = None /\ output = FALSE
    /\ shown = None /\ lastShown = 0 /\ signCtrl = FALSE /\ lastSign = 0
    /\ player = "none" /\ idle = <<>> /\ down = None /\ videos = 0

(* The window takes events and runs callbacks.                              *)
Up == job.app /\ down = None

-----------------------------------------------------------------------------
(* The menu.                                                               *)

(* Delegate::command, OPEN_FILE.                                            *)
ChooseVideo(j) ==
    /\ Up /\ view = "menu" /\ j.app
    /\ src' = j
    /\ UNCHANGED sessionVars
    /\ UNCHANGED <<view, output, shown, lastShown, signCtrl, lastSign, player,
                   idle, down, videos>>

(* Delegate::command, SAVE_FILE_AS.                                         *)
ChooseOutput ==
    /\ Up /\ view = "menu"
    /\ output' = TRUE
    /\ UNCHANGED sessionVars
    /\ UNCHANGED <<view, src, shown, lastShown, signCtrl, lastSign, player,
                   idle, down, videos>>

(* watch_video up to its try_collect: without a video the pipeline does not *)
(* start, and the task panics.                                              *)
WatchVideo ==
    IF src = None
    THEN player' = "dead" /\ UNCHANGED sessionVars /\ UNCHANGED lastSign
    ELSE player' = "running" /\ Start(src) /\ lastSign' = 0

(* WidgetAdded spawns the player, with the options as they are.             *)
SpawnPlayer ==
    /\ WatchVideo
    /\ UNCHANGED <<src, output, shown, lastShown, signCtrl, idle, down>>

(* The view changes to the video, and its widget is added; whatever comes   *)
(* of the player, the view stays.                                           *)
GoToVideo ==
    /\ Up /\ view = "menu" /\ videos < MaxVideos
    /\ view' = "video" /\ videos' = videos + 1
    /\ SpawnPlayer

-----------------------------------------------------------------------------
(* The video view.                                                         *)

PressEnter ==
    /\ Up /\ view = "video"
    /\ signCtrl' = TRUE
    /\ UNCHANGED sessionVars
    /\ UNCHANGED <<view, src, output, shown, lastShown, lastSign, player, idle,
                   down, videos>>

GoDown(why) ==
    /\ down' = why
    /\ UNCHANGED sessionVars
    /\ UNCHANGED <<view, src, output, shown, lastShown, signCtrl, lastSign,
                   player, videos>>

(* Handle::block_on on the thread of tokio::main.                           *)
PressSpace == Up /\ view = "video" /\ GoDown("pause") /\ UNCHANGED idle

(* SignOverlay::paint takes the time of the last signature from that of the *)
(* frame, and panics when it cannot.                                        *)
PaintOverlay ==
    /\ Up /\ view = "video" /\ shown # None /\ shown < lastShown
    /\ GoDown("overlay") /\ UNCHANGED idle

(* The idle callbacks, in the order in which they were left.                *)
ShowFrame ==
    /\ shown' = Head(idle).at
    /\ UNCHANGED sessionVars
    /\ UNCHANGED <<view, src, output, lastShown, signCtrl, lastSign, player,
                   down, videos>>

ShowSign ==
    /\ lastShown' = Head(idle).at
    /\ UNCHANGED sessionVars
    /\ UNCHANGED <<view, src, output, shown, signCtrl, lastSign, player, down,
                   videos>>

(* Mutated form of Finish: the view is left as it is.                       *)
FinishInView ==
    /\ output /\ disk' = Written(file)
    /\ UNCHANGED <<job, taken, ctrls, thread, asked, pending, failed, file, reader>>
    /\ UNCHANGED <<view, src, output, shown, lastShown, signCtrl, lastSign,
                   player, down, videos>>

(* The file is written, if there is a path for it, and the menu comes back. *)
Finish ==
    /\ output /\ disk' = Written(file) /\ view' = "menu"
    /\ UNCHANGED <<job, taken, ctrls, thread, asked, pending, failed, file, reader>>
    /\ UNCHANGED <<src, output, shown, lastShown, signCtrl, lastSign, player,
                   down, videos>>

RunIdle ==
    /\ Up /\ idle # <<>>
    /\ \/ Head(idle).do = "frame" /\ ShowFrame
       \/ Head(idle).do = "sign" /\ ShowSign
       \/ Head(idle).do = "done" /\ Finish
       \/ Head(idle).do = "done" /\ ~ output /\ GoDown("write")
    /\ idle' = Tail(idle)

-----------------------------------------------------------------------------
(* The player.                                                             *)

(* Mutated form of Left: the signature is shown before the frame.           *)
LeftSignFirst(at, signs) ==
    IF signs THEN << Callback("sign", at), Callback("frame", at) >>
             ELSE << Callback("frame", at) >>

(* What get_chunks leaves for the UI thread.                                *)
Left(at, signs) ==
    IF signs THEN << Callback("frame", at), Callback("sign", at) >>
             ELSE << Callback("frame", at) >>

(* SignController::get_chunks, within a turn of sign_with_thread.           *)
GuiTurn ==
    LET frame == FrameState(job, taken + 1)
        at == frame.time.start
        signs == GuiAsks(lastSign, signCtrl, frame)
    IN  /\ Up /\ NextFrameReady /\ Len(idle) < MaxIdle
        /\ taken' = taken + 1
        /\ idle' = idle \o Left(at, signs)
        /\ IF signs
           THEN /\ AskFor(<< GuiChunk(lastSign, "alice") >>, taken + 1)
                /\ signCtrl' = FALSE /\ lastSign' = at
           ELSE UNCHANGED <<asked, pending, signCtrl, lastSign>>
        /\ UNCHANGED <<job, ctrls, thread, failed, file, reader, disk>>
        /\ UNCHANGED <<view, src, output, shown, lastShown, player, down, videos>>

(* watch_video behind try_collect: an error panics, a file is passed on.    *)
WatchEnds ==
    /\ Up /\ player = "running"
    /\ \/ reader = "failed" /\ player' = "dead" /\ UNCHANGED idle
       \/ /\ reader = "collected" /\ player' = "done"
          /\ idle' = Append(idle, Callback("done", None))
    /\ UNCHANGED sessionVars
    /\ UNCHANGED <<view, src, output, shown, lastShown, signCtrl, lastSign,
                   down, videos>>

Menu == (\E j \in Jobs : ChooseVideo(j)) \/ ChooseOutput \/ GoToVideo

VideoView == PressEnter \/ PressSpace \/ PaintOverlay \/ RunIdle

(* The session goes on as long as its program does.                         *)
GuiSession == (down = None /\ NextSession /\ UNCHANGED guiVars) \/ GuiTurn \/ WatchEnds

NextGui == Menu \/ VideoView \/ GuiSession

-----------------------------------------------------------------------------
(* Properties.                                                             *)

(* The state of the program keeps its form.                                 *)
TypeOKGui ==
    /\ view \in {"menu", "video"} /\ src \in Jobs \cup {None}
    /\ {output, signCtrl} \subseteq BOOLEAN
    /\ player \in {"none", "running", "dead", "done"}
    /\ down \in {None, "pause", "overlay", "write"}
    /\ videos \in 0..MaxVideos
    /\ \A i \in DOMAIN idle : idle[i].do \in {"frame", "sign", "done"}

(* signer-gui/src/video.rs:92: the overlay of the first video never         *)
(* computes a time before zero, whatever the order in which frames are      *)
(* shown, signed and painted.  (It does in the second video, as last_sign   *)
(* is kept: the program goes down.)                                         *)
OverlaySafe == down = "overlay" => videos > 1
=============================================================================
