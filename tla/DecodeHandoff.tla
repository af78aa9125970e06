---- MODULE DecodeHandoff ----
(***************************************************************************)
(* The two cores of the Waveshare board and the one job they share.        *)
(*                                                                         *)
(* Core 0 runs the main loop: it enters and leaves the camera screens, and *)
(* on a camera screen runs one camera cycle after another                  *)
(* (handlers/camera_loop.rs).  A cycle captures a frame, collects the      *)
(* finished job, acts on it, and hands over the next one.  Core 1 decodes  *)
(* (hw/decode_core.rs).  They meet in the byte JOB_STATE, in the           *)
(* parameters and the image behind it, and in the result cell.             *)
(*                                                                         *)
(* A frame carries the visit to a camera screen and the scan session in    *)
(* which it was captured: neither is in the code, where the byte GEN       *)
(* stands for the session.  The properties compare the two.                *)
(***************************************************************************)
EXTENDS Integers

CONSTANTS
    Codes,         \* what may be in front of the camera (CodeType)
    Gens,          \* values of the byte GEN: 256
    Cooldown,      \* QR_COOLDOWN after a symbol that was acted on: 90 cycles
    EscRest,       \* QR_ESC_COOLDOWN after both windows failed: 3
    StreakLimit,   \* empty fast passes that owe a full pass: 8
    MaxVisits,     \* bound: entries of a camera screen
    MaxSessions    \* bound: resets of the scan session

Kinds == {"FAST", "ESC"}          \* 240x240 in SRAM; the full frame in PSRAM
Windows == {3, 8}                 \* the adaptive threshold's divisor
Other(d) == IF d = 8 THEN 3 ELSE 8

\* A symbol (or none, or a blurred one): the resolutions and windows at which
\* the decoder finds it and reads it, and whether it is a part of an
\* animation.
CodeType == [finds : SUBSET (Kinds \X Windows), reads : SUBSET (Kinds \X Windows), part : BOOLEAN]

ASSUME CodesAssumption == Codes \subseteq CodeType
ASSUME GensAssumption == Gens \in Nat \ {0}
ASSUME LimitsAssumption ==
    {Cooldown, EscRest, StreakLimit, MaxVisits, MaxSessions} \subseteq Nat

Frames == [code : Codes, visit : 0 .. MaxVisits, session : 0 .. MaxSessions]
None == [code |-> "none"]         \* no frame, or one the decoder has scribbled on
Params == [kind : Kinds, denom : Windows, gen : 0 .. Gens - 1]
Jobs == [kind : Kinds, denom : Windows, gen : 0 .. Gens - 1, frame : Frames]
NoResult == [outcome |-> "none"]

\* Core 1's whole decode: detect the grids, read the first that can be read.
Decoded(j) ==
    IF <<j.kind, j.denom>> \in j.frame.code.reads THEN "read"
    ELSE IF <<j.kind, j.denom>> \in j.frame.code.finds THEN "found"
    ELSE "nothing"

CameraScreens == {"ScanQR", "DecryptSecretScan", "CameraSettings"}
Screens == CameraScreens \cup {"Away"}

VARIABLES
    jobState,      \* JOB_STATE
    job,           \* JOB_KIND (with JOB_W, JOB_H), JOB_DENOM, JOB_GEN
    image,         \* FAST_IMG and JOB_BUF, by the kind of job they serve
    results,       \* RESULTS
    wpc, work,     \* core 1: where it is, the parameters it loaded
    pc,            \* core 0: where it is in the camera cycle
    cam,           \* the frame of this cycle
    acted,         \* the frame whose symbol this cycle acts on
    gen,           \* GEN
    scan,          \* the statics of camera_loop.rs
    screen, tune,  \* AppState, cam_tune_active
    resetFlag,     \* QR_RESET_FLAG
    scene,         \* what is in front of the camera
    visit, session

handoff == <<jobState, job, image, results>>
core1 == <<wpc, work>>
nav == <<screen, tune, resetFlag, visit>>
vars == <<handoff, core1, pc, cam, acted, gen, scan, nav, scene, session>>

ScanType ==
    [cooldown : 0 .. Cooldown, denom : Windows, miss : {0, 1},
     escCooldown : 0 .. EscRest, pending : BOOLEAN, triedAlt : BOOLEAN,
     alt : Windows, streak : 0 .. StreakLimit, mf : BOOLEAN]

ResultType == [kind : Kinds, denom : Windows, gen : 0 .. Gens - 1, frame : Frames,
               outcome : {"read", "found", "nothing"}]

TypeOK ==
    /\ jobState \in {"IDLE", "READY", "BUSY", "DONE"}
    /\ job \in Params /\ work \in Params
    /\ image \in [Kinds -> Frames \cup {None}]
    /\ results \in ResultType \cup {NoResult}
    /\ wpc \in {"spin", "load", "decode", "done"}
    /\ pc \in {"between", "collect", "arm", "fill", "stamp", "publish"}
    /\ cam \in Frames \cup {None} /\ acted \in Frames \cup {None}
    /\ gen \in 0 .. Gens - 1
    /\ scan \in ScanType
    /\ screen \in Screens /\ tune \in BOOLEAN /\ resetFlag \in BOOLEAN
    /\ scene \in Codes
    /\ visit \in 0 .. MaxVisits /\ session \in 0 .. MaxSessions

Init ==
    /\ jobState = "IDLE" /\ results = NoResult
    /\ job = [kind |-> "FAST", denom |-> 8, gen |-> 0] /\ work = job
    /\ image = [k \in Kinds |-> None]
    /\ wpc = "spin" /\ pc = "between" /\ cam = None /\ acted = None
    /\ gen = 0 /\ session = 0 /\ visit = 0
    /\ scan = [cooldown |-> 0, denom |-> 8, miss |-> 0, escCooldown |-> 0,
               pending |-> FALSE, triedAlt |-> FALSE, alt |-> 3, streak |-> 0, mf |-> FALSE]
    /\ screen = "Away" /\ tune = FALSE /\ resetFlag = FALSE
    /\ scene \in Codes

-----------------------------------------------------------------------------
(* The user, and the main loop's redraw that follows every change of       *)
(* screen.  redraw_screen raises QR_RESET_FLAG for ScanQR and for          *)
(* CameraSettings; DecryptSecretScan has nothing to draw.                  *)

Redrawn(s) == resetFlag' = (resetFlag \/ s \in {"ScanQR", "CameraSettings"})
Room == session + (IF resetFlag THEN 1 ELSE 0) < MaxSessions

Enter(s) ==
    /\ pc = "between" /\ screen = "Away"
    /\ visit < MaxVisits /\ Room
    /\ screen' = s /\ visit' = visit + 1
    /\ tune' = (tune \/ s = "CameraSettings")
    /\ Redrawn(s)
    /\ UNCHANGED <<handoff, core1, pc, cam, acted, gen, scan, scene, session>>

\* The back button in the main loop's dispatch, or EXIT on CameraSettings.
Back ==
    /\ pc = "between" /\ screen \in CameraScreens
    /\ screen' = "Away"
    /\ tune' = (tune /\ screen = "DecryptSecretScan")
    /\ UNCHANGED <<handoff, core1, pc, cam, acted, gen, scan, resetFlag, visit, scene, session>>

\* The two ways out that leave cam_tune_active as it is: the home corner,
\* which works on CameraSettings, and the idle wipe, which works anywhere.
HomeOrWipe ==
    /\ pc = "between" /\ screen \in CameraScreens
    /\ screen' = "Away"
    /\ UNCHANGED <<handoff, core1, pc, cam, acted, gen, scan, tune, resetFlag, visit, scene, session>>

\* The screen is painted again: the display wakes up.
Repaint ==
    /\ pc = "between" /\ screen \in CameraScreens /\ Room
    /\ Redrawn(screen)
    /\ UNCHANGED <<handoff, core1, pc, cam, acted, gen, scan, screen, tune, visit, scene, session>>

MoveCode ==
    /\ pc = "between" /\ scene' \in Codes \ {scene}
    /\ UNCHANGED <<handoff, core1, pc, cam, acted, gen, scan, nav, session>>

-----------------------------------------------------------------------------
(* The camera cycle.                                                       *)

\* What the raised flag does first thing in the cycle.  QR_MISS_STREAK and
\* ESC_ALT_DENOM keep their values.
Cleared ==
    [scan EXCEPT !.cooldown = 0, !.denom = 8, !.miss = 0, !.escCooldown = 0,
                 !.pending = FALSE, !.triedAlt = FALSE, !.mf = FALSE]

(* Mutant: the reset does not change the generation. *)
MutNextGenSame == gen

NextGen == IF gen = Gens - 1 THEN 0 ELSE gen + 1

Swap ==
    /\ gen' = IF resetFlag THEN NextGen ELSE gen
    /\ session' = IF resetFlag THEN session + 1 ELSE session
    /\ resetFlag' = FALSE

Begun == IF resetFlag THEN Cleared ELSE scan

\* The cycle ends before its frame: a finger on the back button, or a stalled
\* DMA.  A finished job stays where it is.
CutShort ==
    /\ pc = "between" /\ screen \in CameraScreens
    /\ Swap /\ scan' = Begun
    /\ \/ screen' = "Away" /\ tune' = FALSE
       \/ UNCHANGED <<screen, tune>>
    /\ UNCHANGED <<handoff, core1, pc, cam, acted, visit, scene>>

\* The frame arrives.  During the cooldown, and with cam_tune_active, the
\* cycle has nothing more to do.
Capture ==
    /\ pc = "between" /\ screen \in CameraScreens
    /\ Swap
    /\ IF Begun.cooldown > 0
       THEN scan' = [Begun EXCEPT !.cooldown = @ - 1] /\ UNCHANGED <<pc, cam>>
       ELSE /\ scan' = Begun
            /\ IF tune THEN UNCHANGED <<pc, cam>>
               ELSE /\ pc' = "collect"
                    /\ cam' = [code |-> scene, visit |-> visit, session |-> session']
    /\ UNCHANGED <<handoff, core1, acted, screen, tune, visit, scene>>

\* A symbol was read: the escalation starts over, and the window that read it
\* on a full pass becomes the one to use.
AfterRead(r) ==
    [scan EXCEPT !.miss = 0, !.escCooldown = 0, !.pending = FALSE, !.triedAlt = FALSE,
                 !.denom = IF r.kind = "ESC" THEN r.denom ELSE @]

(* Mutant: the rest that follows two failed full passes never ends. *)
MutAfterFastMiss(r) ==
    LET found == r.outcome = "found"
        oweFound == found /\ scan.escCooldown = 0 /\ ~scan.mf
    IN  [scan EXCEPT !.denom = IF scan.miss = 1 THEN Other(@) ELSE @,
                     !.miss = IF scan.miss = 1 THEN 0 ELSE 1,
                     !.pending = @ \/ oweFound,
                     !.triedAlt = @ /\ ~oweFound]

\* A fast pass read nothing.  Two of them change the window; a symbol that
\* was found, or enough empty passes in a row, owe a full pass.
AfterFastMiss(r) ==
    LET found == r.outcome = "found"
        oweFound == found /\ scan.escCooldown = 0 /\ ~scan.mf
        rest == IF ~oweFound /\ scan.escCooldown > 0 THEN scan.escCooldown - 1 ELSE scan.escCooldown
        streak == IF found THEN 0 ELSE IF scan.streak = StreakLimit THEN StreakLimit ELSE scan.streak + 1
        oweStreak == ~found /\ streak = StreakLimit /\ rest = 0 /\ ~scan.mf /\ ~scan.pending
    IN  [scan EXCEPT !.denom = IF scan.miss = 1 THEN Other(@) ELSE @,
                     !.miss = IF scan.miss = 1 THEN 0 ELSE 1,
                     !.escCooldown = rest,
                     !.streak = IF oweStreak THEN 0 ELSE streak,
                     !.pending = @ \/ oweFound \/ oweStreak,
                     !.triedAlt = @ /\ ~oweFound /\ ~oweStreak]

\* A full pass read nothing: the other window is owed, once; then a rest.
AfterEscMiss(r) ==
    IF scan.triedAlt
    THEN [scan EXCEPT !.pending = FALSE, !.escCooldown = EscRest]
    ELSE [scan EXCEPT !.triedAlt = TRUE, !.alt = Other(r.denom), !.pending = TRUE]

\* The payload is complete: its screen takes over, or it is refused and the
\* camera screen is painted again.
Processed ==
    \/ screen' = "Away" /\ UNCHANGED resetFlag
    \/ Room /\ UNCHANGED screen /\ Redrawn(screen)

\* handle_decode_result and what it calls.
Act(r) ==
    /\ acted' = r.frame
    /\ IF r.frame.code.part
       THEN \/ \E more \in BOOLEAN : scan' = [AfterRead(r) EXCEPT !.mf = more \/ scan.mf]
               /\ UNCHANGED <<screen, resetFlag>>
            \/ scan' = [AfterRead(r) EXCEPT !.mf = FALSE] /\ Processed
       ELSE scan' = [AfterRead(r) EXCEPT !.cooldown = Cooldown] /\ Processed

Collect ==
    /\ pc = "collect" /\ pc' = "arm"
    /\ IF jobState # "DONE"
       THEN UNCHANGED <<jobState, results, acted, scan, screen, resetFlag>>
       ELSE /\ results' = NoResult /\ jobState' = "IDLE"
            /\ IF results.gen = gen /\ results.outcome = "read"
               THEN Act(results)
               ELSE /\ scan' = IF results.gen # gen THEN scan
                               ELSE IF results.kind = "FAST" THEN AfterFastMiss(results)
                               ELSE AfterEscMiss(results)
                    /\ UNCHANGED <<acted, screen, resetFlag>>
    /\ UNCHANGED <<job, image, core1, cam, gen, tune, visit, scene, session>>

\* The job owed next.
Owed == IF scan.pending /\ ~scan.mf THEN "ESC" ELSE "FAST"
OwedWindow == IF Owed = "ESC" /\ scan.triedAlt THEN scan.alt ELSE scan.denom

\* buf_for_fill: the image is core 0's while JOB_STATE is IDLE.
Borrow ==
    /\ pc = "arm" /\ acted' = None
    /\ IF jobState = "IDLE"
       THEN pc' = "fill" /\ image' = [image EXCEPT ![Owed] = None] /\ UNCHANGED cam
       ELSE pc' = "between" /\ cam' = None /\ UNCHANGED image
    /\ UNCHANGED <<jobState, job, results, core1, gen, scan, nav, scene, session>>

(* Mutant: READY is stored before the parameters. *)
MutFill ==
    /\ pc = "fill" /\ pc' = "stamp" /\ jobState' = "READY"
    /\ image' = [image EXCEPT ![Owed] = cam]
    /\ UNCHANGED <<job, results, core1, cam, acted, gen, scan, nav, scene, session>>

Fill ==
    /\ pc = "fill" /\ pc' = "stamp"
    /\ image' = [image EXCEPT ![Owed] = cam]
    /\ UNCHANGED <<jobState, job, results, core1, cam, acted, gen, scan, nav, scene, session>>

\* submit: the parameters, then READY.
Stamp ==
    /\ pc = "stamp" /\ pc' = "publish"
    /\ job' = [kind |-> Owed, denom |-> OwedWindow, gen |-> gen]
    /\ UNCHANGED <<jobState, image, results, core1, cam, acted, gen, scan, nav, scene, session>>

Publish ==
    /\ pc = "publish" /\ pc' = "between" /\ cam' = None
    /\ jobState' = "READY"
    /\ scan' = IF Owed = "ESC" THEN [scan EXCEPT !.pending = FALSE] ELSE scan
    /\ UNCHANGED <<job, image, results, core1, acted, gen, nav, scene, session>>

-----------------------------------------------------------------------------
(* Core 1.                                                                 *)

Take ==
    /\ wpc = "spin" /\ jobState = "READY"
    /\ jobState' = "BUSY" /\ wpc' = "load"
    /\ UNCHANGED <<job, image, results, work, pc, cam, acted, gen, scan, nav, scene, session>>

Load ==
    /\ wpc = "load" /\ wpc' = "decode" /\ work' = job
    /\ UNCHANGED <<handoff, pc, cam, acted, gen, scan, nav, scene, session>>

\* The decoder works in place: it leaves nothing of the image.
Decode ==
    /\ wpc = "decode" /\ wpc' = "done"
    /\ LET frame == image[work.kind]
           j == [kind |-> work.kind, denom |-> work.denom, gen |-> work.gen, frame |-> frame]
       IN  results' = [kind |-> j.kind, denom |-> j.denom, gen |-> j.gen, frame |-> frame,
                       outcome |-> IF frame = None THEN "nothing" ELSE Decoded(j)]
    /\ image' = [image EXCEPT ![work.kind] = None]
    /\ UNCHANGED <<jobState, job, work, pc, cam, acted, gen, scan, nav, scene, session>>

Finish ==
    /\ wpc = "done" /\ wpc' = "spin" /\ jobState' = "DONE"
    /\ UNCHANGED <<job, image, results, work, pc, cam, acted, gen, scan, nav, scene, session>>

-----------------------------------------------------------------------------
CameraLoop == Capture \/ Collect \/ Borrow \/ Fill \/ Stamp \/ Publish
Worker == Take \/ Load \/ Decode \/ Finish
User == (\E s \in CameraScreens : Enter(s)) \/ Back \/ HomeOrWipe \/ Repaint \/ MoveCode

Next == User \/ CutShort \/ CameraLoop \/ Worker

\* The main loop runs a cycle on every turn it spends on a camera screen, and
\* core 1 does nothing but this loop.  That a frame arrives in the end, and
\* not a stall in every cycle, is an assumption on the sensor.
Fairness == WF_vars(CameraLoop) /\ WF_vars(Worker)

Spec == Init /\ [][Next]_vars /\ Fairness

-----------------------------------------------------------------------------
(* The four states of JOB_STATE mean what the head of decode_core.rs says: *)
(* IDLE, core 0 owns the buffer and there is no result; READY, parameters  *)
(* and image are complete; BUSY, core 1 is at work and nobody else; DONE,  *)
(* a result is there.                                                      *)
Ownership ==
    /\ pc \in {"fill", "stamp", "publish"} => jobState = "IDLE"
    /\ wpc # "spin" <=> jobState = "BUSY"
    /\ jobState \in {"IDLE", "READY"} => results = NoResult
    /\ jobState = "READY" => image[job.kind] \in Frames
    /\ wpc = "decode" => work = job /\ image[work.kind] \in Frames
    /\ jobState = "DONE" => results.frame \in Frames

(* Whatever order the two cores run in, the hand-off is the one-place      *)
(* service of DecodeService: no job is lost, answered twice, or answered   *)
(* with another one's image, window or generation.                         *)
Slot ==
    IF jobState = "IDLE" THEN [phase |-> "empty"]
    ELSE IF results # NoResult
    THEN [phase |-> "answered",
          job |-> [kind |-> results.kind, denom |-> results.denom, gen |-> results.gen,
                   frame |-> results.frame],
          outcome |-> results.outcome]
    ELSE [phase |-> "asked",
          job |-> [kind |-> job.kind, denom |-> job.denom, gen |-> job.gen,
                   frame |-> image[job.kind]]]

Service == INSTANCE DecodeService WITH slot <- Slot
ServiceSpec == Service!Spec

(* A result computed from a frame of an earlier scan session is dropped,   *)
(* whatever happened to the job in between, unless the one-byte generation *)
(* came full circle while the result waited.                               *)
ReplayFree ==
    acted # None => \/ acted.session = session
                    \/ session - acted.session >= Gens

(* What is acted on while ScanQR is up was in front of the camera during   *)
(* this visit to ScanQR: a code scanned before the user went away does not *)
(* fire again when the user comes back.                                    *)
ScanVisit ==
    [][acted = None /\ acted' # None /\ screen = "ScanQR"
       => acted'.visit = visit \/ session - acted'.session >= Gens]_vars

(* A full-resolution pass, too slow for an animation, is never under way   *)
(* or left owing while one is being received.                              *)
NoFullPassInStream ==
    /\ jobState # "IDLE" /\ job.kind = "ESC" => ~scan.mf
    /\ pc = "between" => ~scan.pending

(* A code that stays in front of ScanQR is read in the end if there is any *)
(* resolution and window that reads it: the two adaptations (windows and   *)
(* full passes) starve no combination.                                     *)
Looking(c) == screen = "ScanQR" /\ scene = c /\ ~tune /\ ~scan.mf
ReadInTheEnd ==
    \A c \in Codes : c.reads # {} => (Looking(c) ~> (~Looking(c) \/ (acted # None /\ acted.code = c)))

(* decode_core.rs: a result of the previous session is dropped instead of  *)
(* re-firing the previous QR's action on re-entry.                         *)
NoRefireOnReentry == acted # None => acted.visit = visit

(* camera_loop.rs: decoding is skipped when cam-tune is active, on the     *)
(* Camera Settings screen; main.rs: ScanQR is "normal decode".             *)
ScanScreenDecodes == screen = "ScanQR" => ~tune
====
