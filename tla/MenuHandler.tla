---------------------------- MODULE MenuHandler ----------------------------
(***************************************************************************)
(* The menus, the choice of frames and density, and the showing of a       *)
(* payload in frames (handlers/menu.rs), the settings, and the screens on  *)
(* which wallets are entered.  The icon browser is behind a build feature  *)
(* and is left out.                                                        *)
(***************************************************************************)
EXTENDS AppData

WithSeed(screens) == IF SeedLoaded THEN screens ELSE {}

\* The tiles of the main menu.
MainMenu == {"ScanQR", "SeedsMenu", "ToolsMenu", "SettingsMenu"}

SeedsMenu(back) == Menu(back, "SeedsMenu", "MainMenu", {"SeedList"})

ToolsMenu(back) ==
  Menu(back, "ToolsMenu", "MainMenu",
       {"SeedToolsMenu", "ImportExportChoice", "SingleSigMenu", "MultisigMenu"})

\* ShowAddress remembers who opened it.
OpenAddress(from) == ad' = [ad EXCEPT !.scanned = FALSE, !.addrReturn = from,
                                      !.screen = "ShowAddress"]

SeedToolsMenu(back) ==
  /\ At("SeedToolsMenu")
  /\ UNCHANGED hist
  /\ \/ back /\ Go("ToolsMenu")
     \/ ~back /\ Go("ChooseWordCount")
     \/ ~back /\ SeedLoaded /\ OpenAddress("SeedToolsMenu")

ImportExportChoice(back) ==
  Menu(back, "ImportExportChoice", "ToolsMenu", {"ImportMenu"} \cup WithSeed({"ExportChoice"}))

ImportMenu(back) ==
  \/ Menu(back, "ImportMenu", "ImportExportChoice",
          {"SdImportMenu", "StegoImportPick", "ImportPrivKey"})
  \/ /\ At("ImportMenu")
     /\ ~back
     /\ ad' = [ad EXCEPT !.list = "cov", !.first = "file", !.screen = "SdFileList"]
     /\ UNCHANGED hist

\* Messages and commitments begin with an empty line and no text.
SingleSigMenu(back) ==
  \/ Menu(back, "SingleSigMenu", "ToolsMenu", {"SignTxGuide"})
  \/ /\ At("SingleSigMenu") /\ ~back /\ SeedLoaded
     /\ \/ ad' = [ad EXCEPT !.text = None, !.screen = "DecryptSecretScan"]
        \/ \E s \in {"SignMsgChoice", "CommitRevealType"} :
             ad' = [ad EXCEPT !.pp = "empty", !.text = None, !.screen = s]
     /\ UNCHANGED hist

MultisigMenu(back) ==
  /\ At("MultisigMenu")
  /\ UNCHANGED hist
  /\ \/ back /\ Go("ToolsMenu")
     \/ ~back /\ ad' = [ad EXCEPT !.ms = NoWallet, !.screen = "MultisigChooseMN"]

(* ---- New words ---- *)

\* The words are there: the passphrase is asked for.
AskPassphrase == ad' = [ad EXCEPT !.pp = "empty", !.screen = "PassphraseEntry"]

DiceRoll(back) ==
  /\ At("DiceRoll")
  /\ UNCHANGED hist
  /\ \/ back /\ Go("ToolsMenu")
     \/ ~back /\ AskPassphrase

\* The pad fills by itself (main.rs); it has no handler and no back.
TouchEntropy(back) ==
  /\ At("TouchEntropy")
  /\ ~back
  /\ AskPassphrase
  /\ UNCHANGED hist

\* Eight captures of the camera, each compared with the one before it: what
\* the comparisons showed, nothing when fewer than two captures came.
CameraNoise == SUBSET {"live", "still"}

\* The motion sensor, read before the camera is powered and after: the
\* readings there were, none on the board without it.
MotionNoise == SUBSET {"healthy", "frozen"}

\* Words are drawn from all of these and the chip's own registers, which
\* cannot pass alone: every comparison of the camera must be live and there
\* must be one, or some reading of the motion sensor must be healthy.
EntropyGate ==
  \E deltas \in CameraNoise, readings \in MotionNoise :
    IF deltas = {"live"} \/ "healthy" \in readings THEN AskPassphrase
    ELSE Go("ToolsMenu")

\* The other ways to come by words, each on a screen of its own.
WordScreens == {"TouchEntropy", "DiceRoll", "ImportWord", "CalcLastWord"}
                 \cup WithSeed({"Bip85Index"})

\* What the words are wanted for was chosen one screen earlier.
ChooseWordCount(back) ==
  \/ Menu(back, "ChooseWordCount", "SeedToolsMenu", WordScreens)
  \/ At("ChooseWordCount") /\ ~back /\ EntropyGate /\ UNCHANGED hist

(* ---- A payload in frames ---- *)

\* For a phone, or for another device: then the density is asked for.
ShowQrFrameChoice(back) ==
  /\ At("ShowQrFrameChoice")
  /\ UNCHANGED hist
  /\ \/ /\ back
        /\ ad' = [ad EXCEPT !.nframes = 0, !.safe = FALSE, !.viaDensity = FALSE,
                            !.screen = "MainMenu"]
     \/ /\ ~back
        /\ ad' = Redrawn([ad EXCEPT !.nframes = 0, !.safe = FALSE, !.viaDensity = FALSE,
                                    !.screen = "ShowQR"])
     \/ /\ ~back
        /\ ad' = [ad EXCEPT !.nframes = 0, !.viaDensity = TRUE,
                            !.screen = "ShowQrDensityChoice"]

\* A density at which the payload takes too many frames is refused here.
DensityFits(safe) == FramesOf(ad.buf, safe) <= TooLong

ShowQrDensityChoice(back) ==
  /\ At("ShowQrDensityChoice")
  /\ UNCHANGED hist
  /\ \/ /\ back
        /\ ad' = [ad EXCEPT !.nframes = 0, !.safe = FALSE, !.viaDensity = FALSE,
                            !.screen = "ShowQrFrameChoice"]
     \/ \E safe \in BOOLEAN :
          /\ ~back
          /\ DensityFits(safe)
          /\ ad' = Redrawn([ad EXCEPT !.nframes = 0, !.safe = safe, !.screen = "ShowQR"])

\* By hand a touch shows the next frame; after the last one, or at any touch
\* of an automatic show, the user is asked what next.  Back is not special.
ShowQR(back) ==
  /\ At("ShowQR")
  /\ UNCHANGED hist
  /\ Go(IF ad.buf.kind = None THEN "MainMenu" ELSE "ShowQrPopup")

\* The main loop writes the backup as soon as this screen is left.
CovBackupName(back) ==
  /\ At("CovBackupName")
  /\ UNCHANGED hist
  /\ ad' = IF back THEN [ad EXCEPT !.pp = "empty", !.covb = FALSE, !.screen = "MainMenu"]
           ELSE [ad EXCEPT !.first = "typed", !.pp = "empty", !.screen = "MainMenu"]

-----------------------------------------------------------------------------
(***************************************************************************)
(* The settings (handlers/settings.rs).  They touch nothing the other      *)
(* screens share; formatting and testing the card is Fat32Save's subject.  *)
(***************************************************************************)
SettingsMenu(back) ==
  Menu(back, "SettingsMenu", "MainMenu",
       {"DisplaySettings", "CameraSettings", "SdCardSettings", "About"})

DisplaySettings(back) == Menu(back, "DisplaySettings", "SettingsMenu", {"DisplaySettings"})
SdCardSettings(back) == Menu(back, "SdCardSettings", "SettingsMenu", {"SdCardSettings"})
About(back) == Menu(back, "About", "SettingsMenu", {"SettingsMenu"})
CameraSettings(back) == Menu(back, "CameraSettings", "SettingsMenu", {"CameraSettings"})

-----------------------------------------------------------------------------
(***************************************************************************)
(* The screens on which a wallet is entered, derived, chosen or deleted    *)
(* (handlers/seed.rs), as far as they lead from screen to screen: which    *)
(* keys are loaded is the subject of SeedSession.  Here a wallet is its    *)
(* kind, and any other filled slot holds a wallet of any kind.             *)
(***************************************************************************)
Bip85Index(back) ==
  Menu(back, "Bip85Index", "SeedToolsMenu",
       IF ~SeedLoaded THEN {}
       ELSE IF ad.seed = "words" THEN {"Bip85ShowWord"} ELSE {"SeedToolsMenu"})

Bip85ShowWord(back) ==
  Menu(back, "Bip85ShowWord", "SeedToolsMenu", {"Bip85ShowWord", "SeedToolsMenu"})

\* A private key in hex; one that does not parse stays on the screen.
ImportPrivKey(back) ==
  /\ At("ImportPrivKey")
  /\ UNCHANGED hist
  /\ \/ back /\ Go("ImportMenu")
     \/ ~back /\ ad' = [ad EXCEPT !.seed = "raw", !.screen = "SeedsMenu"]

\* Words typed one by one, the last one typed or computed.
WordsEntered(back, screen) ==
  /\ At(screen)
  /\ UNCHANGED hist
  /\ \/ Go("SeedToolsMenu")
     \/ ~back /\ ad' = [ad EXCEPT !.pp = "empty", !.screen = "PassphraseEntry"]

ImportWord(back) == WordsEntered(back, "ImportWord")
CalcLastWord(back) == WordsEntered(back, "CalcLastWord")

(* The passphrase completes the words: they go into a slot, if one is free, *)
(* and are shown for backup, or, in a multisig ceremony, are offered as the *)
(* next cosigner.                                                           *)
PassphraseEntry(back) ==
  LET a == [ad EXCEPT !.pp = "empty"]
  IN  /\ At("PassphraseEntry")
      /\ UNCHANGED hist
      /\ \/ ad' = [a EXCEPT !.screen = "SeedToolsMenu"]
         \/ /\ ~back /\ Collecting
            /\ ad' = [a EXCEPT !.seed = "words", !.keyIdx = FirstEmpty(ad.ms),
                               !.screen = "MultisigPickSeed"]
         \/ /\ ~back /\ ~Collecting
            /\ ad' = [a EXCEPT !.seed = "words", !.backupReturn = "SeedToolsMenu",
                               !.screen = "SeedBackup"]

SeedList(back) ==
  /\ At("SeedList")
  /\ UNCHANGED hist
  /\ \/ back /\ Go("MainMenu")
     \/ ~back /\ Go("ToolsMenu")                        \* an empty row
     \/ ~back /\ ~SeedLoaded /\ Go("SeedToolsMenu")
     \/ /\ ~back /\ SeedLoaded
        /\ \/ ad' = [ad EXCEPT !.scanned = FALSE, !.addrReturn = "SeedList",
                               !.screen = "ShowAddress"]
           \/ Go(IF ad.seed = "raw" THEN "ExportPrivKey" ELSE "ExportChoice")
           \/ Go("ConfirmDeleteSeed")
           \/ \E k \in Kinds : ad' = [ad EXCEPT !.seed = k]

\* Whatever is answered, the list comes back; after a deletion another slot is
\* selected, or none is left.
ConfirmDeleteSeed(back) ==
  /\ At("ConfirmDeleteSeed")
  /\ \E k \in {ad.seed} \cup (IF back THEN {} ELSE Kinds \cup {None}) :
       ad' = [ad EXCEPT !.seed = k, !.screen = "SeedList"]
  /\ UNCHANGED hist
=============================================================================
