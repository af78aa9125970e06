------------------------------- MODULE Device -------------------------------
(***************************************************************************)
(* The device as its user meets it: every screen, every touch, the home    *)
(* corner, the camera, the idle wipe and what the main loop does by itself *)
(* (main.rs), over the handlers of the single screens.                     *)
(*                                                                         *)
(* The board is the one with back and home buttons drawn on the camera     *)
(* screen (feature `waveshare`).                                           *)
(***************************************************************************)
EXTENDS SdHandler, MenuHandler, ExportHandler, TxHandler

\* The main menu is in every theme: home, the idle wipe and errors lead there.
ASSUME ScopeAssumption == \A t \in Themes : "MainMenu" \in Scope(t)

DeviceInit ==
  /\ \E k \in Kinds \cup {None} : ad = [InitAd EXCEPT !.seed = k]
  /\ \E t \in Themes : hist = [InitHist EXCEPT !.theme = t]

\* Every error is shown on one screen.
Rejected(back) == Menu(back, "Rejected", "MainMenu", {"MainMenu"})

TouchMenus(back) ==
  \/ SeedsMenu(back) \/ ToolsMenu(back) \/ SeedToolsMenu(back)
  \/ ImportExportChoice(back) \/ ImportMenu(back) \/ SingleSigMenu(back) \/ MultisigMenu(back)
  \/ DiceRoll(back) \/ TouchEntropy(back) \/ ChooseWordCount(back)
  \/ SettingsMenu(back) \/ DisplaySettings(back) \/ SdCardSettings(back) \/ About(back)
  \/ CameraSettings(back) \/ Rejected(back)

TouchSeeds(back) ==
  \/ Bip85Index(back) \/ Bip85ShowWord(back) \/ ImportPrivKey(back) \/ ImportWord(back)
  \/ CalcLastWord(back) \/ PassphraseEntry(back) \/ SeedList(back) \/ ConfirmDeleteSeed(back)

TouchFrames(back) ==
  \/ ShowQrFrameChoice(back) \/ ShowQrDensityChoice(back) \/ ShowQrModeChoice(back)
  \/ ShowQR(back) \/ ShowQrPopup(back) \/ CovBackupName(back)

TouchExport(back) ==
  \/ SeedBackup(back) \/ ShowAddress(back) \/ ShowAddressQR(back) \/ AddrIndexPicker(back)
  \/ ExportSeedQR(back) \/ ExportCompactSeedQR(back) \/ SeedQrGrid(back)
  \/ ExportPlainWordsQR(back) \/ QrExportMenu(back) \/ ExportKpub(back)
  \/ ExportKpubFrameCount(back) \/ ExportKpubModeChoice(back) \/ KpubScannedPopup(back)
  \/ ExportKpubPopup(back) \/ ExportChoice(back) \/ SeedBackupMenu(back) \/ WatchOnlyMenu(back)
  \/ SigningKeysMenu(back) \/ XprvExportMenu(back) \/ ExportXprv(back)
  \/ ExportPrivKeyIndex(back) \/ ExportPrivKey(back)

TouchTx(back) ==
  \/ SignTxGuide(back) \/ ScanQR(back) \/ ReviewTx(back) \/ ReviewCovenant(back)
  \/ ConfirmTx(back) \/ SigningShown(back)

TouchMultisig(back) ==
  \/ MultisigChooseMN(back) \/ MultisigAddKey(back) \/ MultisigKpubWarn(back)
  \/ MultisigPickSeed(back) \/ MultisigShowAddress(back) \/ MultisigShowAddressQR(back)
  \/ MultisigSaveAddrAsk(back) \/ MultisigDescriptor(back)

TouchMessages(back) ==
  \/ SignMsgChoice(back) \/ SignMsgType(back) \/ SignMsgFile(back) \/ SignMsgPreview(back)
  \/ SignMsgHashPreview(back) \/ SignMsgResult(back) \/ SignMsgResultQr(back)
  \/ CommitRevealType(back) \/ CommitRevealPreview(back) \/ CommitRevealResult(back)
  \/ CommitRevealResultQr(back) \/ DecryptSecretScan(back) \/ DecryptSecretResult(back)
  \/ DecryptSecretResultQr(back)

TouchCard(back) ==
  \/ SdBackupWarning(back) \/ SdSeedFilename(back) \/ SdBackupPassphrase(back)
  \/ SdXprvFilename(back) \/ SdXprvExportPassphrase(back) \/ SdSigFilename(back)
  \/ SdImportMenu(back) \/ SdFileList(back) \/ SdKsptFileList(back) \/ SdKpubFileList(back)
  \/ SdDeleteConfirm(back) \/ SdRestorePassphrase(back) \/ SdXprvFileList(back)
  \/ SdXprvImportPassphrase(back) \/ SdKsptFilename(back) \/ SdKpubFilename(back)
  \/ SdMsAddrFilename(back) \/ SdMsDescFilename(back) \/ SdKsptEncryptAsk(back)
  \/ SdMsAddrEncryptAsk(back) \/ SdMsDescEncryptAsk(back) \/ SdKpubEncryptAsk(back)
  \/ SdKsptEncryptPass(back) \/ SdOverwriteWarning(back)

TouchStego(back) ==
  \/ StegoModeSelect(back) \/ StegoJpegPick(back) \/ StegoJpegDescChoice(back)
  \/ StegoJpegDescFile(back) \/ StegoJpegDesc(back) \/ StegoJpegDescPreview(back)
  \/ StegoJpegPpAsk(back) \/ StegoJpegPpInfo(back) \/ StegoJpegPpEntry(back)
  \/ StegoJpegConfirm(back) \/ StegoResult(back) \/ StegoImportPick(back)
  \/ StegoImportDescChoice(back) \/ StegoImportDescFile(back) \/ StegoImportPass(back)
  \/ StegoHintReveal(back) \/ StegoHintPassphrase(back)

Handled(back) ==
  \/ TouchMenus(back) \/ TouchSeeds(back) \/ TouchFrames(back) \/ TouchExport(back)
  \/ TouchTx(back) \/ TouchMultisig(back) \/ TouchMessages(back) \/ TouchCard(back)
  \/ TouchStego(back)

\* A backup waits to be written and its naming screen was left: the main loop
\* gets to it before the next touch.
CovPending == ad.covb /\ ~At("CovBackupName")

Touch(back) ==
  /\ ~CovPending /\ ~At("MainMenu")
  /\ Handled(back)
  /\ ad'.screen \in Scope(hist'.theme)

(* The main menu is left, at most MaxVisits times.   What every way to its   *)
(* reader sets anew is forgotten here, so that states differ only in what a *)
(* later screen can read.                                                   *)
Forgotten == [ad EXCEPT !.owNext = "MainMenu", !.owBack = "MainMenu", !.pickedKsp = FALSE,
                        !.list = None, !.txt = "kpub", !.keyIdx = 0, !.scanned = FALSE]
LeaveMainMenu ==
  /\ hist.visits < MaxVisits(hist.theme) /\ ~CovPending
  /\ At("MainMenu")
  /\ \E s \in MainMenu : ad' = [Forgotten EXCEPT !.screen = s]
  /\ hist' = [InitHist EXCEPT !.theme = hist.theme, !.visits = hist.visits + 1]
  /\ ad'.screen \in Scope(hist'.theme)

\* Some key of the keyboard.
Type ==
  /\ AtOneOf(NameScreens \cup PassScreens \cup TextScreens)
  /\ ad' = [ad EXCEPT !.pp = "text"]
  /\ UNCHANGED hist

\* The home corner leads to the main menu from almost everywhere and resets
\* nothing.
NoHome == {"ScanQR", "DecryptSecretScan", "ShowQR", "ShowAddressQR",
           "MultisigShowAddressQR", "ExportKpub", "ExportSeedQR",
           "ExportCompactSeedQR", "MainMenu", "Signing"}
Home ==
  /\ ~AtOneOf(NoHome) /\ ~CovPending
  /\ ad.covb => "home from a backup's name" \in Detours
  /\ Go("MainMenu")
  /\ UNCHANGED hist

Scan ==
  /\ ~CovPending
  /\ ProcessConfirmedQr
  /\ ad'.screen \in Scope(hist'.theme)

\* Left alone, the device forgets its wallets and what was being signed.
IdleWipe ==
  /\ SeedLoaded /\ ~CovPending
  /\ ad.covb => "home from a backup's name" \in Detours
  /\ ad' = [ad EXCEPT !.seed = None, !.text = None, !.hash = None, !.pp = "empty",
                      !.screen = "MainMenu"]
  /\ UNCHANGED hist

\* The backup goes into the file named by entry 0 of the list: the typed name,
\* or, when the entry is blank, a name made of its bytes.
CovSave ==
  /\ CovPending
  /\ ad' = [ad EXCEPT !.covb = FALSE, !.first = "blank"]
  /\ WriteAtOnce(ad.buf.kind, "cov", ad.first)

Rest == At("MainMenu") /\ hist.visits = MaxVisits(hist.theme) /\ UNCHANGED deviceVars

DeviceNext ==
  \/ LeaveMainMenu \/ Type \/ Home \/ Scan \/ IdleWipe \/ CovSave \/ Rest
  \/ \E back \in BOOLEAN : Touch(back)

DeviceSpec == DeviceInit /\ [][DeviceNext]_deviceVars

-----------------------------------------------------------------------------
(***************************************************************************)
(* Properties                                                              *)
(***************************************************************************)

\* The fields hold what their types allow.
FieldsTyped ==
  /\ ad.screen \in Scope(hist.theme) /\ ad.seed \in Kinds \cup {None}
  /\ ad.pp \in {"empty", "name", "text"} /\ ad.file \in {None, "KAS", "KSP", "TXT"}
  /\ ad.kpub \in {None, "kpub", "raw", "addr"} /\ ad.keyIdx \in Cosigners
  /\ ad.kuser \in 0 .. 2 /\ ad.kn \in 0 .. 2 /\ ad.nframes \in 0 .. TooLong

\* What is written to the card is what the user was asked to name, encrypted if
\* he asked for it: the buffers and the flags are shared by every flow that ends
\* in a file.  It replaces a file only with his consent, with the one exception
\* the code makes: a message's signature and a covenant's backup replace, without
\* a question, the file whose name he typed for them, and no other.
UnaskedKinds == {"sig", "cov"}
SavedIsAsked ==
  \A w \in hist.written :
    /\ w.kind = w.named /\ w.enc = w.secret
    /\ w.exists /\ ~w.agreed => w.named \in UnaskedKinds /\ w.name = "typed"

\* The same without the exception, which is what the question of SdOverwriteWarning
\* is for (the change log: "prompts before overwriting existing files").  The code
\* does not keep it.
NeverOverUnasked == \A w \in hist.written : w.exists => w.agreed

\* What is exported as a public key is one, in the form the readers know.
KpubDerived == AtOneOf({"ExportKpubFrameCount", "ExportKpub"}) => ad.kpub = "kpub"

\* A count of frames is never that of an earlier payload or density.
FramesFit ==
  /\ At("ShowQR") /\ ad.nframes > 0 => ad.nframes = FramesOf(ad.buf, ad.safe)
  /\ At("ExportKpub") /\ ad.kpub # None => ad.kn = ad.kuser

\* What is shown in frames is there, whole, and of the shown payload.
ShownWhole == FieldsTyped /\ KpubDerived /\ FramesFit

\* A wallet in use has its script: every place is filled, by different keys.
WalletsBuilt ==
  ad.ms.active => /\ ad.ms.built /\ Buildable(ad.ms)
                  /\ ~HasCosigner(ad.ms, Nobody)

\* The text on the screen is the text whose hash is signed.
PreviewIsSigned == At("SignMsgPreview") => ad.text = ad.hash
=============================================================================
