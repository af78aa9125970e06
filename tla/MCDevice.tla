------------------------------ MODULE MCDevice ------------------------------
(***************************************************************************)
(* Instances of Device: groups of screens, and the scopes made of them.    *)
(***************************************************************************)
EXTENDS Device

Menus ==
  {"MainMenu", "Rejected", "SeedsMenu", "ToolsMenu", "SeedToolsMenu",
   "ImportExportChoice", "ImportMenu", "SingleSigMenu", "MultisigMenu",
   "SettingsMenu", "DisplaySettings", "CameraSettings", "SdCardSettings",
   "About"}
Seeds ==
  {"ChooseWordCount", "DiceRoll", "TouchEntropy", "ImportWord",
   "CalcLastWord", "ImportPrivKey", "Bip85Index", "Bip85ShowWord",
   "PassphraseEntry", "SeedBackup", "SeedList", "ConfirmDeleteSeed",
   "ShowAddress", "ShowAddressQR", "AddrIndexPicker"}
Frames ==
  {"ShowQrFrameChoice", "ShowQrDensityChoice", "ShowQrModeChoice", "ShowQR",
   "ShowQrPopup"}
Signs ==
  {"ScanQR", "ReviewTx", "ReviewCovenant", "ConfirmTx", "Signing",
   "SignTxGuide"}
Multisig ==
  {"MultisigChooseMN", "MultisigAddKey", "MultisigKpubWarn",
   "MultisigPickSeed", "MultisigShowAddress", "MultisigShowAddressQR",
   "MultisigSaveAddrAsk", "MultisigDescriptor"}
Messages ==
  {"SignMsgChoice", "SignMsgType", "SignMsgFile", "SignMsgPreview",
   "SignMsgHashPreview", "SignMsgResult", "SignMsgResultQr",
   "SdSigFilename", "CommitRevealType", "CommitRevealPreview",
   "CommitRevealResult", "CommitRevealResultQr", "DecryptSecretScan",
   "DecryptSecretResult", "DecryptSecretResultQr"}
Kpubs ==
  {"ExportChoice", "WatchOnlyMenu", "ExportKpub", "ExportKpubFrameCount",
   "ExportKpubModeChoice", "ExportKpubPopup", "KpubScannedPopup"}
Keys ==
  {"SeedBackupMenu", "SigningKeysMenu", "XprvExportMenu", "ExportXprv",
   "ExportPrivKeyIndex", "ExportPrivKey", "QrExportMenu", "ExportSeedQR",
   "ExportCompactSeedQR", "SeedQrGrid", "ExportPlainWordsQR",
   "SdBackupWarning", "SdSeedFilename", "SdBackupPassphrase",
   "SdXprvFilename", "SdXprvExportPassphrase", "SdOverwriteWarning"}
Loads ==
  {"SdImportMenu", "SdFileList", "SdKsptFileList", "SdKpubFileList",
   "SdDeleteConfirm", "SdRestorePassphrase", "SdXprvFileList",
   "SdXprvImportPassphrase"}
Saves ==
  {"SdKsptFilename", "SdKpubFilename", "SdMsAddrFilename",
   "SdMsDescFilename", "SdKsptEncryptAsk", "SdMsAddrEncryptAsk",
   "SdMsDescEncryptAsk", "SdKpubEncryptAsk", "SdKsptEncryptPass",
   "SdOverwriteWarning", "CovBackupName"}
Pictures ==
  {"StegoModeSelect", "StegoJpegPick", "StegoJpegDescChoice",
   "StegoJpegDescFile", "StegoJpegDesc", "StegoJpegDescPreview",
   "StegoJpegPpAsk", "StegoJpegPpInfo", "StegoJpegPpEntry",
   "StegoJpegConfirm", "StegoResult", "StegoImportPick",
   "StegoImportDescChoice", "StegoImportDescFile", "StegoImportPass",
   "StegoHintReveal", "StegoHintPassphrase"}

Basic == {"MainMenu", "Rejected", "ToolsMenu", "ImportExportChoice", "ImportMenu",
          "SingleSigMenu", "ScanQR", "SeedsMenu", "SeedList"}

Save(naming, question) == {naming, question, "SdOverwriteWarning", "SdKsptEncryptPass"}
SaveWallet == Save("SdMsAddrFilename", "SdMsAddrEncryptAsk")
                \cup Save("SdMsDescFilename", "SdMsDescEncryptAsk")

MCThemes == {"card", "kpubs", "keys", "ceremony", "descriptors", "messages", "wallets"}
MCVisits(t) == CASE t \in {"card", "kpubs", "descriptors"} -> 1 [] OTHER -> 3
MCScope(t) ==
  CASE t = "card" -> Basic \cup Frames \cup Signs \cup Loads \cup {"CovBackupName", "MultisigShowAddress"}
                       \cup Save("SdKsptFilename", "SdKsptEncryptAsk")
    [] t = "kpubs" -> Basic \cup Kpubs \cup Save("SdKpubFilename", "SdKpubEncryptAsk")
                        \cup {"SdImportMenu", "SdKpubFileList", "SdDeleteConfirm",
                              "SignTxGuide"}
    [] t = "keys" -> Basic \cup Keys \cup {"ExportChoice", "SeedBackup", "SdImportMenu",
                        "SdFileList", "SdRestorePassphrase", "SdXprvFileList",
                        "SdXprvImportPassphrase", "PassphraseEntry"}
    [] t = "ceremony" -> Multisig \cup SaveWallet
                           \cup {"MainMenu", "ToolsMenu", "MultisigMenu", "ScanQR",
                                 "SeedToolsMenu", "ChooseWordCount", "PassphraseEntry"}
    [] t = "descriptors" -> Multisig \cup SaveWallet
                              \cup {"MainMenu", "ToolsMenu", "ImportExportChoice",
                                    "ImportMenu", "SdImportMenu", "SdKpubFileList",
                                    "ShowQR", "ShowQrModeChoice", "ShowQrPopup",
                                    "AddrIndexPicker"}
    [] t = "messages" -> Basic \cup Messages \cup Pictures \cup {"ExportChoice"}
    [] t = "wallets" -> Menus \cup Seeds \cup {"ScanQR"}
=============================================================================
