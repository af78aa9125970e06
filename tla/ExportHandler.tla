--------------------------- MODULE ExportHandler ---------------------------
(***************************************************************************)
(* Addresses, backups of the words and the public and private keys a       *)
(* wallet gives out (handlers/export.rs), and the words in a picture.      *)
(***************************************************************************)
EXTENDS AppData

SeedBackup(back) ==
  /\ At("SeedBackup")
  /\ UNCHANGED hist
  /\ \/ back /\ Go(ad.backupReturn)
     \/ /\ ~back
        /\ Go(IF ad.backupReturn = "SeedToolsMenu" THEN "SeedList" ELSE ad.backupReturn)

\* A scanned address has no index to choose, nor has a raw key.
ShowAddress(back) ==
  /\ At("ShowAddress")
  /\ UNCHANGED hist
  /\ \/ back /\ ad' = [ad EXCEPT !.scanned = FALSE, !.screen = ad.addrReturn]
     \/ ~back /\ Go("ShowAddressQR")
     \/ ~back /\ ad.seed # "raw" /\ ~ad.scanned /\ Go("AddrIndexPicker")

ShowAddressQR(back) == Menu(back, "ShowAddressQR", "ShowAddress", {"ShowAddress"})

\* One picker for both lists of addresses: ms_picking_key says whose it is.
AddrIndexPicker(back) ==
  /\ At("AddrIndexPicker")
  /\ UNCHANGED hist
  /\ ad' = [ad EXCEPT !.picking = FALSE,
                      !.screen = IF ad.picking THEN "MultisigShowAddress" ELSE "ShowAddress"]

(* ---- Words as QR codes ---- *)

ExportSeedQR(back) == Menu(back, "ExportSeedQR", "SeedQrGrid", {"SeedQrGrid"})
ExportCompactSeedQR(back) == Menu(back, "ExportCompactSeedQR", "SeedQrGrid", {"SeedQrGrid"})
SeedQrGrid(back) == Menu(back, "SeedQrGrid", "SeedBackupMenu", {"SeedQrGrid"})
ExportPlainWordsQR(back) == Menu(back, "ExportPlainWordsQR", "QrExportMenu", {"QrExportMenu"})

QrExportMenu(back) ==
  Menu(back, "QrExportMenu", "SeedBackupMenu",
       {"ExportPlainWordsQR"}
         \cup (IF ad.seed = "xprv" THEN {} ELSE {"ExportCompactSeedQR", "ExportSeedQR"}))

(* ---- The public key ---- *)

NoKpubFrames(a) == [a EXCEPT !.kn = 0, !.kuser = 0]

\* By hand, a touch before the last frame shows the next one.
ExportKpub(back) == Menu(back, "ExportKpub", "ExportKpubPopup", {"ExportKpubPopup"})

\* One frame for a phone, two for another device.
ExportKpubFrameCount(back) ==
  /\ At("ExportKpubFrameCount")
  /\ UNCHANGED hist
  /\ \/ back /\ ad' = [NoKpubFrames(ad) EXCEPT !.screen = ad.kpubReturn]
     \/ \E n \in {1, 2} :
          ~back /\ ad' = Redrawn([ad EXCEPT !.kuser = n, !.screen = "ExportKpub"])

ExportKpubModeChoice(back) ==
  /\ At("ExportKpubModeChoice")
  /\ UNCHANGED hist
  /\ \/ back /\ ad' = [NoKpubFrames(ad) EXCEPT !.screen = "ExportKpubFrameCount"]
     \/ ~back /\ ad' = Redrawn([ad EXCEPT !.screen = "ExportKpub"])

\* A public key was scanned: show it on, or save it (no name is suggested).
KpubScannedPopup(back) ==
  /\ At("KpubScannedPopup")
  /\ \/ back /\ Go("MainMenu") /\ UNCHANGED hist
     \/ /\ ~back
        /\ ad' = Redrawn([NoKpubFrames(ad) EXCEPT !.screen = "ExportKpub"])
        /\ UNCHANGED hist
     \/ ~back /\ Naming("SdKpubFilename", ad.file, "empty", "kpub")

ExportKpubPopup(back) ==
  /\ At("ExportKpubPopup")
  /\ \/ /\ back
        /\ ad' = [NoKpubFrames(ad) EXCEPT !.screen = "ExportKpubFrameCount"]
        /\ UNCHANGED hist
     \/ ~back /\ Naming("SdKpubFilename", "TXT", "name", "kpub")
     \/ /\ ~back
        /\ ad' = Redrawn([ad EXCEPT !.screen = "ExportKpub"])
        /\ UNCHANGED hist

(* ---- Menus ---- *)

ExportChoice(back) ==
  Menu(back, "ExportChoice", "SeedList",
       {"SeedBackupMenu", "WatchOnlyMenu", "SigningKeysMenu"}
         \cup (IF SeedLoaded THEN {"StegoModeSelect"} ELSE {}))

SeedBackupMenu(back) ==
  \/ Menu(back, "SeedBackupMenu", "ExportChoice", {"QrExportMenu", "SdBackupWarning"})
  \/ /\ At("SeedBackupMenu") /\ ~back /\ ad.seed # "xprv"
     /\ ad' = [ad EXCEPT !.backupReturn = "SeedBackupMenu", !.screen = "SeedBackup"]
     /\ UNCHANGED hist

\* The key is derived first: words and extended keys have one.
Derives == ad.seed \in {"words", "xprv"}

\* The key of a cosigner is a hardened branch beside it: only words lead there.
DerivesCosigner == ad.seed = "words"

KpubShown ==
  /\ ad' = Redrawn([NoKpubFrames(ad) EXCEPT !.kpub = "kpub", !.kpubReturn = "WatchOnlyMenu",
                                            !.screen = "ExportKpub"])
  /\ UNCHANGED hist

\* To the card under a name of its own.
KpubNamed ==
  /\ ad' = [ad EXCEPT !.kpub = "kpub", !.screen = "SdKpubFilename", !.file = "TXT", !.pp = "name"]
  /\ Named("kpub")

WatchOnlyMenu(back) ==
  /\ At("WatchOnlyMenu")
  /\ \/ back /\ Go("ExportChoice") /\ UNCHANGED hist
     \/ ~back /\ (Derives \/ DerivesCosigner) /\ KpubShown
     \/ ~back /\ Derives /\ KpubNamed

SigningKeysMenu(back) ==
  Menu(back, "SigningKeysMenu", "ExportChoice", {"XprvExportMenu", "ExportPrivKeyIndex"})

XprvExportMenu(back) ==
  \/ Menu(back, "XprvExportMenu", "SigningKeysMenu", IF Derives THEN {"ExportXprv"} ELSE {})
  \/ /\ At("XprvExportMenu") /\ ~back
     /\ Naming("SdXprvFilename", "KAS", "name", "xprv")

ExportXprv(back) == Menu(back, "ExportXprv", "XprvExportMenu", {"XprvExportMenu"})

ExportPrivKeyIndex(back) ==
  Menu(back, "ExportPrivKeyIndex", "SigningKeysMenu",
       IF Derives THEN {"ExportPrivKey"} ELSE {})

ExportPrivKey(back) == Menu(back, "ExportPrivKey", "SigningKeysMenu", {"SigningKeysMenu"})

-----------------------------------------------------------------------------
(***************************************************************************)
(* Hiding the words in a picture and reading them back                     *)
(* (handlers/stego.rs).  The picture's description is the password; a hint *)
(* for the passphrase may be hidden with the words.                        *)
(***************************************************************************)
StegoModeSelect(back) ==
  Menu(back, "StegoModeSelect", "ExportChoice", {"StegoJpegPick", "ExportChoice"})

\* A picture is chosen; the description of an earlier one is dropped.
StegoJpegPick(back) ==
  /\ At("StegoJpegPick")
  /\ UNCHANGED hist
  /\ \/ back /\ Go("ExportChoice")
     \/ ~back /\ ad' = [ad EXCEPT !.text = None, !.screen = "StegoJpegDescChoice"]

StegoJpegDescChoice(back) ==
  /\ At("StegoJpegDescChoice")
  /\ UNCHANGED hist
  /\ \/ back /\ Go("StegoJpegPick")
     \/ ~back /\ ad' = [ad EXCEPT !.pp = "empty", !.screen = "StegoJpegDesc"]
     \/ ~back /\ Go("StegoJpegDescFile")

StegoJpegDescFile(back) ==
  /\ At("StegoJpegDescFile")
  /\ UNCHANGED hist
  /\ \/ back /\ Go("StegoJpegDescChoice")
     \/ ~back /\ ad' = [ad EXCEPT !.text = None]                  \* it cannot be read
     \/ ~back /\ ad' = [ad EXCEPT !.text = "hint", !.screen = "StegoJpegDescPreview"]

StegoJpegDesc(back) ==
  /\ At("StegoJpegDesc")
  /\ UNCHANGED hist
  /\ \/ back /\ ad' = [ad EXCEPT !.pp = "empty", !.screen = "StegoJpegDescChoice"]
     \/ /\ ~back /\ ad.pp = "text"
        /\ ad' = [ad EXCEPT !.text = "hint", !.pp = "empty", !.screen = "StegoJpegDescPreview"]

StegoJpegDescPreview(back) ==
  Menu(back, "StegoJpegDescPreview", "StegoJpegDescChoice",
       {"StegoJpegDescChoice", "StegoJpegPpAsk"})

StegoJpegPpAsk(back) ==
  Menu(back, "StegoJpegPpAsk", "StegoJpegDescPreview", {"StegoJpegConfirm", "StegoJpegPpInfo"})

StegoJpegPpInfo(back) ==
  \/ Menu(back, "StegoJpegPpInfo", "StegoJpegPpAsk", {"StegoJpegConfirm"})
  \/ /\ At("StegoJpegPpInfo") /\ ~back
     /\ ad' = [ad EXCEPT !.pp = "empty", !.screen = "StegoJpegPpEntry"]
     /\ UNCHANGED hist

StegoJpegPpEntry(back) ==
  /\ At("StegoJpegPpEntry")
  /\ ad' = [ad EXCEPT !.pp = "empty",
                      !.screen = IF back THEN "StegoJpegPpInfo" ELSE "StegoJpegConfirm"]
  /\ UNCHANGED hist

\* The payload goes into the photo's own metadata carried forward, else into a
\* block made up for it, else into the least block there can be.  It is read
\* back before anything is written; a block that does not give it back is
\* replaced by the least one.
MetadataBlocks == {"carried", "made up", "least"}
HidesInMetadata(builds, readsBack) ==
  LET first == IF "carried" \in builds THEN "carried"
               ELSE IF "made up" \in builds THEN "made up" ELSE "least"
  IN  \E block \in {first, "least"} : block \in builds \cap readsBack

\* Into the picture itself, which leaves the metadata alone.
Photos == {"fits", "progressive", "too small", "too large"}
HidesInPicture(photo) == photo = "fits"

HidingEnds(written) == Go(IF written THEN "StegoResult" ELSE "ExportChoice")

\* Only words can be hidden; any failure returns to the export menu.
StegoJpegConfirm(back) ==
  \/ Menu(back, "StegoJpegConfirm", "StegoJpegPpAsk", {"ExportChoice"})
  \/ /\ At("StegoJpegConfirm") /\ ~back /\ ad.seed = "words"
     /\ \/ \E builds, readsBack \in SUBSET MetadataBlocks :
              HidingEnds(HidesInMetadata(builds, readsBack))
        \/ \E photo \in Photos : HidingEnds(HidesInPicture(photo))
     /\ UNCHANGED hist

StegoResult(back) == Menu(back, "StegoResult", "MainMenu", {"MainMenu"})

(* ---- Reading back ---- *)

StegoImportPick(back) ==
  /\ At("StegoImportPick")
  /\ UNCHANGED hist
  /\ \/ back /\ Go("ImportMenu")
     \/ ~back /\ ad' = [ad EXCEPT !.pp = "empty", !.screen = "StegoImportDescChoice"]

StegoImportDescChoice(back) ==
  /\ At("StegoImportDescChoice")
  /\ UNCHANGED hist
  /\ \/ back /\ Go("StegoImportPick")
     \/ ~back /\ ad' = [ad EXCEPT !.pp = "empty", !.screen = "StegoImportPass"]
     \/ ~back /\ Go("StegoImportDescFile")

\* The description read from a file is put into the line.
StegoImportDescFile(back) ==
  /\ At("StegoImportDescFile")
  /\ UNCHANGED hist
  /\ \/ back /\ Go("StegoImportDescChoice")
     \/ ~back /\ ad' = [ad EXCEPT !.pp = "text", !.screen = "StegoImportPass"]
     \/ ~back /\ ad' = [ad EXCEPT !.pp = "empty"]

\* Both carriers are read, whatever the other holds; the picture's is found by
\* the description itself and is tried first, and what opens is restored.
Carriers == {"picture", "metadata"}
RestoredFrom(held, opens) ==
  IF "picture" \in held \cap opens THEN {"picture"} ELSE held \cap opens

\* The words get a slot and are selected, or every slot is full.
StoresWords ==
  \E seed \in {ad.seed, "words"} :
    ad' = [ad EXCEPT !.pp = "empty", !.seed = seed, !.screen = "SeedList"]

\* A hint counts when it was hidden beside the words that were restored.
Recovers(from, hinted) ==
  IF from \in hinted THEN ad' = [ad EXCEPT !.pp = "empty", !.screen = "StegoHintReveal"]
  ELSE StoresWords

\* Back keeps what was typed; when nothing opens the screen stays.
StegoImportPass(back) ==
  /\ At("StegoImportPass")
  /\ UNCHANGED hist
  /\ \/ back /\ Go("StegoImportDescChoice")
     \/ /\ ~back
        /\ \E held, opens, hinted \in SUBSET Carriers :
             IF RestoredFrom(held, opens) = {} THEN UNCHANGED ad
             ELSE \E from \in RestoredFrom(held, opens) : Recovers(from, hinted)

\* With the hint shown: load without a passphrase, or type it.
StegoHintReveal(back) ==
  /\ At("StegoHintReveal")
  /\ UNCHANGED hist
  /\ IF back THEN StoresWords
     ELSE ad' = [ad EXCEPT !.pp = "empty", !.screen = "StegoHintPassphrase"]

StegoHintPassphrase(back) ==
  /\ At("StegoHintPassphrase")
  /\ StoresWords
  /\ UNCHANGED hist
=============================================================================
