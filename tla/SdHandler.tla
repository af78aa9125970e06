----------------------------- MODULE SdHandler -----------------------------
(***************************************************************************)
(* The screens of the memory card (handlers/sd.rs): naming and writing a   *)
(* file, the four kinds of lists, loading and decrypting, deleting.  Each  *)
(* definition is the branch of the screen it is named after; `back` is the *)
(* handler's is_back.                                                      *)
(***************************************************************************)
EXTENDS AppData

Sizes == {Single, Several, TooLong}

(* ---- Seed and key backups ---- *)

SdBackupWarning(back) ==
  /\ At("SdBackupWarning")
  /\ \/ back /\ Go("SeedBackupMenu") /\ UNCHANGED hist
     \/ ~back /\ Naming("SdSeedFilename", "KAS", "name", "seed")

SdSeedFilename(back) ==
  /\ At("SdSeedFilename")
  /\ \/ /\ back
        /\ ad' = [ad EXCEPT !.pp = "empty", !.screen = "SeedBackupMenu"]
        /\ UNCHANGED hist
     \/ ~back /\ NameGiven("KAS", "SdBackupPassphrase")

\* Only words can be backed up: encrypt_backup refuses other word counts.
SdBackupPassphrase(back) ==
  /\ At("SdBackupPassphrase")
  /\ ad' = [ad EXCEPT !.pp = "empty",
                      !.screen = IF back THEN "SeedBackupMenu" ELSE "SeedList"]
  /\ IF ~back /\ ad.seed = "words" THEN Write("seed", TRUE, TRUE) ELSE UNCHANGED hist

SdXprvFilename(back) ==
  /\ At("SdXprvFilename")
  /\ \/ /\ back
        /\ ad' = [ad EXCEPT !.pp = "empty", !.screen = "SigningKeysMenu"]
        /\ UNCHANGED hist
     \/ ~back /\ NameGiven("KAS", "SdXprvExportPassphrase")

SdXprvExportPassphrase(back) ==
  /\ At("SdXprvExportPassphrase")
  /\ \/ /\ back \/ ad.seed # "words"
        /\ ad' = [ad EXCEPT !.pp = "empty", !.screen = "SigningKeysMenu"]
        /\ UNCHANGED hist
     \/ /\ ~back /\ ad.seed = "words"
        /\ ad' = [ad EXCEPT !.pp = "empty", !.screen = "SeedList"]
        /\ Write("xprv", TRUE, TRUE)

\* The signature of a message: written at once, whatever file has the name.
SdSigFilename(back) ==
  /\ At("SdSigFilename")
  /\ \/ /\ back
        /\ ad' = [ad EXCEPT !.pp = "empty", !.screen = "MainMenu"]
        /\ UNCHANGED hist
     \/ /\ ~back
        /\ ad' = [ad EXCEPT !.file = "TXT", !.pp = "empty", !.screen = "MainMenu"]
        /\ WriteAtOnce("sig", hist.named, "typed")

(* ---- Lists ---- *)

\* What the six items of the menu list, and on which screen.
SdImportMenu(back) ==
  /\ At("SdImportMenu")
  /\ UNCHANGED hist
  /\ \/ back /\ Go("ImportMenu")
     \/ /\ ~back
        /\ \/ \E l \in {"keys", "cov"} :
                ad' = [ad EXCEPT !.list = l, !.first = "file", !.screen = "SdFileList"]
           \/ ad' = [ad EXCEPT !.list = "ksp", !.first = "file", !.origin = "tx",
                               !.screen = "SdKsptFileList"]
           \/ \E t \in {"kpub", "addr", "desc"} :
                ad' = [ad EXCEPT !.list = "txt", !.first = "file", !.txt = t,
                                 !.screen = "SdKpubFileList"]

\* The files a list can hold: keys and covenants are listed by content, the
\* others by extension, which says little of what is inside.
KeyFiles == {[kind |-> "seed", enc |-> TRUE, size |-> Single],
             [kind |-> "xprv", enc |-> TRUE, size |-> Single],
             Clear("xprv", Single), Clear("raw", Single)}
CovFiles == {Clear("cov", Single)}
KspFiles == [kind : {"tx"}, enc : BOOLEAN, size : Sizes]
              \cup [kind : {"desc", "addr"}, enc : BOOLEAN, size : {Single}]
TxtFiles == [kind : {"kpub", "addr", "desc", "junk"}, enc : BOOLEAN, size : {Single}]

Content(list) ==
  CASE list = "keys" -> KeyFiles
    [] list = "cov" -> CovFiles
    [] list = "ksp" -> KspFiles
    [] list = "txt" -> TxtFiles
    [] OTHER -> {}

\* A .KSP file shows in the descriptor list as well.
MayBeKsp(list) == IF list = "ksp" THEN {TRUE}
                  ELSE IF list = "txt" /\ ad.txt = "desc" THEN BOOLEAN ELSE {FALSE}

\* A loaded descriptor becomes the wallet at hand when it is one of ours; a
\* 45' wallet needs a seed to tell, an older one does not.
Resolves(v45) == v45 => ad.seed = "words"
LoadDescriptor(a, other) ==
  \E v45 \in BOOLEAN, ours \in BOOLEAN :
    LET usable == ~v45 \/ (ours /\ Resolves(v45))
    IN ad' = [a EXCEPT !.ms = [n |-> NCosigners, keys |-> [i \in Cosigners |-> i + 1],
                               active |-> FALSE, built |-> usable],
                       !.screen = IF usable THEN "MultisigDescriptor" ELSE other]

\* A file too odd to parse leaves no wallet at hand.
LoadBadDescriptor(a, other) == ad' = [a EXCEPT !.ms = NoWallet, !.screen = other]

ToDecrypt(a, f) ==
  [a EXCEPT !.buf = f, !.file = None, !.pp = "empty", !.screen = "SdKsptEncryptPass"]

\* The first bytes of a key file decide: an encrypted one asks for its
\* passphrase, a plain one is taken in at once.
LoadsKey(a, f) ==
  \/ /\ f.kind = "seed"
     /\ ad' = [a EXCEPT !.pp = "empty", !.screen = "SdRestorePassphrase"]
  \/ /\ f.kind = "xprv" /\ f.enc
     /\ ad' = [a EXCEPT !.pp = "empty", !.screen = "SdXprvImportPassphrase"]
  \/ /\ f.kind = "xprv" /\ ~f.enc
     /\ ad' = [a EXCEPT !.seed = "xprv", !.screen = "SeedList"]
  \/ /\ f.kind = "raw"
     /\ ad' = [a EXCEPT !.seed = "raw"]

\* The list of keys, and that of covenants, which are only shown.
SdFileList(back) ==
  /\ At("SdFileList")
  /\ UNCHANGED hist
  /\ \/ back /\ Go("SdImportMenu")
     \/ \E f \in Content(ad.list), k \in MayBeKsp(ad.list) :
          LET a == [ad EXCEPT !.pickedKsp = k]
          IN  /\ ~back
              /\ \/ ad' = [a EXCEPT !.screen = "SdDeleteConfirm"]
                 \/ f.kind = "cov" /\ ad' = [a EXCEPT !.buf = f]
                 \/ LoadsKey(a, f)

\* Signed transactions, but also descriptors and addresses saved under .KSP.
SdKsptFileList(back) ==
  /\ At("SdKsptFileList")
  /\ UNCHANGED hist
  /\ \/ back /\ Go("SdImportMenu")
     \/ \E f \in Content(ad.list), k \in MayBeKsp(ad.list) :
          LET a == [ad EXCEPT !.pickedKsp = k]
              b == [a EXCEPT !.buf = f, !.nframes = 0, !.safe = FALSE]
          IN  /\ ~back
              /\ \/ ad' = [a EXCEPT !.screen = "SdDeleteConfirm"]
                 \/ f.enc /\ ad' = ToDecrypt(a, f)
                 \/ ~f.enc /\ f.kind = "desc" /\ LoadDescriptor(b, "SdKsptFileList")
                 \/ ~f.enc /\ f.kind = "desc" /\ LoadBadDescriptor(b, "SdKsptFileList")
                 \/ /\ ~f.enc /\ f.kind = "addr"
                    /\ ad' = [b EXCEPT !.kpub = "addr", !.ms.active = FALSE,
                                       !.screen = "MultisigShowAddress"]
                 \/ /\ ~f.enc /\ f.kind \notin {"desc", "addr"}
                    /\ ad' = [b EXCEPT !.screen = "ShowQrFrameChoice"]

\* A plain text file read as what the user came for, txt_import_type.
ReadsKpub(a, f) ==
  \E form \in KpubForms :
    /\ ad.txt = "kpub" /\ f.kind = "kpub"
    /\ ad' = Redrawn([a EXCEPT !.kpub = form, !.kn = 0, !.screen = "ExportKpub"])

ReadsAddress(a, f) ==
  /\ ad.txt = "addr" /\ f.kind = "addr"
  /\ ad' = [a EXCEPT !.kpub = "addr", !.ms.active = FALSE, !.buf = f,
                     !.nframes = 0, !.safe = FALSE, !.screen = "MultisigShowAddress"]

ReadsDescriptor(a, f) ==
  /\ ad.txt = "desc"
  /\ IF f.kind = "desc" THEN LoadDescriptor(a, "SdKpubFileList")
     ELSE LoadBadDescriptor(a, "SdKpubFileList")

SdKpubFileList(back) ==
  /\ At("SdKpubFileList")
  /\ UNCHANGED hist
  /\ \/ back /\ Go("SdImportMenu")
     \/ \E f \in Content(ad.list), k \in MayBeKsp(ad.list) :
          LET a == [ad EXCEPT !.pickedKsp = k]
          IN  /\ ~back
              /\ \/ ad' = [a EXCEPT !.deleteReturn = "SdKpubFileList",
                                    !.screen = "SdDeleteConfirm"]
                 \/ f.enc /\ ad' = ToDecrypt([a EXCEPT !.origin = ad.txt], f)
                 \/ ~f.enc /\ (ReadsKpub(a, f) \/ ReadsAddress(a, f) \/ ReadsDescriptor(a, f))

(* Deleting leads back to the list that asked for it: the one named in      *)
(* deleteReturn or, when none is, the one the extension suggests.  Any      *)
(* touch uses the name up, one beside the buttons too.                      *)
SdDeleteConfirm(back) ==
  LET list == IF ad.deleteReturn # "MainMenu" THEN ad.deleteReturn
              ELSE IF ad.pickedKsp THEN "SdKsptFileList" ELSE "SdFileList"
  IN  /\ At("SdDeleteConfirm")
      /\ UNCHANGED hist
      /\ \/ ad' = [ad EXCEPT !.deleteReturn = "MainMenu", !.screen = list]
         \/ ~back /\ ad' = [ad EXCEPT !.deleteReturn = "MainMenu"]

(* ---- Decrypting keys ---- *)

SdRestorePassphrase(back) ==
  /\ At("SdRestorePassphrase")
  /\ UNCHANGED hist
  /\ \E next \in IF back THEN {"SdFileList"}
                ELSE {"PassphraseEntry", IF SeedLoaded THEN "SeedList" ELSE "MainMenu"} :
       ad' = [ad EXCEPT !.pp = "empty", !.screen = next]

SdXprvFileList(back) ==
  /\ At("SdXprvFileList")
  /\ UNCHANGED hist
  /\ \/ back /\ Go("SdImportMenu")
     \/ ~back /\ ad' = [ad EXCEPT !.pp = "empty", !.screen = "SdXprvImportPassphrase"]

SdXprvImportPassphrase(back) ==
  LET a == [ad EXCEPT !.pp = "empty"]
  IN  /\ At("SdXprvImportPassphrase")
      /\ UNCHANGED hist
      /\ \/ back /\ ad' = [a EXCEPT !.screen = "SdXprvFileList"]
         \/ ~back /\ ad' = [a EXCEPT !.screen = "SdFileList"]
         \/ ~back /\ ad' = [a EXCEPT !.seed = "xprv",
                                      !.screen = "SeedList"]

(* ---- Saving what is shown, a public key, a wallet ---- *)

\* After a payload was shown: save it, or show it again.  What it is is told
\* from its bytes.
ShowQrPopup(back) ==
  /\ At("ShowQrPopup")
  /\ \/ /\ back /\ Go("ShowQrModeChoice") /\ UNCHANGED hist
     \/ /\ ~back
        /\ IF ad.buf.kind = "desc" /\ ~ad.buf.enc
           THEN Naming("SdMsDescFilename", "TXT", "name", ad.buf.kind)
           ELSE Naming("SdKsptFilename", "KSP", "name", ad.buf.kind)
     \/ /\ ~back
        /\ ad' = Redrawn([ad EXCEPT !.screen = "ShowQR"])
        /\ UNCHANGED hist

\* The four naming screens differ in the extension, in where back leads and in
\* the question that follows.
NameTyped(back, screen, ext, left, next) ==
  /\ At(screen)
  /\ \/ /\ back
        /\ ad' = [ad EXCEPT !.pp = "empty", !.screen = left]
        /\ UNCHANGED hist
     \/ ~back /\ NameGiven(ext, next)

SdKsptFilename(back) ==
  NameTyped(back, "SdKsptFilename", "KSP", "ShowQrPopup", "SdKsptEncryptAsk")
SdKpubFilename(back) ==
  NameTyped(back, "SdKpubFilename", "TXT", "WatchOnlyMenu", "SdKpubEncryptAsk")
SdMsAddrFilename(back) ==
  NameTyped(back, "SdMsAddrFilename", "TXT", "MultisigShowAddress", "SdMsAddrEncryptAsk")
SdMsDescFilename(back) ==
  NameTyped(back, "SdMsDescFilename", "TXT", "MultisigDescriptor", "SdMsDescEncryptAsk")

\* The user wants it encrypted: the payload moves to the buffer (`a`) and the
\* passphrase is asked for.
Encrypting(a) ==
  /\ ad' = [a EXCEPT !.pp = "empty", !.screen = "SdKsptEncryptPass"]
  /\ hist' = [hist EXCEPT !.secret = TRUE]

SdKsptEncryptAsk(back) ==
  /\ At("SdKsptEncryptAsk")
  /\ \/ back /\ Go("ShowQrPopup") /\ UNCHANGED hist
     \/ ~back /\ Encrypting(ad)
     \/ ~back /\ Go("MainMenu") /\ Write(ad.buf.kind, ad.buf.enc, FALSE)

SdMsAddrEncryptAsk(back) ==
  /\ At("SdMsAddrEncryptAsk")
  /\ \/ back /\ Go("MultisigShowAddress") /\ UNCHANGED hist
     \/ ~back /\ Encrypting([ad EXCEPT !.buf = Clear(ad.kpub, Single), !.origin = "addr"])
     \/ ~back /\ Go("MultisigDescriptor") /\ Write(ad.kpub, FALSE, FALSE)

SdMsDescEncryptAsk(back) ==
  /\ At("SdMsDescEncryptAsk")
  /\ \/ back /\ Go("MultisigDescriptor") /\ UNCHANGED hist
     \/ ~back /\ Encrypting([ad EXCEPT !.origin = "desc"])
     \/ ~back /\ Go("MultisigDescriptor") /\ Write(ad.buf.kind, ad.buf.enc, FALSE)

\* Bug for testing: the key is not copied into the buffer that is encrypted.
MutSdKpubEncryptAsk(back) ==
  /\ At("SdKpubEncryptAsk")
  /\ \/ back /\ Go("WatchOnlyMenu") /\ UNCHANGED hist
     \/ ~back /\ Encrypting([ad EXCEPT !.origin = "kpub"])
     \/ ~back /\ Go("WatchOnlyMenu") /\ Write(KpubKind, FALSE, FALSE)

SdKpubEncryptAsk(back) ==
  /\ At("SdKpubEncryptAsk")
  /\ \/ back /\ Go("WatchOnlyMenu") /\ UNCHANGED hist
     \/ ~back /\ Encrypting([ad EXCEPT !.buf = Clear(KpubKind, Single), !.origin = "kpub"])
     \/ ~back /\ Go("WatchOnlyMenu") /\ Write(KpubKind, FALSE, FALSE)

\* One passphrase screen for saving and for loading: a file name still set
\* means saving.
Saving == ad.file \in {"KSP", "TXT"}
SaveEncrypted ==
  /\ Saving
  /\ ad' = [ad EXCEPT !.pp = "empty",
                      !.screen = IF ad.file = "KSP" THEN "MainMenu"
                                 ELSE IF ad.origin = "kpub" THEN "ExportChoice"
                                 ELSE "MultisigDescriptor"]
  /\ Write(ad.buf.kind, TRUE, hist.secret)

\* The right passphrase: what was decrypted goes where the user came from.
Opened(a) ==
  LET k == a.buf.kind
      import == [a EXCEPT !.screen = "SdImportMenu"]
      address == [a EXCEPT !.kpub = k, !.ms.active = FALSE, !.screen = "MultisigShowAddress"]
  IN  CASE a.origin = "desc" ->
             IF k = "desc"
             THEN LoadDescriptor(a, "SdImportMenu") \/ LoadBadDescriptor(a, "SdImportMenu")
             ELSE ad' = import
        [] a.origin = "kpub" ->
             ad' = IF k = "kpub"
                   THEN Redrawn([a EXCEPT !.kpub = k, !.kn = 0,
                                          !.screen = "ExportKpub"])
                   ELSE import
        [] a.origin = "addr" -> ad' = IF k = "addr" THEN address ELSE import
        [] OTHER ->
             CASE k = "desc" ->
                    LoadDescriptor(a, "SdKsptFileList") \/ LoadBadDescriptor(a, "SdKsptFileList")
               [] k = "addr" -> ad' = address
               [] OTHER -> ad' = [a EXCEPT !.screen = "ShowQrFrameChoice"]

LoadEncrypted ==
  /\ ~Saving
  /\ UNCHANGED hist
  /\ \/ Opened([ad EXCEPT !.buf.enc = FALSE, !.nframes = 0, !.safe = FALSE,
                          !.pp = "empty"])
     \/ ad' = [ad EXCEPT !.buf = Empty, !.pp = "empty", !.screen = "SdKsptFileList"]

SdKsptEncryptPass(back) ==
  /\ At("SdKsptEncryptPass")
  /\ \/ ~back /\ SaveEncrypted
     \/ ~back /\ LoadEncrypted
     \/ /\ back
        /\ UNCHANGED hist
        /\ ad' = [ad EXCEPT !.pp = "empty",
                            !.screen = CASE ad.file = "KSP" -> "SdKsptEncryptAsk"
                                         [] ad.file = "TXT" /\ ad.origin = "kpub" -> "SdKpubEncryptAsk"
                                         [] ad.file = "TXT" /\ ad.origin = "desc" -> "SdMsDescEncryptAsk"
                                         [] ad.file = "TXT" /\ ad.origin \notin {"kpub", "desc"} ->
                                              "SdMsAddrEncryptAsk"
                                         [] OTHER -> "SdKsptFileList"]

\* The file exists: replace it, or choose another name.
SdOverwriteWarning(back) ==
  /\ At("SdOverwriteWarning")
  /\ \/ Go(ad.owBack) /\ UNCHANGED hist
     \/ /\ ~back
        /\ ad' = [ad EXCEPT !.pp = "empty", !.screen = ad.owNext]
        /\ hist' = [hist EXCEPT !.agreed = TRUE]

ShowQrModeChoice(back) ==
  LET a == [ad EXCEPT !.nframes = 0]
  IN  /\ At("ShowQrModeChoice")
      /\ UNCHANGED hist
      /\ \/ /\ back
            /\ ad' = [a EXCEPT !.screen = IF ad.viaDensity THEN "ShowQrDensityChoice"
                                          ELSE IF ad.ms.n > 0 THEN "MultisigDescriptor"
                                          ELSE "MainMenu"]
         \/ ~back /\ ad' = Redrawn([ad EXCEPT !.screen = "ShowQR"])
=============================================================================
