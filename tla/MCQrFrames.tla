---- MODULE MCQrFrames ----
(***************************************************************************)
(* Two kpubs, both shown in two frames; a transaction of 300 bytes, two    *)
(* frames at either phone density and none that fit at the Safe one; and a *)
(* descriptor of 110 bytes, plain or three frames at the Safe density.     *)
(***************************************************************************)
EXTENDS QrFrames, TLC
CONSTANTS kpubA, kpubB, bigTx, desc

MCPayloads == {kpubA, kpubB, bigTx, desc}
MCKind == kpubA :> "kpub" @@ kpubB :> "kpub" @@ bigTx :> "tx" @@ desc :> "desc"
MCSize == kpubA :> 79 @@ kpubB :> 79 @@ bigTx :> 300 @@ desc :> 110
====
