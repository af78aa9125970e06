----------------------------- MODULE SignRequest -----------------------------
(***************************************************************************)
(* A transaction from the camera to its signed response: parsing into      *)
(* demo_tx, the review pages, confirmation, the signing step the main loop *)
(* runs once per input, and the buffer signed_qr_buf that holds first the  *)
(* JSON of an incoming PSKB bundle and then the response.                  *)
(*                                                                         *)
(* A transaction is a model value with the attributes the code branches    *)
(* on. The screens of the exported response are taken as one, Export.      *)
(***************************************************************************)
EXTENDS Integers

CONSTANTS
  Txs,         \* transactions that can be scanned
  NoTx,        \* demo_tx after a clear or a parse that failed
  Outputs,     \* number of outputs of each
  Inputs,      \* number of inputs of each
  Format,      \* wire format it arrives in, "KSPT" or "PSKB"
  Covenants,   \* those with an output that has a covenant
  Hidden,      \* those with an output the screen cannot show
  Extended,    \* PSKB bundles with regions the parser does not know
  Capacity     \* signed_qr_buf.len()

Formats == {"KSPT", "PSKB"}
Counts == 0 .. 255      \* u8

ASSUME TxsAssumption ==
    /\ NoTx \notin Txs
    /\ Covenants \subseteq Txs /\ Hidden \subseteq Txs /\ Extended \subseteq Txs
ASSUME FormatAssumption == Format \in [Txs -> Formats]
(* MAX_OUTPUTS and MAX_INPUTS of core/src/wallet/transaction.rs. *)
ASSUME SizesAssumption == /\ Outputs \in [Txs -> 0 .. 8]
                          /\ Inputs \in [Txs -> 0 .. 32]
                          /\ Capacity \in Nat

VARIABLES
  screen,    \* AppState
  at,        \* the page of ReviewTx, the input_idx of Signing
  plan,      \* app.review_pages, app.total_inputs, app.has_covenant
  tx,        \* demo_tx
  fmt,       \* tx_input_format
  parsed,    \* the bundle pskt_parsed describes
  buf,       \* what signed_qr_buf holds
  size,      \* the transaction signed_qr_len is the response length of, NoTx for 0
  seed,      \* the selected seed: none, a wallet or a raw key
  shown      \* history: the pages drawn since the last review started

vars == <<screen, at, plan, tx, fmt, parsed, buf, size, seed, shown>>

ReviewScreens == {"ReviewTx", "ReviewCovenant", "ConfirmTx"}
RequestScreens == ReviewScreens \cup {"Signing"}
Screens == RequestScreens \cup {"Menu", "Rejected", "Export"}
Seeds == {"none", "wallet", "rawkey"}

Plans == [pages : Counts, inputs : Counts, covenant : BOOLEAN]
PlanFor(t) == [pages |-> 1 + Outputs[t], inputs |-> Inputs[t], covenant |-> t \in Covenants]

(* Contents of signed_qr_buf: the JSON of a bundle, the response to a      *)
(* transaction with the format it is in and the bundle whose unknown       *)
(* regions were spliced into it, or something else.                        *)
Json(t) == [kind |-> "json", of |-> t, format |-> "PSKB", regions |-> NoTx]
Response(t, f, r) == [kind |-> "response", of |-> t, format |-> f, regions |-> r]
Scrap == [kind |-> "other", of |-> NoTx, format |-> "KSPT", regions |-> NoTx]
Contents == [kind : {"json", "response", "other"}, of : Txs \cup {NoTx},
             format : Formats, regions : Txs \cup {NoTx}]

TypeOK == /\ screen \in Screens
          /\ at \in Counts
          /\ plan \in Plans
          /\ tx \in Txs \cup {NoTx}
          /\ fmt \in Formats
          /\ parsed \in Txs \cup {NoTx}
          /\ buf \in Contents
          /\ size \in Txs \cup {NoTx}
          /\ seed \in Seeds
          /\ shown \subseteq Counts

Init == /\ screen = "Menu"
        /\ at = 0
        /\ plan = [pages |-> 0, inputs |-> 0, covenant |-> FALSE]
        /\ tx = NoTx
        /\ fmt = "KSPT"
        /\ parsed = NoTx
        /\ buf = Scrap
        /\ size = NoTx
        /\ seed = "none"
        /\ shown = {}

GoTo(s) == screen' = s /\ at' = 0

-----------------------------------------------------------------------------
(* The camera. *)

(* Mutant: the review plan is not refreshed. *)
MutStartReview(t) ==
    IF t \in Hidden
    THEN GoTo("Rejected") /\ UNCHANGED <<plan, shown>>
    ELSE /\ GoTo("ReviewTx")
         /\ plan' = IF plan.pages = 0 THEN PlanFor(t) ELSE plan
         /\ shown' = {0}

(* start_review: refuses a transaction whose outputs cannot all be shown,  *)
(* and leaves the plan of the last review alone then.                      *)
StartReview(t) ==
    IF t \in Hidden
    THEN GoTo("Rejected") /\ UNCHANGED <<plan, shown>>
    ELSE GoTo("ReviewTx") /\ plan' = PlanFor(t) /\ shown' = {0}

ScanKspt(t) ==
    /\ screen = "Menu"
    /\ Format[t] = "KSPT"
    /\ tx' = t
    /\ fmt' = "KSPT"
    /\ StartReview(t)
    /\ UNCHANGED <<parsed, buf, size, seed>>

(* The decoded JSON of a bundle overwrites signed_qr_buf, signed_qr_len    *)
(* keeps the value it had.                                                 *)
ScanPskb(t) ==
    /\ screen = "Menu"
    /\ Format[t] = "PSKB"
    /\ tx' = t
    /\ fmt' = "PSKB"
    /\ parsed' = t
    /\ buf' = Json(t)
    /\ StartReview(t)
    /\ UNCHANGED <<size, seed>>

(* A payload that does not parse: demo_tx is lost, the format stays, and   *)
(* a bundle may have clobbered the buffer and the parse record as well.    *)
ScanBad(f) ==
    /\ screen = "Menu"
    /\ tx' \in {tx, NoTx}
    /\ \/ f = "KSPT" /\ UNCHANGED <<parsed, buf>>
       \/ f = "PSKB" /\ parsed' \in {parsed, NoTx} /\ buf' \in {buf, Scrap}
    /\ GoTo("Rejected")
    /\ UNCHANGED <<plan, fmt, size, seed, shown>>

-----------------------------------------------------------------------------
(* The review. *)

(* Mutant: the covenant screen is passed over. *)
MutTurnPage ==
    /\ screen = "ReviewTx"
    /\ IF at + 1 < plan.pages
       THEN screen' = "ReviewTx" /\ at' = at + 1 /\ shown' = shown \cup {at + 1}
       ELSE GoTo("ConfirmTx") /\ UNCHANGED shown
    /\ UNCHANGED <<plan, tx, fmt, parsed, buf, size, seed>>

(* Any press turns the page; behind the last one come the covenant screen, *)
(* if there is a covenant, and the choice.                                 *)
TurnPage ==
    /\ screen = "ReviewTx"
    /\ \/ /\ at + 1 < plan.pages
          /\ screen' = "ReviewTx" /\ at' = at + 1
          /\ shown' = shown \cup {at + 1}
       \/ /\ at + 1 >= plan.pages /\ plan.covenant
          /\ GoTo("ReviewCovenant")
          /\ shown' = shown \cup {plan.pages}
       \/ /\ at + 1 >= plan.pages /\ ~plan.covenant
          /\ GoTo("ConfirmTx")
          /\ UNCHANGED shown
    /\ UNCHANGED <<plan, tx, fmt, parsed, buf, size, seed>>

LeaveCovenant ==
    /\ screen = "ReviewCovenant"
    /\ GoTo("ConfirmTx")
    /\ UNCHANGED <<plan, tx, fmt, parsed, buf, size, seed, shown>>

(* CONFIRM, unless a stored descriptor shows the change claim is false. *)
Confirm(forged) ==
    /\ screen = "ConfirmTx"
    /\ GoTo(IF forged THEN "Menu" ELSE "Signing")
    /\ UNCHANGED <<plan, tx, fmt, parsed, buf, size, seed, shown>>

Cancel ==
    /\ screen = "ConfirmTx"
    /\ GoTo("Rejected")
    /\ UNCHANGED <<plan, tx, fmt, parsed, buf, size, seed, shown>>

(* Back on a review screen, the home button anywhere, a tap on Rejected. *)
Leave ==
    /\ screen # "Menu"
    /\ GoTo("Menu")
    /\ UNCHANGED <<plan, tx, fmt, parsed, buf, size, seed, shown>>

-----------------------------------------------------------------------------
(* Signing. *)

EstimatedSize == 48 + 156 * Inputs[tx] + 45 * Outputs[tx]

(* A raw key cannot answer a bundle; any other refusal of a signer (a key  *)
(* that matches nothing, a response too long) can happen to any of them.   *)
CanSign == fmt = "PSKB" => seed = "wallet"

(* The bundle whose unknown regions end up in the response: the serializer *)
(* cuts them out of the buffer at the offsets the parser recorded.         *)
SplicedFrom ==
    IF fmt = "PSKB" /\ parsed \in Extended
    THEN IF buf.kind = "json" THEN buf.of ELSE NoTx
    ELSE NoTx

SizeAfter(ok) == IF ok THEN tx ELSE NoTx

(* Nothing signed leaves a length of 0 and refuses.                        *)
Outcome == GoTo(IF size' = NoTx THEN "Rejected" ELSE "Export")

(* The last input: everything is signed at once.                           *)
Produce(ok) ==
    /\ ok => CanSign
    /\ size' = SizeAfter(ok)
    /\ IF ok THEN buf' = Response(tx, fmt, SplicedFrom) ELSE buf' \in {buf, Scrap}
    /\ Outcome

(* Mutant: only the last input advances. *)
MutSignInput ==
    /\ screen = "Signing"
    /\ tx \in Txs
    /\ seed # "none"
    /\ EstimatedSize <= Capacity
    /\ IF at + 1 < plan.inputs
       THEN UNCHANGED <<screen, at, buf, size>>
       ELSE \E ok \in BOOLEAN : Produce(ok)
    /\ UNCHANGED <<plan, tx, fmt, parsed, seed, shown>>

SignInput ==
    /\ screen = "Signing"
    /\ tx \in Txs
    /\ seed # "none"
    /\ EstimatedSize <= Capacity
    /\ IF at + 1 < plan.inputs
       THEN screen' = "Signing" /\ at' = at + 1 /\ UNCHANGED <<buf, size>>
       ELSE \E ok \in BOOLEAN : Produce(ok)
    /\ UNCHANGED <<plan, tx, fmt, parsed, seed, shown>>

RefuseToSign ==
    /\ screen = "Signing"
    /\ \/ seed = "none" /\ GoTo("Menu")
       \/ seed # "none" /\ tx \in Txs /\ EstimatedSize > Capacity /\ GoTo("Rejected")
    /\ UNCHANGED <<plan, tx, fmt, parsed, buf, size, seed, shown>>

SignStep == SignInput \/ RefuseToSign

-----------------------------------------------------------------------------
(* What else reaches this state. *)

SelectSeed(k) ==
    /\ screen = "Menu"
    /\ seed' = k
    /\ UNCHANGED <<screen, at, plan, tx, fmt, parsed, buf, size, shown>>

(* The idle timeout and the duress wipe: wipe_secrets clears demo_tx. *)
Wipe ==
    /\ seed # "none"
    /\ seed' = "none"
    /\ tx' = NoTx
    /\ GoTo("Menu")
    /\ UNCHANGED <<plan, fmt, parsed, buf, size, shown>>

(* The other users of the buffer, all reached from menus: a descriptor, a  *)
(* file from the card; a covenant backup leaves the length alone.          *)
OtherPayload ==
    /\ screen = "Menu"
    /\ buf' = Scrap
    /\ size' \in {size, NoTx}
    /\ UNCHANGED <<screen, at, plan, tx, fmt, parsed, seed, shown>>

Next == \/ \E t \in Txs : ScanKspt(t) \/ ScanPskb(t)
        \/ \E f \in Formats : ScanBad(f)
        \/ TurnPage \/ LeaveCovenant
        \/ \E forged \in BOOLEAN : Confirm(forged)
        \/ Cancel \/ Leave
        \/ SignStep
        \/ \E k \in Seeds : SelectSeed(k)
        \/ Wipe \/ OtherPayload

(* handle_signing_step is called in every turn of the main loop. *)
Spec == Init /\ [][Next]_vars /\ WF_vars(SignStep)

-----------------------------------------------------------------------------
(* Properties. *)

(* From the first page to the last input, the review plan, the format, the *)
(* parse record and the bundle in the shared buffer are those of the       *)
(* transaction in demo_tx, which can be shown in full. The signer reads    *)
(* all five at the end of that walk.                                       *)
RequestIntact ==
    screen \in RequestScreens =>
        /\ tx \in Txs \ Hidden
        /\ plan = PlanFor(tx)
        /\ fmt = Format[tx]
        /\ fmt = "PSKB" => parsed = tx /\ buf = Json(tx)

(* A response is in the format its request came in, and the regions of a   *)
(* bundle the parser does not know come back in the response to it, as     *)
(* they were in that bundle.                                               *)
AnswersFit ==
    buf.kind = "response" =>
        /\ buf.of \in Txs
        /\ buf.format = Format[buf.of]
        /\ buf.format = "PSKB" /\ buf.of \in Extended => buf.regions = buf.of

(* What goes out on the QR screens after signing is the response to the    *)
(* transaction in demo_tx at its own length: a run that signed nothing     *)
(* never shows the response, or the length, of an earlier one.             *)
ExportIsTheAnswer ==
    screen = "Export" => buf.kind = "response" /\ buf.of = tx /\ size = tx

(* Refinement: the walk from camera to response keeps the signer's promise *)
(* of Approval. Page 0 is the summary, one page per output follows, and    *)
(* page 1 + Outputs is the covenant screen.                                *)
CovenantPage(t) == IF t \in Covenants THEN {1 + Outputs[t]} ELSE {}
PagesOf == [t \in Txs |-> (0 .. Outputs[t]) \cup CovenantPage(t)]

Promise == INSTANCE Approval WITH
    Requests <- Txs, None <- NoTx, Pages <- PagesOf,
    request <- IF screen \in RequestScreens THEN tx ELSE NoTx,
    seen <- IF screen \in RequestScreens THEN shown ELSE {},
    approved <- screen = "Signing",
    answer <- IF buf.kind = "response" THEN buf.of ELSE NoTx
KeepsPromise == Promise!Spec

(* Every signing run comes to its end: a response, a refusal, or the menu. *)
SigningEnds == screen = "Signing" ~> screen # "Signing"
=============================================================================
