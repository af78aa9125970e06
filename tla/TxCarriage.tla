------------------------------ MODULE TxCarriage ------------------------------
(***************************************************************************)
(* What becomes of a transaction between the page that makes it, the       *)
(* signer that reads, shows and signs it, and the node it is sent to.      *)
(*                                                                         *)
(* A document is the page's PSKB; a transaction is what is signed or sent. *)
(* The page shows a document in one of two formats: the bundle itself, or  *)
(* the compact wire (KSPT).  Each has a writer and a reader on both sides, *)
(* and each carries some of a document's fields.                           *)
(*                                                                         *)
(* A coin says what its script wants of a spender: an own signature, one   *)
(* by a key shifted by a stealth tweak, a lock time, a sequence number,    *)
(* the heartbeat's branch, or no signature at all.  Signature operations   *)
(* and script sizes travel unchanged in both formats and are left out.     *)
(***************************************************************************)
EXTENDS Naturals, FiniteSets, Sequences, SequencesExt, FiniteSetsExt

CONSTANTS MaxInputs,   \* MAX_INPUTS of the signer
          MaxOutputs,  \* MAX_OUTPUTS of the signer
          None         \* no lock time, payload, branch, binding, answer

ASSUME ReaderAssumption == MaxInputs \in Nat \ {0} /\ MaxOutputs \in Nat \ {0}
ASSUME NoneAssumption ==
  None \notin {"R", "terms", "ORAC", "send", "send rows", "utxos", "bundle", "compact"}

Coin(id, wants, amount) == [id |-> id, at |-> None, wants |-> wants, amount |-> amount]

-----------------------------------------------------------------------------
(***************************************************************************)
(* Documents.                                                              *)
(***************************************************************************)
Input(c) == [coin |-> c, seq |-> 0, wait |-> 0, need |-> 1, tweak |-> FALSE,
             hint |-> FALSE, sigs |-> {}]
Output(to, amount) == [to |-> to, amount |-> amount, bind |-> None, hint |-> FALSE]

\* serialize_pskb_single_sig
PlainDoc(ins, outs) ==
  [full |-> TRUE, version |-> 0, lane |-> "native", payload |-> None, branch |-> None,
   ins |-> ins, outs |-> outs]

Bound(outs) == \E n \in DOMAIN outs : outs[n].bind # None

\* serialize_pskb_with_covenants
TaggedDoc(ins, outs) == [PlainDoc(ins, outs) EXCEPT !.version = 1]

\* serialize_pskb_with_covenants_and_payload
DepositDoc(ins, outs, bytes) ==
  [PlainDoc(ins, outs) EXCEPT !.version = IF Bound(outs) THEN 1 ELSE 0, !.payload = bytes]

\* inject_tx_payload
WithPayload(doc, bytes) == [doc EXCEPT !.payload = bytes]

\* set_tx_lane
WithLane(doc, lane, bytes) ==
  [doc EXCEPT !.lane = lane, !.version = 1, !.payload = bytes]

\* The spends of coins under a script are written without the members a bundle
\* must have: format version, signature hash type, maps for maps.
SpendDoc(ins, outs) == [PlainDoc(ins, outs) EXCEPT !.full = FALSE]

Pay(amount) == <<Output("payee", amount)>>
Change == Output("change", 1)

PlainSend(c) == PlainDoc(<<Input(c)>>, Pay(1) \o <<Change>>)
StealthPayment(c) == WithPayload(PlainSend(c), "R")
LanePayment(c) == WithLane(PlainSend(c), "kstl", "R")
TaggedDeposit(c) == TaggedDoc(<<Input(c)>>, <<[Output("vault", 1) EXCEPT !.bind = 1], Change>>)
VaultDeposit(c, tagged) ==
  DepositDoc(<<Input(c)>>, <<[Output("vault", 1) EXCEPT !.bind = IF tagged THEN 1 ELSE None],
                             Change>>, "terms")
MultisigSend(c) ==
  PlainDoc(<<[Input(c) EXCEPT !.hint = TRUE]>>, Pay(1) \o <<[Change EXCEPT !.hint = TRUE]>>)
StealthSpend(cs) ==
  SpendDoc([n \in DOMAIN cs |-> [Input(cs[n]) EXCEPT !.tweak = TRUE]], Pay(2))
SavingsClaim(c) ==
  [SpendDoc(<<[Input(c) EXCEPT !.wait = 1]>>, Pay(2)) EXCEPT !.branch = "savings"]
RestedSpend(c) == SpendDoc(<<[Input(c) EXCEPT !.seq = 1]>>, Pay(2))
BorrowerTopUp(cov, c) ==
  SpendDoc(<<[Input(cov) EXCEPT !.need = 0, !.seq = 1], Input(c)>>,
           <<Output("vault", 3), Change>>)
OracleHeartbeat(c) ==
  [SpendDoc(<<Input(c)>>, <<Output("vault", 1)>>)
     EXCEPT !.version = 1, !.branch = "oracle-heartbeat", !.payload = "ORAC"]

-----------------------------------------------------------------------------
(***************************************************************************)
(* Transactions and what a signature is over.                              *)
(***************************************************************************)
\* pskt_lock_time; no document the page makes has a fallback lock time.
LockTime(doc) == Max({doc.ins[n].wait : n \in DOMAIN doc.ins})

\* finalize_and_broadcast, apart from the signature scripts
Tx(doc) ==
  [version |-> doc.version, lock |-> LockTime(doc), lane |-> doc.lane, payload |-> doc.payload,
   ins |-> [n \in DOMAIN doc.ins |-> [coin |-> doc.ins[n].coin, seq |-> doc.ins[n].seq]],
   outs |-> [n \in DOMAIN doc.outs |-> [to |-> doc.outs[n].to, amount |-> doc.outs[n].amount,
                                        bind |-> doc.outs[n].bind]],
   tweak |-> FALSE]

\* The hash of input n: bindings only from version 1 on.
Digest(tx, n) ==
  [version |-> tx.version, lock |-> tx.lock, lane |-> tx.lane, payload |-> tx.payload,
   ins |-> tx.ins, input |-> n,
   outs |-> [k \in DOMAIN tx.outs |->
               IF tx.version >= 1 THEN tx.outs[k] ELSE [tx.outs[k] EXCEPT !.bind = None]]]

-----------------------------------------------------------------------------
(***************************************************************************)
(* The bundle, read and answered by the signer.                            *)
(***************************************************************************)
Fits(ins, outs) == Len(ins) <= MaxInputs /\ Len(outs) <= MaxOutputs

\* A binding names an input of the transaction (from 1 here).
BindingsHold(ins, outs) ==
  \A k \in DOMAIN outs : outs[k].bind # None => outs[k].bind \in DOMAIN ins

ReadsBundle(doc) == doc.full /\ Fits(doc.ins, doc.outs) /\ BindingsHold(doc.ins, doc.outs)

\* Payload, lane and tweak are members the bundle's reader does not know.
FromBundle(doc) == [Tx(doc) EXCEPT !.lane = "native", !.payload = None]

\* The answer writes the members the reader knows, and one lock time for all.
BundleAnswer(doc, sigs) ==
  [doc EXCEPT
     !.payload = None, !.lane = "native", !.branch = None,
     !.ins = [n \in DOMAIN doc.ins |->
                [doc.ins[n] EXCEPT !.wait = LockTime(doc), !.need = 1,
                                   !.sigs = @ \cup sigs[n]]]]

-----------------------------------------------------------------------------
(***************************************************************************)
(* The compact wire: header, inputs, outputs, and trailers for what the    *)
(* first layout had no room for.                                           *)
(***************************************************************************)
\* One stealth tweak for the transaction, the first found.
TweakTrailer(doc) == \E n \in DOMAIN doc.ins : doc.ins[n].tweak
BindTrailer(doc) == [n \in DOMAIN doc.outs |-> doc.outs[n].bind]
HintTrailer(side) == {n \in DOMAIN side : side[n].hint}
Hinted(doc) == HintTrailer(doc.ins) \cup HintTrailer(doc.outs) # {}

WireInput(in) == [coin |-> in.coin, seq |-> in.seq, sigs |-> in.sigs]
WireOutput(out) == [to |-> out.to, amount |-> out.amount]

(* Mutant: the relay writes the header of the first layout: native lane, no payload. *)
MutRelay(doc) ==
  [v |-> 3, version |-> doc.version, lock |-> LockTime(doc), lane |-> "native",
   payload |-> None,
   ins |-> [n \in DOMAIN doc.ins |-> WireInput(doc.ins[n])],
   outs |-> [n \in DOMAIN doc.outs |-> WireOutput(doc.outs[n])],
   tweak |-> TweakTrailer(doc), binds |-> BindTrailer(doc),
   hints |-> <<HintTrailer(doc.ins), HintTrailer(doc.outs)>>]

\* relay_pskb_as_kspt_v2_hex
Relay(doc) ==
  [v |-> IF Hinted(doc) THEN 5 ELSE 3,
   version |-> doc.version, lock |-> LockTime(doc), lane |-> doc.lane, payload |-> doc.payload,
   ins |-> [n \in DOMAIN doc.ins |-> WireInput(doc.ins[n])],
   outs |-> [n \in DOMAIN doc.outs |-> WireOutput(doc.outs[n])],
   tweak |-> TweakTrailer(doc), binds |-> BindTrailer(doc),
   hints |-> <<HintTrailer(doc.ins), HintTrailer(doc.outs)>>]

ReadsCompact(w) ==
  /\ w.v \in {3, 5} /\ Fits(w.ins, w.outs)
  /\ w.hints # <<{}, {}>> => w.v = 5

\* parse_signed_pskt_v2
FromCompact(w) ==
  [version |-> w.version, lock |-> w.lock, lane |-> w.lane, payload |-> w.payload,
   ins |-> [n \in DOMAIN w.ins |-> [coin |-> w.ins[n].coin, seq |-> w.ins[n].seq]],
   outs |-> [n \in DOMAIN w.outs |-> [to |-> w.outs[n].to, amount |-> w.outs[n].amount,
                                      bind |-> w.binds[n]]],
   tweak |-> w.tweak]

\* The page keeps its document and takes only the signatures.
CompactAnswer(doc, sigs) ==
  [doc EXCEPT !.ins = [n \in DOMAIN doc.ins |-> [doc.ins[n] EXCEPT !.sigs = @ \cup sigs[n]]]]

-----------------------------------------------------------------------------
(***************************************************************************)
(* Signing, counting and the node.                                         *)
(***************************************************************************)
Reads(doc, route) == IF route = "bundle" THEN ReadsBundle(doc) ELSE ReadsCompact(Relay(doc))
Read(doc, route) == IF route = "bundle" THEN FromBundle(doc) ELSE FromCompact(Relay(doc))

\* With a tweak every key is shifted by it.
Key(tx) == IF tx.tweak THEN "shifted" ELSE "own"
Wanted(c) == IF c.wants = "shifted" THEN "shifted" ELSE "own"
Signable(tx, n) == tx.ins[n].coin.wants # "nothing" /\ Wanted(tx.ins[n].coin) = Key(tx)

\* The signatures the signer adds to each input.
Signatures(tx) ==
  [n \in DOMAIN tx.ins |->
     IF Signable(tx, n) THEN {[of |-> Digest(tx, n), key |-> Key(tx)]} ELSE {}]

Refuses(tx) == \A n \in DOMAIN tx.ins : ~Signable(tx, n)

Answer(doc, route) ==
  LET sigs == Signatures(Read(doc, route))
  IN IF route = "bundle" THEN BundleAnswer(doc, sigs) ELSE CompactAnswer(doc, sigs)

\* finalize_ready: every input has the signatures it says it needs.
Ready(doc) == \A n \in DOMAIN doc.ins : Cardinality(doc.ins[n].sigs) >= doc.ins[n].need

\* The node's verdict on input n: a witness of the shape the coin's script
\* wants, with a signature over the transaction as sent.
Spends(doc, n) ==
  LET in == doc.ins[n]
      signed == \E s \in in.sigs : s.of = Digest(Tx(doc), n) /\ s.key = Wanted(in.coin)
  IN CASE in.coin.wants = "nothing" -> in.need = 0
       [] in.coin.wants = "time"    -> signed /\ LockTime(doc) >= 1
       [] in.coin.wants = "rest"    -> signed /\ in.seq >= 1
       [] in.coin.wants = "beat"    -> signed /\ doc.branch = "oracle-heartbeat"
       [] OTHER                     -> signed

Valid(doc) == \A n \in DOMAIN doc.ins : Spends(doc, n)
=============================================================================
