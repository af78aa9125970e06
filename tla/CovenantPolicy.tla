--------------------------- MODULE CovenantPolicy ---------------------------
(***************************************************************************)
(* What KasSee's covenants are for, in words of who may spend what and     *)
(* when, and the redeem scripts that are to say the same to the node.      *)
(* One state is one transaction offered to one covenant, its parties       *)
(* having signed it; the property compares what the script lets any of the *)
(* witnesses do with what the covenant's description permits.              *)
(***************************************************************************)
EXTENDS CovenantScripts, FiniteSets

CONSTANTS
    Kinds,    \* covenants, see CovenantScripts
    Held,     \* amount of the coin that is spent
    Amounts   \* amounts of the outputs

VARIABLES kind, offer
vars == <<kind, offer>>

(* Those who have a key in the script, and one who stands for all others.  *)
Parties == {"owner", "bene", "nobody"} \cup
           (CASE kind.type \in {"escrow", "ship"} -> {"arbiter", "carrier"}
              [] kind.type = "oracle" -> {"oracle"}
              [] OTHER -> {})
Global == {"limit", "gallow"}
Vaults == {"tvault", "svault"}
Nothing == [ins |-> <<>>, outs |-> <<>>, time |-> 0]

(***************************************************************************)
(* Transactions: the covenant's coin alone, with a wallet's coin before or *)
(* after it, or with another coin of the covenant (a parcel's comes alone  *)
(* or second); one output or two.                                          *)
(***************************************************************************)
Tags == IF kind.type \in Global \cup Vaults THEN {"none", "G"} ELSE {"none"}
Locks == CASE kind.type \in Global \cup Vaults -> {"cov", "other"}
           [] kind.type \in {"treasury", "merkle"} -> {"owner", "shop", "fund", "other"}
           [] kind.type = "ship" -> {"owner", "bene", "carrier", "cov", "other"}
           [] OTHER -> {"owner", "bene", "cov", "other"}
Coin(l, a, g) == [lock |-> l, amount |-> a, tag |-> g]
InputLists(seq) ==
    LET in(c) == [coin |-> c, seq |-> seq]
        mine(g) == in(Coin("cov", Held, g))
        wallet == in(Coin("owner", 1, "none"))
        second == in(Coin("cov", 1, "none"))
        first(g) == IF kind.type = "ship" THEN {} ELSE {<<mine(g), wallet>>, <<mine(g), second>>}
    IN UNION {{<<mine(g)>>, <<wallet, mine(g)>>} \cup first(g) : g \in Tags}
Worth == CASE kind.type = "ship" -> 1..Held - 1
           [] kind.type \in Vaults -> {1}
           [] OTHER -> Amounts
OutputLists ==
    LET one == [lock : Locks, amount : Worth, tag : Tags]
        two == [lock : IF kind.type = "ship" THEN {"bene", "carrier", "other"} ELSE Locks \cap {"cov", "other"},
                tag : Tags,
                amount : IF kind.type \in Global \cup Vaults \cup {"ship"} THEN Worth ELSE {1, Held}]
    IN {<<o>> : o \in one} \cup {<<o, t>> : o \in one, t \in two}
(* The place of the covenant's coin.                                       *)
Place == CHOOSE i \in DOMAIN offer.ins : offer.ins[i].coin.lock = "cov" /\ offer.ins[i].coin.amount = Held

(* Too early and in time, where there is a time to keep.                   *)
Times(t) == IF t > 0 THEN {0, 1} ELSE {0}
Offer ==
    /\ offer = Nothing
    /\ \E seq \in Times(kind.wait), time \in Times(kind.until) \cup Times(kind.late) : \E ins \in InputLists(seq), outs \in OutputLists :
          offer' = [ins |-> ins, outs |-> outs, time |-> time]
    /\ UNCHANGED kind
Init == kind \in Kinds /\ offer = Nothing
Next == Offer
Spec == Init /\ [][Next]_vars

(***************************************************************************)
(* The witnesses party p can make, with or without the secret, the proof   *)
(* or the oracle's word: the branch's flags last, outermost on top.  Who   *)
(* proves an address of a whitelist pays it: KasSee pushes the same one to *)
(* be proved and to be compared with output 0 (the script compares only    *)
(* the second, so other software could push two).                          *)
(***************************************************************************)
Branches ==
    {<<>>, <<Yes>>, <<No>>, <<Yes, No>>, <<No, No>>} \cup
    (CASE kind.type = "escrow" -> {<<Yes, No, No>>, <<Yes, No, No, No>>, <<No, No, No, No>>}
       [] kind.type = "ship" -> {<<Yes, Yes>>, <<Yes, No, Yes>>, <<No, No, Yes>>}
       [] OTHER -> {})
Secrets(p) ==
    CASE kind.type = "swap" -> {<<Preimage, Sig(p)>>}
      [] kind.type = "oracle" -> {<<Attested, Statement, Sig(p)>>}
      [] kind.type = "commit" -> {<<Preimage, No, Sig(p)>>, <<No, Preimage, Sig(p)>>}
      [] kind.type = "crowdfund" -> {<<Attest("bene"), Statement, PublicInput, Yes, ZkProof, Vk>>}
      [] kind.type = "merkle" ->
           {Front(MerkleWitness([signer |-> p], path, l)) :
              path \in UNION {merkle_proof_for_address(kind.dests, d) : d \in Locks}, l \in Locks}
      [] OTHER -> {}
Told == {"swap", "oracle", "commit", "crowdfund", "merkle"}
Witnesses(p, told) ==
    LET items == {<<>>, <<Sig(p)>>, <<Yes, Sig(p)>>, <<No, Sig(p)>>} \cup (IF told THEN Secrets(p) ELSE {})
    IN {w \o b : w \in items, b \in Branches}
Opens(s, i, p, told) == \E w \in Witnesses(p, told) : ScriptAccepts(s, w, offer, i)

(***************************************************************************)
(* The descriptions.                                                       *)
(***************************************************************************)
Mine == offer.ins[Place].coin
Late == offer.time >= kind.until
Aged == offer.ins[Place].seq >= kind.wait
Out0 == offer.outs[1]
Pays(l) == Out0.lock = l
(* The governed balance moves on as one coin, less the cap at most, or is  *)
(* closed when the cap covers all of it.                                   *)
Carried == {o \in DOMAIN offer.outs : offer.outs[o].tag = Mine.tag}
KeepsThread ==
    /\ Mine.tag # "none"
    /\ \/ Carried = {} /\ Mine.amount <= kind.max
       \/ /\ Cardinality(Carried) = 1
          /\ \A o \in Carried : offer.outs[o].lock = "cov" /\ offer.outs[o].amount >= Mine.amount - kind.max

(* A parcel: who picks it up pays the seller and leaves the rest; then the *)
(* buyer, the arbiter or the time pays both workers; until each step the   *)
(* arbiter, and before the pickup the time, can give the buyer all back.   *)
PermitsShip(p) ==
    LET outs(ls) == [j \in DOMAIN offer.outs |-> offer.outs[j].lock] = ls
    IN CASE Mine.amount = ShipTotal(kind) ->
              \/ p = "carrier" /\ outs(<<"cov", "bene">>) /\ Out0.amount = ShipRest(kind)
              \/ (p = "arbiter" \/ Late) /\ outs(<<"owner">>)
         [] Mine.amount = ShipRest(kind) ->
              \/ /\ p \in {"owner", "arbiter"} \/ offer.time >= kind.late
                 /\ outs(<<"bene", "carrier">>) /\ offer.outs[2].amount = kind.goal
              \/ p = "arbiter" /\ outs(<<"owner">>)
         [] OTHER -> FALSE

Permits(p, told) ==
    CASE kind.type = "piggy" ->
           \/ /\ p = "owner"
              /\ \/ kind.goal = 0 /\ kind.until = 0
                 \/ kind.goal > 0 /\ Out0.amount >= kind.goal
                 \/ kind.until > 0 /\ Late
           \/ /\ Place \in DOMAIN offer.outs
              /\ offer.outs[Place].lock = "cov" /\ offer.outs[Place].amount >= Mine.amount
      [] kind.type = "escrow" ->
           \/ p = "owner" /\ (Pays("bene") \/ Pays("cov"))
           \/ p = "bene" /\ (Pays("owner") \/ Pays("cov"))
           \/ p = "arbiter" /\ (Pays("bene") \/ Pays("owner"))
      [] kind.type = "limit" -> p = "owner" /\ Aged /\ KeepsThread
      [] kind.type = "gallow" -> p = "owner" \/ (p = "bene" /\ Late /\ Aged /\ KeepsThread)
      [] kind.type = "savings" -> p \in {"owner", "bene"} /\ Late
      [] kind.type = "tescrow" ->
           (p = "owner" /\ Pays("bene")) \/ (p = "bene" /\ Pays("owner")) \/ (Late /\ Pays("owner"))
      [] kind.type = "dms" -> p = "owner" \/ (p = "bene" /\ Aged)
      [] kind.type = "allowance" ->
           \/ p = "owner"
           \/ /\ p = "bene" /\ Late /\ Aged /\ Pays("cov") /\ Len(offer.outs) = 2
              /\ Out0.amount >= Mine.amount - kind.max
      [] kind.type = "treasury" -> p = "owner" /\ Out0.lock \in Range(kind.dests)
      [] kind.type = "swap" -> (p = "owner" /\ Late) \/ (p = "bene" /\ told)
      [] kind.type = "oracle" ->
           (p = "owner" /\ Late) \/ (p = "bene" /\ told) \/ (p = "oracle" /\ Pays("cov"))
      [] kind.type = "payjoin" ->
           \/ p = "owner" /\ Late
           \/ /\ p = "bene" /\ Len(offer.ins) >= kind.need /\ Len(offer.outs) >= kind.outs
              /\ offer.ins[1].coin.lock # offer.ins[2].coin.lock
      [] kind.type = "ship" -> PermitsShip(p)
      [] kind.type = "merkle" -> p = "owner" /\ (Late \/ (told /\ Out0.lock \in Range(kind.dests)))
      [] kind.type = "commit" -> p = "owner" /\ (Late \/ told)
      [] kind.type = "crowdfund" -> (p = "owner" /\ Late) \/ told
      [] kind.type = "tvault" -> p = "owner" /\ Mine.tag # "none" /\ Out0.tag = Mine.tag
      [] kind.type = "svault" -> p = "owner" /\ Mine.tag # "none" /\ Cardinality(Carried) = 2

(***************************************************************************)
(* Properties.                                                             *)
(***************************************************************************)
(* A redeem script opens for a party exactly when the covenant's           *)
(* description permits that party to spend: no branch that a wrong key, an *)
(* early time, another output order or a forged split of a thread gets     *)
(* through, and none that its rightful spender cannot take.                *)
ScriptIsPolicy ==
    offer # Nothing =>
        LET s == Script(kind)
            i == Place
        IN \A p \in Parties, told \in {FALSE, kind.type \in Told} : Opens(s, i, p, told) <=> Permits(p, told)
=============================================================================
