------------------------- MODULE CovenantScripts -------------------------
(***************************************************************************)
(* The redeem scripts KasSee builds for its covenants (kspt_covenant.rs),  *)
(* as sequences of tokens, an interpreter for them (the node's script      *)
(* engine, external to the repository), and the part of KasSee that turns  *)
(* a signed bundle into the witness of each input (pskt.rs): it has only   *)
(* the script's bytes and the bundle's hints to find the branch that the   *)
(* spender meant.                                                          *)
(*                                                                         *)
(* A token is a pair: an opcode <<"op", name>>, or a pushed item that is   *)
(* its own token: a number, a public key, a script public key ("lock"), a  *)
(* signature, a hash, a preimage, an attestation, a proof.  TRUE and FALSE *)
(* are the numbers 1 and 0, as in the byte encoding; the empty item is 0.  *)
(***************************************************************************)
EXTENDS Integers, Sequences, SequencesExt

Op(name)  == <<"op", name>>
Num(n)    == <<"num", n>>
Key(p)    == <<"key", p>>
Spk(l)    == <<"lock", l>>
Sig(p)    == <<"sig", p>>
Yes       == Num(1)
No        == Num(0)
Bool(b)   == IF b THEN Yes ELSE No
Preimage  == <<"preimage", "x">>
Hashed(t) == <<"hash", t>>
HashOf    == Hashed(Preimage)
Joined(a, b) == IF b = No THEN a ELSE IF a = No THEN b ELSE <<"cat", <<a, b>>>>
Attest(p) == <<"attest", p>>
Attested  == Attest("oracle")
Statement == <<"msg", "fact">>
Vk        == <<"vk", 0>>
ZkProof   == <<"zkproof", 0>>
PublicInput == <<"input", 0>>
Groth16   == <<"zktag", 32>>
Zero      == <<"zero", 32>>

IfT == Op("IF")   ElseT == Op("ELSE")   EndT == Op("ENDIF")
SigVerify == Op("CHECKSIGVERIFY")
CheckSig  == Op("CHECKSIG")
Salted    == <<<<"salt", 0>>, Op("DROP")>>

(***************************************************************************)
(* The terms of a covenant, as the exports that make its address take      *)
(* them: type, and the parameters max (cap of one withdrawal, or a price), *)
(* goal (an amount to reach, or a delivery fee), until and late (absolute  *)
(* DAA scores), wait (a relative one), need and outs (inputs and outputs   *)
(* of a joint spend) and dests (approved addresses); 0 means "not set".    *)
(***************************************************************************)
Terms0 == [type |-> "none", max |-> 0, goal |-> 0, until |-> 0, late |-> 0, wait |-> 0,
           need |-> 0, outs |-> 0, dests |-> <<>>]
Of(t) == [Terms0 EXCEPT !.type = t]
covenant_additive_address(goal, until) == [Of("piggy") EXCEPT !.goal = goal, !.until = until]
covenant_timelocked_savings(until) == [Of("savings") EXCEPT !.until = until]
covenant_timelocked_escrow(until)  == [Of("tescrow") EXCEPT !.until = until]
covenant_dms(wait) == [Of("dms") EXCEPT !.wait = wait]
covenant_escrow == Of("escrow")
covenant_ship_escrow(product, fee, cltv1, cltv2) ==
    [Of("ship") EXCEPT !.max = product, !.goal = fee, !.until = cltv1, !.late = cltv2]
covenant_global_spending_limit(max, cooldown) == [Of("limit") EXCEPT !.max = max, !.wait = cooldown]
covenant_global_allowance(max, cooldown, start) ==
    [Of("gallow") EXCEPT !.max = max, !.wait = cooldown, !.until = start]
covenant_allowance(max, wait, start) == [Of("allowance") EXCEPT !.max = max, !.wait = wait, !.until = start]
(* Four approved addresses at most.                                        *)
covenant_treasury(dests) ==
    IF Len(dests) \in 1..4 THEN [Of("treasury") EXCEPT !.dests = dests] ELSE Terms0
covenant_atomic_swap(until) == [Of("swap") EXCEPT !.until = until]
covenant_oracle(until) == [Of("oracle") EXCEPT !.until = until]
covenant_payjoin(until, ins, outs) == [Of("payjoin") EXCEPT !.until = until, !.need = ins, !.outs = outs]
covenant_crowdfund(until) == [Of("crowdfund") EXCEPT !.until = until]
covenant_merkle_whitelist(dests, until) == [Of("merkle") EXCEPT !.dests = dests, !.until = until]
covenant_commit_reveal(until) == [Of("commit") EXCEPT !.until = until]
covenant_tagged_vault == Of("tvault")
covenant_split_vault  == Of("svault")

(***************************************************************************)
(* The builders.                                                           *)
(***************************************************************************)
OwnLockAtOut0 == <<Op("INIDX"), Op("INSPK"), Num(0), Op("OUTSPK")>>
PaysOut0(l)   == <<Num(0), Op("OUTSPK"), Spk(l)>>
Until(k)      == <<Num(k.until), Op("CLTV")>>
Wait(k)       == <<Num(k.wait), Op("CSV")>>
SignedBy(p)   == <<Key(p), SigVerify>>

PiggyBank(k) ==
    LET goal == IF k.goal > 0 THEN <<Num(0), Op("OUTAMT"), Num(k.goal), Op("GE")>> ELSE <<No>>
        time == IF k.until > 0 THEN Until(k) \o <<Yes>> ELSE <<No>>
        owner == IF k.goal > 0 \/ k.until > 0
                 THEN SignedBy("owner") \o <<IfT>> \o goal \o <<ElseT>> \o time \o <<EndT>>
                 ELSE <<Key("owner"), CheckSig>>
    IN Salted \o <<IfT>> \o owner \o <<ElseT>>
         \o <<Op("INIDX"), Op("INSPK"), Op("INIDX"), Op("OUTSPK"), Op("EQUALVERIFY"),
              Op("INIDX"), Op("OUTAMT"), Op("INIDX"), Op("INAMT"), Op("GE"), EndT>>

Escrow(k) ==
    LET pays(l) == PaysOut0(l) \o <<Op("EQUALVERIFY"), Yes>>
    IN Salted \o <<IfT>> \o SignedBy("owner") \o pays("bene")
         \o <<ElseT, IfT>> \o SignedBy("bene") \o pays("owner")
         \o <<ElseT, IfT>> \o SignedBy("arbiter")
         \o <<IfT>> \o pays("bene") \o <<ElseT>> \o pays("owner") \o <<EndT>>
         \o <<ElseT, IfT>> \o SignedBy("owner") \o <<ElseT>> \o SignedBy("bene") \o <<EndT>>
         \o OwnLockAtOut0 \o <<Op("EQUALVERIFY"), Yes, EndT, EndT, EndT>>

(* A carried output may leave the covenant's address.                      *)
MutThreadRules(k) ==
    <<Op("INIDX"), Op("COVID"), Op("DUP"), Op("COVCOUNT"), Op("DUP"), Num(1), Op("EQUAL"),
      IfT, Op("DROP"), Num(0), Op("COVOUT"), Op("OUTAMT"),
           Op("INIDX"), Op("INAMT"), Num(k.max), Op("SUB"), Op("GE"), Op("VERIFY"),
      ElseT, Num(0), Op("EQUALVERIFY"), Op("DROP"),
           Op("INIDX"), Op("INAMT"), Num(k.max), Op("LE"), Op("VERIFY"),
      EndT, Yes>>
(* The single thread of a global limit: at most one output may carry the   *)
(* thread's id on, and it stays at this address.                           *)
ThreadRules(k) ==
    <<Op("INIDX"), Op("COVID"), Op("DUP"), Op("COVCOUNT"), Op("DUP"), Num(1), Op("EQUAL"),
      IfT, Op("DROP"), Num(0), Op("COVOUT"), Op("DUP"), Op("OUTSPK"),
           Op("INIDX"), Op("INSPK"), Op("EQUALVERIFY"), Op("OUTAMT"),
           Op("INIDX"), Op("INAMT"), Num(k.max), Op("SUB"), Op("GE"), Op("VERIFY"),
      ElseT, Num(0), Op("EQUALVERIFY"), Op("DROP"),
           Op("INIDX"), Op("INAMT"), Num(k.max), Op("LE"), Op("VERIFY"),
      EndT, Yes>>
(* The cooldown is left out.                                               *)
MutGlobalLimit(k) == Salted \o SignedBy("owner") \o ThreadRules(k)
GlobalLimit(k) == Salted \o SignedBy("owner") \o Wait(k) \o ThreadRules(k)
GlobalAllowance(k) ==
    Salted \o <<IfT, Key("owner"), CheckSig, ElseT>> \o SignedBy("bene")
      \o (IF k.until > 0 THEN Until(k) ELSE <<>>) \o (IF k.wait > 0 THEN Wait(k) ELSE <<>>)
      \o ThreadRules(k) \o <<EndT>>

Savings(k) == <<IfT>> \o SignedBy("owner") \o Until(k)
                \o <<Yes, ElseT>> \o SignedBy("bene") \o Until(k) \o <<Yes, EndT>>
TimelockedEscrow(k) ==
    <<IfT>> \o SignedBy("owner") \o PaysOut0("bene") \o <<Op("EQUAL"), ElseT>>
      \o <<IfT>> \o SignedBy("bene") \o PaysOut0("owner") \o <<Op("EQUAL"), ElseT>>
      \o Until(k) \o PaysOut0("owner") \o <<Op("EQUAL"), EndT, EndT>>
DeadMan(k) == <<IfT, Key("owner"), CheckSig, ElseT>> \o Wait(k) \o <<Key("bene"), CheckSig, EndT>>
Allowance(k) ==
    <<IfT, Key("owner"), CheckSig, ElseT>> \o SignedBy("bene")
      \o (IF k.until > 0 THEN Until(k) ELSE <<>>) \o OwnLockAtOut0
      \o <<Op("EQUALVERIFY"), Num(0), Op("OUTAMT"), Op("INIDX"), Op("INAMT"), Num(k.max),
           Op("SUB"), Op("GE"), Op("VERIFY")>>
      \o (IF k.wait > 0 THEN Wait(k) ELSE <<>>) \o <<Op("OUTCOUNT"), Num(2), Op("EQUAL"), EndT>>
(* Output 0 goes to one of the approved addresses: its script is kept on   *)
(* the stack beside what has been found so far, and goes at the last.      *)
Treasury(k) ==
    LET n == Len(k.dests)
        test(i) == CASE n = 1 -> <<Spk(k.dests[i]), Op("EQUAL")>>
                     [] n > 1 /\ i = 1 -> <<Op("DUP"), Spk(k.dests[i]), Op("EQUAL")>>
                     [] i > 1 /\ i < n ->
                          <<Op("SWAP"), Op("DUP"), Spk(k.dests[i]), Op("EQUAL"), Op("ROT"), Op("BOOLOR")>>
                     [] i > 1 /\ i = n -> <<Op("SWAP"), Spk(k.dests[i]), Op("EQUAL"), Op("BOOLOR")>>
    IN SignedBy("owner") \o <<Num(0), Op("OUTSPK")>> \o FlattenSeq([i \in 1..n |-> test(i)])
AtomicSwap(k) ==
    <<IfT>> \o SignedBy("owner") \o Until(k) \o <<Yes, ElseT>>
      \o SignedBy("bene") \o <<Op("HASH"), HashOf, Op("EQUALVERIFY"), Yes, EndT>>
Oracle(k) ==
    Salted \o <<IfT>> \o SignedBy("owner") \o Until(k) \o <<Yes, ElseT, IfT>>
      \o SignedBy("bene") \o <<Key("oracle"), Op("CHECKSIGFROMSTACK"), Op("VERIFY"), Yes, ElseT>>
      \o SignedBy("oracle") \o OwnLockAtOut0 \o <<Op("EQUALVERIFY"), Yes, EndT, EndT>>
Payjoin(k) ==
    <<IfT>> \o SignedBy("owner") \o Until(k) \o <<Yes, ElseT>> \o SignedBy("bene")
      \o <<Op("INCOUNT"), Num(k.need), Op("GE"), Op("VERIFY"),
           Op("OUTCOUNT"), Num(k.outs), Op("GE"), Op("VERIFY"),
           Num(0), Op("INSPK"), Num(1), Op("INSPK"), Op("EQUAL"), Op("NOT"), Op("VERIFY"), Yes, EndT>>

(* A parcel in two steps: the price and the delivery fee are held (state   *)
(* 0), half of the price is paid at the pickup and the rest is held on     *)
(* (state 1).  The amount of the coin tells the state.                     *)
ShipTotal(k) == k.max + k.goal
ShipRest(k)  == ShipTotal(k) - k.max \div 2
ShipEscrow(k) ==
    LET has(n) == <<Op("DUP"), Num(n), Op("EQUAL"), IfT, Op("DROP")>>
        pays(i, l) == <<Num(i), Op("OUTSPK"), Spk(l), Op("EQUALVERIFY")>>
        sum(i, n) == <<Num(i), Op("OUTAMT"), Num(n), Op("EQUALVERIFY")>>
        count(n) == <<Op("OUTCOUNT"), Num(n), Op("EQUALVERIFY"), Yes>>
        pickup == SignedBy("carrier")
                    \o <<Num(0), Op("OUTSPK"), Op("INIDX"), Op("INSPK"), Op("EQUALVERIFY")>>
                    \o sum(0, ShipRest(k)) \o pays(1, "bene") \o count(2)
        refund0 == <<IfT>> \o SignedBy("arbiter") \o <<ElseT>> \o Until(k) \o <<EndT>>
                     \o pays(0, "owner") \o count(1)
        pay == <<IfT>> \o SignedBy("owner") \o <<ElseT, IfT>> \o SignedBy("arbiter")
                 \o <<ElseT, Num(k.late), Op("CLTV"), EndT, EndT>>
                 \o pays(0, "bene") \o pays(1, "carrier") \o sum(1, k.goal) \o count(2)
        refund1 == SignedBy("arbiter") \o pays(0, "owner") \o count(1)
    IN Salted \o <<Op("INIDX"), Op("INAMT")>>
         \o has(ShipTotal(k)) \o <<IfT>> \o pickup \o <<ElseT>> \o refund0 \o <<EndT, ElseT>>
         \o has(ShipRest(k)) \o <<IfT>> \o pay \o <<ElseT>> \o refund1 \o <<EndT, ElseT>>
         \o <<Op("DROP"), No, EndT, EndT>>

(***************************************************************************)
(* The whitelist's tree: the hashed addresses, padded with zeros to a      *)
(* power of two, hashed together two by two.  A proof lists each sibling   *)
(* with a flag that is 1 on the left side, where the script swaps.         *)
(***************************************************************************)
RECURSIVE Padded(_, _)
Padded(level, size) ==
    IF size < Len(level) THEN Padded(level, 2 * size)
    ELSE [j \in 1..size |-> IF j <= Len(level) THEN level[j] ELSE Zero]
Leaves(dests) == Padded([j \in DOMAIN dests |-> Hashed(Spk(dests[j]))], 1)
NextLevel(level) == [j \in 1..Len(level) \div 2 |-> Hashed(Joined(level[2*j - 1], level[2*j]))]
RECURSIVE RootOf(_)
RootOf(level) == IF Len(level) = 1 THEN level[1] ELSE RootOf(NextLevel(level))
compute_merkle_root(dests) == IF dests = <<>> THEN Zero ELSE RootOf(Leaves(dests))
RECURSIVE PathOf(_, _)
PathOf(level, idx) ==
    IF Len(level) = 1 THEN <<>>
    ELSE <<[sibling |-> level[IF idx % 2 = 0 THEN idx + 2 ELSE idx], direction |-> Bool(idx % 2 = 0)]>>
           \o PathOf(NextLevel(level), idx \div 2)
generate_merkle_proof(dests, idx) == IF idx >= Len(dests) THEN <<>> ELSE PathOf(Leaves(dests), idx)
(* Of the first place of the address, if it is on the list.                *)
merkle_proof_for_address(dests, dest) ==
    LET at == {j \in DOMAIN dests : dests[j] = dest}
    IN IF at = {} THEN {} ELSE {generate_merkle_proof(dests, (CHOOSE j \in at : \A l \in at : j <= l) - 1)}
Depth(n) == CHOOSE d \in 0..n : 2^d >= n /\ \A e \in 0..n : 2^e >= n => d <= e

MerkleStep == <<Op("SWAP"), IfT, Op("SWAP"), EndT, Op("CAT"), Op("HASH")>>
MerkleWhitelist(k) ==
    <<IfT>> \o SignedBy("owner") \o Until(k) \o <<Yes, ElseT>> \o SignedBy("owner") \o <<Op("HASH")>>
      \o FlattenSeq([j \in 1..Depth(Len(k.dests)) |-> MerkleStep])
      \o <<compute_merkle_root(k.dests), Op("EQUALVERIFY"), Num(0), Op("OUTSPK"), Op("EQUALVERIFY"), Yes, EndT>>
CommitReveal(k) ==
    <<IfT>> \o SignedBy("owner") \o Until(k) \o <<Yes, ElseT>> \o SignedBy("owner")
      \o <<Op("CAT"), Op("HASH"), HashOf, Op("EQUALVERIFY"), Yes, EndT>>
Crowdfund(k) ==
    <<IfT>> \o Until(k) \o <<Key("owner"), CheckSig, ElseT, Op("DUP"), Op("HASH"), Hashed(Vk), Op("EQUALVERIFY"),
      Groth16, Op("ZK"), Op("VERIFY"), Key("bene"), Op("CHECKSIGFROMSTACK"), Op("VERIFY"), Yes, EndT>>
TaggedVault(k) ==
    SignedBy("owner") \o <<Op("INIDX"), Op("COVID"), Num(0), Op("OUTCOVID"), Op("EQUALVERIFY"), Yes>>
SplitVault(k) ==
    SignedBy("owner") \o <<Op("INIDX"), Op("COVID"), Op("DUP"), Op("COVCOUNT"), Num(2), Op("EQUALVERIFY"),
                           Op("INIDX"), Op("AUTHCOUNT"), Num(2), Op("EQUALVERIFY"), Op("DROP"), Yes>>

Script(k) ==
    CASE k.type = "piggy"     -> PiggyBank(k)
      [] k.type = "escrow"    -> Escrow(k)
      [] k.type = "limit"     -> GlobalLimit(k)
      [] k.type = "gallow"    -> GlobalAllowance(k)
      [] k.type = "savings"   -> Savings(k)
      [] k.type = "tescrow"   -> TimelockedEscrow(k)
      [] k.type = "dms"       -> DeadMan(k)
      [] k.type = "allowance" -> Allowance(k)
      [] k.type = "treasury"  -> Treasury(k)
      [] k.type = "swap"      -> AtomicSwap(k)
      [] k.type = "oracle"    -> Oracle(k)
      [] k.type = "payjoin"   -> Payjoin(k)
      [] k.type = "ship"      -> ShipEscrow(k)
      [] k.type = "merkle"    -> MerkleWhitelist(k)
      [] k.type = "commit"    -> CommitReveal(k)
      [] k.type = "crowdfund" -> Crowdfund(k)
      [] k.type = "tvault"    -> TaggedVault(k)
      [] k.type = "svault"    -> SplitVault(k)

(***************************************************************************)
(* The node's script engine (external).  A transaction is a record:        *)
(*   ins   sequence of [coin, seq], coin a record [lock, amount, tag, ...] *)
(*   outs  sequence of [lock, amount, tag]                                 *)
(*   time  its lock time                                                   *)
(* CLTV and CSV compare with what the transaction claims; the ledger holds *)
(* it to that claim.  The stack's top is its head.                         *)
(***************************************************************************)
Dead == << <<"dead", 0>> >>
TaggedOuts(tx, g) == {j \in DOMAIN tx.outs : tx.outs[j].tag = g}
(* The outputs that carry an id on are those of the first input with it.   *)
AuthOuts(tx, i) ==
    LET g == tx.ins[i].coin.tag
    IN IF g = "none" \/ \E j \in 1..i - 1 : tx.ins[j].coin.tag = g THEN {} ELSE TaggedOuts(tx, g)
Arity == [INIDX |-> 0, INCOUNT |-> 0, OUTCOUNT |-> 0, DROP |-> 1, DUP |-> 1, VERIFY |-> 1,
          NOT |-> 1, CLTV |-> 1, CSV |-> 1, INSPK |-> 1, OUTSPK |-> 1, INAMT |-> 1, OUTAMT |-> 1,
          COVID |-> 1, COVCOUNT |-> 1, OUTCOVID |-> 1, AUTHCOUNT |-> 1, HASH |-> 1, CAT |-> 2, EQUAL |-> 2, EQUALVERIFY |-> 2,
          GE |-> 2, LE |-> 2, SUB |-> 2, BOOLOR |-> 2, SWAP |-> 2, COVOUT |-> 2, CHECKSIG |-> 2,
          CHECKSIGVERIFY |-> 2, ROT |-> 3, CHECKSIGFROMSTACK |-> 3, ZK |-> 5]
Apply(op, st, tx, i) ==
    LET n == Arity[op]
        rest == SubSeq(st, n + 1, Len(st))
        a == st[1]  b == st[2]  c == st[3]
        push(v) == <<v>> \o rest
        verify(t) == IF t THEN rest ELSE Dead
        in(f(_)) == IF a[2] + 1 \in DOMAIN tx.ins THEN push(f(tx.ins[a[2] + 1].coin)) ELSE Dead
        out(f(_)) == IF a[2] + 1 \in DOMAIN tx.outs THEN push(f(tx.outs[a[2] + 1])) ELSE Dead
    IN CASE Len(st) < n -> Dead
         [] op = "INIDX" -> push(Num(i - 1))
         [] op = "INCOUNT" -> push(Num(Len(tx.ins)))
         [] op = "OUTCOUNT" -> push(Num(Len(tx.outs)))
         [] op = "DROP" -> rest
         [] op = "DUP" -> <<a, a>> \o rest
         [] op = "SWAP" -> <<b, a>> \o rest
         [] op = "ROT" -> <<c, a, b>> \o rest
         [] op = "VERIFY" -> verify(a = Yes)
         [] op = "NOT" -> push(Bool(a = No))
         [] op = "BOOLOR" -> push(Bool(a = Yes \/ b = Yes))
         [] op = "EQUAL" -> push(Bool(a = b))
         [] op = "EQUALVERIFY" -> verify(a = b)
         [] op = "GE" -> push(Bool(b[2] >= a[2]))
         [] op = "LE" -> push(Bool(b[2] <= a[2]))
         [] op = "SUB" -> push(Num(b[2] - a[2]))
         [] op = "CLTV" -> verify(a[2] <= tx.time)
         [] op = "CSV" -> verify(a[2] <= tx.ins[i].seq)
         [] op = "CHECKSIG" -> push(Bool(b = Sig(a[2])))
         [] op = "CHECKSIGVERIFY" -> verify(b = Sig(a[2]))
         [] op = "CHECKSIGFROMSTACK" -> push(Bool(b = Statement /\ c = Attest(a[2])))
         [] op = "HASH" -> push(Hashed(a))
         [] op = "CAT" -> push(Joined(b, a))
         [] op = "ZK" -> push(Bool(a = Groth16 /\ b = Vk /\ SubSeq(st, 3, 5) = <<ZkProof, Yes, PublicInput>>))
         [] op = "INSPK" -> in(LAMBDA x : Spk(x.lock))
         [] op = "INAMT" -> in(LAMBDA x : Num(x.amount))
         [] op = "COVID" -> in(LAMBDA x : <<"tag", x.tag>>)
         [] op = "OUTSPK" -> out(LAMBDA x : Spk(x.lock))
         [] op = "OUTAMT" -> out(LAMBDA x : Num(x.amount))
         [] op = "OUTCOVID" -> IF a[2] + 1 \notin DOMAIN tx.outs THEN Dead
                               ELSE IF tx.outs[a[2] + 1].tag = "none" THEN Dead
                               ELSE push(<<"tag", tx.outs[a[2] + 1].tag>>)
         [] op = "AUTHCOUNT" -> push(Num(Cardinality(AuthOuts(tx, a[2] + 1))))
         [] op = "COVCOUNT" -> IF a[2] = "none" THEN Dead
                               ELSE push(Num(Cardinality(TaggedOuts(tx, a[2]))))
         [] op = "COVOUT" -> IF Cardinality(TaggedOuts(tx, b[2])) # 1 \/ a # Num(0) THEN Dead
                             ELSE push(Num((CHOOSE j \in TaggedOuts(tx, b[2]) : TRUE) - 1))

(* The rest of the script, on a stack, under the open conditionals.        *)
RECURSIVE Run(_, _, _, _, _)
Run(s, st, ifs, tx, i) ==
    IF s = <<>> \/ st = Dead THEN st
    ELSE LET t == Head(s)
             on == \A j \in DOMAIN ifs : ifs[j] = "on"
             flip == IF ifs[1] = "on" THEN "off" ELSE IF ifs[1] = "off" THEN "on" ELSE "skip"
             then == IF ~on THEN "skip" ELSE IF Head(st) = Yes THEN "on" ELSE "off"
         IN CASE t[1] # "op" -> Run(Tail(s), IF on THEN <<t>> \o st ELSE st, ifs, tx, i)
              [] t = IfT ->
                   IF on /\ (st = <<>> \/ Head(st) \notin {Yes, No}) THEN Dead
                   ELSE Run(Tail(s), IF on THEN Tail(st) ELSE st, <<then>> \o ifs, tx, i)
              [] t = ElseT -> Run(Tail(s), st, <<flip>> \o Tail(ifs), tx, i)
              [] t = EndT -> Run(Tail(s), st, Tail(ifs), tx, i)
              [] OTHER -> Run(Tail(s), IF on THEN Apply(t[2], st, tx, i) ELSE st, ifs, tx, i)
(* A witness is what the signature script pushes before the redeem script. *)
ScriptAccepts(s, w, tx, i) == Run(s, Reverse(w), <<>>, tx, i) = <<Yes>>

(***************************************************************************)
(* build_consensus_input: from the redeem script and the bundle's hints to *)
(* the witness.  h is a record of the hints: signer (whose partial         *)
(* signature the input carries, "none" if it needs none), minSigs, branch  *)
(* (covenantBranch), escrow (escrowBranch), ship (shipBranch), time (the   *)
(* lock time), proofs (the set of proprietary items).                      *)
(***************************************************************************)
Body(s) == IF SubSeq(s, 1, 2) = Salted THEN SubSeq(s, 3, Len(s)) ELSE s
OwnerKey(body) == IF body[2][1] = "key" THEN body[2][2] ELSE "none"
(* The key after the first ELSE that is followed by one, or by IF and one. *)
BeneKey(body) ==
    LET at == {j \in 1..Len(body) - 2 :
                 body[j] = ElseT /\ (body[j+1][1] = "key" \/ (body[j+1] = IfT /\ body[j+2][1] = "key"))}
        j == CHOOSE j \in at : \A l \in at : j <= l
    IN IF at = {} THEN "none" ELSE IF body[j+1] = IfT THEN body[j+2][2] ELSE body[j+1][2]
ForceTime(h) == h.branch = "owner-time" \/ h.time > 0

NoSigWitness == <<No>>
OwnerWitness(s, h) ==
    LET body == Body(s)
        nested == SubSeq(body, 3, 4) = <<SigVerify, IfT>>
        owns == OwnerKey(body) \in {h.signer, "none"}
    IN CASE ~owns -> <<Sig(h.signer), No>>
         [] owns /\ nested -> <<Bool(~ForceTime(h)), Sig(h.signer), Yes>>
         [] owns /\ ~nested -> <<Sig(h.signer), Yes>>
BorrowerWitness(s, h) ==
    LET nested == \E j \in 1..Len(s) - 1 : SubSeq(s, j, j + 1) = <<ElseT, IfT>>
    IN <<Sig(h.signer)>> \o (IF nested THEN <<Yes>> ELSE <<>>) \o <<No>>
EscrowWitness(h) ==
    CASE h.escrow = "buyer-release"        -> <<Sig(h.signer), Yes>>
      [] h.escrow = "seller-refund"        -> <<Sig(h.signer), Yes, No>>
      [] h.escrow = "arbiter-award-seller" -> <<Yes, Sig(h.signer), Yes, No, No>>
      [] h.escrow = "arbiter-refund-buyer" -> <<No, Sig(h.signer), Yes, No, No>>
      [] h.escrow = "buyer-dispute"        -> <<Sig(h.signer), Yes, No, No, No>>
      [] h.escrow = "seller-dispute"       -> <<Sig(h.signer), No, No, No, No>>
HeartbeatWitness(h) == <<Sig(h.signer), No, No>>
OracleWitness(h)    == <<Attested, Statement, Sig(h.signer), Yes, No>>
PreimageWitness(h)  == <<Preimage, Sig(h.signer), No>>
SingleWitness(h)    == <<Sig(h.signer)>>
TreasuryWitness(h)  == <<Sig(h.signer)>>
WalletWitness(h)    == <<Sig(h.signer)>>
ShipWitness(h) ==
    CASE h.ship = "pickup"            -> <<Sig(h.signer), Yes>>
      [] h.ship = "delivery"          -> <<Sig(h.signer), Yes, Yes>>
      [] h.ship = "state0-arb-refund" -> <<Sig(h.signer), Yes, No>>
      [] h.ship = "state0-timeout"    -> <<No, No>>
      [] h.ship = "state1-arb-award"  -> <<Sig(h.signer), Yes, No, Yes>>
      [] h.ship = "state1-timeout"    -> <<No, No, Yes>>
      [] h.ship = "state1-arb-refund" -> <<Sig(h.signer), No>>
(* The two parts of what was committed to; here the second one is empty.   *)
Parts == {<<"partA", Preimage>>, <<"partB", No>>}
CommitWitness(h) == <<Preimage, No, Sig(h.signer), No>>
(* The destination twice: to be compared with output 0, and to be proved.  *)
MerkleWitness(h, path, dest) ==
    <<Spk(dest)>> \o FlattenSeq(Reverse([j \in DOMAIN path |-> <<path[j].sibling, path[j].direction>>]))
      \o <<Spk(dest), Sig(h.signer), No>>
(* create_crowdfund_sweep makes this one itself: nobody signs.             *)
CrowdfundWitness == <<Attest("bene"), Statement, PublicInput, Yes, ZkProof, Vk, No>>

(* The whose-branch test: by the branch's name, else by the key.           *)
OwnerSigned(s, h) == h.branch # "beneficiary" /\ h.signer = OwnerKey(Body(s))
BeneSigned(s, h)  == h.branch = "beneficiary" \/ h.signer = BeneKey(Body(s))
(* A spend that proves something carries what it proves.                   *)
ProvenPaths(h) == {m \in h.proofs : m[1] = "path"}
ProofWitness(h) ==
    CASE {Attested, Statement} \subseteq h.proofs -> OracleWitness(h)
      [] Preimage \in h.proofs -> PreimageWitness(h)
      [] Parts \subseteq h.proofs -> CommitWitness(h)
      [] OTHER -> LET m == CHOOSE m \in ProvenPaths(h) : TRUE IN MerkleWitness(h, m[2], m[3])
BranchWitness(s, h) ==
    CASE h.minSigs = 0 -> NoSigWitness
      [] h.minSigs > 0 /\ h.escrow # "none" -> EscrowWitness(h)
      [] h.minSigs > 0 /\ h.escrow = "none" /\ h.branch = "oracle-heartbeat" -> HeartbeatWitness(h)
      [] OTHER -> IF h.proofs # {} THEN ProofWitness(h)
                  ELSE IF OwnerSigned(s, h) \/ ~BeneSigned(s, h) THEN OwnerWitness(s, h)
                  ELSE BorrowerWitness(s, h)
Witness(s, h) ==
    CASE Body(s)[1] = IfT -> BranchWitness(s, h)
      [] Body(s)[1] = Op("INIDX") /\ h.ship # "none" -> ShipWitness(h)
      [] s[1][1] = "key" -> TreasuryWitness(h)
      [] OTHER -> SingleWitness(h)

(***************************************************************************)
(* extract_cltv_locktime and extract_csv_sequence: the last number pushed  *)
(* before the first CLTV (CSV), 0 when there is none.                      *)
(***************************************************************************)
PushedBefore(s, op) ==
    LET at == {j \in DOMAIN s : s[j] = Op(op)}
        first == CHOOSE j \in at : \A l \in at : j <= l
        nums == {j \in 1..first - 1 : s[j][1] = "num"}
        last == CHOOSE j \in nums : \A l \in nums : l <= j
    IN IF at = {} THEN 0 ELSE IF nums = {} THEN 0 ELSE s[last][2]
CltvOf(s) == PushedBefore(s, "CLTV")
CsvOf(s)  == PushedBefore(s, "CSV")
=============================================================================
